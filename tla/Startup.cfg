CONSTANTS
  NBuf = 4
  MaxFormats = 2

SPECIFICATION Spec
INVARIANT TypeOK
INVARIANT ThreadsHaveDevice
INVARIANT NoOtherLine
INVARIANT ConverterFitsCamera
INVARIANT CameraKeptWhole
