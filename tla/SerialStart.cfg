CONSTANTS
  NBuf = 4
  MaxFormats = 2

SPECIFICATION Spec
INVARIANT AcceptedDeviceRuns
