CONSTANTS
  Width = 2
  Height = 2
  Area = 4
  TestedLine = 1
  Lumas = {16, 235}
  Chromas = {20, 255}
  Pictures <- MCPictures
  MaxErrors = 2
  OUTPUT_BUF_SIZE = 2
  JpegLengths = {1, 2, 3, 4, 5, 8, 9, 10}
  MaxPhotos = 3

SPECIFICATION Spec
INVARIANT RgbTypeOK
INVARIANT YuyvShown
INVARIANT ConvertersAgree
INVARIANT PictureShown
INVARIANT TornRefused
INVARIANT RefusedOnlyGrey
INVARIANT WithinBuffer
INVARIANT PhotoArrives
INVARIANT Leftovers
