CONSTANTS
  Devices = {"relay"}
  FdLimit = 3
  MayFail = {}
  SpuriousWakeups = FALSE
  Codes = {"05"}
  FrameLen = 4
  BufLen = 4
  MaxFrames = 1
  SendRoom = 1
  WavFiles = {"welcome.wav"}
  MaxChunks = 1
  NBuf = 1
  CameraFormats = {"YUYV"}

SPECIFICATION FairDoorSpec
PROPERTY EveryUnlockOpens
