CONSTANTS
  Devices = {"relay"}
  FdLimit = 3
  MayFail = {"receive", "play"}
  SpuriousWakeups = FALSE
  Codes = {"05", "06"}
  FrameLen = 4
  BufLen = 4
  MaxFrames = 2
  SendRoom = 1
  WavFiles = {"welcome.wav"}
  MaxChunks = 1
  NBuf = 1
  CameraFormats = {"YUYV"}

SPECIFICATION FairSpec
PROPERTY GateRecloses
PROPERTY WokenUnlockOpens
