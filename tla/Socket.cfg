CONSTANTS
  Devices = {"dht11", "mpu6050", "video0"}
  FdLimit = 4
  MayFail = {"receive", "picture"}
  SpuriousWakeups = TRUE
  Codes = {"08", "09"}
  FrameLen = 4
  BufLen = 4
  MaxFrames = 2
  SendRoom = 1
  WavFiles = {"welcome.wav"}
  MaxChunks = 1
  NBuf = 1
  CameraFormats = {"YUYV"}

SPECIFICATION AlertSpec
INVARIANT TypeInv
INVARIANT LockDiscipline
INVARIANT NoHoldAndWait
INVARIANT FrameFits
INVARIANT PhotoFileOpens
PROPERTY ImplementsLine
INVARIANT AtMostOneLateAlert
