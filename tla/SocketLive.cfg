CONSTANTS
  Devices = {"dht11", "mpu6050", "video0"}
  FdLimit = 4
  MayFail = {"receive", "sleep", "picture"}
  SpuriousWakeups = TRUE
  Codes = {"08"}
  FrameLen = 4
  BufLen = 4
  MaxFrames = 1
  SendRoom = 1
  WavFiles = {"welcome.wav"}
  MaxChunks = 1
  NBuf = 1
  CameraFormats = {"YUYV"}

SPECIFICATION FairSpec
PROPERTY AlertOnlyStarved
PROPERTY PhotoOnlyStarved
