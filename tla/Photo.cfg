CONSTANTS
  Devices = {"hc04", "video0"}
  FdLimit = 6
  MayFail = {"picture"}
  SpuriousWakeups = FALSE
  Codes = {"05"}
  FrameLen = 4
  BufLen = 4
  MaxFrames = 0
  SendRoom = 1
  WavFiles = {"welcome.wav"}
  MaxChunks = 1
  NBuf = 2
  CameraFormats = {"YUYV", "MJPEG"}

SPECIFICATION PhotoSpec
INVARIANT BuffersConserved
INVARIANT PhotoIsKthFrame
INVARIANT BoundedLag
INVARIANT PhotoPerSignal
PROPERTY ImplementsFilm
PROPERTY FrameKeptWhileUsed
