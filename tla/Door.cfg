CONSTANTS
  Devices = {"relay"}
  FdLimit = 3
  MayFail = {"receive", "play"}
  SpuriousWakeups = TRUE
  Codes = {"05", "06", "88"}
  FrameLen = 4
  BufLen = 6
  MaxFrames = 2
  SendRoom = 1
  WavFiles = {"welcome.wav"}
  MaxChunks = 1
  NBuf = 1
  CameraFormats = {"YUYV"}

SPECIFICATION DoorSpec
INVARIANT OnlyDistanceLeaks
INVARIANT NoPhantomOpening
INVARIANT ObeyedInOrder
INVARIANT LockedUntilFirstUnlock
PROPERTY ImplementsGate
