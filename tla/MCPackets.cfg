SPECIFICATION MCSpec
CONSTANTS
  Base = 2
  Protocols = {1}
  Bodies <- SomeBodies
  Uninit <- SomeUninit
  MaxBuffer = 17
  MaxFrames = 2
  MaxSize = 24
  MaxString = 24
  Modulus = 4096
INVARIANTS FramesFound SwapReference SizesAgree
PROPERTIES PacketsArrive
CHECK_DEADLOCK FALSE
