SPECIFICATION Spec
CONSTANTS
  HeaderLen = 2
  RxBuffer = 4
  Frame <- MCFrame
  MaxFrames = 3
CHECK_DEADLOCK FALSE
PROPERTIES
  ImplementsStream
  EveryFrameHandled
