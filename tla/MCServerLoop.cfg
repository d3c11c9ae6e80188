SPECIFICATION Spec
CONSTANTS
  MaxConns = 2
  Heartbeats = {0, 1}
  Factor = 2
  HandshakeTimeout = 1
  AgeCap = 4
CHECK_DEADLOCK FALSE
INVARIANTS
  NeverBlocks
  SilentControllerDropped
  HeardBeforeJudged
  ControllerHearsUs
  HandshakeBounded
