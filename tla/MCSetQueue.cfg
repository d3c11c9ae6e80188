SPECIFICATION Spec
CONSTANTS
  a1 = a1
  a2 = a2
  gain = gain
  mute = mute
  low = low
  high = high
  App <- MCApp
  Object <- MCObject
  Value <- MCValue
  QueueLen = 2
  MailboxLen = 1
  MaxPosts = 4
  WakePipe = TRUE
CHECK_DEADLOCK FALSE
INVARIANTS
  AppliedInOrder
  WakeUpPending
PROPERTIES
  EverySetApplied
  StopReturns
  
