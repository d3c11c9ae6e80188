SPECIFICATION SharedSpec
CONSTANTS
  t1 = t1
  t2 = t2
  a1 = a1
  a2 = a2
  b1 = b1
  b2 = b2
  b3 = b3
  b4 = b4
  b5 = b5
  AppTask <- MCAppTask
  Server = server
  Kinds = {"plain", "grouper"}
  AddsGroups = TRUE
  AllocFails = FALSE
  MaxObjects = 3
  FirstCap = 1
  MaxCreated = 3
  MaxCalls = 4
  ServerTask = server
  Application <- MCApplication
  HeapBlock <- MCHeapBlock
  Null = Null
CHECK_DEADLOCK FALSE
INVARIANT ConstructedIsRegistered
