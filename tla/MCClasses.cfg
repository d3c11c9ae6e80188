SPECIFICATION ClassesSpec
CONSTANTS
  m1 = m1
  MX_MAX = 2
  Member <- MCMember
  Privileged = Privileged
  Unprivileged = Unprivileged
  Application = Application
  Recall = Recall
  Nobody = Nobody
  MaxTouched = 2
  Cap = 5
  MaxChars = 3
  MaxCount = 5
CHECK_DEADLOCK FALSE
VIEW View
INVARIANTS
  
  SubscribersKnow
  
  TextsIntact
PROPERTIES
  OnlySetMembersStrands
  MembersReadBack
  LockedSelectionHeld
  GateHolds
