SPECIFICATION Spec
CONSTANTS
  o1 = o1
  changed = changed
  other = other
  MaxConns = 2
  MaxSubs = 2
  MaxSessions = 3
  Object <- MCObject
  Event <- MCEvent
  PropertyChanged = changed
  HasAuthorize = TRUE
  ClientCA = TRUE
CHECK_DEADLOCK FALSE
INVARIANTS
  NothingOutlivesItsSession
  CallbacksPaired
  PrivilegeOfSession
PROPERTY
  ImplementsService
