SPECIFICATION LifeSpec
CONSTANTS
  d1 = d1
  Device <- MCDevice
  MaxSockets = 7
  Faults = {"memory", "socket", "task", "stall"}
INVARIANTS
  UpServes
  SocketsAccountedFor
  AdvertisedWhileUp
