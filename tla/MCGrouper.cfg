SPECIFICATION Spec
CONSTANTS
  Controls = 2
  MaxProxies = 2
  MaxGroups = 2
  MaxCitizens = 2
  MaxAdds = 3
  MaxValue = 1
  Top <- MCTop
CHECK_DEADLOCK FALSE
INVARIANT
  EnrollmentOfLiveSlots
PROPERTY
  ImplementsGroups
