SPECIFICATION ScenesSpec
CONSTANTS
  Controls = 1
  MaxProxies = 1
  MaxGroups = 1
  MaxCitizens = 2
  MaxAdds = 2
  MaxValue = 2
  Top <- MCTop
  Controller = {c1, c2}
  Nobody = Nobody
  Application = Application
SYMMETRY Symmetry
VIEW SceneState
CHECK_DEADLOCK FALSE
PROPERTIES
  
  CoherentSceneRestored
