CONSTANTS
  Loads <- MCLoads
  Reserve = 2
  Compute = 1
  Larger = 3
  CacheStep = 2
  CacheMin = 4
  Margin = 1
  Headroom = 2
  Pinnable = 18
  Floor = 1
  RefineStep = 2
  AutoFloor = 4
  AutoCeiling = 14
  Errors <- MCErrors
SPECIFICATION SizingSpec
INVARIANTS
  SizedFits
  ProjectorIsFree
  AutoIsMost
  ContextIsTight
CHECK_DEADLOCK FALSE
