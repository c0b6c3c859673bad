CONSTANTS
  Requests = {r1, r2}
  Commands = {c1}
  Loop = Loop
  Names = {"a", "b"}
  FileOf <- MCFileOf
  NoName = NoName
  KeepAlives = {"For"}
  Launch = Launch
  LaunchName = "a"
  Launched = TRUE
  NoId = NoId
  NoOne = NoOne
  MaxLoaded = 2
  Fit = TRUE
  ClientsLeave = TRUE
SPECIFICATION FairSpec
PROPERTIES
  EveryLoadEnds
  DueGoes
CHECK_DEADLOCK FALSE
