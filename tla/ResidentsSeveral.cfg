CONSTANTS
  Requests = {r1, r2, r3}
  Commands = {c1}
  Loop = Loop
  Names = {"b", "b2", "c"}
  FileOf <- MCFileOf
  NoName = NoName
  KeepAlives = {"Immediate"}
  Launch = Launch
  LaunchName = "a"
  Launched = TRUE
  NoId = NoId
  NoOne = NoOne
  MaxLoaded = 2
  Fit = TRUE
  ClientsLeave = FALSE
SPECIFICATION Spec
INVARIANTS
  OneCopy
  NeverTooMany
PROPERTIES
  BusyStays
  KeepAliveKept
SYMMETRY Symmetry
CHECK_DEADLOCK FALSE
