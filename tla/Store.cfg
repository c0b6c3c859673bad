CONSTANTS
  Pulls = {p1, p2}
  Ids = {"hub", "cat", "split", "split2", "url"}
  Kind <- MCKind
  Source <- MCSource
  Shards <- MCShards
  Vision = {"one"}
  Digests = {"cat"}
  Chunks = {c1, c2}
  MaxAttempts = 2
  NoFile = NoFile
  NoId = NoId
  Overlap = FALSE
  Kills = TRUE
  Removals = TRUE
SPECIFICATION FairSpec
INVARIANTS
  NamedIsWhole
  NoHalfModel
PROPERTIES
  OnlyRemovalRemoves
  DoneIsUsable
  
CHECK_DEADLOCK FALSE
