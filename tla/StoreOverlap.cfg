CONSTANTS
  Pulls = {p1, p2}
  Ids = {"hub", "cat"}
  Kind <- MCKind
  Source <- MCSource
  Shards <- MCShards
  Vision = {"one"}
  Digests = {"cat"}
  Chunks = {c1, c2}
  MaxAttempts = 2
  NoFile = NoFile
  NoId = NoId
  Overlap = TRUE
  Kills = FALSE
  Removals = FALSE
SPECIFICATION Spec
INVARIANTS
  NamedIsWhole
SYMMETRY Symmetry
CHECK_DEADLOCK FALSE
