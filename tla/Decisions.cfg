CONSTANTS
  r1 = r1
  r2 = r2
  r3 = r3
  A = A
  B = B
  Requests = {r1, r2, r3}
  Releasers = {m}
  Questions = {1, 2, 3}
  States = {A, B}
  ContentFree = ContentFree
  NoState = NoState
  Aligned = {B}
  Workloads <- MCWorkloads
  MaxTogether = 2
  MaxCells = 3
  Round = 2
  Calls = 2
  MaxPriors = 1
  NoOne = NoOne
  NoJob = NoJob
SPECIFICATION Spec
INVARIANTS
  NoneLost
  SequencesHoldTheirs
PROPERTIES
  KeepsOrder
  EveryDecisionEnds
CHECK_DEADLOCK FALSE
