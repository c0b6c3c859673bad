CONSTANTS
  Requests = {r1, r2, r3}
  Slots = {s1, s2}
  NoSlot = NoSlot
  QueueCapacity = 2
  ChanCapacity = 1
  NBatch = 3
  NUBatch = 2
  MaxPrompt = 3
  MaxTokens = 2
  Chunked = TRUE
  KeepStates = TRUE
  MayShutdown = TRUE
SPECIFICATION Spec
INVARIANTS
  SlotsConserved
  OneLastEvent
PROPERTIES
  StepServesOldest
  StepFits
  ServesInOrder
SYMMETRY Symmetry
CHECK_DEADLOCK FALSE
