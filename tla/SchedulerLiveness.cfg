CONSTANTS
  Requests = {r1, r2}
  Slots = {s1}
  MoreSlots = {s1, s2}
  NoSlot = NoSlot
  QueueCapacity = 1
  ChanCapacity = 1
  NBatch = 4
  NUBatch = 2
  MaxPrompt = 2
  MaxTokens = 2
  Chunked = FALSE
  KeepStates = FALSE
  MayShutdown = FALSE
SPECIFICATION ModesSpec
PROPERTIES
  EveryStreamEnds
  SlotsComeBack
  BothServeEveryone
CHECK_DEADLOCK FALSE
