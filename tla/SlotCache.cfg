CONSTANTS
  Slots = {0, 1}
  BatchSizes = {1, 2}
  NoSeq = NoSeq
  Prompts <- MCPrompts
  Vocab <- MCVocab
  Bos = "bos"
  Spell <- MCSpell
  Tokenize <- MCTokenize
  Lead = "lead"
  Cont = "cont"
  Replaced = "replaced"
  PerSeqCtx = 5
  MaxTokens = 3
  NUBatch = 1
  Header = 1
  Hybrid = TRUE
  RsSeq = 0
  CtxCheckpoints = 1
  MinStep = 1
  MaxDrafts = 2
SPECIFICATION Spec
INVARIANTS
  MemoryIsRecorded
  SomethingToRead
  PromptIsItsTokens
CHECK_DEADLOCK FALSE
