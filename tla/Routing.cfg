CONSTANTS
  Requests = {r1, r2}
  Companions = {"judge", "other"}
  Candidates = {"small", "large"}
  Fallback = "large"
  NoName = NoName
  NoOne = NoOne
SPECIFICATION Spec
INVARIANTS
  AnswerOnRecord
  DecidedOnRecord
PROPERTIES
  EveryRequestEnds
CHECK_DEADLOCK FALSE
