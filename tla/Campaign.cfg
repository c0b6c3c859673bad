CONSTANTS
  Points = {p1}
  Jobs = {j1, j2}
  Person = Person
  MaxAttempts = 2
  MaxEvents = 1
  Nothing = Nothing
SPECIFICATION FairSpec
INVARIANTS
  DoneHasResult
PROPERTIES
  LostOnlyOvertaken
  EveryPointSettles
CHECK_DEADLOCK FALSE
