CONSTANTS
  a = a
  b = b
  f = f
  x = x
  Stops <- MCStops
  Filters <- MCFilters
  Pieces <- MCPieces
  Openings <- MCOpenings
  MaxTokens = 3
  Capacity = 1
  Hop = 1
SPECIFICATION Spec
INVARIANTS
  NothingMissingBefore
  WholeUnlessFull
  BookAgrees
PROPERTIES
  EverybodyEnds
CHECK_DEADLOCK FALSE
