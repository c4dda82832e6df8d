SPECIFICATION MCSpec
CONSTANTS
  Page = 3
  Above = 1
  Sizes = {1, 4, 7}
  MaxLines = 4
  MaxAway = 7
INVARIANTS
  SelectionInRange
  LinesCounted
PROPERTIES
  SearchEnds
CHECK_DEADLOCK FALSE
