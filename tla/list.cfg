SPECIFICATION Spec
CONSTANTS
  Keys = {1, 2}
  Matching = {1, 2}
  Filtered = {1, 2}
  Limits = {1, 2}
  SubjectMaxes = {1, 2}
  Ahead = 2
  MaxSeq = 6
INVARIANTS NothingMissed NothingTwice
PROPERTY CursorAdvances
CHECK_DEADLOCK FALSE
