SPECIFICATION FairSpec
CONSTANTS
  c1 = c1  c2 = c2  c3 = c3
  Procs = {c1, c2, c3}
  Ops = {"incr"}
  Values = {0}  Deltas = {1}  Ttls = {0}
  Blob = Blob
  MaxCount = 9  Rounds = 3  Grace = 1
  Firsts <- Empty
  MaxTime = 1  MaxFaults = 1  MaxRefusals = 0
INVARIANTS StormSurvived CountsAddUp
PROPERTY EveryCallAnswers
CHECK_DEADLOCK FALSE
