SPECIFICATION Spec
CONSTANTS
  c1 = c1  c2 = c2  c3 = c3
  Procs = {c1, c2, c3}
  Ops = {"put", "expire", "sweep"}
  Values = {0}  Deltas = {1}  Ttls = {1, 2}
  Blob = Blob
  MaxCount = 2  Rounds = 2  Grace = 1
  Firsts <- Deleted
  MaxTime = 3  MaxFaults = 0  MaxRefusals = 0
INVARIANT LiveKeysIndexed
SYMMETRY Symmetric
CHECK_DEADLOCK FALSE
