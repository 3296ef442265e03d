SPECIFICATION Spec
CONSTANTS
  c1 = c1  c2 = c2  c3 = c3
  Procs = {c1, c2, c3}
  Ops = {"put", "claim", "delete", "expire", "incr", "sweep"}
  Values = {0}  Deltas = {1}  Ttls = {0}
  Blob = Blob
  MaxCount = 2  Rounds = 2  Grace = 1
  Firsts <- Lapsing
  MaxTime = 2  MaxFaults = 0  MaxRefusals = 1
INVARIANTS TypeOK GapsReported
PROPERTY KeepsContract
SYMMETRY Symmetric
CHECK_DEADLOCK FALSE
