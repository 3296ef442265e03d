SPECIFICATION Spec
CONSTANTS
  c1 = c1  c2 = c2  c3 = c3
  Procs = {c1, c2}
  Ops = {"put", "claim", "delete", "expire", "incr", "sweep"}
  Values = {0, Blob}  Deltas = {0, 1}  Ttls = {0, 1}
  Blob = Blob
  MaxCount = 0  Rounds = 2  Grace = 1
  Firsts <- OldOrNew
  MaxTime = 3  MaxFaults = 1  MaxRefusals = 1
INVARIANTS AppliedOnce GapsReported
PROPERTY KeepsContract
SYMMETRY Symmetric
CHECK_DEADLOCK FALSE
