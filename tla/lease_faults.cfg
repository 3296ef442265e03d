SPECIFICATION Spec
CONSTANTS
  n1 = n1  n2 = n2  s1 = s1  s2 = s2
  Sessions = {s1, s2}
  Nodes <- Nodes2
  NoNode = NoNode
  NodeOf <- NodeOfSame
  Waiters = {s2}
  LegacyHolder = n2
  TTL = 1  Pct = 50  Sec = 1  MinSleep = 1  RetrySleep = 1
  WaitFactor = 1  Rounds = 2
  Skew <- NoSkew
  NewServer = TRUE  Prompt = FALSE
  StartBy = 1  MaxTime = 3  MaxCalls = 1  MaxFaults = 1
INVARIANTS TypeOK TokensUnique HandleNotAhead
PROPERTY KeepsContract
CHECK_DEADLOCK FALSE
