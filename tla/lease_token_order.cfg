SPECIFICATION Spec
CONSTANTS
  n1 = n1  n2 = n2  s1 = s1  s2 = s2
  Sessions = {s1, s2}
  Nodes <- Nodes2
  NoNode = NoNode
  NodeOf <- NodeOfSame
  Waiters = {s2}
  LegacyHolder = NoNode
  TTL = 1  Pct = 50  Sec = 1  MinSleep = 1  RetrySleep = 1
  WaitFactor = 0  Rounds = 2
  Skew <- NoSkew
  NewServer = FALSE  Prompt = FALSE
  StartBy = 1  MaxTime = 3  MaxCalls = 1  MaxFaults = 0
INVARIANT HighestTokenHolds
CHECK_DEADLOCK FALSE
