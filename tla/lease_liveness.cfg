SPECIFICATION FairSpec
CONSTANTS
  n1 = n1  n2 = n2  s1 = s1  s2 = s2
  Sessions = {s1, s2}
  Nodes <- Nodes2
  NoNode = NoNode
  NodeOf <- NodeOf2
  Waiters = {s1, s2}
  LegacyHolder = NoNode
  TTL = 1  Pct = 50  Sec = 1  MinSleep = 1  RetrySleep = 1
  WaitFactor = 2  Rounds = 2
  Skew <- NoSkew
  NewServer = FALSE  Prompt = TRUE
  StartBy = 1  MaxTime = 9  MaxCalls = 0  MaxFaults = 1
PROPERTIES AcquireReturns OrphanReplaced
CHECK_DEADLOCK FALSE
