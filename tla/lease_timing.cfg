SPECIFICATION Spec
CONSTANTS
  n1 = n1  n2 = n2  s1 = s1  s2 = s2
  Sessions = {s1, s2}
  Nodes <- Nodes2
  NoNode = NoNode
  NodeOf <- NodeOf2
  Waiters = {s1, s2}
  LegacyHolder = NoNode
  TTL = 6  Pct = 50  Sec = 2  MinSleep = 1  RetrySleep = 1
  WaitFactor = 1  Rounds = 2
  Skew <- OneTickSkew
  NewServer = FALSE  Prompt = TRUE
  StartBy = 4  MaxTime = 16  MaxCalls = 1  MaxFaults = 0
INVARIANT LiveHolderKeeps
CHECK_DEADLOCK FALSE
