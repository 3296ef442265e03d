SPECIFICATION FairSpec
CONSTANTS
  r1 = r1
  r2 = r2
  o1 = o1
  k1 = k1
  Nobody = Nobody
  Replicas = {r1, r2}
  Olds = {o1}
  Keys = {k1}
  FirstKeys <- EmptyOrOld
  Callers = {r1}
  MaxEvents = 1
INVARIANT GapsAreRecent
PROPERTIES OldPeerEndsTrust TrustReturns
CHECK_DEADLOCK FALSE
