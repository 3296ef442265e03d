------------------------- MODULE LeaseTimingProofs -------------------------
(***************************************************************************)
(* A holder whose renewal task runs on time keeps its lease: theorems      *)
(* about Lease under timely tasks and without failures, for every set of   *)
(* sessions and nodes and every TTL, percentage and clock skew that leave  *)
(* the renewal enough to spare.                                            *)
(***************************************************************************)
EXTENDS LeaseProofs

-----------------------------------------------------------------------------
(* What timely means, and what is enough to spare.                         *)

\* Every task that is due runs before the clock moves, and nothing fails.
Timely == Prompt /\ MaxFaults = 0

\* A record is stamped in whole seconds, the TTL's fraction dropped: the sleep
\* between two renewals, the difference of any two clocks and one second of
\* rounding fit into what is left (expiry_for, renewal_loop).
SpareSuffices ==
  \A m, n \in Nodes : SleepFor + (Skew[n] - Skew[m]) + Sec <= Sec * (TTL \div Sec)

\* The expiry node n stamps at time t.
StampAt(t, n) == (t + Skew[n]) \div Sec + TTL \div Sec

-----------------------------------------------------------------------------
(* Whole seconds.                                                          *)

\* A number of ticks and its whole seconds.
LEMMA DivBounds ==
  ASSUME NEW a \in Nat, NEW s \in Nat \ {0}
  PROVE  /\ a \div s \in Nat
         /\ s * (a \div s) <= a /\ a < s * (a \div s) + s
OBVIOUS

\* Products keep the order of their factors.
LEMMA ProductOrder ==
  ASSUME NEW s \in Nat \ {0}, NEW x \in Nat, NEW y \in Nat, s * x < s * y
  PROVE  x < y
OBVIOUS

\* A second ends after s ticks: k seconds further on, more than k - 1 of them
\* have passed.
LEMMA SecondsApart ==
  ASSUME NEW s \in Nat \ {0}, NEW a \in Nat, NEW b \in Nat, NEW k \in Nat,
         b + s <= a + s * k
  PROVE  b \div s < a \div s + k
<1> DEFINE p == a \div s
           q == b \div s
<1>1. p \in Nat /\ q \in Nat /\ s * q <= b /\ a < s * p + s
  BY DivBounds
<1> HIDE DEF p, q
<1>2. s * q \in Nat /\ s * p \in Nat /\ s * k \in Nat
  BY <1>1
<1>3. s * q < s * p + s * k
  BY <1>1, <1>2
<1>4. s * (p + k) = s * p + s * k /\ p + k \in Nat
  BY <1>1
<1>5. q < p + k
  BY <1>1, <1>3, <1>4, ProductOrder
<1> QED BY <1>5 DEF p, q

\* A record stamped on any node at most one renewal sleep ago has not lapsed
\* on any clock.
LEMMA StampLasts ==
  ASSUME SpareSuffices, now \in Nat, NEW t \in Nat, now <= t + SleepFor,
         NEW m \in Nodes, NEW n \in Nodes
  PROVE  StampAt(t, m) \in Nat /\ Secs(n) \in Nat /\ Secs(n) < StampAt(t, m)
<1> DEFINE a == t + Skew[m]
           b == now + Skew[n]
           k == TTL \div Sec
<1>1. /\ a \in Nat /\ b \in Nat /\ Sec \in Nat \ {0} /\ TTL \in Nat
      /\ Skew[m] \in Nat /\ Skew[n] \in Nat
  BY TimeAssumption
<1>2. k \in Nat /\ a \div Sec \in Nat /\ b \div Sec \in Nat
  BY <1>1, DivNat
<1>3. SleepFor + (Skew[n] - Skew[m]) + Sec <= Sec * k
  BY DEF SpareSuffices
<1>4. b + Sec <= a + Sec * k
  <2>1. Sec * k \in Nat /\ SleepFor \in Nat
    BY <1>1, <1>2, SleepNat
  <2> QED BY <1>1, <1>3, <2>1
<1> HIDE DEF a, b, k
<1>5. b \div Sec < a \div Sec + k
  BY <1>1, <1>2, <1>4, SecondsApart
<1> QED BY <1>2, <1>5 DEF StampAt, Secs, a, b, k

\* A later stamp is never an earlier expiry.
LEMMA StampOrder ==
  ASSUME NEW t \in Nat, NEW u \in Nat, t <= u, NEW n \in Nodes
  PROVE  /\ StampAt(t, n) \in Nat /\ StampAt(u, n) \in Nat
         /\ StampAt(t, n) <= StampAt(u, n)
<1>1. /\ t + Skew[n] \in Nat /\ u + Skew[n] \in Nat /\ t + Skew[n] <= u + Skew[n]
      /\ Sec \in Nat \ {0} /\ TTL \in Nat
  BY TimeAssumption
<1>2. /\ (t + Skew[n]) \div Sec \in Nat /\ (u + Skew[n]) \div Sec \in Nat
      /\ TTL \div Sec \in Nat
  BY <1>1, DivNat
<1>3. (t + Skew[n]) \div Sec <= (u + Skew[n]) \div Sec
  BY <1>1, DivMonotone
<1> QED BY <1>2, <1>3 DEF StampAt

-----------------------------------------------------------------------------
(* The inductive invariant.                                                *)

\* A session that holds the lease and has not asked for its release.
Keeping(s) == pc[s] = "handle" /\ released[s] = "never"

\* The record lasts as if stamped on the session's node at time t.
Covered(s, t) == lease.body.exp >= StampAt(t, NodeOf[s])

\* While the renewal task sleeps, the record was stamped no earlier than the
\* sleep began; while it renews, one sleep ago; and once its CAS is lost, the
\* record that beat it was stamped just now.
Reserve(s) ==
  LET auto == task[s]["auto"] IN
  \/ /\ auto.pc = "sleep" /\ SleepFor <= auto.wake /\ now <= auto.wake
     /\ Covered(s, auto.wake - SleepFor)
  \/ /\ auto.pc \in {"read", "cas"} /\ SleepFor <= now /\ Covered(s, now - SleepFor)
     /\ auto.pc = "cas" /\ auto.rev # lease.rev => Covered(s, now)
  \/ auto.pc = "reread" /\ Covered(s, now)

KeepInv == \A s \in Sessions : Keeping(s) => Owns(s) /\ Reserve(s)

\* A record about to be written was stamped at the present tick.
FreshInv ==
  \A s \in Sessions :
    /\ pc[s] \in {"create", "reclaimRead", "reclaimCas"} =>
         mine[s].exp = ExpiryFor(NodeOf[s])
    /\ \A v \in Workers : task[s][v].pc = "cas" =>
         task[s][v].body.exp = ExpiryFor(NodeOf[s])

\* The renewals still on their way to the server are of dropped handles.
StrayInv ==
  \A w \in late : \A s \in Sessions :
    pc[s] = "handle" /\ w.body.op = "Put" => w.body.token # mine[s].token

TimingInv == KeepInv /\ FreshInv /\ StrayInv

-----------------------------------------------------------------------------
(* What a covered record is safe from.                                     *)

\* The record of a session with its reserve has lapsed on no clock.
LEMMA ReserveAlive ==
  ASSUME SpareSuffices, TypeOK, NEW s \in Sessions, Reserve(s), NEW n \in Nodes
  PROVE  ~Expired(lease.body, n)
<1>1. /\ NodeOf[s] \in Nodes /\ now \in Nat /\ lease.body.exp \in Nat /\ SleepFor \in Nat
      /\ task[s]["auto"].wake \in Nat
  BY SessionsAssumption, SleepNat DEF TypeOK, Body, Task, Workers
<1>2. PICK t \in Nat : now <= t + SleepFor /\ Covered(s, t)
  <2>1. CASE task[s]["auto"].pc = "sleep"
    <3> DEFINE u == task[s]["auto"].wake - SleepFor
    <3>1. u \in Nat /\ now <= u + SleepFor /\ Covered(s, u)
      BY <1>1, <2>1 DEF Reserve
    <3> QED BY <3>1
  <2>2. CASE task[s]["auto"].pc \in {"read", "cas"}
    <3> DEFINE u == now - SleepFor
    <3>1. u \in Nat /\ now <= u + SleepFor /\ Covered(s, u)
      BY <1>1, <2>2 DEF Reserve
    <3> QED BY <3>1
  <2>3. CASE task[s]["auto"].pc = "reread"
    <3>1. now <= now + SleepFor /\ Covered(s, now)
      BY <1>1, <2>3 DEF Reserve
    <3> QED BY <1>1, <3>1
  <2> QED BY <2>1, <2>2, <2>3 DEF Reserve
<1>3. StampAt(t, NodeOf[s]) \in Nat /\ Secs(n) \in Nat /\ Secs(n) < StampAt(t, NodeOf[s])
  BY <1>1, <1>2, StampLasts
<1>4. lease.body.exp >= StampAt(t, NodeOf[s])
  BY <1>2 DEF Covered
<1>5. ~(lease.body.exp <= Secs(n))
  BY <1>1, <1>3, <1>4
<1> QED BY <1>5 DEF Expired

\* No step takes a lasting record from a holder that has not asked: the
\* contract allows only its own renewals.
LEMMA HolderKept ==
  ASSUME IInv, [Next]_vars, NEW s \in Sessions, Keeping(s), Owns(s),
         \A n \in Nodes : ~Expired(lease.body, n)
  PROVE  /\ mine'[s] = mine[s] /\ Owns(s)'
         /\ lease'.body.exp >= lease.body.exp
<1> USE DEF acquireVars, handleVars
<1>1. mine'[s] = mine[s]
  <2>1. TypeOK /\ pc[s] = "handle"
    BY DEF IInv, Keeping
  <2>2. ASSUME NEW t \in Sessions, AcquireStep(t) PROVE mine'[s] = mine[s]
    BY <2>1, <2>2 DEF AcquireStep, BumpRead, BumpCas, BumpLost, Minted, Create, ReclaimRead,
       ReclaimCas, Retry, Acquired, Held, TypeOK
  <2>3. ASSUME NEW t \in Sessions, AutoStep(t) \/ HostStep(t) PROVE mine'[s] = mine[s]
    BY <2>3 DEF AutoStep, HostStep, RenewStep, Wake, RenewRead, RenewCas, RenewReread,
       ReleaseRead, ReleaseCas
  <2>4. ASSUME NEW t \in Sessions, Choice(t) PROVE mine'[s] = mine[s]
    BY <2>4 DEF Choice, Begin, HostRenew, HostRelease, HostCall, DropHandle, AcquireFail,
       ReleaseFail, Crash, RenewFail, Held
  <2>5. CASE Tick \/ DeliverLease \/ DeliverFence \/ UNCHANGED vars
    BY <2>5 DEF Tick, DeliverLease, DeliverFence, vars
  <2> QED BY <2>2, <2>3, <2>4, <2>5 DEF Next
<1>2. [Slot!Next]_(Slot!vars)
  BY StepRefines
<1>3. lease.body.token \notin Askers
  BY DEF IInv, HandleInv, TokensUnique, Askers, Keeping, Owns
<1>4. lease.body.op = "Put" /\ \A n \in Nodes : ~Slot!Lapsed(n)
  BY DEF Owns, Slot!Lapsed, Expired, Secs
<1>5. CASE Slot!Renew
  BY <1>1, <1>5 DEF Slot!Renew, Owns
<1>6. CASE lease'.body = lease.body
  <2>1. lease'.body.exp >= lease.body.exp
    BY <1>6 DEF IInv, TypeOK, Body
  <2> QED BY <1>1, <1>6, <2>1 DEF Owns
<1>7. ~Slot!Take /\ ~Slot!Release
  BY <1>3, <1>4 DEF Slot!Take, Slot!Release
<1> QED BY <1>2, <1>5, <1>6, <1>7 DEF Slot!Next, Slot!Ask, Slot!Advance, Slot!vars

\* Other sessions, and the writes of handles gone by, leave the record of a
\* holder that keeps it alone.
LEMMA OthersLeave ==
  ASSUME IInv, StrayInv, NEW s \in Sessions, Keeping(s), Owns(s)',
         mine'[s] = mine[s],
         \/ DeliverLease \/ DeliverFence
         \/ \E t \in Sessions \ {s} : AcquireStep(t) \/ AutoStep(t) \/ HostStep(t) \/ Choice(t)
  PROVE  now' = now /\ lease' = lease /\ task'[s] = task[s]
<1> USE DEF acquireVars, handleVars
<1>1. TypeOK /\ mine[s].token # 0
  BY DEF IInv, HandleInv, Keeping
<1>2. ASSUME NEW b, WriteLease(b), b.op # "Put" \/ b.token # mine[s].token
      PROVE  FALSE
  BY <1>2 DEF WriteLease, Owns
<1>3. CASE DeliverLease
  <2>1. PICK w \in late :
          IF lease.rev = w.expect THEN WriteLease(w.body) ELSE UNCHANGED <<lease, used>>
    BY <1>3 DEF DeliverLease
  <2>2. w.body.op # "Put" \/ w.body.token # mine[s].token
    BY DEF StrayInv, Keeping
  <2> QED BY <1>2, <1>3, <2>1, <2>2 DEF DeliverLease
<1>4. CASE DeliverFence
  BY <1>4 DEF DeliverFence
<1>5. ASSUME NEW t \in Sessions \ {s},
             AcquireStep(t) \/ AutoStep(t) \/ HostStep(t) \/ Choice(t)
      PROVE  now' = now /\ lease' = lease /\ task'[s] = task[s]
  <2>1. mine[t].token # 0 => mine[t].token # mine[s].token
    BY <1>1 DEF IInv, TokensUnique
  <2>2. now' = now /\ task'[s] = task[s]
    <3>1. CASE AcquireStep(t)
      BY <1>1, <3>1 DEF AcquireStep, BumpRead, BumpCas, Create, ReclaimRead, ReclaimCas, Retry,
         Acquired, Held, TypeOK
    <3>2. CASE AutoStep(t) \/ HostStep(t)
      BY <1>1, <3>2 DEF AutoStep, HostStep, RenewStep, Wake, RenewRead, RenewCas, RenewReread,
         ReleaseRead, ReleaseCas, ReleaseReturn, TypeOK
    <3>3. CASE Choice(t)
      BY <1>1, <3>3 DEF Choice, Begin, HostRenew, HostRelease, HostCall, DropHandle,
         AcquireFail, ReleaseFail, ReleaseReturn, Crash, RenewFail, Held, TypeOK
    <3> QED BY <1>5, <3>1, <3>2, <3>3
  <2>3. CASE AcquireStep(t)
    <3>1. CASE lease' = lease
      BY <2>2, <3>1
    <3>2. CASE WriteLease(mine[t]) /\ pc[t] \in {"create", "reclaimCas"}
      <4>1. mine[t].token # 0
        BY <3>2 DEF IInv, AttemptInv
      <4> QED BY <1>2, <2>1, <3>2, <4>1
    <3> QED BY <2>3, <3>1, <3>2 DEF AcquireStep, BumpRead, BumpCas, Create, ReclaimRead,
            ReclaimCas, Retry, Held
  <2>4. ASSUME NEW v \in Workers, RenewCas(t, v) PROVE lease' = lease
    <3>1. task[t][v].body.token = mine[t].token /\ mine[t].token # 0
      BY <2>4 DEF RenewCas, IInv, HandleInv
    <3> QED BY <1>2, <2>1, <2>4, <3>1 DEF RenewCas
  <2>5. ASSUME ReleaseCas(t) PROVE lease' = lease
    BY <1>2, <2>5 DEF ReleaseCas, Marker
  <2>6. CASE AutoStep(t) \/ HostStep(t)
    BY <2>2, <2>4, <2>5, <2>6 DEF AutoStep, HostStep, RenewStep, Wake, RenewRead, RenewReread,
       ReleaseRead, Workers
  <2>7. CASE Choice(t)
    BY <2>2, <2>7 DEF Choice, Begin, HostRenew, HostRelease, HostCall, DropHandle, AcquireFail,
       ReleaseFail, Crash, RenewFail, Held
  <2> QED BY <1>5, <2>3, <2>6, <2>7
<1> QED BY <1>3, <1>4, <1>5

-----------------------------------------------------------------------------
(* Every step keeps the invariant.                                         *)

\* The stamps of the present tick do not change within it.
LEMMA SameTick ==
  ASSUME now' = now
  PROVE  /\ \A n \in Nodes : ExpiryFor(n)' = ExpiryFor(n)
         /\ \A n \in Nodes : ExpiryFor(n) = StampAt(now, n)
BY DEF ExpiryFor, Secs, StampAt

\* Without failures, the records about to be written stay fresh: time does not
\* pass while one is under way.
LEMMA FreshStep ==
  ASSUME Timely, IInv, FreshInv, [Next]_vars
  PROVE  FreshInv'
<1> USE DEF acquireVars, handleVars
<1>1. TypeOK /\ \A s \in Sessions : NodeOf[s] \in Nodes
  BY SessionsAssumption DEF IInv
<1>2. CASE Tick
  BY <1>2 DEF Tick, Due, Timely, Working, FreshInv, Workers, IInv, HandleInv
<1>3. ASSUME now' = now,
             \A s \in Sessions :
               /\ pc'[s] \in {"create", "reclaimRead", "reclaimCas"} =>
                    \/ pc[s] \in {"create", "reclaimRead", "reclaimCas"} /\ mine'[s] = mine[s]
                    \/ mine'[s].exp = ExpiryFor(NodeOf[s])
               /\ \A v \in Workers : task'[s][v].pc = "cas" =>
                    \/ task'[s][v] = task[s][v]
                    \/ task'[s][v].body.exp = ExpiryFor(NodeOf[s])
      PROVE  FreshInv'
  BY <1>1, <1>3, SameTick DEF FreshInv
<1>4. ASSUME NEW s \in Sessions, AcquireStep(s) PROVE FreshInv'
  <2>1. CASE BumpCas(s) /\ fence.rev = loc[s].rev
    <3>1. /\ mine'[s].exp = ExpiryFor(NodeOf[s]) /\ task' = task /\ now' = now
          /\ \A t \in Sessions \ {s} : pc'[t] = pc[t] /\ mine'[t] = mine[t]
      BY <1>1, <2>1 DEF BumpCas, Minted, Record, TypeOK
    <3> QED BY <1>3, <3>1
  <2>2. CASE BumpRead(s) \/ Retry(s) \/ (BumpCas(s) /\ fence.rev # loc[s].rev)
    <3>1. /\ pc'[s] \notin {"create", "reclaimRead", "reclaimCas"} /\ task' = task /\ now' = now
          /\ \A t \in Sessions \ {s} : pc'[t] = pc[t] /\ mine'[t] = mine[t]
      BY <1>1, <2>2 DEF BumpRead, BumpCas, BumpLost, Retry, Return, TypeOK
    <3> QED BY <1>3, <3>1
  <2>3. CASE Create(s) \/ ReclaimRead(s) \/ ReclaimCas(s)
    <3>1. pc[s] \in {"create", "reclaimRead", "reclaimCas"} /\ mine' = mine /\ now' = now
      BY <2>3 DEF Create, ReclaimRead, ReclaimCas, Acquired, Held
    <3>2. \A t \in Sessions \ {s} : pc'[t] = pc[t]
      BY <1>1, <2>3 DEF Create, ReclaimRead, ReclaimCas, Acquired, Held, Return, TypeOK
    <3>3. task' = task \/ task' = [task EXCEPT ![s]["auto"] = Asleep(now + SleepFor)]
      BY <2>3 DEF Create, ReclaimRead, ReclaimCas, Acquired, Held
    <3>4. Asleep(now + SleepFor).pc = "sleep"
      BY DEF Asleep
    <3>5. \A t \in Sessions : \A v \in Workers :
            task'[t][v] = task[t][v] \/ task'[t][v].pc = "sleep"
      BY <1>1, <3>3, <3>4 DEF TypeOK
    <3> QED BY <1>3, <3>1, <3>2, <3>5
  <2> QED BY <1>4, <2>1, <2>2, <2>3 DEF AcquireStep
<1>5. ASSUME NEW s \in Sessions, NEW v \in Workers, NEW r,
             task' = [task EXCEPT ![s][v] = r],
             r.pc # "cas" \/ r.body.exp = ExpiryFor(NodeOf[s]),
             pc' = pc, mine' = mine, now' = now
      PROVE  FreshInv'
  <2>1. \A t \in Sessions : \A u \in Workers :
          \/ task'[t][u] = task[t][u]
          \/ t = s /\ task'[t][u] = r
    BY <1>1, <1>5 DEF TypeOK
  <2> QED BY <1>3, <1>5, <2>1
<1>6. \A w \in Workers : \A e \in BOOLEAN : After(w, e).pc # "cas"
  BY DEF After, At, Asleep
<1>7. \A p \in {"off", "read", "reread", "relRead"} : At(p).pc # "cas"
  BY DEF At
<1>8. ASSUME NEW s \in Sessions, NEW v \in Workers, RenewStep(s, v) PROVE FreshInv'
  <2>1. CASE RenewRead(s, v)
    <3> DEFINE arm == [pc |-> "cas", rev |-> lease.rev, body |-> Stamped(lease.body, s), wake |-> 0]
    <3>1. arm.body.exp = ExpiryFor(NodeOf[s])
      BY DEF Stamped
    <3> HIDE DEF arm
    <3>2. task' = [task EXCEPT ![s][v] = IF Owns(s) THEN arm ELSE After(v, TRUE)]
      BY <2>1 DEF RenewRead, arm
    <3> QED BY <1>5, <1>6, <2>1, <3>1, <3>2 DEF RenewRead
  <2>2. CASE RenewCas(s, v)
    BY <1>5, <1>6, <1>7, <2>2 DEF RenewCas
  <2>3. CASE RenewReread(s, v)
    <3>1. (~Owns(s)) \in BOOLEAN
      BY DEF Owns
    <3>2. After(v, ~Owns(s)).pc # "cas"
      BY <1>6, <3>1
    <3> QED BY <1>5, <2>3, <3>2 DEF RenewReread
  <2> QED BY <1>8, <2>1, <2>2, <2>3 DEF RenewStep
<1>9. ASSUME NEW s \in Sessions, AutoStep(s) \/ HostStep(s) PROVE FreshInv'
  <2>1. CASE Wake(s)
    BY <1>5, <1>7, <2>1 DEF Wake, Workers
  <2>2. CASE ReleaseRead(s)
    <3> DEFINE del == [pc |-> "relCas", rev |-> lease.rev, body |-> Marker, wake |-> 0]
    <3>1. del.pc # "cas" /\ At("off").pc # "cas"
      BY DEF At
    <3> HIDE DEF del
    <3>2. task' = [task EXCEPT ![s]["host"] = del] \/ task' = [task EXCEPT ![s]["host"] = At("off")]
      BY <2>2 DEF ReleaseRead, ReleaseReturn, del
    <3> QED BY <1>5, <2>2, <3>1, <3>2 DEF ReleaseRead, Workers
  <2>3. CASE ReleaseCas(s)
    BY <1>5, <1>7, <2>3 DEF ReleaseCas, ReleaseReturn, Workers
  <2> QED BY <1>8, <1>9, <2>1, <2>2, <2>3 DEF AutoStep, HostStep, Workers
<1>10. ASSUME NEW s \in Sessions, Choice(s) PROVE FreshInv'
  <2>1. ~Fault
    BY <1>1 DEF Fault, Timely, TypeOK
  <2>2. CASE Begin(s)
    <3>1. /\ pc'[s] \notin {"create", "reclaimRead", "reclaimCas"} /\ task' = task /\ now' = now
          /\ \A t \in Sessions \ {s} : pc'[t] = pc[t] /\ mine'[t] = mine[t]
      BY <1>1, <2>2 DEF Begin, TypeOK
    <3> QED BY <1>3, <3>1
  <2>3. CASE HostRenew(s) \/ HostRelease(s)
    BY <1>5, <1>7, <2>3 DEF HostRenew, HostRelease, HostCall, Workers
  <2>4. CASE DropHandle(s)
    <3>1. /\ pc'[s] = "dropped" /\ mine' = mine /\ now' = now
          /\ \A t \in Sessions \ {s} : pc'[t] = pc[t]
      BY <1>1, <2>4 DEF DropHandle, TypeOK
    <3>2. \A t \in Sessions : \A u \in Workers :
            task'[t][u] = task[t][u] \/ task'[t][u] = At("off")
      BY <1>1, <2>4 DEF DropHandle, TypeOK
    <3> QED BY <1>3, <1>7, <3>1, <3>2
  <2> QED BY <1>10, <2>1, <2>2, <2>3, <2>4 DEF Choice, AcquireFail, ReleaseFail, Crash, RenewFail
<1>11. CASE DeliverLease \/ DeliverFence \/ UNCHANGED vars
  BY <1>3, <1>11 DEF DeliverLease, DeliverFence, vars
<1> QED BY <1>2, <1>4, <1>9, <1>10, <1>11 DEF Next

\* Without failures, only a dropped handle leaves a renewal behind, and no
\* later session has its token.
LEMMA StrayStep ==
  ASSUME Timely, IInv, StrayInv, [Next]_vars
  PROVE  StrayInv'
<1> USE DEF acquireVars, handleVars
<1>1. TypeOK
  BY DEF IInv
<1>2. ASSUME late' \subseteq late,
             \A s \in Sessions : pc'[s] = "handle" =>
               pc[s] \in {"create", "reclaimCas", "handle"} /\ mine'[s] = mine[s]
      PROVE  StrayInv'
  BY <1>2 DEF StrayInv, IInv, AttemptInv
<1>3. ASSUME NEW s \in Sessions, AcquireStep(s) PROVE StrayInv'
  <2>1. late' = late /\ \A t \in Sessions \ {s} : pc'[t] = pc[t] /\ mine'[t] = mine[t]
    BY <1>1, <1>3 DEF AcquireStep, BumpRead, BumpCas, BumpLost, Minted, Create, ReclaimRead,
       ReclaimCas, Retry, Acquired, Held, Return, TypeOK
  <2>2. pc'[s] = "handle" => pc[s] \in {"create", "reclaimCas"} /\ mine'[s] = mine[s]
    BY <1>1, <1>3 DEF AcquireStep, BumpRead, BumpCas, BumpLost, Minted, Create, ReclaimRead,
       ReclaimCas, Retry, Acquired, Held, Return, TypeOK
  <2> QED BY <1>2, <2>1, <2>2
<1>4. ASSUME NEW s \in Sessions, AutoStep(s) \/ HostStep(s) PROVE StrayInv'
  <2>1. late' = late /\ pc' = pc /\ mine' = mine
    BY <1>4 DEF AutoStep, HostStep, RenewStep, Wake, RenewRead, RenewCas, RenewReread,
       ReleaseRead, ReleaseCas
  <2> QED BY <1>2, <2>1
<1>5. ASSUME NEW s \in Sessions, Choice(s) PROVE StrayInv'
  <2>1. ~Fault
    BY <1>1 DEF Fault, Timely, TypeOK
  <2>2. CASE Begin(s) \/ HostRenew(s) \/ HostRelease(s)
    <3>1. /\ late' = late /\ mine' = mine
          /\ \A t \in Sessions : pc'[t] = "handle" => pc[t] = "handle"
      BY <1>1, <2>2 DEF Begin, HostRenew, HostRelease, HostCall, TypeOK
    <3> QED BY <1>2, <3>1
  <2>3. CASE DropHandle(s)
    <3>1. /\ late' = late \cup TaskWrite(s, "auto") /\ mine' = mine /\ pc[s] = "handle"
          /\ pc'[s] = "dropped" /\ \A t \in Sessions \ {s} : pc'[t] = pc[t]
      BY <1>1, <2>3 DEF DropHandle, TypeOK
    <3>2. ASSUME NEW w \in TaskWrite(s, "auto"), w.body.op = "Put"
          PROVE  w.body.token = mine[s].token /\ mine[s].token # 0
      BY <3>1, <3>2 DEF TaskWrite, IInv, HandleInv, Marker, Workers
    <3> QED BY <3>1, <3>2 DEF StrayInv, IInv, TokensUnique
  <2> QED BY <1>5, <2>1, <2>2, <2>3 DEF Choice, AcquireFail, ReleaseFail, Crash, RenewFail
<1>6. CASE Tick \/ DeliverLease \/ DeliverFence \/ UNCHANGED vars
  BY <1>2, <1>6 DEF Tick, DeliverLease, DeliverFence, vars
<1> QED BY <1>3, <1>4, <1>5, <1>6 DEF Next

\* The reserve is kept while the renewal task rests where it is, and the
\* record is left alone or stamped anew.
LEMMA ReserveRests ==
  ASSUME TypeOK, TypeOK', NEW s \in Sessions, Reserve(s), now' = now,
         task'[s]["auto"] = task[s]["auto"], lease'.body.exp >= lease.body.exp,
         lease' = lease \/ Covered(s, now)'
  PROVE  Reserve(s)'
<1>1. /\ NodeOf[s] \in Nodes /\ now \in Nat /\ lease.body.exp \in Nat /\ SleepFor \in Nat
      /\ lease'.body.exp \in Nat /\ task[s]["auto"].wake \in Nat
  BY SessionsAssumption, SleepNat DEF TypeOK, Body, Task, Workers
<1>2. ASSUME NEW t \in Nat, Covered(s, t)
      PROVE  lease'.body.exp >= StampAt(t, NodeOf[s])
  <2>1. t <= t
    BY <1>2
  <2>2. StampAt(t, NodeOf[s]) \in Nat
    BY <1>1, <2>1, StampOrder
  <2> QED BY <1>1, <1>2, <2>2 DEF Covered
<1>3. CASE task[s]["auto"].pc = "sleep"
  <2> DEFINE u == task[s]["auto"].wake - SleepFor
  <2>1. u \in Nat /\ SleepFor <= task[s]["auto"].wake /\ now <= task[s]["auto"].wake
        /\ Covered(s, u)
    BY <1>1, <1>3 DEF Reserve
  <2>2. lease'.body.exp >= StampAt(u, NodeOf[s])
    BY <1>2, <2>1
  <2> QED BY <1>3, <2>1, <2>2 DEF Reserve, Covered, StampAt
<1>4. CASE task[s]["auto"].pc \in {"read", "cas"}
  <2> DEFINE u == now - SleepFor
  <2>1. u \in Nat /\ SleepFor <= now /\ Covered(s, u)
    BY <1>1, <1>4 DEF Reserve
  <2>2. lease'.body.exp >= StampAt(u, NodeOf[s])
    BY <1>2, <2>1
  <2>3. task[s]["auto"].pc = "cas" /\ task[s]["auto"].rev # lease'.rev => Covered(s, now)'
    <3>1. CASE lease' = lease
      BY <1>4, <3>1 DEF Reserve, Covered, StampAt
    <3> QED BY <3>1
  <2> QED BY <1>4, <2>1, <2>2, <2>3 DEF Reserve, Covered, StampAt
<1>5. CASE task[s]["auto"].pc = "reread"
  <2>1. Covered(s, now)'
    BY <1>1, <1>2, <1>5 DEF Reserve, Covered, StampAt
  <2> QED BY <1>5, <2>1 DEF Reserve
<1> QED BY <1>3, <1>4, <1>5 DEF Reserve

\* A renewal task that goes to sleep leaves a record stamped now.
LEMMA ReserveAsleep ==
  ASSUME TypeOK, NEW s \in Sessions, now' = now,
         task'[s]["auto"] = Asleep(now + SleepFor), Covered(s, now)'
  PROVE  Reserve(s)'
<1>1. now \in Nat /\ SleepFor \in Nat
  BY SleepNat DEF TypeOK
<1> DEFINE a == task'[s]["auto"]
<1>2. a.pc = "sleep" /\ a.wake = now + SleepFor
  BY DEF Asleep
<1>3. SleepFor <= a.wake /\ now <= a.wake /\ a.wake - SleepFor = now
  BY <1>1, <1>2
<1>4. lease'.body.exp >= StampAt(now, NodeOf[s])
  BY DEF Covered, StampAt
<1> QED BY <1>2, <1>3, <1>4 DEF Reserve, Covered, StampAt

\* A write stamped now covers its session from now on.
LEMMA WriteCovers ==
  ASSUME TypeOK, NEW s \in Sessions, NEW b, WriteLease(b), now' = now,
         b.exp = ExpiryFor(NodeOf[s]), ExpiryFor(NodeOf[s]) \in Nat
  PROVE  Covered(s, now)'
<1>1. lease'.body = b
  BY DEF WriteLease
<1>2. StampAt(now, NodeOf[s]) = ExpiryFor(NodeOf[s])
  BY DEF StampAt, ExpiryFor, Secs
<1>3. lease'.body.exp >= StampAt(now, NodeOf[s])
  BY <1>1, <1>2
<1> QED BY <1>3 DEF Covered, StampAt

\* A session that takes the lease has the record it stamped in this tick.
LEMMA TakenReserve ==
  ASSUME IInv, FreshInv, TypeOK', NEW s \in Sessions, Acquired(s), WriteLease(mine[s]),
         pc[s] \in {"create", "reclaimCas"}, now' = now
  PROVE  Owns(s)' /\ Reserve(s)'
<1>1. TypeOK /\ NodeOf[s] \in Nodes
  BY SessionsAssumption DEF IInv
<1>2. mine[s].exp = ExpiryFor(NodeOf[s]) /\ ExpiryFor(NodeOf[s]) \in Nat
  BY <1>1, ExpiryNat DEF FreshInv, TypeOK
<1>3. Covered(s, now)'
  BY <1>1, <1>2, WriteCovers
<1>4. task'[s]["auto"] = Asleep(now + SleepFor) /\ mine' = mine
  BY <1>1 DEF Acquired, TypeOK, Workers
<1>5. lease'.body = mine[s] /\ mine[s].op = "Put" /\ mine[s].node = NodeOf[s]
  BY DEF WriteLease, IInv, AttemptInv
<1> QED BY <1>1, <1>3, <1>4, <1>5, ReserveAsleep DEF Owns

\* The holder's own steps keep its reserve: the renewal task wakes in time,
\* reads, writes, or learns that the host's renewal was faster.
LEMMA OwnReserve ==
  ASSUME IInv, TimingInv, TypeOK', NEW s \in Sessions, Keeping(s), Owns(s), Reserve(s),
         lease'.body.exp >= lease.body.exp, AutoStep(s) \/ HostStep(s)
  PROVE  Reserve(s)'
<1> USE DEF acquireVars, handleVars
<1>1. /\ TypeOK /\ NodeOf[s] \in Nodes /\ now \in Nat /\ SleepFor \in Nat
      /\ task[s]["auto"].wake \in Nat
  BY SessionsAssumption, SleepNat DEF IInv, TypeOK, Task, Workers
<1>2. now' = now
  BY DEF AutoStep, HostStep, RenewStep, Wake, RenewRead, RenewCas, RenewReread,
     ReleaseRead, ReleaseCas
<1>3. ASSUME NEW v \in Workers, RenewCas(s, v), lease.rev = task[s][v].rev
      PROVE  Covered(s, now)'
  <2>1. task[s][v].body.exp = ExpiryFor(NodeOf[s]) /\ ExpiryFor(NodeOf[s]) \in Nat
    BY <1>1, <1>3, ExpiryNat DEF RenewCas, TimingInv, FreshInv
  <2>2. WriteLease(task[s][v].body)
    BY <1>3 DEF RenewCas
  <2> QED BY <1>1, <1>2, <2>1, <2>2, WriteCovers
<1>4. CASE Wake(s)
  <2>1. /\ task'[s]["auto"] = At("read") /\ lease' = lease
        /\ task[s]["auto"].pc = "sleep" /\ now >= task[s]["auto"].wake
    BY <1>1, <1>4 DEF Wake, TypeOK, Workers
  <2>2. now = task[s]["auto"].wake /\ SleepFor <= now /\ Covered(s, now - SleepFor)
    BY <1>1, <2>1 DEF Reserve
  <2>3. lease'.body.exp >= StampAt(now - SleepFor, NodeOf[s])
    BY <2>1, <2>2 DEF Covered
  <2>4. task'[s]["auto"].pc = "read"
    BY <2>1 DEF At
  <2> QED BY <1>2, <2>2, <2>3, <2>4 DEF Reserve, Covered, StampAt
<1>5. CASE RenewRead(s, "auto")
  <2> DEFINE arm == [pc |-> "cas", rev |-> lease.rev, body |-> Stamped(lease.body, s), wake |-> 0]
  <2>1. task' = [task EXCEPT ![s]["auto"] = arm] /\ lease' = lease
    BY <1>5 DEF RenewRead
  <2>2. task'[s]["auto"] = arm
    BY <1>1, <2>1 DEF TypeOK, Workers
  <2>3. task'[s]["auto"].pc = "cas" /\ task'[s]["auto"].rev = lease.rev
    BY <2>2
  <2>4. SleepFor <= now /\ Covered(s, now - SleepFor)
    BY <1>5 DEF RenewRead, Reserve
  <2>5. lease'.body.exp >= StampAt(now - SleepFor, NodeOf[s])
    BY <2>1, <2>4 DEF Covered
  <2> QED BY <1>2, <2>1, <2>3, <2>4, <2>5 DEF Reserve, Covered, StampAt
<1>6. CASE RenewCas(s, "auto")
  <2>1. CASE lease.rev = task[s]["auto"].rev
    <3>1. task' = [task EXCEPT ![s]["auto"] = Asleep(now + SleepFor)]
      BY <1>6, <2>1 DEF RenewCas, After
    <3>2. task'[s]["auto"] = Asleep(now + SleepFor)
      BY <1>1, <3>1 DEF TypeOK, Workers
    <3>3. Covered(s, now)'
      BY <1>3, <1>6, <2>1 DEF Workers
    <3> QED BY <1>1, <1>2, <3>2, <3>3, ReserveAsleep
  <2>2. CASE lease.rev # task[s]["auto"].rev
    <3>1. task' = [task EXCEPT ![s]["auto"] = At("reread")] /\ lease' = lease
      BY <1>6, <2>2 DEF RenewCas
    <3>2. task'[s]["auto"].pc = "reread"
      BY <1>1, <3>1 DEF TypeOK, Workers, At
    <3>3. Covered(s, now)
      BY <1>6, <2>2 DEF RenewCas, Reserve
    <3> QED BY <1>2, <3>1, <3>2, <3>3 DEF Reserve, Covered, StampAt
  <2> QED BY <2>1, <2>2
<1>7. CASE RenewReread(s, "auto")
  <2>1. task' = [task EXCEPT ![s]["auto"] = After("auto", FALSE)] /\ lease' = lease
    BY <1>7 DEF RenewReread, After
  <2>2. task'[s]["auto"] = Asleep(now + SleepFor)
    BY <1>1, <2>1 DEF TypeOK, Workers, After
  <2>3. Covered(s, now)
    BY <1>7 DEF RenewReread, Reserve
  <2>4. Covered(s, now)'
    BY <1>2, <2>1, <2>3 DEF Covered, StampAt
  <2> QED BY <1>1, <1>2, <2>2, <2>4, ReserveAsleep
<1>8. CASE RenewStep(s, "host")
  <2>1. task'[s]["auto"] = task[s]["auto"]
    <3>1. \E r : task' = [task EXCEPT ![s]["host"] = r]
      BY <1>8 DEF RenewStep, RenewRead, RenewCas, RenewReread
    <3> QED BY <1>1, <3>1 DEF TypeOK, Workers
  <2>2. lease' = lease \/ Covered(s, now)'
    BY <1>3, <1>8 DEF RenewStep, RenewRead, RenewCas, RenewReread, Workers
  <2> QED BY <1>1, <1>2, <2>1, <2>2, ReserveRests
<1>9. ~ReleaseRead(s) /\ ~ReleaseCas(s)
  BY DEF ReleaseRead, ReleaseCas, Keeping, IInv, HandleInv, Workers
<1> QED BY <1>4, <1>5, <1>6, <1>7, <1>8, <1>9 DEF AutoStep, HostStep, RenewStep

\* A holder with its reserve still has it after every step.
LEMMA HolderStep ==
  ASSUME Timely, SpareSuffices, IInv, TimingInv, TypeOK', [Next]_vars,
         NEW s \in Sessions, Keeping(s), Keeping(s)'
  PROVE  Owns(s)' /\ Reserve(s)'
<1> USE DEF acquireVars, handleVars
<1>1. TypeOK /\ Owns(s) /\ Reserve(s)
  BY DEF IInv, TimingInv, KeepInv
<1>2. \A n \in Nodes : ~Expired(lease.body, n)
  BY <1>1, ReserveAlive
<1>3. mine'[s] = mine[s] /\ Owns(s)' /\ lease'.body.exp >= lease.body.exp
  BY <1>1, <1>2, HolderKept
<1>4. ASSUME now' = now, lease' = lease, task'[s]["auto"] = task[s]["auto"]
      PROVE  Reserve(s)'
  BY <1>1, <1>3, <1>4, ReserveRests
<1>5. CASE Tick
  <2>1. /\ now' = now + 1 /\ lease' = lease /\ task' = task
        /\ task[s]["auto"].pc \notin {"read", "cas", "reread"}
        /\ ~(task[s]["auto"].pc = "sleep" /\ now >= task[s]["auto"].wake)
    BY <1>5 DEF Tick, Due, Timely
  <2>2. now \in Nat /\ task[s]["auto"].wake \in Nat
    BY <1>1 DEF TypeOK, Task, Workers
  <2>3. /\ task[s]["auto"].pc = "sleep" /\ SleepFor <= task[s]["auto"].wake
        /\ Covered(s, task[s]["auto"].wake - SleepFor)
    BY <1>1, <2>1 DEF Reserve
  <2>4. now' <= task'[s]["auto"].wake
    BY <2>1, <2>2, <2>3
  <2> QED BY <1>3, <2>1, <2>3, <2>4 DEF Reserve, Covered, StampAt
<1>6. CASE \/ DeliverLease \/ DeliverFence
           \/ \E t \in Sessions \ {s} : AcquireStep(t) \/ AutoStep(t) \/ HostStep(t) \/ Choice(t)
  <2>1. now' = now /\ lease' = lease /\ task'[s] = task[s]
    BY <1>3, <1>6, OthersLeave DEF TimingInv
  <2> QED BY <1>3, <1>4, <2>1
<1>7. CASE AutoStep(s) \/ HostStep(s)
  BY <1>1, <1>3, <1>7, OwnReserve
<1>8. ~AcquireStep(s)
  BY DEF AcquireStep, BumpRead, BumpCas, Create, ReclaimRead, ReclaimCas, Retry, Keeping
<1>9. CASE Choice(s)
  <2>1. ~Fault
    BY <1>1 DEF Fault, Timely, TypeOK
  <2>2. CASE HostRenew(s) \/ HostRelease(s)
    <3>1. now' = now /\ lease' = lease /\ task'[s]["auto"] = task[s]["auto"]
      BY <1>1, <2>2 DEF HostRenew, HostRelease, HostCall, TypeOK, Workers
    <3> QED BY <1>3, <1>4, <3>1
  <2>3. ~Begin(s) /\ ~DropHandle(s)
    BY <1>1 DEF Begin, DropHandle, Keeping, TypeOK
  <2> QED BY <1>9, <2>1, <2>2, <2>3 DEF Choice, AcquireFail, ReleaseFail, Crash, RenewFail
<1>10. CASE UNCHANGED vars
  BY <1>3, <1>4, <1>10 DEF vars
<1> QED BY <1>5, <1>6, <1>7, <1>8, <1>9, <1>10 DEF Next

\* A session becomes a holder only by taking the lease, and one that asked for
\* its release never takes that back.
LEMMA BecomesHolder ==
  ASSUME Timely, IInv, [Next]_vars, NEW s \in Sessions, Keeping(s)', ~Keeping(s)
  PROVE  /\ pc[s] \in {"create", "reclaimCas"} /\ now' = now
         /\ WriteLease(mine[s]) /\ Acquired(s)
<1> USE DEF acquireVars, handleVars
<1>1. TypeOK
  BY DEF IInv
<1>2. ASSUME pc'[s] = "handle" => pc[s] = "handle",
             released'[s] = "never" => released[s] = "never"
      PROVE  FALSE
  BY <1>2 DEF Keeping
<1>3. ASSUME NEW t \in Sessions, AcquireStep(t), pc'[s] = "handle", pc[s] # "handle"
      PROVE  /\ pc[s] \in {"create", "reclaimCas"} /\ now' = now
             /\ WriteLease(mine[s]) /\ Acquired(s)
  <2>1. s = t
    BY <1>1, <1>3 DEF AcquireStep, BumpRead, BumpCas, BumpLost, Minted, Create, ReclaimRead,
       ReclaimCas, Retry, Acquired, Held, Return, TypeOK
  <2>2. ~BumpRead(s) /\ ~BumpCas(s) /\ ~Retry(s) /\ ~ReclaimRead(s) /\ ~Held(s)
    BY <1>1, <1>3 DEF BumpRead, BumpCas, BumpLost, Minted, Retry, ReclaimRead, Held, Return, TypeOK
  <2>3. CASE Create(s)
    <3>1. lease.rev = 0
      BY <1>1, <1>3, <2>3 DEF Create, TypeOK
    <3> QED BY <2>3, <3>1 DEF Create
  <2>4. CASE ReclaimCas(s)
    BY <2>2, <2>4 DEF ReclaimCas
  <2> QED BY <1>3, <2>1, <2>2, <2>3, <2>4 DEF AcquireStep
<1>4. ASSUME NEW t \in Sessions, AcquireStep(t) PROVE released' = released
  BY <1>4 DEF AcquireStep, BumpRead, BumpCas, Create, ReclaimRead, ReclaimCas, Retry,
     Acquired, Held
<1>5. ASSUME NEW t \in Sessions, AutoStep(t) \/ HostStep(t) PROVE FALSE
  <2>1. pc' = pc
    BY <1>5 DEF AutoStep, HostStep, RenewStep, Wake, RenewRead, RenewCas, RenewReread,
       ReleaseRead, ReleaseCas
  <2>2. released'[s] = "never" => released[s] = "never"
    BY <1>1, <1>5 DEF AutoStep, HostStep, RenewStep, Wake, RenewRead, RenewCas, RenewReread,
       ReleaseRead, ReleaseCas, ReleaseReturn, TypeOK
  <2> QED BY <1>2, <2>1, <2>2
<1>6. ASSUME NEW t \in Sessions, Choice(t) PROVE FALSE
  <2>1. ~Fault
    BY <1>1 DEF Fault, Timely, TypeOK
  <2>2. Begin(t) \/ HostRenew(t) \/ HostRelease(t) \/ DropHandle(t)
    BY <1>6, <2>1 DEF Choice, AcquireFail, ReleaseFail, Crash, RenewFail
  <2>3. pc'[s] = "handle" => pc[s] = "handle"
    BY <1>1, <2>2 DEF Begin, HostRenew, HostRelease, HostCall, DropHandle, TypeOK
  <2>4. released'[s] = "never" => released[s] = "never"
    BY <1>1, <2>2 DEF Begin, HostRenew, HostRelease, HostCall, DropHandle, TypeOK
  <2> QED BY <1>2, <2>3, <2>4
<1>7. CASE Tick \/ DeliverLease \/ DeliverFence \/ UNCHANGED vars
  BY <1>2, <1>7 DEF Tick, DeliverLease, DeliverFence, vars
<1>8. ASSUME NEW t \in Sessions, AcquireStep(t)
      PROVE  pc'[s] = "handle" /\ pc[s] # "handle"
  BY <1>2, <1>4, <1>8 DEF Keeping
<1> QED BY <1>3, <1>5, <1>6, <1>7, <1>8 DEF Next

\* The timing invariant is inductive.
LEMMA TimingStep ==
  ASSUME Timely, SpareSuffices
  PROVE  IInv /\ TimingInv /\ [Next]_vars => TimingInv'
<1> SUFFICES ASSUME IInv, TimingInv, [Next]_vars PROVE TimingInv'
  OBVIOUS
<1>1. TypeOK'
  BY TypeStep DEF IInv
<1>2. ASSUME NEW s \in Sessions, Keeping(s)' PROVE Owns(s)' /\ Reserve(s)'
  <2>1. CASE Keeping(s)
    BY <1>1, <1>2, <2>1, HolderStep
  <2>2. CASE ~Keeping(s)
    BY <1>1, <1>2, <2>2, BecomesHolder, TakenReserve DEF TimingInv
  <2> QED BY <2>1, <2>2
<1>3. FreshInv' /\ StrayInv'
  BY FreshStep, StrayStep DEF TimingInv
<1> QED BY <1>2, <1>3 DEF TimingInv, KeepInv

\* With timely tasks and no failures, a holder that has not asked for a release
\* keeps its record, and no node's clock ever sees it expired: for every number
\* of sessions and nodes, every TTL and percentage, and every skew that leaves
\* a second to spare (renewal_loop, renew_inner, expiry_for).
THEOREM LiveHolderAlwaysKeeps ==
  ASSUME Timely, SpareSuffices
  PROVE  Spec => []LiveHolderKeeps
<1>1. Init => TimingInv
  BY DEF Init, TimingInv, KeepInv, FreshInv, StrayInv, Keeping, At, Workers
<1>2. IInv /\ TimingInv /\ [Next]_vars => TimingInv'
  BY TimingStep
<1>3. IInv /\ TimingInv => LiveHolderKeeps
  BY ReserveAlive DEF IInv, TimingInv, KeepInv, Keeping, LiveHolderKeeps
<1> QED BY <1>1, <1>2, <1>3, Invariance, PTL DEF Spec
=============================================================================
