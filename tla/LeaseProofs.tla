---------------------------- MODULE LeaseProofs ----------------------------
(***************************************************************************)
(* Theorems about Lease, for every set of sessions and nodes, every clock  *)
(* skew, TTL and bound.                                                    *)
(***************************************************************************)
EXTENDS Lease, TLAPS

-----------------------------------------------------------------------------
(* Facts about clocks and expiry.                                          *)

\* Seconds are natural numbers.
LEMMA DivNat ==
  ASSUME NEW a \in Nat, NEW s \in Nat \ {0}
  PROVE  a \div s \in Nat
OBVIOUS

\* A later tick is never in an earlier second.
LEMMA DivMonotone ==
  ASSUME NEW a \in Nat, NEW b \in Nat, NEW s \in Nat \ {0}, a <= b
  PROVE  a \div s <= b \div s
OBVIOUS

\* Both expiries of expiry_for are natural numbers of seconds.
LEMMA ExpiryNat ==
  ASSUME now \in Nat, NEW n \in Nodes
  PROVE  Secs(n) \in Nat /\ ExpiryFor(n) \in Nat /\ ShownFor(n) \in Nat
<1>1. /\ now + Skew[n] \in Nat /\ now + Skew[n] + TTL \in Nat
      /\ TTL \in Nat /\ Sec \in Nat \ {0}
  BY TimeAssumption
<1>2. /\ (now + Skew[n]) \div Sec \in Nat /\ (now + Skew[n] + TTL) \div Sec \in Nat
      /\ TTL \div Sec \in Nat
  BY <1>1, DivNat
<1> QED BY <1>2 DEF Secs, ExpiryFor, ShownFor

\* The renewal sleep is a positive number of ticks.
LEMMA SleepNat == SleepFor \in Nat
<1>1. TTL * (100 - Pct) \in Nat /\ MinSleep \in Nat
  BY TimeAssumption
<1>2. (TTL * (100 - Pct)) \div 100 \in Nat
  BY <1>1, DivNat
<1> QED BY <1>1, <1>2 DEF SleepFor, Larger

\* A freshly built or freshly stamped record is a record.
LEMMA RecordType ==
  ASSUME now \in Nat, NEW s \in Sessions, NEW k \in Nat, NEW b \in Body
  PROVE  Record(s, k) \in Body /\ Stamped(b, s) \in Body
<1>1. NodeOf[s] \in Nodes
  BY SessionsAssumption
<1>2. ExpiryFor(NodeOf[s]) \in Nat /\ ShownFor(NodeOf[s]) \in Nat
  BY <1>1, ExpiryNat
<1> QED BY <1>1, <1>2 DEF Record, Stamped, Body

-----------------------------------------------------------------------------
(* Type correctness.                                                       *)

\* The fixed records have their types.
LEMMA Fixed ==
  /\ NoBody \in Body /\ Marker \in Body /\ Undated \in Body /\ NoLoc \in Loc
  /\ \A p \in TaskPc : At(p) \in Task
  /\ \A t \in Nat : Asleep(t) \in Task
BY SessionsAssumption, TimeAssumption
   DEF NoBody, Marker, Undated, Body, At, Asleep, Task, TaskPc, NoLoc, Loc

\* A worker at each of its steps is a worker.
LEMMA AtType ==
  /\ At("off") \in Task /\ At("ended") \in Task /\ At("read") \in Task
  /\ At("reread") \in Task /\ At("relRead") \in Task
BY Fixed DEF TaskPc

\* The writes a session has in flight have their types.
LEMMA FlightType ==
  ASSUME TypeOK, NEW s \in Sessions
  PROVE  /\ AcquireWrite(s) \subseteq LeaseWrite
         /\ BumpWrite(s) \subseteq FenceWrite
         /\ \A w \in Workers : TaskWrite(s, w) \subseteq LeaseWrite
BY DEF TypeOK, Loc, Task, AcquireWrite, BumpWrite, TaskWrite, LeaseWrite, FenceWrite

\* The initial state is well typed.
LEMMA InitType == Init => TypeOK
<1> SUFFICES ASSUME Init PROVE TypeOK
  OBVIOUS
<1>1. lease \in [rev : Nat, body : Body] /\ fence \in [rev : Nat, val : Nat] /\ used \in SUBSET Nat
  BY Fixed DEF Init
<1>2. loc \in [Sessions -> Loc] /\ mine \in [Sessions -> Body]
      /\ task \in [Sessions -> [Workers -> Task]]
  BY Fixed DEF Init, TaskPc
<1>3. pc \in [Sessions -> {"idle"} \cup Acquiring \cup Returned]
      /\ shown \in [Sessions -> Nat] /\ calls \in [Sessions -> 0..MaxCalls]
      /\ released \in [Sessions -> {"never", "pending", "ok", "err"}]
      /\ now \in Nat /\ faults \in 0..MaxFaults
      /\ late \in SUBSET LeaseWrite /\ lateFence \in SUBSET FenceWrite
  BY TimeAssumption DEF Init
<1> QED BY <1>1, <1>2, <1>3 DEF TypeOK

\* A write of a well-typed record leaves the bucket and the history well typed.
LEMMA WriteType ==
  ASSUME TypeOK, NEW b \in Body, WriteLease(b)
  PROVE  lease' \in [rev : Nat, body : Body] /\ used' \in SUBSET Nat
<1>1. lease.rev + 1 \in Nat /\ b.token \in Nat
  BY DEF TypeOK, Body
<1> QED BY <1>1 DEF TypeOK, WriteLease

\* Changing a call's local variables keeps their type.
LEMMA LocalType ==
  ASSUME TypeOK, NEW s \in Sessions, NEW r \in 0..Rounds,
         NEW t \in Nat, NEW v \in Nat, NEW k \in Nat
  PROVE  Local(s, r, t, v, k) \in [Sessions -> Loc]
BY DEF TypeOK, Local, Loc

\* A returning call leaves its variables well typed.
LEMMA ReturnType ==
  ASSUME TypeOK, NEW s \in Sessions, NEW r \in Returned, Return(s, r)
  PROVE  pc' \in [Sessions -> {"idle"} \cup Acquiring \cup Returned] /\ loc' \in [Sessions -> Loc]
BY Fixed DEF TypeOK, Return, Loc

\* What follows a renewal is a state of the worker.
LEMMA AfterType ==
  ASSUME TypeOK, NEW w \in Workers, NEW e \in BOOLEAN
  PROVE  After(w, e) \in Task
<1>1. now + SleepFor \in Nat
  BY SleepNat DEF TypeOK
<1> QED BY <1>1, Fixed DEF After, TaskPc

\* Storing a worker's state keeps the type of all workers.
LEMMA TaskUpdateType ==
  ASSUME TypeOK, NEW s \in Sessions, NEW w \in Workers, NEW t \in Task
  PROVE  [task EXCEPT ![s][w] = t] \in [Sessions -> [Workers -> Task]]
BY DEF TypeOK, Task, TaskPc

\* A successful attempt keeps the types of the session's variables.
LEMMA AcquiredType ==
  ASSUME TypeOK, NEW s \in Sessions, Acquired(s)
  PROVE  /\ pc' \in [Sessions -> {"idle"} \cup Acquiring \cup Returned]
         /\ loc' \in [Sessions -> Loc]
         /\ mine' = mine /\ released' = released /\ calls' = calls
         /\ shown' \in [Sessions -> Nat]
         /\ task' \in [Sessions -> [Workers -> Task]]
<1>1. Return(s, "handle") /\ "handle" \in Returned
  BY DEF Acquired, Returned
<1>2. mine[s].shown \in Nat
  BY DEF TypeOK, Body
<1>3. Asleep(now + SleepFor) \in Task
  BY SleepNat, Fixed DEF TypeOK
<1>4. task' \in [Sessions -> [Workers -> Task]]
  BY <1>3, TaskUpdateType DEF Acquired, Workers
<1> QED BY <1>1, <1>2, <1>4, ReturnType DEF Acquired, TypeOK

\* A refused attempt returns, gives up or sleeps, and keeps the types.
LEMMA HeldType ==
  ASSUME TypeOK, NEW s \in Sessions, Held(s)
  PROVE  /\ pc' \in [Sessions -> {"idle"} \cup Acquiring \cup Returned]
         /\ loc' \in [Sessions -> Loc]
         /\ UNCHANGED <<lease, used, mine, handleVars>>
<1>1. CASE s \notin Waiters
  BY <1>1, ReturnType DEF Held, Returned
<1>2. CASE s \in Waiters /\ now - loc[s].started > GiveUp
  BY <1>2, ReturnType DEF Held, Returned
<1>3. CASE s \in Waiters /\ ~(now - loc[s].started > GiveUp)
  <2>1. now + RetrySleep \in Nat /\ 0 \in 0..Rounds
    BY TimeAssumption DEF TypeOK
  <2>2. Local(s, 0, now + RetrySleep, 0, 0) \in [Sessions -> Loc]
    BY <2>1, LocalType
  <2> QED BY <1>3, <2>2 DEF Held, TypeOK, Acquiring
<1> QED BY <1>1, <1>2, <1>3

\* Every step keeps the types.
LEMMA TypeStep == TypeOK /\ [Next]_vars => TypeOK'
<1> SUFFICES ASSUME TypeOK, [Next]_vars PROVE TypeOK'
  OBVIOUS
<1> USE DEF acquireVars, handleVars
<1>1. CASE Tick
  BY <1>1 DEF Tick, TypeOK
<1>2. CASE DeliverLease
  <2>1. PICK w \in late :
          /\ late' = late \ {w}
          /\ IF lease.rev = w.expect THEN WriteLease(w.body) ELSE UNCHANGED <<lease, used>>
    BY <1>2 DEF DeliverLease
  <2>2. w.body \in Body
    BY DEF TypeOK, LeaseWrite
  <2>3. lease' \in [rev : Nat, body : Body] /\ used' \in SUBSET Nat
    BY <2>1, <2>2, WriteType DEF TypeOK
  <2> QED BY <1>2, <2>1, <2>3 DEF DeliverLease, TypeOK
<1>3. CASE DeliverFence
  <2>1. PICK w \in lateFence :
          /\ lateFence' = lateFence \ {w}
          /\ fence' = IF fence.rev = w.expect
                      THEN [rev |-> fence.rev + 1, val |-> w.val] ELSE fence
    BY <1>3 DEF DeliverFence
  <2>2. fence.rev + 1 \in Nat /\ w.val \in Nat
    BY DEF TypeOK, FenceWrite
  <2>3. fence' \in [rev : Nat, val : Nat]
    BY <2>1, <2>2 DEF TypeOK
  <2> QED BY <1>3, <2>1, <2>3 DEF DeliverFence, TypeOK
<1>4. ASSUME NEW s \in Sessions, AcquireStep(s)
      PROVE  TypeOK'
  <2>1. CASE BumpRead(s)
    <3>1. loc[s].rounds \in 0..Rounds /\ fence.rev \in Nat /\ fence.val + 1 \in Nat
      BY DEF TypeOK, Loc
    <3>2. loc' \in [Sessions -> Loc]
      BY <2>1, <3>1, LocalType DEF BumpRead
    <3> QED BY <2>1, <3>2 DEF BumpRead, TypeOK, Acquiring, Working
  <2>2. CASE BumpCas(s)
    <3>1. CASE fence.rev = loc[s].rev
      <4>1. loc[s].next \in Nat /\ fence.rev + 1 \in Nat /\ 0 \in 0..Rounds
        BY TimeAssumption DEF TypeOK, Loc
      <4>2. Record(s, loc[s].next) \in Body
        BY <4>1, RecordType, Fixed DEF TypeOK
      <4>3. loc' \in [Sessions -> Loc]
        <5>1. loc' = Local(s, 0, 0, 0, 0)
          BY <2>2, <3>1 DEF BumpCas, Minted
        <5>2. Local(s, 0, 0, 0, 0) \in [Sessions -> Loc]
          BY <4>1, LocalType
        <5> QED BY <5>1, <5>2
      <4>4. mine' \in [Sessions -> Body] /\ fence' \in [rev : Nat, val : Nat]
        BY <2>2, <3>1, <4>1, <4>2 DEF BumpCas, Minted, TypeOK
      <4> QED BY <2>2, <3>1, <4>3, <4>4 DEF BumpCas, Minted, TypeOK, Acquiring, Working
    <3>2. CASE fence.rev # loc[s].rev /\ loc[s].rounds + 1 < Rounds
      <4>1. loc[s].rounds + 1 \in 0..Rounds
        BY <3>2, TimeAssumption DEF TypeOK, Loc
      <4>2. loc' \in [Sessions -> Loc]
        BY <2>2, <3>2, <4>1, LocalType DEF BumpCas, BumpLost
      <4> QED BY <2>2, <3>2, <4>2 DEF BumpCas, BumpLost, TypeOK, Acquiring, Working
    <3>3. CASE fence.rev # loc[s].rev /\ ~(loc[s].rounds + 1 < Rounds)
      <4>1. Return(s, "err") /\ "err" \in Returned
        BY <2>2, <3>3 DEF BumpCas, BumpLost, Returned
      <4> QED BY <2>2, <3>3, <4>1, ReturnType DEF BumpCas, BumpLost, TypeOK
    <3> QED BY <3>1, <3>2, <3>3
  <2>3. CASE Create(s)
    <3>1. CASE lease.rev = 0
      <4>1. WriteLease(mine[s]) /\ Acquired(s) /\ mine[s] \in Body
        BY <2>3, <3>1 DEF Create, TypeOK
      <4> QED BY <2>3, <4>1, WriteType, AcquiredType DEF Create, TypeOK
    <3>2. CASE lease.rev # 0
      BY <2>3, <3>2 DEF Create, TypeOK, Acquiring, Working
    <3> QED BY <3>1, <3>2
  <2>4. CASE ReclaimRead(s)
    <3>1. CASE Reclaimable(lease.body, NodeOf[s])
      <4>1. lease.rev \in Nat /\ 0 \in 0..Rounds
        BY TimeAssumption DEF TypeOK
      <4>2. loc' \in [Sessions -> Loc]
        BY <2>4, <3>1, <4>1, LocalType DEF ReclaimRead
      <4> QED BY <2>4, <3>1, <4>2 DEF ReclaimRead, TypeOK, Acquiring, Working
    <3>2. CASE ~Reclaimable(lease.body, NodeOf[s])
      <4>1. Held(s)
        BY <2>4, <3>2 DEF ReclaimRead
      <4> QED BY <2>4, <4>1, HeldType DEF ReclaimRead, TypeOK
    <3> QED BY <3>1, <3>2
  <2>5. CASE ReclaimCas(s)
    <3>1. CASE lease.rev = loc[s].rev
      <4>1. WriteLease(mine[s]) /\ Acquired(s) /\ mine[s] \in Body
        BY <2>5, <3>1 DEF ReclaimCas, TypeOK
      <4> QED BY <2>5, <4>1, WriteType, AcquiredType DEF ReclaimCas, TypeOK
    <3>2. CASE lease.rev # loc[s].rev
      <4>1. Held(s)
        BY <2>5, <3>2 DEF ReclaimCas
      <4> QED BY <2>5, <4>1, HeldType DEF ReclaimCas, TypeOK
    <3> QED BY <3>1, <3>2
  <2>6. CASE Retry(s)
    <3>1. loc' \in [Sessions -> Loc]
      <4>1. 0 \in 0..Rounds /\ 0 \in Nat
        BY TimeAssumption
      <4> QED BY <2>6, <4>1, LocalType DEF Retry
    <3> QED BY <2>6, <3>1 DEF Retry, TypeOK, Acquiring, Working
  <2> QED BY <1>4, <2>1, <2>2, <2>3, <2>4, <2>5, <2>6 DEF AcquireStep
<1>5. ASSUME NEW s \in Sessions, NEW w \in Workers, RenewStep(s, w)
      PROVE  TypeOK'
  <2>1. CASE RenewRead(s, w)
    <3>1. lease.body \in Body /\ lease.rev \in Nat /\ now \in Nat
      BY DEF TypeOK
    <3>2. Stamped(lease.body, s) \in Body
      BY <3>1, RecordType
    <3>3. [pc |-> "cas", rev |-> lease.rev, body |-> Stamped(lease.body, s), wake |-> 0] \in Task
      BY <3>1, <3>2 DEF Task, TaskPc
    <3>4. task' \in [Sessions -> [Workers -> Task]]
      BY <2>1, <3>3, AfterType, TaskUpdateType DEF RenewRead
    <3> QED BY <2>1, <3>4 DEF RenewRead, TypeOK
  <2>2. CASE RenewCas(s, w)
    <3>1. task[s][w].body \in Body /\ task[s][w].body.shown \in Nat
      BY DEF TypeOK, Task, Body
    <3>2. lease' \in [rev : Nat, body : Body] /\ used' \in SUBSET Nat /\ shown' \in [Sessions -> Nat]
      BY <2>2, <3>1, WriteType DEF RenewCas, TypeOK
    <3>3. After(w, FALSE) \in Task /\ At("reread") \in Task
      BY AfterType, AtType
    <3>4. task' \in [Sessions -> [Workers -> Task]]
      <4>1. \/ task' = [task EXCEPT ![s][w] = After(w, FALSE)]
            \/ task' = [task EXCEPT ![s][w] = At("reread")]
        BY <2>2 DEF RenewCas
      <4>2. [task EXCEPT ![s][w] = After(w, FALSE)] \in [Sessions -> [Workers -> Task]]
        BY <3>3, TaskUpdateType
      <4>3. [task EXCEPT ![s][w] = At("reread")] \in [Sessions -> [Workers -> Task]]
        BY <3>3, TaskUpdateType
      <4> QED BY <4>1, <4>2, <4>3
    <3> QED BY <2>2, <3>2, <3>4 DEF RenewCas, TypeOK
  <2>3. CASE RenewReread(s, w)
    <3>1. lease.body.shown \in Nat
      BY DEF TypeOK, Body
    <3>2. After(w, ~Owns(s)) \in Task
      BY AfterType
    <3>3. task' \in [Sessions -> [Workers -> Task]]
      BY <2>3, <3>2, TaskUpdateType DEF RenewReread
    <3>4. shown' \in [Sessions -> Nat]
      BY <2>3, <3>1 DEF RenewReread, TypeOK
    <3> QED BY <2>3, <3>3, <3>4 DEF RenewReread, TypeOK
  <2> QED BY <1>5, <2>1, <2>2, <2>3 DEF RenewStep
<1>6. ASSUME NEW s \in Sessions, AutoStep(s)
      PROVE  TypeOK'
  <2>1. CASE Wake(s)
    <3>1. task' \in [Sessions -> [Workers -> Task]]
      BY <2>1, AtType, TaskUpdateType DEF Wake, Workers
    <3> QED BY <2>1, <3>1 DEF Wake, TypeOK
  <2> QED BY <1>5, <1>6, <2>1 DEF AutoStep, Workers
<1>7. ASSUME NEW s \in Sessions, HostStep(s)
      PROVE  TypeOK'
  <2> DEFINE del == [pc |-> "relCas", rev |-> lease.rev, body |-> Marker, wake |-> 0]
  <2>1. del \in Task /\ At("off") \in Task /\ "host" \in Workers
    BY Fixed, AtType DEF TypeOK, Workers, Task, TaskPc
  <2> HIDE DEF del
  <2>2. CASE ReleaseRead(s)
    <3>1. task' = [task EXCEPT ![s]["host"] = del] \/ task' = [task EXCEPT ![s]["host"] = At("off")]
      BY <2>2 DEF ReleaseRead, ReleaseReturn, del
    <3>2. task' \in [Sessions -> [Workers -> Task]]
      BY <2>1, <3>1, TaskUpdateType
    <3> QED BY <2>2, <3>2 DEF ReleaseRead, ReleaseReturn, TypeOK
  <2>3. CASE ReleaseCas(s)
    <3>1. task' \in [Sessions -> [Workers -> Task]]
      BY <2>1, <2>3, TaskUpdateType DEF ReleaseCas, ReleaseReturn
    <3>2. lease' \in [rev : Nat, body : Body] /\ used' \in SUBSET Nat
      BY <2>3, Fixed, WriteType DEF ReleaseCas, TypeOK
    <3>3. released' \in [Sessions -> {"never", "pending", "ok", "err"}]
      BY <2>3 DEF ReleaseCas, ReleaseReturn, TypeOK
    <3> QED BY <2>3, <3>1, <3>2, <3>3 DEF ReleaseCas, TypeOK
  <2> QED BY <1>5, <1>7, <2>2, <2>3 DEF HostStep, Workers
<1>8. ASSUME NEW s \in Sessions, Choice(s)
      PROVE  TypeOK'
  <2>1. ASSUME Fault PROVE faults' \in 0..MaxFaults
    BY <2>1, TimeAssumption DEF Fault, TypeOK
  <2>2. CASE Begin(s)
    <3>1. [NoLoc EXCEPT !.started = now] \in Loc
      BY Fixed DEF TypeOK, NoLoc, Loc
    <3>2. loc' \in [Sessions -> Loc]
      BY <2>2, <3>1 DEF Begin, TypeOK
    <3> QED BY <2>2, <3>2 DEF Begin, TypeOK, Acquiring, Working
  <2>3. ASSUME NEW p \in {"read", "relRead"}, NEW r \in {"never", "pending", "ok", "err"},
               HostCall(s, p, r)
        PROVE  TypeOK'
    <3>1. task' \in [Sessions -> [Workers -> Task]]
      BY <2>3, AtType, TaskUpdateType DEF HostCall, Workers
    <3>2. calls' \in [Sessions -> 0..MaxCalls]
      BY <2>3, TimeAssumption DEF HostCall, TypeOK
    <3>3. released' \in [Sessions -> {"never", "pending", "ok", "err"}]
      BY <2>3 DEF HostCall, TypeOK
    <3> QED BY <2>3, <3>1, <3>2, <3>3 DEF HostCall, TypeOK
  <2>4. CASE HostRenew(s)
    <3>1. released[s] \in {"never", "pending", "ok", "err"}
      BY DEF TypeOK
    <3> QED BY <2>3, <2>4, <3>1 DEF HostRenew
  <2>5. CASE HostRelease(s)
    BY <2>3, <2>5 DEF HostRelease
  <2>6. CASE DropHandle(s)
    <3>1. task' \in [Sessions -> [Workers -> Task]]
      BY <2>6, AtType, TaskUpdateType DEF DropHandle, Workers
    <3>2. late' \in SUBSET LeaseWrite
      BY <2>6, FlightType DEF DropHandle, TypeOK, Workers
    <3> QED BY <2>6, <3>1, <3>2 DEF DropHandle, TypeOK, Returned
  <2>7. CASE AcquireFail(s)
    <3>1. late' \in SUBSET LeaseWrite /\ lateFence' \in SUBSET FenceWrite
      BY <2>7, FlightType DEF AcquireFail, TypeOK
    <3>2. /\ pc' \in [Sessions -> {"idle"} \cup Acquiring \cup Returned]
          /\ loc' \in [Sessions -> Loc]
          /\ UNCHANGED <<lease, used, mine, handleVars>>
      <4>1. CASE pc[s] = "reclaimCas"
        BY <2>7, <4>1, HeldType DEF AcquireFail
      <4>2. CASE pc[s] # "reclaimCas"
        BY <2>7, <4>2, ReturnType DEF AcquireFail, Returned
      <4> QED BY <4>1, <4>2
    <3>3. faults' \in 0..MaxFaults
      BY <2>1, <2>7 DEF AcquireFail
    <3> QED BY <2>7, <3>1, <3>2, <3>3 DEF AcquireFail, TypeOK
  <2>8. CASE ReleaseFail(s)
    <3>1. task' \in [Sessions -> [Workers -> Task]]
      BY <2>8, AtType, TaskUpdateType DEF ReleaseFail, ReleaseReturn, Workers
    <3>2. late' \in SUBSET LeaseWrite
      BY <2>8, FlightType DEF ReleaseFail, TypeOK, Workers
    <3>3. faults' \in 0..MaxFaults
      BY <2>1, <2>8 DEF ReleaseFail
    <3> QED BY <2>8, <3>1, <3>2, <3>3 DEF ReleaseFail, ReleaseReturn, TypeOK
  <2>9. CASE Crash(s)
    <3>1. late' \in SUBSET LeaseWrite /\ lateFence' \in SUBSET FenceWrite
      BY <2>9, FlightType DEF Crash, TypeOK, Workers
    <3>2. [v \in Workers |-> At("off")] \in [Workers -> Task]
      BY AtType
    <3>3. task' \in [Sessions -> [Workers -> Task]]
      BY <2>9, <3>2 DEF Crash, TypeOK
    <3>4. faults' \in 0..MaxFaults
      BY <2>1, <2>9 DEF Crash
    <3>5. /\ pc' \in [Sessions -> {"idle"} \cup Acquiring \cup Returned]
          /\ loc' \in [Sessions -> Loc]
      BY <2>9, ReturnType DEF Crash, Returned
    <3> QED BY <2>9, <3>1, <3>3, <3>4, <3>5 DEF Crash, TypeOK
  <2>10. ASSUME NEW w \in Workers, RenewFail(s, w) PROVE TypeOK'
    <3>1. task' \in [Sessions -> [Workers -> Task]]
      BY <2>10, AfterType, TaskUpdateType DEF RenewFail
    <3>2. late' \in SUBSET LeaseWrite
      BY <2>10, FlightType DEF RenewFail, TypeOK
    <3>3. faults' \in 0..MaxFaults
      BY <2>1, <2>10 DEF RenewFail
    <3> QED BY <2>10, <3>1, <3>2, <3>3 DEF RenewFail, TypeOK
  <2> QED BY <1>8, <2>2, <2>4, <2>5, <2>6, <2>7, <2>8, <2>9, <2>10 DEF Choice
<1>9. CASE UNCHANGED vars
  BY <1>9 DEF vars, TypeOK
<1> QED BY <1>1, <1>2, <1>3, <1>4, <1>6, <1>7, <1>8, <1>9 DEF Next

\* Type correctness of every reachable state (the lease paths of lease.rs).
THEOREM LeaseTyped == Spec => []TypeOK
<1>1. Init => TypeOK
  BY InitType
<1>2. TypeOK /\ [Next]_vars => TypeOK'
  BY TypeStep
<1> QED BY <1>1, <1>2, PTL DEF Spec

-----------------------------------------------------------------------------
(* The inductive invariant.                                                *)

\* An abandoned or pending write is harmless for one of two reasons: its
\* revision has passed, so the server will refuse it, or the contract allows
\* exactly that write in this state.
Allowed(b) ==
  \/ /\ b.op = "Put" /\ b.node \in Nodes /\ b.token \notin used
     /\ lease.body.op # "Put" \/ Expired(lease.body, b.node)
  \/ /\ b.op = "Put" /\ lease.body.op = "Put"
     /\ b.node = lease.body.node /\ b.token = lease.body.token
     /\ b.exp >= lease.body.exp /\ b.shown >= lease.body.shown
  \/ b.op = "Del" /\ lease.body.op = "Put" /\ lease.body.token \in Askers

Harmless(w) ==
  w.expect <= lease.rev /\ (w.expect = lease.rev => Allowed(w.body))

InFlight(w) ==
  \/ w \in late
  \/ \E s \in Sessions : w \in AcquireWrite(s)
  \/ \E s \in Sessions : \E v \in Workers : w \in TaskWrite(s, v)

FlightInv == \A w \in LeaseWrite : InFlight(w) => Harmless(w)

\* The counter is ahead of every token in circulation, and an increment that
\* can still be applied is the next one.
CounterInv ==
  /\ \A s \in Sessions : mine[s].token <= fence.val
  /\ \A k \in used : k <= fence.val
  /\ \A w \in late : w.body.token <= fence.val
  /\ \A s \in Sessions : \A w \in BumpWrite(s) :
       w.expect <= fence.rev /\ (w.expect = fence.rev => w.val = fence.val + 1)
  /\ \A w \in lateFence :
       w.expect <= fence.rev /\ (w.expect = fence.rev => w.val = fence.val + 1)

\* No record is stamped later than its node's clock would stamp it now.
Stampable(b) ==
  b.op = "Put" => /\ b.node \in Nodes
                  /\ b.exp <= ExpiryFor(b.node) /\ b.shown <= ShownFor(b.node)

Written(b) ==
  \/ b = lease.body
  \/ \E s \in Sessions : b = mine[s]
  \/ \E w \in late : b = w.body
  \/ \E s \in Sessions : \E v \in Workers : b = task[s][v].body

StampInv == \A b \in Body : Written(b) => Stampable(b)

\* An attempt under way has a token of its own that never held the lease and
\* is in no abandoned write.
AttemptInv ==
  \A s \in Sessions : pc[s] \in {"create", "reclaimRead", "reclaimCas"} =>
    /\ mine[s].op = "Put" /\ mine[s].node = NodeOf[s]
    /\ mine[s].token # 0 /\ mine[s].token \notin used
    /\ \A w \in late : w.body.op = "Put" => w.body.token # mine[s].token

CreateInv == \A s \in Sessions : pc[s] = "create" => loc[s].rev = 0

\* Workers run only on a live handle, whose token has held the lease; only a
\* release call deletes.
HandleInv ==
  \A s \in Sessions :
    /\ pc[s] = "handle" => mine[s].token # 0 /\ mine[s].token \in used
    /\ released[s] # "never" => pc[s] \in {"handle", "dropped", "crashed"}
    /\ \A v \in Workers :
         /\ task[s][v].pc # "off" => pc[s] = "handle"
         /\ task[s][v].pc \in {"relRead", "relCas"} => released[s] # "never"
         /\ task[s][v].pc = "relCas" => task[s][v].body = Marker
         /\ task[s][v].pc = "cas" => task[s][v].body.token = mine[s].token

SlotInv ==
  /\ lease.body.op = "Put" => lease.body.token \in used
  /\ lease.rev = 0 => lease.body.op # "Put"

IInv ==
  /\ TypeOK /\ TokensUnique /\ HandleNotAhead
  /\ FlightInv /\ CounterInv /\ StampInv /\ AttemptInv /\ CreateInv
  /\ HandleInv /\ SlotInv

-----------------------------------------------------------------------------
(* What time and a write do to the parts of the invariant.                 *)

\* Clocks, and the expiries computed from them, never go back.
LEMMA Later ==
  ASSUME now \in Nat, now' \in Nat, now <= now', NEW n \in Nodes
  PROVE  /\ Secs(n) \in Nat /\ ExpiryFor(n) \in Nat /\ ShownFor(n) \in Nat
         /\ Secs(n)' \in Nat /\ ExpiryFor(n)' \in Nat /\ ShownFor(n)' \in Nat
         /\ Secs(n) <= Secs(n)' /\ ExpiryFor(n) <= ExpiryFor(n)' /\ ShownFor(n) <= ShownFor(n)'
<1> DEFINE a == now + Skew[n]
           b == now' + Skew[n]
<1>1. /\ a \in Nat /\ b \in Nat /\ a + TTL \in Nat /\ b + TTL \in Nat /\ TTL \in Nat
      /\ a <= b /\ a + TTL <= b + TTL /\ Sec \in Nat \ {0}
  BY TimeAssumption
<1>2. /\ a \div Sec \in Nat /\ b \div Sec \in Nat /\ TTL \div Sec \in Nat
      /\ (a + TTL) \div Sec \in Nat /\ (b + TTL) \div Sec \in Nat
  BY <1>1, DivNat
<1>3. a \div Sec <= b \div Sec /\ (a + TTL) \div Sec <= (b + TTL) \div Sec
  BY <1>1, DivMonotone
<1> QED BY <1>2, <1>3 DEF Secs, ExpiryFor, ShownFor

\* A record that could be stamped now could be stamped later.
LEMMA StampLater ==
  ASSUME now \in Nat, now' \in Nat, now <= now', NEW b \in Body, Stampable(b)
  PROVE  Stampable(b)'
<1>1. CASE b.op # "Put"
  BY <1>1 DEF Stampable
<1>2. CASE b.op = "Put"
  <2>1. b.node \in Nodes /\ b.exp \in Nat /\ b.shown \in Nat
    BY <1>2 DEF Stampable, Body
  <2>2. /\ ExpiryFor(b.node) <= ExpiryFor(b.node)' /\ ShownFor(b.node) <= ShownFor(b.node)'
        /\ ExpiryFor(b.node) \in Nat /\ ExpiryFor(b.node)' \in Nat
        /\ ShownFor(b.node) \in Nat /\ ShownFor(b.node)' \in Nat
    BY <2>1, Later
  <2>3. b.exp <= ExpiryFor(b.node) /\ b.shown <= ShownFor(b.node)
    BY <1>2 DEF Stampable
  <2>4. b.exp <= ExpiryFor(b.node)' /\ b.shown <= ShownFor(b.node)'
    BY <2>1, <2>2, <2>3
  <2> QED BY <2>1, <2>4 DEF Stampable
<1> QED BY <1>1, <1>2

\* StampInv survives a step whose new records are stamped no later than now.
LEMMA StampFrame ==
  ASSUME IInv, TypeOK', now <= now',
         \A b \in Body : Written(b)' => Written(b) \/ Stampable(b)'
  PROVE  StampInv'
<1> SUFFICES ASSUME NEW b \in Body, Written(b)' PROVE Stampable(b)'
  BY DEF StampInv
<1>1. CASE Written(b)
  <2>1. Stampable(b) /\ now \in Nat /\ now' \in Nat
    BY <1>1 DEF IInv, StampInv, TypeOK
  <2> QED BY <2>1, StampLater
<1> QED BY <1>1

\* A write in flight stays harmless while the lease is not written: leases
\* lapse but do not come back, and no one takes back a request to release.
LEMMA HarmlessLater ==
  ASSUME TypeOK, TypeOK', now <= now', lease' = lease, used' = used,
         Askers \subseteq Askers', NEW w \in LeaseWrite, Harmless(w)
  PROVE  Harmless(w)'
<1>1. ASSUME NEW n \in Nodes, Expired(lease.body, n) PROVE Expired(lease.body, n)'
  <2>1. Secs(n) \in Nat /\ Secs(n)' \in Nat /\ Secs(n) <= Secs(n)'
    BY Later DEF TypeOK
  <2>2. lease.body.exp \in Nat
    BY DEF TypeOK, Body
  <2> QED BY <1>1, <2>1, <2>2 DEF Expired
<1>2. ASSUME Allowed(w.body) PROVE Allowed(w.body)'
  BY <1>1, <1>2 DEF Allowed
<1> QED BY <1>2 DEF Harmless

\* Once the lease is written, every write in flight comes too late.
LEMMA HarmlessAfterWrite ==
  ASSUME TypeOK, lease'.rev = lease.rev + 1, NEW w \in LeaseWrite, Harmless(w)
  PROVE  Harmless(w)'
BY DEF TypeOK, LeaseWrite, Harmless

\* FlightInv survives a step whose new writes in flight are harmless.
LEMMA FlightFrame ==
  ASSUME IInv, TypeOK', now <= now',
         \/ lease'.rev = lease.rev + 1
         \/ lease' = lease /\ used' = used /\ Askers \subseteq Askers',
         \A w \in LeaseWrite : InFlight(w)' => InFlight(w) \/ Harmless(w)'
  PROVE  FlightInv'
<1> SUFFICES ASSUME NEW w \in LeaseWrite, InFlight(w)' PROVE Harmless(w)'
  BY DEF FlightInv
<1>1. CASE InFlight(w)
  <2>1. Harmless(w) /\ TypeOK
    BY <1>1 DEF IInv, FlightInv
  <2> QED BY <2>1, HarmlessLater, HarmlessAfterWrite
<1> QED BY <1>1

\* The tokens of those that asked for a release stay where no session mints a
\* new token over them and no request is forgotten.
LEMMA AskersGrow ==
  ASSUME \A s \in Sessions : released[s] # "never" =>
           released'[s] # "never" /\ mine'[s].token = mine[s].token
  PROVE  Askers \subseteq Askers'
BY DEF Askers

-----------------------------------------------------------------------------
(* Every kind of step keeps the invariant.                                 *)

\* The clock advances: only stamps and lapses depend on it.
LEMMA TickStep ==
  ASSUME IInv, TypeOK', Tick
  PROVE  IInv'
<1> USE DEF acquireVars, handleVars
<1>1. now <= now' /\ UNCHANGED <<lease, fence, late, lateFence, acquireVars, handleVars, used>>
  BY DEF Tick, IInv, TypeOK
<1>2. StampInv'
  BY <1>1, StampFrame DEF Written
<1>3. Askers \subseteq Askers'
  BY <1>1 DEF Askers
<1>4. FlightInv'
  BY <1>1, <1>3, FlightFrame DEF InFlight, AcquireWrite, TaskWrite
<1>5. TokensUnique' /\ HandleNotAhead' /\ CounterInv' /\ AttemptInv' /\ CreateInv' /\ HandleInv' /\ SlotInv'
  BY <1>1 DEF IInv, TokensUnique, HandleNotAhead, Owns, CounterInv, BumpWrite, AttemptInv,
     CreateInv, HandleInv, SlotInv
<1> QED BY <1>2, <1>4, <1>5 DEF IInv

\* An abandoned increment of the counter is applied or refused.
LEMMA DeliverFenceStep ==
  ASSUME IInv, TypeOK', DeliverFence
  PROVE  IInv'
<1> USE DEF acquireVars, handleVars
<1>1. UNCHANGED <<now, lease, late, acquireVars, handleVars, used>> /\ now <= now'
  BY DEF DeliverFence, IInv, TypeOK
<1>2. StampInv'
  BY <1>1, StampFrame DEF Written
<1>3. Askers \subseteq Askers'
  BY <1>1 DEF Askers
<1>4. FlightInv'
  BY <1>1, <1>3, FlightFrame DEF InFlight, AcquireWrite, TaskWrite
<1>5. CounterInv'
  BY DEF DeliverFence, IInv, CounterInv, BumpWrite, TypeOK, FenceWrite, Body, LeaseWrite, Loc
<1>6. TokensUnique' /\ HandleNotAhead' /\ AttemptInv' /\ CreateInv' /\ HandleInv' /\ SlotInv'
  BY <1>1 DEF IInv, TokensUnique, HandleNotAhead, Owns, AttemptInv,
     CreateInv, HandleInv, SlotInv
<1> QED BY <1>2, <1>4, <1>5, <1>6 DEF IInv

\* A call that is not holding moves on to a step with no write in flight; what
\* it had in flight may be abandoned.  Begin, a lost or failed attempt, Held in
\* all its outcomes, the retry after it, and a crash before the handle exists.
LEMMA QuietMove ==
  ASSUME IInv, TypeOK', NEW s \in Sessions, pc[s] \in {"idle"} \cup Acquiring,
         pc'[s] \in {"bumpRead", "sleep", "none", "timeout", "err", "crashed"},
         \A t \in Sessions \ {s} : pc'[t] = pc[t] /\ loc'[t] = loc[t],
         late' \subseteq late \cup AcquireWrite(s),
         lateFence' \subseteq lateFence \cup BumpWrite(s),
         \A t \in Sessions : \A v \in Workers :
           \/ task'[t][v] = task[t][v]
           \/ task'[t][v].pc = "off" /\ task'[t][v].body = NoBody,
         UNCHANGED <<now, lease, fence, mine, shown, released, used>>
  PROVE  IInv'
<1>1. now <= now' /\ pc[s] \notin {"handle", "dropped", "crashed"}
  BY DEF IInv, TypeOK, Acquiring, Working
<1>2. \A w \in late' : w \in late \/ (w \in AcquireWrite(s) /\ w.body = mine[s])
  BY DEF AcquireWrite
<1>3. StampInv'
  <2>1. \A x \in Body : Written(x)' => Written(x) \/ x = NoBody
    BY <1>2 DEF Written
  <2> QED BY <1>1, <2>1, StampFrame DEF Stampable, NoBody
<1>4. Askers \subseteq Askers'
  BY AskersGrow
<1>5. \A t \in Sessions : AcquireWrite(t)' \subseteq AcquireWrite(t)
  BY DEF AcquireWrite
<1>6. \A t \in Sessions : \A v \in Workers : TaskWrite(t, v)' \subseteq TaskWrite(t, v)
  BY DEF TaskWrite
<1>7. FlightInv'
  BY <1>1, <1>4, <1>5, <1>6, FlightFrame DEF InFlight
<1>8. CounterInv'
  <2>1. \A t \in Sessions : BumpWrite(t)' \subseteq BumpWrite(t)
    BY DEF BumpWrite
  <2>2. \A w \in late' : w.body.token <= fence.val
    BY <1>2 DEF IInv, CounterInv
  <2> QED BY <2>1, <2>2 DEF IInv, CounterInv
<1>9. AttemptInv'
  BY <1>2 DEF IInv, AttemptInv, TokensUnique, AcquireWrite
<1>10. HandleInv'
  <2>1. \A t \in Sessions : \A v \in Workers :
          /\ task'[t][v].pc # "off" => task'[t][v] = task[t][v] /\ t # s
          /\ task'[t][v].pc # "off" => pc'[t] = "handle"
    BY <1>1 DEF IInv, HandleInv
  <2> QED BY <1>1, <2>1 DEF IInv, HandleInv
<1>11. TokensUnique' /\ HandleNotAhead' /\ CreateInv' /\ SlotInv'
  BY DEF IInv, TokensUnique, HandleNotAhead, Owns, CreateInv, SlotInv
<1> QED BY <1>3, <1>7, <1>8, <1>9, <1>10, <1>11 DEF IInv

\* bump_fencing_token reads the counter.
LEMMA BumpReadStep ==
  ASSUME IInv, TypeOK', NEW s \in Sessions, BumpRead(s)
  PROVE  IInv'
<1> USE DEF handleVars
<1>1. /\ now <= now' /\ UNCHANGED <<now, lease, fence, late, lateFence, mine, handleVars, used>>
      /\ pc[s] = "bumpRead" /\ pc'[s] = "bumpCas"
      /\ loc'[s].rev = fence.rev /\ loc'[s].next = fence.val + 1
      /\ \A t \in Sessions \ {s} : pc'[t] = pc[t] /\ loc'[t] = loc[t]
  BY DEF BumpRead, Local, IInv, TypeOK
<1>2. StampInv'
  BY <1>1, StampFrame DEF Written
<1>3. Askers \subseteq Askers'
  BY <1>1, AskersGrow
<1>4. FlightInv'
  BY <1>1, <1>3, FlightFrame DEF InFlight, AcquireWrite, TaskWrite
<1>5. CounterInv'
  <2>1. BumpWrite(s)' = {[expect |-> fence.rev, val |-> fence.val + 1]}
    BY <1>1 DEF BumpWrite
  <2>2. \A t \in Sessions \ {s} : BumpWrite(t)' = BumpWrite(t)
    BY <1>1 DEF BumpWrite
  <2>3. fence.rev \in Nat
    BY DEF IInv, TypeOK
  <2>4. \A t \in Sessions : \A w \in BumpWrite(t)' :
          w.expect <= fence.rev /\ (w.expect = fence.rev => w.val = fence.val + 1)
    BY <2>1, <2>2, <2>3 DEF IInv, CounterInv
  <2> QED BY <1>1, <2>4 DEF IInv, CounterInv
<1>6. TokensUnique' /\ HandleNotAhead' /\ AttemptInv' /\ CreateInv' /\ HandleInv' /\ SlotInv'
  BY <1>1 DEF IInv, TokensUnique, HandleNotAhead, Owns, AttemptInv,
     CreateInv, HandleInv, SlotInv
<1> QED BY <1>2, <1>4, <1>5, <1>6 DEF IInv

\* bump_fencing_token wins its CAS: the token is larger than every other one,
\* and the record is stamped with the clock as it is.
LEMMA MintedStep ==
  ASSUME IInv, TypeOK', NEW s \in Sessions, pc[s] = "bumpCas", fence.rev = loc[s].rev,
         Minted(s), UNCHANGED <<now, lease, late, lateFence, handleVars, used>>
  PROVE  IInv'
<1> USE DEF handleVars
<1>1. /\ now <= now' /\ pc'[s] = "create" /\ loc'[s].rev = 0
      /\ \A t \in Sessions \ {s} : pc'[t] = pc[t] /\ loc'[t] = loc[t] /\ mine'[t] = mine[t]
      /\ mine'[s] = Record(s, loc[s].next) /\ released[s] = "never"
      /\ fence'.val = loc[s].next /\ fence'.rev = fence.rev + 1
      /\ NodeOf[s] \in Nodes
  <2>1. released[s] = "never"
    BY DEF IInv, HandleInv
  <2>2. NodeOf[s] \in Nodes /\ now <= now'
    BY SessionsAssumption DEF IInv, TypeOK
  <2>3. pc \in [Sessions -> {"idle"} \cup Acquiring \cup Returned]
        /\ loc \in [Sessions -> Loc] /\ mine \in [Sessions -> Body]
    BY DEF IInv, TypeOK
  <2> QED BY <2>1, <2>2, <2>3 DEF Minted, Local
<1>2. loc[s].next = fence.val + 1 /\ fence.val \in Nat
  <2>1. [expect |-> loc[s].rev, val |-> loc[s].next] \in BumpWrite(s)
    BY DEF BumpWrite
  <2> QED BY <2>1 DEF IInv, CounterInv, TypeOK
<1>3. mine'[s].op = "Put" /\ mine'[s].node = NodeOf[s] /\ mine'[s].token = fence.val + 1
  BY <1>1, <1>2 DEF Record
<1>4. StampInv'
  <2>1. \A b \in Body : b = Record(s, loc[s].next) => Stampable(b)
    <3>1. /\ ExpiryFor(NodeOf[s]) \in Nat /\ ShownFor(NodeOf[s]) \in Nat
      BY <1>1, ExpiryNat DEF IInv, TypeOK
    <3> QED BY <1>1, <3>1 DEF Record, Stampable
  <2>2. \A b \in Body : b = Record(s, loc[s].next) => Stampable(b)'
    BY <2>1, <1>1, StampLater DEF IInv, TypeOK
  <2> QED BY <1>1, <2>2, StampFrame DEF Written
<1>5. Askers \subseteq Askers'
  BY <1>1, AskersGrow
<1>6. AttemptInv'
  BY <1>1, <1>2, <1>3 DEF IInv, AttemptInv, CounterInv, TypeOK, LeaseWrite, Body
<1>7. FlightInv'
  <2>1. \A w \in AcquireWrite(s)' : Harmless(w)'
    <3>1. lease.rev \in Nat /\ (lease.rev = 0 => lease.body.op # "Put")
      BY DEF IInv, TypeOK, SlotInv
    <3>2. mine'[s].token \notin used'
      BY <1>1, <1>6 DEF AttemptInv
    <3> QED BY <1>1, <1>3, <3>1, <3>2 DEF AcquireWrite, Harmless, Allowed
  <2>2. \A t \in Sessions \ {s} : AcquireWrite(t)' = AcquireWrite(t)
    BY <1>1 DEF AcquireWrite
  <2>3. \A t \in Sessions : \A v \in Workers : TaskWrite(t, v)' = TaskWrite(t, v)
    BY DEF TaskWrite
  <2> QED BY <1>1, <1>5, <2>1, <2>2, <2>3, FlightFrame DEF InFlight
<1>8. CounterInv'
  <2>1. /\ \A t \in Sessions : mine[t].token \in Nat /\ mine[t].token <= fence.val
        /\ \A k \in used : k \in Nat /\ k <= fence.val
        /\ \A w \in late : w.body.token \in Nat /\ w.body.token <= fence.val
    BY DEF IInv, CounterInv, TypeOK, LeaseWrite, Body
  <2>2. /\ \A t \in Sessions : mine'[t].token <= fence'.val
        /\ \A k \in used' : k <= fence'.val
        /\ \A w \in late' : w.body.token <= fence'.val
    BY <1>1, <1>2, <1>3, <2>1
  <2>3. \A t \in Sessions : \A w \in BumpWrite(t)' : w \in BumpWrite(t)
    BY <1>1 DEF BumpWrite
  <2>4. \A t \in Sessions : \A w \in BumpWrite(t) : w.expect \in Nat /\ w.expect <= fence.rev
    BY DEF IInv, CounterInv, BumpWrite, TypeOK, Loc
  <2>5. \A w \in lateFence : w.expect \in Nat /\ w.expect <= fence.rev
    BY DEF IInv, CounterInv, TypeOK, FenceWrite
  <2>6. fence.rev \in Nat /\ fence'.rev = fence.rev + 1
    BY <1>1 DEF IInv, TypeOK
  <2> QED BY <2>2, <2>3, <2>4, <2>5, <2>6 DEF CounterInv
<1>9. TokensUnique'
  <2>1. \A t \in Sessions : mine[t].token \in Nat /\ mine[t].token <= fence.val
    BY DEF IInv, CounterInv, TypeOK, Body
  <2> QED BY <1>1, <1>2, <1>3, <2>1 DEF IInv, TokensUnique
<1>10. CreateInv' /\ HandleInv' /\ SlotInv'
  BY <1>1 DEF IInv, CreateInv, HandleInv, SlotInv
<1>11. HandleNotAhead'
  BY <1>1 DEF IInv, HandleNotAhead, Owns
<1> QED BY <1>4, <1>6, <1>7, <1>8, <1>9, <1>10, <1>11 DEF IInv

\* What any allowed write does to the record and to the history.
LEMMA WriteEffect ==
  ASSUME IInv, NEW b \in Body, Allowed(b), WriteLease(b)
  PROVE  /\ lease'.rev = lease.rev + 1 /\ lease'.body = b
         /\ used \subseteq used' /\ used' \subseteq used \cup {b.token}
         /\ b.op = "Put" => b.token \in used'
         /\ SlotInv'
BY DEF WriteLease, SlotInv, IInv, TypeOK

\* After an allowed write, a handle that was there before shows no later
\* expiry than the record: the write is a renewal in its name, or not its own.
LEMMA NotAheadAfterWrite ==
  ASSUME IInv, TypeOK', NEW b \in Body, Allowed(b), WriteLease(b), mine' = mine,
         \A t \in Sessions : pc'[t] = "handle" =>
           \/ pc[t] = "handle" /\ shown'[t] = shown[t]
           \/ shown'[t] = b.shown
  PROVE  HandleNotAhead'
<1> SUFFICES ASSUME NEW t \in Sessions, pc'[t] = "handle", Owns(t)'
             PROVE  shown'[t] <= lease'.body.shown
  BY DEF HandleNotAhead
<1>1. lease'.body = b /\ b.op = "Put" /\ b.node = NodeOf[t] /\ b.token = mine[t].token
  BY WriteEffect DEF Owns
<1>2. b.shown \in Nat /\ lease.body.shown \in Nat /\ shown[t] \in Nat
  BY DEF IInv, TypeOK, Body
<1>3. CASE shown'[t] = b.shown
  BY <1>1, <1>2, <1>3
<1>4. CASE pc[t] = "handle" /\ shown'[t] = shown[t]
  <2>1. mine[t].token \in used
    BY <1>4 DEF IInv, HandleInv
  <2>2. lease.body.op = "Put" /\ b.node = lease.body.node /\ b.token = lease.body.token
        /\ b.shown >= lease.body.shown
    BY <1>1, <2>1 DEF Allowed
  <2>3. Owns(t)
    BY <1>1, <2>2 DEF Owns
  <2>4. shown[t] <= lease.body.shown
    BY <1>4, <2>3 DEF IInv, HandleNotAhead
  <2> QED BY <1>1, <1>2, <1>4, <2>2, <2>4
<1> QED BY <1>3, <1>4

\* The create collided: the call goes on to read the record.
LEMMA CreateLostStep ==
  ASSUME IInv, TypeOK', NEW s \in Sessions, pc[s] = "create",
         pc' = [pc EXCEPT ![s] = "reclaimRead"],
         UNCHANGED <<now, lease, fence, late, lateFence, loc, mine, handleVars, used>>
  PROVE  IInv'
<1> USE DEF handleVars
<1>1. /\ now <= now' /\ pc'[s] = "reclaimRead"
      /\ \A t \in Sessions \ {s} : pc'[t] = pc[t]
  BY DEF IInv, TypeOK
<1>2. StampInv'
  BY <1>1, StampFrame DEF Written
<1>3. Askers \subseteq Askers'
  BY AskersGrow
<1>4. FlightInv'
  BY <1>1, <1>3, FlightFrame DEF InFlight, AcquireWrite, TaskWrite
<1>5. CounterInv' /\ AttemptInv'
  BY <1>1 DEF IInv, CounterInv, BumpWrite, AttemptInv
<1>6. TokensUnique' /\ HandleNotAhead' /\ CreateInv' /\ HandleInv' /\ SlotInv'
  BY <1>1 DEF IInv, TokensUnique, HandleNotAhead, Owns, CreateInv, HandleInv, SlotInv
<1> QED BY <1>2, <1>4, <1>5, <1>6 DEF IInv

\* The attempt's record is stored, by the create or by the reclaim, and the
\* handle and its renewal task come into being.
LEMMA TakeStep ==
  ASSUME IInv, TypeOK', NEW s \in Sessions, pc[s] \in {"create", "reclaimCas"},
         lease.rev = loc[s].rev, WriteLease(mine[s]), Acquired(s),
         UNCHANGED <<now, fence, late, lateFence>>
  PROVE  IInv'
<1> DEFINE b == mine[s]
<1>1. /\ now <= now' /\ mine[s] \in Body /\ mine' = mine /\ released' = released
      /\ pc'[s] = "handle" /\ shown'[s] = mine[s].shown
      /\ \A t \in Sessions \ {s} :
           pc'[t] = pc[t] /\ loc'[t] = loc[t] /\ shown'[t] = shown[t] /\ task'[t] = task[t]
      /\ task'[s]["auto"] = Asleep(now + SleepFor) /\ task'[s]["host"] = task[s]["host"]
  BY DEF Acquired, Return, IInv, TypeOK, Workers
<1>2. [expect |-> loc[s].rev, body |-> mine[s]] \in AcquireWrite(s)
      /\ [expect |-> loc[s].rev, body |-> mine[s]] \in LeaseWrite
  BY <1>1 DEF AcquireWrite, LeaseWrite, IInv, TypeOK, Loc
<1>3. Allowed(mine[s])
  <2>1. Harmless([expect |-> loc[s].rev, body |-> mine[s]])
    BY <1>2 DEF IInv, FlightInv, InFlight
  <2> QED BY <2>1 DEF Harmless
<1>4. /\ mine[s].op = "Put" /\ mine[s].token # 0 /\ mine[s].token \notin used
  BY DEF IInv, AttemptInv
<1>5. /\ lease'.rev = lease.rev + 1 /\ lease'.body = mine[s] /\ mine[s].token \in used'
      /\ used \subseteq used' /\ used' \subseteq used \cup {mine[s].token} /\ SlotInv'
  BY <1>1, <1>3, <1>4, WriteEffect
<1>6. StampInv'
  <2>1. \A t \in Sessions : \A v \in Workers :
          task'[t][v].body = task[t][v].body \/ task'[t][v].body = NoBody
    BY <1>1 DEF Asleep, Workers
  <2>2. Stampable(NoBody)'
    BY DEF Stampable, NoBody
  <2>3. \A x \in Body : Written(x)' => Written(x) \/ x = NoBody
    BY <1>1, <1>5, <2>1 DEF Written
  <2> QED BY <1>1, <2>2, <2>3, StampFrame DEF Stampable, NoBody
<1>7. FlightInv'
  <2>1. \A t \in Sessions : AcquireWrite(t)' \subseteq AcquireWrite(t)
    BY <1>1 DEF AcquireWrite
  <2>2. \A t \in Sessions : \A v \in Workers : TaskWrite(t, v)' \subseteq TaskWrite(t, v)
    BY <1>1 DEF TaskWrite, Asleep, Workers
  <2> QED BY <1>1, <1>5, <2>1, <2>2, FlightFrame DEF InFlight
<1>8. CounterInv'
  <2>1. \A t \in Sessions : BumpWrite(t)' \subseteq BumpWrite(t)
    BY <1>1 DEF BumpWrite
  <2> QED BY <1>1, <1>5, <2>1 DEF IInv, CounterInv
<1>9. AttemptInv'
  BY <1>1, <1>4, <1>5 DEF IInv, AttemptInv, TokensUnique
<1>10. HandleInv'
  BY <1>1, <1>4, <1>5 DEF IInv, HandleInv, Asleep, Workers
<1>11. HandleNotAhead'
  <2>1. \A t \in Sessions : pc'[t] = "handle" =>
           (pc[t] = "handle" /\ shown'[t] = shown[t]) \/ shown'[t] = mine[s].shown
    BY <1>1
  <2> QED BY <1>1, <1>3, <2>1, NotAheadAfterWrite
<1>12. TokensUnique' /\ CreateInv'
  BY <1>1 DEF IInv, TokensUnique, CreateInv
<1> QED BY <1>5, <1>6, <1>7, <1>8, <1>9, <1>10, <1>11, <1>12 DEF IInv

\* reclaim_if_expired found a marker or a lapsed record: the CAS it is about to
\* send is one the contract allows, for as long as the revision stands.
LEMMA ReclaimArmStep ==
  ASSUME IInv, TypeOK', NEW s \in Sessions, pc[s] = "reclaimRead",
         Reclaimable(lease.body, NodeOf[s]),
         pc' = [pc EXCEPT ![s] = "reclaimCas"], loc' = Local(s, 0, 0, lease.rev, 0),
         UNCHANGED <<now, lease, fence, late, lateFence, mine, handleVars, used>>
  PROVE  IInv'
<1> USE DEF handleVars
<1>1. /\ now <= now' /\ pc'[s] = "reclaimCas" /\ loc'[s].rev = lease.rev
      /\ \A t \in Sessions \ {s} : pc'[t] = pc[t] /\ loc'[t] = loc[t]
      /\ NodeOf[s] \in Nodes
  <2>1. now \in Nat /\ pc \in [Sessions -> {"idle"} \cup Acquiring \cup Returned]
        /\ loc \in [Sessions -> Loc]
    BY DEF IInv, TypeOK
  <2>2. now <= now'
    BY <2>1
  <2>3. NodeOf[s] \in Nodes
    BY SessionsAssumption
  <2> QED BY <2>1, <2>2, <2>3 DEF Local
<1>2. StampInv'
  BY <1>1, StampFrame DEF Written
<1>3. Askers \subseteq Askers'
  BY AskersGrow
<1>4. FlightInv'
  <2>1. /\ mine[s].op = "Put" /\ mine[s].node = NodeOf[s] /\ mine[s].token \notin used
    BY DEF IInv, AttemptInv
  <2>2. lease.body.op # "Put" \/ Expired(lease.body, NodeOf[s])'
    BY DEF Reclaimable, Expired, Secs
  <2>3. \A w \in AcquireWrite(s)' : Harmless(w)'
    BY <1>1, <2>1, <2>2 DEF AcquireWrite, Harmless, Allowed, IInv, TypeOK
  <2>4. \A t \in Sessions \ {s} : AcquireWrite(t)' = AcquireWrite(t)
    BY <1>1 DEF AcquireWrite
  <2>5. \A t \in Sessions : \A v \in Workers : TaskWrite(t, v)' = TaskWrite(t, v)
    BY DEF TaskWrite
  <2> QED BY <1>1, <1>3, <2>3, <2>4, <2>5, FlightFrame DEF InFlight
<1>5. CounterInv' /\ AttemptInv'
  BY <1>1 DEF IInv, CounterInv, BumpWrite, AttemptInv
<1>6. TokensUnique' /\ HandleNotAhead' /\ CreateInv' /\ HandleInv' /\ SlotInv'
  BY <1>1 DEF IInv, TokensUnique, HandleNotAhead, Owns, CreateInv, HandleInv, SlotInv
<1> QED BY <1>2, <1>4, <1>5, <1>6 DEF IInv

\* A worker of a handle moves on to a step with no write in flight; what it had
\* in flight may be abandoned.  The wake-up, the start of a host call, a
\* renewal that lost its CAS or its lease, every end and every failure of a
\* renewal or a release.
LEMMA QuietTask ==
  ASSUME IInv, TypeOK', NEW s \in Sessions, NEW v \in Workers, pc[s] = "handle",
         \A t \in Sessions : \A u \in Workers :
           t # s \/ u # v => task'[t][u] = task[t][u],
         task'[s][v].pc \in {"off", "sleep", "ended", "read", "reread", "relRead"},
         task'[s][v].body = NoBody,
         task'[s][v].pc = "relRead" => released'[s] # "never",
         released[s] # "never" => released'[s] # "never",
         \A t \in Sessions \ {s} : released'[t] = released[t] /\ shown'[t] = shown[t],
         shown'[s] = shown[s] \/ (Owns(s) /\ shown'[s] = lease.body.shown),
         late' \subseteq late \cup TaskWrite(s, v),
         UNCHANGED <<now, lease, fence, lateFence, pc, loc, mine, used>>
  PROVE  IInv'
<1>1. now <= now' /\ now \in Nat
  BY DEF IInv, TypeOK
<1>2. \A w \in TaskWrite(s, v) :
        /\ w.body = task[s][v].body
        /\ w.body.op = "Put" => w.body.token = mine[s].token
        /\ w.body.token = mine[s].token \/ w.body.token = 0
  BY DEF TaskWrite, IInv, HandleInv, Marker
<1>3. StampInv'
  <2>1. \A x \in Body : Written(x)' => Written(x) \/ x = NoBody
    BY <1>2 DEF Written
  <2> QED BY <1>1, <2>1, StampFrame DEF Stampable, NoBody
<1>4. Askers \subseteq Askers'
  BY AskersGrow
<1>5. FlightInv'
  <2>1. \A t \in Sessions : AcquireWrite(t)' = AcquireWrite(t)
    BY DEF AcquireWrite
  <2>2. \A t \in Sessions : \A u \in Workers : TaskWrite(t, u)' \subseteq TaskWrite(t, u)
    BY DEF TaskWrite
  <2> QED BY <1>1, <1>4, <2>1, <2>2, FlightFrame DEF InFlight
<1>6. CounterInv'
  <2>1. \A t \in Sessions : BumpWrite(t)' = BumpWrite(t)
    BY DEF BumpWrite
  <2>2. \A w \in late' : w.body.token <= fence.val
    <3>1. 0 <= fence.val /\ mine[s].token <= fence.val
      BY DEF IInv, CounterInv, TypeOK
    <3> QED BY <1>2, <3>1 DEF IInv, CounterInv
  <2> QED BY <2>1, <2>2 DEF IInv, CounterInv
<1>7. AttemptInv'
  <2>1. \A t \in Sessions : pc[t] \in {"create", "reclaimRead", "reclaimCas"} =>
          t # s /\ mine[t].token # mine[s].token
    BY DEF IInv, AttemptInv, TokensUnique
  <2> QED BY <1>2, <2>1 DEF IInv, AttemptInv
<1>8. HandleInv'
  BY DEF IInv, HandleInv
<1>9. HandleNotAhead'
  <2>1. lease.body.shown \in Nat
    BY DEF IInv, TypeOK, Body
  <2> QED BY <2>1 DEF IInv, HandleNotAhead, Owns
<1>10. TokensUnique' /\ CreateInv' /\ SlotInv'
  BY DEF IInv, TokensUnique, CreateInv, SlotInv
<1> QED BY <1>3, <1>5, <1>6, <1>7, <1>8, <1>9, <1>10 DEF IInv

\* renew_inner or release_async has read a record it owns: the CAS it is about
\* to send is one the contract allows, for as long as the revision stands.
LEMMA ArmStep ==
  ASSUME IInv, TypeOK', NEW s \in Sessions, NEW v \in Workers, pc[s] = "handle", Owns(s),
         \A t \in Sessions : \A u \in Workers :
           t # s \/ u # v => task'[t][u] = task[t][u],
         \/ task'[s][v].pc = "cas" /\ task'[s][v].body = Stamped(lease.body, s)
         \/ task'[s][v].pc = "relCas" /\ task'[s][v].body = Marker /\ released[s] # "never",
         task'[s][v].rev = lease.rev,
         UNCHANGED <<now, lease, fence, late, lateFence, pc, loc, mine, shown, released, used>>
  PROVE  IInv'
<1> DEFINE b == Stamped(lease.body, s)
<1>1. now <= now' /\ now \in Nat /\ NodeOf[s] \in Nodes /\ lease.body \in Body
      /\ lease.rev \in Nat
  BY SessionsAssumption DEF IInv, TypeOK
<1>2. /\ ExpiryFor(NodeOf[s]) \in Nat /\ ShownFor(NodeOf[s]) \in Nat
  BY <1>1, ExpiryNat
<1>3. /\ b.op = "Put" /\ b.node = NodeOf[s] /\ b.token = mine[s].token
      /\ b.exp = ExpiryFor(NodeOf[s]) /\ b.shown = ShownFor(NodeOf[s])
      /\ b.node = lease.body.node /\ b.token = lease.body.token /\ lease.body.op = "Put"
  BY DEF Stamped, Owns
<1>4. Stampable(b)
  BY <1>1, <1>2, <1>3 DEF Stampable
<1>5. b.exp >= lease.body.exp /\ b.shown >= lease.body.shown
  <2>1. Stampable(lease.body)
    BY <1>1 DEF IInv, StampInv, Written
  <2>2. lease.body.exp \in Nat /\ lease.body.shown \in Nat
    BY <1>1 DEF Body
  <2> QED BY <1>2, <1>3, <2>1, <2>2 DEF Stampable
<1>6. Allowed(b)
  BY <1>3, <1>5 DEF Allowed
<1> HIDE DEF b
<1>7. released[s] # "never" => Allowed(Marker)
  <2>1. released[s] # "never" => lease.body.token \in Askers
    BY DEF Owns, Askers
  <2> QED BY <1>3, <2>1 DEF Allowed, Marker
<1>8. StampInv'
  <2>1. \A x \in Body : Written(x)' => Written(x) \/ x = b \/ x = Marker
    BY DEF Written, b
  <2>2. \A x \in Body : x = b \/ x = Marker => Stampable(x)
    BY <1>4 DEF Stampable, Marker
  <2>3. \A x \in Body : x = b \/ x = Marker => Stampable(x)'
    BY <1>1, <2>2, StampLater
  <2> QED BY <1>1, <2>1, <2>3, StampFrame
<1>9. Askers = Askers'
  BY DEF Askers
<1>10. FlightInv'
  <2>1. \A w \in LeaseWrite : w \in TaskWrite(s, v)' => Harmless(w)
    BY <1>1, <1>6, <1>7 DEF TaskWrite, Harmless, b
  <2>2. \A w \in LeaseWrite : w \in TaskWrite(s, v)' => Harmless(w)'
    BY <1>1, <1>9, <2>1, HarmlessLater DEF IInv
  <2>3. \A t \in Sessions : \A u \in Workers :
          t # s \/ u # v => TaskWrite(t, u)' = TaskWrite(t, u)
    BY DEF TaskWrite
  <2>4. \A t \in Sessions : AcquireWrite(t)' = AcquireWrite(t)
    BY DEF AcquireWrite
  <2> QED BY <1>1, <1>9, <2>2, <2>3, <2>4, FlightFrame DEF InFlight
<1>11. HandleInv'
  <2>1. /\ task'[s][v].pc \in {"relRead", "relCas"} => released[s] # "never"
        /\ task'[s][v].pc = "relCas" => task'[s][v].body = Marker
        /\ task'[s][v].pc = "cas" => task'[s][v].body.token = mine[s].token
    BY <1>3 DEF b
  <2>2. ASSUME NEW t \in Sessions, NEW u \in Workers
        PROVE  /\ task'[t][u].pc # "off" => pc[t] = "handle"
               /\ task'[t][u].pc \in {"relRead", "relCas"} => released[t] # "never"
               /\ task'[t][u].pc = "relCas" => task'[t][u].body = Marker
               /\ task'[t][u].pc = "cas" => task'[t][u].body.token = mine[t].token
    <3>1. CASE t = s /\ u = v
      BY <2>1, <3>1
    <3>2. CASE t # s \/ u # v
      <4>1. task'[t][u] = task[t][u]
        BY <3>2
      <4> QED BY <4>1 DEF IInv, HandleInv
    <3> QED BY <3>1, <3>2
  <2>3. \A t \in Sessions :
          /\ pc[t] = "handle" => mine[t].token # 0 /\ mine[t].token \in used
          /\ released[t] # "never" => pc[t] \in {"handle", "dropped", "crashed"}
    BY DEF IInv, HandleInv
  <2> QED BY <2>2, <2>3 DEF HandleInv
<1>12. CounterInv' /\ AttemptInv' /\ TokensUnique' /\ CreateInv' /\ SlotInv' /\ HandleNotAhead'
  BY DEF IInv, CounterInv, BumpWrite, AttemptInv, TokensUnique, CreateInv, SlotInv,
         HandleNotAhead, Owns
<1> QED BY <1>8, <1>10, <1>11, <1>12 DEF IInv

\* The CAS of a renewal or a release is applied.
LEMMA TaskWriteStep ==
  ASSUME IInv, TypeOK', NEW s \in Sessions, NEW v \in Workers,
         task[s][v].pc \in {"cas", "relCas"}, lease.rev = task[s][v].rev,
         WriteLease(task[s][v].body),
         \A t \in Sessions : \A u \in Workers :
           t # s \/ u # v => task'[t][u] = task[t][u],
         task'[s][v].pc \in {"off", "sleep"}, task'[s][v].body = NoBody,
         \A t \in Sessions : released[t] # "never" => released'[t] # "never",
         \A t \in Sessions \ {s} : released'[t] = released[t] /\ shown'[t] = shown[t],
         shown'[s] = shown[s] \/ shown'[s] = task[s][v].body.shown,
         UNCHANGED <<now, fence, late, lateFence, pc, loc, mine>>
  PROVE  IInv'
<1>1. now <= now' /\ task[s][v].body \in Body /\ task[s][v].rev \in Nat
  BY DEF IInv, TypeOK, Task
<1> DEFINE b == task[s][v].body
<1>2. /\ pc[s] = "handle"
      /\ b.op = "Put" => b.token = mine[s].token
      /\ mine[s].token # 0 /\ mine[s].token \in used
  BY DEF IInv, HandleInv, Marker
<1>3. Allowed(b)
  <2>1. /\ [expect |-> task[s][v].rev, body |-> b] \in LeaseWrite
        /\ [expect |-> task[s][v].rev, body |-> b] \in TaskWrite(s, v)
    BY <1>1 DEF LeaseWrite, TaskWrite
  <2>2. Harmless([expect |-> task[s][v].rev, body |-> b])
    BY <2>1 DEF IInv, FlightInv, InFlight
  <2> QED BY <2>2 DEF Harmless
<1>4. lease'.rev = lease.rev + 1 /\ lease'.body = b /\ SlotInv'
  BY <1>1, <1>3, WriteEffect
<1>5. used' = used
  BY <1>2 DEF WriteLease
<1> HIDE DEF b
<1>6. StampInv'
  <2>1. \A x \in Body : Written(x)' => Written(x) \/ x = NoBody
    BY <1>4 DEF Written, b
  <2> QED BY <1>1, <2>1, StampFrame DEF Stampable, NoBody
<1>7. FlightInv'
  <2>1. \A t \in Sessions : AcquireWrite(t)' = AcquireWrite(t)
    BY DEF AcquireWrite
  <2>2. \A t \in Sessions : \A u \in Workers : TaskWrite(t, u)' \subseteq TaskWrite(t, u)
    BY DEF TaskWrite
  <2> QED BY <1>1, <1>4, <2>1, <2>2, FlightFrame DEF InFlight
<1>8. CounterInv' /\ AttemptInv' /\ TokensUnique' /\ CreateInv'
  BY <1>5 DEF IInv, CounterInv, BumpWrite, AttemptInv, TokensUnique, CreateInv
<1>9. HandleInv'
  BY <1>2, <1>5 DEF IInv, HandleInv
<1>10. HandleNotAhead'
  <2>1. \A t \in Sessions : pc'[t] = "handle" =>
           (pc[t] = "handle" /\ shown'[t] = shown[t]) \/ shown'[t] = b.shown
    BY DEF b
  <2> QED BY <1>1, <1>3, <2>1, NotAheadAfterWrite DEF b
<1> QED BY <1>4, <1>6, <1>7, <1>8, <1>9, <1>10 DEF IInv

\* The handle goes away, dropped or with its process: its writes in flight are
\* abandoned.
LEMMA StopHandle ==
  ASSUME IInv, TypeOK', NEW s \in Sessions, pc[s] = "handle",
         pc'[s] \in {"dropped", "crashed"},
         \A t \in Sessions \ {s} : pc'[t] = pc[t] /\ loc'[t] = loc[t] /\ task'[t] = task[t],
         \A u \in Workers : task'[s][u].pc = "off",
         \A u \in Workers : task'[s][u].body = task[s][u].body \/ task'[s][u].body = NoBody,
         \A w \in late' : w \in late \/ \E u \in Workers : w \in TaskWrite(s, u),
         UNCHANGED <<now, lease, fence, lateFence, mine, shown, released, used>>
  PROVE  IInv'
<1>1. now <= now' /\ now \in Nat
  BY DEF IInv, TypeOK
<1>2. \A u \in Workers : \A w \in TaskWrite(s, u) :
        /\ w.body = task[s][u].body
        /\ w.body.op = "Put" => w.body.token = mine[s].token
        /\ w.body.token = mine[s].token \/ w.body.token = 0
  BY DEF TaskWrite, IInv, HandleInv, Marker
<1>3. StampInv'
  <2>1. \A x \in Body : Written(x)' => Written(x) \/ x = NoBody
    BY <1>2 DEF Written
  <2> QED BY <1>1, <2>1, StampFrame DEF Stampable, NoBody
<1>4. Askers \subseteq Askers'
  BY AskersGrow
<1>5. FlightInv'
  <2>1. \A t \in Sessions : AcquireWrite(t)' \subseteq AcquireWrite(t)
    BY DEF AcquireWrite
  <2>2. \A t \in Sessions : \A u \in Workers : TaskWrite(t, u)' \subseteq TaskWrite(t, u)
    BY DEF TaskWrite
  <2> QED BY <1>1, <1>4, <2>1, <2>2, FlightFrame DEF InFlight
<1>6. CounterInv'
  <2>1. \A t \in Sessions : BumpWrite(t)' \subseteq BumpWrite(t)
    BY DEF BumpWrite
  <2>2. \A w \in late' : w.body.token <= fence.val
    <3>1. 0 <= fence.val /\ mine[s].token <= fence.val
      BY DEF IInv, CounterInv, TypeOK
    <3> QED BY <1>2, <3>1 DEF IInv, CounterInv
  <2> QED BY <2>1, <2>2 DEF IInv, CounterInv
<1>7. AttemptInv'
  <2>1. \A t \in Sessions : pc[t] \in {"create", "reclaimRead", "reclaimCas"} =>
          t # s /\ mine[t].token # mine[s].token
    BY DEF IInv, AttemptInv, TokensUnique
  <2> QED BY <1>2, <2>1 DEF IInv, AttemptInv
<1>8. HandleInv'
  BY DEF IInv, HandleInv
<1>9. HandleNotAhead' /\ TokensUnique' /\ CreateInv' /\ SlotInv'
  BY DEF IInv, HandleNotAhead, Owns, TokensUnique, CreateInv, SlotInv
<1> QED BY <1>3, <1>5, <1>6, <1>7, <1>8, <1>9 DEF IInv

\* The server gets to an abandoned lease write.
LEMMA DeliverLeaseStep ==
  ASSUME IInv, TypeOK', DeliverLease
  PROVE  IInv'
<1> USE DEF acquireVars, handleVars
<1>1. PICK w \in late :
        /\ late' = late \ {w}
        /\ IF lease.rev = w.expect THEN WriteLease(w.body) ELSE UNCHANGED <<lease, used>>
  BY DEF DeliverLease
<1>2. now <= now' /\ w \in LeaseWrite /\ w.body \in Body
      /\ UNCHANGED <<now, fence, lateFence, acquireVars, handleVars>>
  BY DEF DeliverLease, IInv, TypeOK, LeaseWrite
<1>3. \A t \in Sessions : AcquireWrite(t)' = AcquireWrite(t) /\ BumpWrite(t)' = BumpWrite(t)
  BY <1>2 DEF AcquireWrite, BumpWrite
<1>4. \A t \in Sessions : \A u \in Workers : TaskWrite(t, u)' = TaskWrite(t, u)
  BY <1>2 DEF TaskWrite
<1>5. Askers' = Askers
  BY <1>2 DEF Askers
<1>6. CASE lease.rev # w.expect
  <2>1. UNCHANGED <<lease, used>>
    BY <1>1, <1>6
  <2>2. StampInv'
    BY <1>1, <1>2, <2>1, StampFrame DEF Written
  <2>3. FlightInv'
    BY <1>1, <1>2, <1>3, <1>4, <1>5, <2>1, FlightFrame DEF InFlight
  <2>4. CounterInv' /\ AttemptInv' /\ TokensUnique' /\ CreateInv' /\ SlotInv'
    BY <1>1, <1>2, <1>3, <2>1 DEF IInv, CounterInv, AttemptInv, TokensUnique, CreateInv, SlotInv
  <2>5. HandleInv' /\ HandleNotAhead'
    BY <1>2, <2>1 DEF IInv, HandleInv, HandleNotAhead, Owns
  <2> QED BY <2>2, <2>3, <2>4, <2>5 DEF IInv
<1>7. CASE lease.rev = w.expect
  <2>1. WriteLease(w.body) /\ Allowed(w.body)
    BY <1>1, <1>2, <1>7 DEF IInv, FlightInv, InFlight, Harmless
  <2>2. lease'.rev = lease.rev + 1 /\ lease'.body = w.body /\ SlotInv' /\ used \subseteq used'
    BY <1>2, <2>1, WriteEffect
  <2>3. used' = used \/ (w.body.op = "Put" /\ used' = used \cup {w.body.token})
    BY <2>1 DEF WriteLease
  <2>4. StampInv'
    BY <1>1, <1>2, <2>2, StampFrame DEF Written
  <2>5. FlightInv'
    BY <1>1, <1>2, <1>3, <1>4, <2>2, FlightFrame DEF InFlight
  <2>6. CounterInv'
    BY <1>1, <1>2, <1>3, <2>3 DEF IInv, CounterInv
  <2>7. AttemptInv'
    BY <1>1, <1>2, <2>3 DEF IInv, AttemptInv
  <2>8. TokensUnique' /\ CreateInv' /\ HandleInv'
    BY <1>2, <2>2 DEF IInv, TokensUnique, CreateInv, HandleInv
  <2>9. HandleNotAhead'
    BY <1>2, <2>1, NotAheadAfterWrite
  <2> QED BY <2>2, <2>4, <2>5, <2>6, <2>7, <2>8, <2>9 DEF IInv
<1> QED BY <1>6, <1>7

-----------------------------------------------------------------------------
(* The invariant holds in every reachable state.                           *)

\* The initial state satisfies the invariant, with an empty bucket and with an
\* undated record of an older version.
LEMMA InitInv == Init => IInv
<1> SUFFICES ASSUME Init PROVE IInv
  OBVIOUS
<1>1. TypeOK
  BY InitType
<1>2. /\ late = {} /\ lateFence = {}
      /\ \A s \in Sessions :
           /\ pc[s] = "idle" /\ mine[s] = NoBody /\ released[s] = "never"
           /\ \A v \in Workers : task[s][v] = At("off")
  BY DEF Init
<1>3. \A s \in Sessions :
        /\ mine[s].token = 0 /\ mine[s].op = "None"
        /\ AcquireWrite(s) = {} /\ BumpWrite(s) = {}
        /\ \A v \in Workers : TaskWrite(s, v) = {} /\ task[s][v].pc = "off"
                              /\ task[s][v].body = NoBody
  BY <1>2 DEF NoBody, AcquireWrite, BumpWrite, TaskWrite, At
<1>4. \/ /\ lease.body = NoBody /\ lease.rev = 0 /\ fence.val = 0 /\ used = {}
      \/ /\ lease.body = Undated /\ lease.rev = 1 /\ fence.val = 1 /\ used = {1}
         /\ LegacyHolder \in Nodes
  BY SessionsAssumption DEF Init
<1>5. StampInv
  <2>1. Stampable(NoBody)
    BY DEF Stampable, NoBody
  <2>2. LegacyHolder \in Nodes => Stampable(Undated)
    <3>1. LegacyHolder \in Nodes =>
            ExpiryFor(LegacyHolder) \in Nat /\ ShownFor(LegacyHolder) \in Nat
      BY <1>1, ExpiryNat DEF TypeOK
    <3> QED BY <3>1 DEF Stampable, Undated
  <2> QED BY <1>2, <1>3, <1>4, <2>1, <2>2 DEF StampInv, Written
<1>6. CounterInv
  BY <1>2, <1>3, <1>4 DEF CounterInv
<1>7. FlightInv /\ TokensUnique /\ HandleNotAhead
  BY <1>2, <1>3 DEF FlightInv, InFlight, TokensUnique, HandleNotAhead
<1>8. AttemptInv /\ CreateInv /\ HandleInv
  BY <1>2, <1>3 DEF AttemptInv, CreateInv, HandleInv
<1>9. SlotInv
  BY <1>4 DEF SlotInv, NoBody, Undated
<1> QED BY <1>1, <1>5, <1>6, <1>7, <1>8, <1>9 DEF IInv

\* An attempt that ends in Held keeps the invariant.
LEMMA HeldStep ==
  ASSUME IInv, TypeOK', NEW s \in Sessions, pc[s] \in Working, Held(s),
         late' \subseteq late \cup AcquireWrite(s),
         lateFence' \subseteq lateFence \cup BumpWrite(s),
         UNCHANGED <<now, fence>>
  PROVE  IInv'
<1>1. /\ pc'[s] \in {"sleep", "none", "timeout"}
      /\ \A t \in Sessions \ {s} : pc'[t] = pc[t] /\ loc'[t] = loc[t]
  BY DEF Held, Return, Local, IInv, TypeOK
<1>2. UNCHANGED <<lease, mine, handleVars, used>>
  BY DEF Held
<1> QED BY <1>1, <1>2, QuietMove DEF Acquiring, handleVars

\* Every step of an acquire call keeps the invariant.
LEMMA AcquireInv ==
  ASSUME IInv, TypeOK', NEW s \in Sessions, AcquireStep(s)
  PROVE  IInv'
<1>1. CASE BumpRead(s)
  BY <1>1, BumpReadStep
<1>2. CASE BumpCas(s)
  <2>1. CASE fence.rev = loc[s].rev
    BY <1>2, <2>1, MintedStep DEF BumpCas
  <2>2. CASE fence.rev # loc[s].rev
    <3>1. /\ pc'[s] \in {"bumpRead", "err"}
          /\ \A t \in Sessions \ {s} : pc'[t] = pc[t] /\ loc'[t] = loc[t]
          /\ UNCHANGED <<fence, mine>>
      BY <1>2, <2>2 DEF BumpCas, BumpLost, Return, Local, IInv, TypeOK
    <3> QED BY <1>2, <3>1, QuietMove DEF BumpCas, Acquiring, Working, handleVars
  <2> QED BY <2>1, <2>2
<1>3. CASE Create(s)
  <2>1. CASE lease.rev = 0
    <3>1. lease.rev = loc[s].rev
      BY <1>3, <2>1 DEF Create, IInv, CreateInv
    <3> QED BY <1>3, <2>1, <3>1, TakeStep DEF Create
  <2>2. CASE lease.rev # 0
    BY <1>3, <2>2, CreateLostStep DEF Create
  <2> QED BY <2>1, <2>2
<1>4. CASE ReclaimRead(s)
  <2>1. CASE Reclaimable(lease.body, NodeOf[s])
    BY <1>4, <2>1, ReclaimArmStep DEF ReclaimRead
  <2>2. CASE ~Reclaimable(lease.body, NodeOf[s])
    BY <1>4, <2>2, HeldStep DEF ReclaimRead, Working
  <2> QED BY <2>1, <2>2
<1>5. CASE ReclaimCas(s)
  <2>1. CASE lease.rev = loc[s].rev
    BY <1>5, <2>1, TakeStep DEF ReclaimCas
  <2>2. CASE lease.rev # loc[s].rev
    BY <1>5, <2>2, HeldStep DEF ReclaimCas, Working
  <2> QED BY <2>1, <2>2
<1>6. CASE Retry(s)
  <2>1. /\ pc'[s] = "bumpRead"
        /\ \A t \in Sessions \ {s} : pc'[t] = pc[t] /\ loc'[t] = loc[t]
    BY <1>6 DEF Retry, Local, IInv, TypeOK
  <2> QED BY <1>6, <2>1, QuietMove DEF Retry, Acquiring, handleVars
<1> QED BY <1>1, <1>2, <1>3, <1>4, <1>5, <1>6 DEF AcquireStep

\* A worker that is done, asleep or at the start of a call has nothing to write.
LEMMA Quiet ==
  /\ \A p \in {"off", "ended", "read", "reread", "relRead"} :
       At(p).pc = p /\ At(p).body = NoBody
  /\ \A t \in Nat : Asleep(t).pc = "sleep" /\ Asleep(t).body = NoBody
BY DEF At, Asleep

\* What a renewal leaves behind has nothing to write.
LEMMA AfterQuiet ==
  ASSUME TypeOK, NEW w \in Workers, NEW e \in BOOLEAN
  PROVE  /\ After(w, e).pc \in {"off", "sleep", "ended"} /\ After(w, e).body = NoBody
         /\ ~e => After(w, e).pc \in {"off", "sleep"}
<1>1. now + SleepFor \in Nat
  BY SleepNat DEF TypeOK
<1> QED BY <1>1, Quiet DEF After

\* Every step of a renewal keeps the invariant.
LEMMA RenewInv ==
  ASSUME IInv, TypeOK', NEW s \in Sessions, NEW v \in Workers, RenewStep(s, v)
  PROVE  IInv'
<1> USE DEF acquireVars
<1>1. TypeOK /\ pc[s] = "handle"
  BY DEF RenewStep, RenewRead, RenewCas, RenewReread, IInv, HandleInv
<1>2. CASE RenewRead(s, v)
  <2>1. CASE Owns(s)
    <3> DEFINE x == [pc |-> "cas", rev |-> lease.rev, body |-> Stamped(lease.body, s), wake |-> 0]
    <3>1. task' = [task EXCEPT ![s][v] = x]
      BY <1>2, <2>1 DEF RenewRead
    <3>2. x.pc = "cas" /\ x.body = Stamped(lease.body, s) /\ x.rev = lease.rev
      OBVIOUS
    <3> HIDE DEF x
    <3>3. /\ task'[s][v] = x
          /\ \A t \in Sessions : \A u \in Workers : t # s \/ u # v => task'[t][u] = task[t][u]
      BY <1>1, <3>1 DEF TypeOK
    <3> QED BY <1>1, <1>2, <2>1, <3>2, <3>3, ArmStep DEF RenewRead
  <2>2. CASE ~Owns(s)
    <3>1. task' = [task EXCEPT ![s][v] = After(v, TRUE)]
      BY <1>2, <2>2 DEF RenewRead
    <3>2. /\ task'[s][v] = After(v, TRUE)
          /\ \A t \in Sessions : \A u \in Workers : t # s \/ u # v => task'[t][u] = task[t][u]
      BY <1>1, <3>1 DEF TypeOK
    <3>3. task'[s][v].pc \in {"off", "sleep", "ended"} /\ task'[s][v].body = NoBody
      BY <1>1, <3>2, AfterQuiet
    <3> QED BY <1>1, <1>2, <3>2, <3>3, QuietTask DEF RenewRead
  <2> QED BY <2>1, <2>2
<1>3. CASE RenewCas(s, v)
  <2>1. CASE lease.rev = task[s][v].rev
    <3>1. task' = [task EXCEPT ![s][v] = After(v, FALSE)]
      BY <1>3, <2>1 DEF RenewCas
    <3>2. /\ task'[s][v] = After(v, FALSE)
          /\ \A t \in Sessions : \A u \in Workers : t # s \/ u # v => task'[t][u] = task[t][u]
      BY <1>1, <3>1 DEF TypeOK
    <3>3. task'[s][v].pc \in {"off", "sleep"} /\ task'[s][v].body = NoBody
      BY <1>1, <3>2, AfterQuiet
    <3>4. /\ shown'[s] = task[s][v].body.shown
          /\ \A t \in Sessions \ {s} : shown'[t] = shown[t]
      BY <1>1, <1>3, <2>1 DEF RenewCas, TypeOK
    <3> QED BY <1>3, <2>1, <3>2, <3>3, <3>4, TaskWriteStep DEF RenewCas
  <2>2. CASE lease.rev # task[s][v].rev
    <3>1. task' = [task EXCEPT ![s][v] = At("reread")]
      BY <1>3, <2>2 DEF RenewCas
    <3>2. /\ task'[s][v] = At("reread")
          /\ \A t \in Sessions : \A u \in Workers : t # s \/ u # v => task'[t][u] = task[t][u]
      BY <1>1, <3>1 DEF TypeOK
    <3>3. task'[s][v].pc = "reread" /\ task'[s][v].body = NoBody
      BY <3>2, Quiet
    <3> QED BY <1>1, <1>3, <2>2, <3>2, <3>3, QuietTask DEF RenewCas
  <2> QED BY <2>1, <2>2
<1>4. CASE RenewReread(s, v)
  <2>1. task' = [task EXCEPT ![s][v] = After(v, ~Owns(s))]
    BY <1>4 DEF RenewReread
  <2>2. /\ task'[s][v] = After(v, ~Owns(s))
        /\ \A t \in Sessions : \A u \in Workers : t # s \/ u # v => task'[t][u] = task[t][u]
    BY <1>1, <2>1 DEF TypeOK
  <2>3. task'[s][v].pc \in {"off", "sleep", "ended"} /\ task'[s][v].body = NoBody
    BY <1>1, <2>2, AfterQuiet
  <2>4. /\ shown'[s] = shown[s] \/ (Owns(s) /\ shown'[s] = lease.body.shown)
        /\ \A t \in Sessions \ {s} : shown'[t] = shown[t]
    BY <1>1, <1>4 DEF RenewReread, TypeOK
  <2> QED BY <1>1, <1>4, <2>2, <2>3, <2>4, QuietTask DEF RenewReread
<1> QED BY <1>2, <1>3, <1>4 DEF RenewStep

\* Every step of the renewal task and of the host's calls keeps the invariant.
LEMMA HandleStepInv ==
  ASSUME IInv, TypeOK', NEW s \in Sessions, AutoStep(s) \/ HostStep(s)
  PROVE  IInv'
<1> USE DEF acquireVars
<1>1. TypeOK /\ "auto" \in Workers /\ "host" \in Workers
  BY DEF IInv, Workers
<1>2. CASE Wake(s)
  <2>1. task' = [task EXCEPT ![s]["auto"] = At("read")] /\ task[s]["auto"].pc # "off"
    BY <1>2 DEF Wake
  <2>2. /\ task'[s]["auto"] = At("read") /\ pc[s] = "handle"
        /\ \A t \in Sessions : \A u \in Workers : t # s \/ u # "auto" => task'[t][u] = task[t][u]
    BY <1>1, <2>1 DEF TypeOK, IInv, HandleInv
  <2>3. task'[s]["auto"].pc = "read" /\ task'[s]["auto"].body = NoBody
    BY <2>2, Quiet
  <2> QED BY <1>1, <1>2, <2>2, <2>3, QuietTask DEF Wake
<1>3. CASE ReleaseRead(s)
  <2>1. pc[s] = "handle" /\ released[s] # "never"
    BY <1>1, <1>3 DEF ReleaseRead, IInv, HandleInv
  <2>2. CASE Owns(s)
    <3> DEFINE x == [pc |-> "relCas", rev |-> lease.rev, body |-> Marker, wake |-> 0]
    <3>1. task' = [task EXCEPT ![s]["host"] = x]
      BY <1>3, <2>2 DEF ReleaseRead
    <3>2. x.pc = "relCas" /\ x.body = Marker /\ x.rev = lease.rev
      OBVIOUS
    <3> HIDE DEF x
    <3>3. /\ task'[s]["host"] = x
          /\ \A t \in Sessions : \A u \in Workers :
               t # s \/ u # "host" => task'[t][u] = task[t][u]
      BY <1>1, <3>1 DEF TypeOK
    <3> QED BY <1>1, <1>3, <2>1, <2>2, <3>2, <3>3, ArmStep DEF ReleaseRead
  <2>3. CASE ~Owns(s)
    <3>1. /\ task' = [task EXCEPT ![s]["host"] = At("off")]
          /\ released' = [released EXCEPT ![s] = "ok"]
      BY <1>3, <2>3 DEF ReleaseRead, ReleaseReturn
    <3>2. /\ task'[s]["host"] = At("off")
          /\ \A t \in Sessions : \A u \in Workers :
               t # s \/ u # "host" => task'[t][u] = task[t][u]
          /\ released'[s] = "ok" /\ \A t \in Sessions \ {s} : released'[t] = released[t]
      BY <1>1, <3>1 DEF TypeOK
    <3>3. task'[s]["host"].pc = "off" /\ task'[s]["host"].body = NoBody
      BY <3>2, Quiet
    <3> QED BY <1>1, <1>3, <2>1, <3>2, <3>3, QuietTask DEF ReleaseRead
  <2> QED BY <2>2, <2>3
<1>4. CASE ReleaseCas(s)
  <2>1. pc[s] = "handle" /\ released[s] # "never" /\ task[s]["host"].body = Marker
    BY <1>1, <1>4 DEF ReleaseCas, IInv, HandleInv
  <2>2. /\ task' = [task EXCEPT ![s]["host"] = At("off")]
        /\ \E r \in {"ok", "err"} : released' = [released EXCEPT ![s] = r]
    BY <1>4 DEF ReleaseCas, ReleaseReturn
  <2>3. /\ task'[s]["host"] = At("off")
        /\ \A t \in Sessions : \A u \in Workers :
             t # s \/ u # "host" => task'[t][u] = task[t][u]
        /\ released'[s] # "never" /\ \A t \in Sessions \ {s} : released'[t] = released[t]
    BY <1>1, <2>2 DEF TypeOK
  <2>4. task'[s]["host"].pc = "off" /\ task'[s]["host"].body = NoBody
    BY <2>3, Quiet
  <2>5. CASE lease.rev = task[s]["host"].rev
    BY <1>1, <1>4, <2>1, <2>3, <2>4, <2>5, TaskWriteStep DEF ReleaseCas
  <2>6. CASE lease.rev # task[s]["host"].rev
    BY <1>1, <1>4, <2>1, <2>3, <2>4, <2>6, QuietTask DEF ReleaseCas
  <2> QED BY <2>5, <2>6
<1> QED BY <1>1, <1>2, <1>3, <1>4, RenewInv DEF AutoStep, HostStep

\* The host's choices and every failure keep the invariant.
LEMMA ChoiceInv ==
  ASSUME IInv, TypeOK', NEW s \in Sessions, Choice(s)
  PROVE  IInv'
<1> USE DEF acquireVars
<1>1. TypeOK /\ "auto" \in Workers /\ "host" \in Workers
  BY DEF IInv, Workers
<1>2. CASE Begin(s)
  <2>1. /\ pc'[s] = "bumpRead"
        /\ \A t \in Sessions \ {s} : pc'[t] = pc[t] /\ loc'[t] = loc[t]
    BY <1>1, <1>2 DEF Begin, TypeOK
  <2> QED BY <1>2, <2>1, QuietMove DEF Begin, handleVars
<1>3. CASE HostRenew(s) \/ HostRelease(s)
  <2>1. PICK p \in {"read", "relRead"}, r \in {released[s], "pending"} :
          HostCall(s, p, r) /\ (p = "relRead" => r = "pending")
    BY <1>3 DEF HostRenew, HostRelease
  <2>2. /\ task' = [task EXCEPT ![s]["host"] = At(p)]
        /\ released' = [released EXCEPT ![s] = r] /\ pc[s] = "handle"
    BY <2>1 DEF HostCall
  <2>3. /\ task'[s]["host"] = At(p)
        /\ \A t \in Sessions : \A u \in Workers :
             t # s \/ u # "host" => task'[t][u] = task[t][u]
        /\ released'[s] = r /\ \A t \in Sessions \ {s} : released'[t] = released[t]
    BY <1>1, <2>2 DEF TypeOK
  <2>4. task'[s]["host"].pc = p /\ task'[s]["host"].body = NoBody
    BY <2>3, Quiet
  <2>5. released[s] # "never" => released'[s] # "never"
    BY <2>1, <2>3
  <2>6. UNCHANGED <<now, lease, fence, late, lateFence, pc, loc, mine, shown, used>>
    BY <2>1 DEF HostCall
  <2> QED BY <1>1, <2>1, <2>2, <2>3, <2>4, <2>5, <2>6, QuietTask
<1>4. CASE DropHandle(s)
  <2>1. /\ pc[s] = "handle" /\ pc'[s] = "dropped" /\ task[s]["host"].pc = "off"
        /\ \A t \in Sessions \ {s} : pc'[t] = pc[t] /\ loc'[t] = loc[t] /\ task'[t] = task[t]
        /\ task'[s]["auto"] = At("off") /\ task'[s]["host"] = task[s]["host"]
    BY <1>1, <1>4 DEF DropHandle, TypeOK
  <2>2. \A u \in Workers : /\ task'[s][u].pc = "off"
                           /\ task'[s][u].body = task[s][u].body \/ task'[s][u].body = NoBody
    BY <2>1, Quiet DEF Workers
  <2>3. \A w \in late' : w \in late \/ \E u \in Workers : w \in TaskWrite(s, u)
    BY <1>1, <1>4 DEF DropHandle
  <2> QED BY <1>4, <2>1, <2>2, <2>3, StopHandle DEF DropHandle
<1>5. CASE AcquireFail(s)
  <2>1. CASE pc[s] = "reclaimCas"
    BY <1>5, <2>1, HeldStep DEF AcquireFail
  <2>2. CASE pc[s] # "reclaimCas"
    <3>1. /\ pc'[s] = "err"
          /\ \A t \in Sessions \ {s} : pc'[t] = pc[t] /\ loc'[t] = loc[t]
          /\ UNCHANGED <<lease, used, mine, handleVars>>
      BY <1>1, <1>5, <2>2 DEF AcquireFail, Return, TypeOK
    <3> QED BY <1>5, <3>1, QuietMove DEF AcquireFail, Acquiring, handleVars
  <2> QED BY <2>1, <2>2
<1>6. CASE ReleaseFail(s)
  <2>1. pc[s] = "handle" /\ released[s] # "never"
    BY <1>1, <1>6 DEF ReleaseFail, IInv, HandleInv
  <2>2. /\ task' = [task EXCEPT ![s]["host"] = At("off")]
        /\ released' = [released EXCEPT ![s] = "err"]
    BY <1>6 DEF ReleaseFail, ReleaseReturn
  <2>3. /\ task'[s]["host"] = At("off")
        /\ \A t \in Sessions : \A u \in Workers :
             t # s \/ u # "host" => task'[t][u] = task[t][u]
        /\ released'[s] = "err" /\ \A t \in Sessions \ {s} : released'[t] = released[t]
    BY <1>1, <2>2 DEF TypeOK
  <2>4. task'[s]["host"].pc = "off" /\ task'[s]["host"].body = NoBody
    BY <2>3, Quiet
  <2> QED BY <1>1, <1>6, <2>1, <2>3, <2>4, QuietTask DEF ReleaseFail
<1>7. CASE Crash(s)
  <2>1. /\ pc'[s] = "crashed"
        /\ \A t \in Sessions \ {s} : pc'[t] = pc[t] /\ loc'[t] = loc[t] /\ task'[t] = task[t]
        /\ \A u \in Workers : task'[s][u] = At("off")
    BY <1>1, <1>7 DEF Crash, Return, TypeOK
  <2>2. \A u \in Workers : task'[s][u].pc = "off" /\ task'[s][u].body = NoBody
    BY <2>1, Quiet
  <2>3. CASE pc[s] = "handle"
    <3>1. \A w \in late' : w \in late \/ \E u \in Workers : w \in TaskWrite(s, u)
      BY <1>1, <1>7, <2>3 DEF Crash, AcquireWrite
    <3>2. lateFence' = lateFence
      BY <1>7, <2>3 DEF Crash, BumpWrite
    <3> QED BY <1>7, <2>1, <2>2, <2>3, <3>1, <3>2, StopHandle DEF Crash
  <2>4. CASE pc[s] \in Acquiring
    <3>1. \A w \in late' : w \in late \cup AcquireWrite(s)
      <4>1. \A u \in Workers : TaskWrite(s, u) = {}
        BY <2>4 DEF TaskWrite, IInv, HandleInv, Acquiring, Working
      <4> QED BY <1>1, <1>7, <4>1 DEF Crash
    <3> QED BY <1>7, <2>1, <2>2, <2>4, <3>1, QuietMove DEF Crash
  <2> QED BY <1>7, <2>3, <2>4 DEF Crash
<1>8. ASSUME NEW w \in Workers, RenewFail(s, w) PROVE IInv'
  <2>1. pc[s] = "handle"
    BY <1>8 DEF RenewFail, IInv, HandleInv
  <2>2. task' = [task EXCEPT ![s][w] = After(w, FALSE)]
    BY <1>8 DEF RenewFail
  <2>3. /\ task'[s][w] = After(w, FALSE)
        /\ \A t \in Sessions : \A u \in Workers : t # s \/ u # w => task'[t][u] = task[t][u]
    BY <1>1, <2>2 DEF TypeOK
  <2>4. task'[s][w].pc \in {"off", "sleep"} /\ task'[s][w].body = NoBody
    BY <1>1, <2>3, AfterQuiet
  <2> QED BY <1>8, <2>1, <2>3, <2>4, QuietTask DEF RenewFail
<1> QED BY <1>2, <1>3, <1>4, <1>5, <1>6, <1>7, <1>8 DEF Choice

\* IInv is inductive.
LEMMA InvStep == IInv /\ [Next]_vars => IInv'
<1> SUFFICES ASSUME IInv, [Next]_vars PROVE IInv'
  OBVIOUS
<1>1. TypeOK'
  BY TypeStep DEF IInv
<1>2. CASE Tick
  BY <1>1, <1>2, TickStep
<1>3. CASE DeliverLease
  BY <1>1, <1>3, DeliverLeaseStep
<1>4. CASE DeliverFence
  BY <1>1, <1>4, DeliverFenceStep
<1>5. ASSUME NEW s \in Sessions, AcquireStep(s) \/ AutoStep(s) \/ HostStep(s) \/ Choice(s)
      PROVE  IInv'
  BY <1>1, <1>5, AcquireInv, HandleStepInv, ChoiceInv
<1>6. CASE UNCHANGED vars
  BY <1>6 DEF vars, acquireVars, handleVars, IInv, TypeOK, TokensUnique, HandleNotAhead, Owns,
     FlightInv, InFlight, Harmless, Allowed, Expired, Secs, Askers, AcquireWrite, TaskWrite,
     CounterInv, BumpWrite, StampInv, Written, Stampable, ExpiryFor, ShownFor,
     AttemptInv, CreateInv, HandleInv, SlotInv
<1> QED BY <1>2, <1>3, <1>4, <1>5, <1>6 DEF Next

\* Every reachable state satisfies the invariant.
THEOREM Invariance == Spec => []IInv
BY InitInv, InvStep, PTL DEF Spec

\* Fencing tokens are never shared: whatever the sessions, however their
\* read-then-CAS rounds on the fencing counter interleave, and whichever lost
\* increments arrive late (bump_fencing_token).
THEOREM TokensNeverShared == Spec => []TokensUnique
<1>1. IInv => TokensUnique
  BY DEF IInv
<1> QED BY <1>1, Invariance, PTL

\* A handle never shows a later expiry than the record the other nodes judge
\* it by (renew_inner, with two concurrent renewers and late writes).
THEOREM HandleNeverAhead == Spec => []HandleNotAhead
<1>1. IInv => HandleNotAhead
  BY DEF IInv
<1> QED BY <1>1, Invariance, PTL

-----------------------------------------------------------------------------
(* Lease implements LeaseSlot.                                             *)

\* A step that writes nothing leaves the slot alone; at most someone asks for
\* a release.
LEMMA QuietRefines ==
  ASSUME now' = now, lease' = lease, used' = used, Askers \subseteq Askers'
  PROVE  [Slot!Next]_(Slot!vars)
BY DEF Slot!Next, Slot!Ask, Slot!vars

\* An allowed write takes, renews or releases the slot.
LEMMA WriteRefines ==
  ASSUME IInv, NEW b \in Body, Allowed(b), WriteLease(b), now' = now, Askers' = Askers
  PROVE  [Slot!Next]_(Slot!vars)
<1>1. lease'.body = b
  BY WriteEffect
<1>2. CASE /\ b.op = "Put" /\ b.node \in Nodes /\ b.token \notin used
           /\ lease.body.op # "Put" \/ Expired(lease.body, b.node)
  <2>1. used' = used \cup {b.token}
    BY <1>2 DEF WriteLease
  <2>2. Slot!Take
    BY <1>1, <1>2, <2>1 DEF Slot!Take, Slot!Lapsed, Expired, Secs
  <2> QED BY <2>2 DEF Slot!Next
<1>3. CASE /\ b.op = "Put" /\ lease.body.op = "Put"
           /\ b.node = lease.body.node /\ b.token = lease.body.token
           /\ b.exp >= lease.body.exp /\ b.shown >= lease.body.shown
  <2>1. used' = used
    BY <1>3 DEF WriteLease, IInv, SlotInv
  <2>2. Slot!Renew
    BY <1>1, <1>3, <2>1 DEF Slot!Renew
  <2> QED BY <2>2 DEF Slot!Next
<1>4. CASE b.op = "Del" /\ lease.body.op = "Put" /\ lease.body.token \in Askers
  <2>1. used' = used
    BY <1>4 DEF WriteLease
  <2>2. Slot!Release
    BY <1>1, <1>4, <2>1 DEF Slot!Release
  <2> QED BY <2>2 DEF Slot!Next
<1> QED BY <1>2, <1>3, <1>4 DEF Allowed

\* A write in flight whose revision still stands is one the contract allows.
LEMMA FlightAllowed ==
  ASSUME IInv, NEW e \in Nat, NEW b \in Body, e = lease.rev,
         InFlight([expect |-> e, body |-> b])
  PROVE  Allowed(b)
<1>1. [expect |-> e, body |-> b] \in LeaseWrite
  BY DEF LeaseWrite
<1>2. Harmless([expect |-> e, body |-> b])
  BY <1>1 DEF IInv, FlightInv
<1> QED BY <1>2 DEF Harmless

\* Every step of an acquire call is a step of the contract.
LEMMA AcquireRefines ==
  ASSUME IInv, TypeOK', NEW s \in Sessions, AcquireStep(s)
  PROVE  [Slot!Next]_(Slot!vars)
<1> USE DEF handleVars
<1>1. now' = now /\ released' = released
  BY DEF AcquireStep, BumpRead, BumpCas, Create, ReclaimRead, ReclaimCas, Retry, Acquired, Held
<1>2. CASE WriteLease(mine[s]) /\ lease.rev = loc[s].rev /\ mine' = mine
           /\ pc[s] \in {"create", "reclaimCas"}
  <2>1. mine[s] \in Body /\ loc[s].rev \in Nat
    BY DEF IInv, TypeOK, Loc
  <2>2. InFlight([expect |-> loc[s].rev, body |-> mine[s]])
    BY <1>2 DEF InFlight, AcquireWrite
  <2>3. Allowed(mine[s])
    BY <1>2, <2>1, <2>2, FlightAllowed
  <2>4. Askers' = Askers
    BY <1>1, <1>2 DEF Askers
  <2> QED BY <1>1, <1>2, <2>1, <2>3, <2>4, WriteRefines
<1>3. CASE lease' = lease /\ used' = used
  <2>1. \A t \in Sessions : released[t] # "never" => mine'[t].token = mine[t].token
    <3>1. \A t \in Sessions : released[t] # "never" => pc[t] \in {"handle", "dropped", "crashed"}
      BY DEF IInv, HandleInv
    <3>2. mine' = mine \/ (pc[s] = "bumpCas" /\ \A t \in Sessions \ {s} : mine'[t] = mine[t])
      BY DEF AcquireStep, BumpRead, BumpCas, BumpLost, Minted, Create, ReclaimRead, ReclaimCas,
         Retry, Acquired, Held, IInv, TypeOK
    <3> QED BY <3>1, <3>2
  <2>2. Askers \subseteq Askers'
    BY <1>1, <2>1, AskersGrow
  <2> QED BY <1>1, <1>3, <2>2, QuietRefines
<1>4. CASE BumpRead(s) \/ BumpCas(s) \/ Retry(s)
  BY <1>3, <1>4 DEF BumpRead, BumpCas, Retry
<1>5. CASE Create(s)
  BY <1>2, <1>3, <1>5 DEF Create, Acquired, IInv, CreateInv
<1>6. CASE ReclaimRead(s)
  BY <1>3, <1>6 DEF ReclaimRead, Held
<1>7. CASE ReclaimCas(s)
  BY <1>2, <1>3, <1>7 DEF ReclaimCas, Held, Acquired
<1> QED BY <1>4, <1>5, <1>6, <1>7 DEF AcquireStep

\* Every step of the renewal task and of the host's calls is one as well.
LEMMA HandleRefines ==
  ASSUME IInv, TypeOK', NEW s \in Sessions, AutoStep(s) \/ HostStep(s)
  PROVE  [Slot!Next]_(Slot!vars)
<1> USE DEF acquireVars
<1>1. now' = now /\ mine' = mine
  BY DEF AutoStep, HostStep, RenewStep, Wake, RenewRead, RenewCas, RenewReread,
     ReleaseRead, ReleaseCas
<1>2. \A t \in Sessions : released'[t] # "never" <=> released[t] # "never"
  <2>1. CASE ReleaseRead(s) \/ ReleaseCas(s)
    <3>1. released[s] # "never"
      BY <2>1 DEF ReleaseRead, ReleaseCas, IInv, HandleInv, Workers
    <3>2. released' = released \/ \E r \in {"ok", "err"} : released' = [released EXCEPT ![s] = r]
      BY <2>1 DEF ReleaseRead, ReleaseCas, ReleaseReturn
    <3> QED BY <3>1, <3>2 DEF IInv, TypeOK
  <2>2. CASE Wake(s) \/ \E v \in Workers : RenewStep(s, v)
    BY <2>2 DEF RenewStep, Wake, RenewRead, RenewCas, RenewReread
  <2> QED BY <2>1, <2>2 DEF AutoStep, HostStep, Workers
<1>3. Askers' = Askers
  BY <1>1, <1>2 DEF Askers
<1>4. CASE lease' = lease /\ used' = used
  BY <1>1, <1>3, <1>4, QuietRefines
<1>5. ASSUME NEW v \in Workers, task[s][v].pc \in {"cas", "relCas"},
             lease.rev = task[s][v].rev, WriteLease(task[s][v].body)
      PROVE  [Slot!Next]_(Slot!vars)
  <2>1. task[s][v].body \in Body /\ task[s][v].rev \in Nat
    BY DEF IInv, TypeOK, Task
  <2>2. InFlight([expect |-> task[s][v].rev, body |-> task[s][v].body])
    BY <1>5 DEF InFlight, TaskWrite
  <2>3. Allowed(task[s][v].body)
    BY <1>5, <2>1, <2>2, FlightAllowed
  <2> QED BY <1>1, <1>3, <1>5, <2>1, <2>3, WriteRefines
<1>6. ASSUME NEW v \in Workers, RenewStep(s, v) PROVE [Slot!Next]_(Slot!vars)
  BY <1>4, <1>5, <1>6 DEF RenewStep, RenewRead, RenewCas, RenewReread
<1>7. CASE Wake(s) \/ ReleaseRead(s)
  BY <1>4, <1>7 DEF Wake, ReleaseRead
<1>8. CASE ReleaseCas(s)
  <2>1. task[s]["host"].body = Marker
    BY <1>8 DEF ReleaseCas, IInv, HandleInv, Workers
  <2> QED BY <1>4, <1>5, <1>8, <2>1 DEF ReleaseCas, Workers
<1> QED BY <1>6, <1>7, <1>8 DEF AutoStep, HostStep, Workers

\* The host's choices and the failures write nothing themselves.
LEMMA ChoiceRefines ==
  ASSUME IInv, TypeOK', NEW s \in Sessions, Choice(s)
  PROVE  [Slot!Next]_(Slot!vars)
<1> USE DEF acquireVars, handleVars
<1>1. now' = now /\ lease' = lease /\ used' = used /\ mine' = mine
  BY DEF Choice, Begin, HostRenew, HostRelease, HostCall, DropHandle, AcquireFail, ReleaseFail,
     Crash, RenewFail, Held
<1>2. released' = released \/ \E r \in {"pending", "err"} : released' = [released EXCEPT ![s] = r]
  <2>1. CASE HostRenew(s)
    BY <2>1 DEF HostRenew, HostCall, IInv, TypeOK
  <2>2. CASE HostRelease(s) \/ ReleaseFail(s)
    BY <2>2 DEF HostRelease, HostCall, ReleaseFail, ReleaseReturn
  <2>3. CASE \/ Begin(s) \/ DropHandle(s) \/ AcquireFail(s) \/ Crash(s)
             \/ \E w \in Workers : RenewFail(s, w)
    BY <2>3 DEF Begin, DropHandle, AcquireFail, Held, Crash, RenewFail
  <2> QED BY <2>1, <2>2, <2>3 DEF Choice
<1>3. \A t \in Sessions : released[t] # "never" => released'[t] # "never"
  BY <1>2 DEF IInv, TypeOK
<1>4. Askers \subseteq Askers'
  BY <1>1, <1>3, AskersGrow
<1> QED BY <1>1, <1>4, QuietRefines

\* An abandoned write, if it is applied at all, is a step of the contract, and
\* so is the passing of time.
LEMMA DeliverRefines ==
  ASSUME IInv, DeliverLease \/ DeliverFence \/ Tick
  PROVE  [Slot!Next]_(Slot!vars)
<1> USE DEF acquireVars, handleVars
<1>1. mine' = mine /\ released' = released
  BY DEF DeliverLease, DeliverFence, Tick
<1>2. Askers' = Askers
  BY <1>1 DEF Askers
<1>3. CASE Tick
  <2>1. Slot!Advance
    BY <1>2, <1>3 DEF Tick, Slot!Advance, IInv, TypeOK
  <2> QED BY <2>1 DEF Slot!Next
<1>4. CASE DeliverFence
  BY <1>2, <1>4, QuietRefines DEF DeliverFence
<1>5. CASE DeliverLease
  <2>1. PICK w \in late :
          IF lease.rev = w.expect THEN WriteLease(w.body) ELSE UNCHANGED <<lease, used>>
    BY <1>5 DEF DeliverLease
  <2>2. now' = now /\ w \in LeaseWrite /\ w.body \in Body
    BY <1>5 DEF DeliverLease, IInv, TypeOK, LeaseWrite
  <2>3. CASE lease.rev # w.expect
    BY <1>2, <2>1, <2>2, <2>3, QuietRefines
  <2>4. CASE lease.rev = w.expect
    <3>1. Allowed(w.body) /\ WriteLease(w.body)
      BY <2>1, <2>2, <2>4 DEF IInv, FlightInv, InFlight, Harmless
    <3> QED BY <1>2, <2>2, <3>1, WriteRefines
  <2> QED BY <2>3, <2>4
<1> QED BY <1>3, <1>4, <1>5

\* Every step of the protocol is a step of the contract, or leaves it alone.
LEMMA StepRefines == IInv /\ [Next]_vars => [Slot!Next]_(Slot!vars)
<1> SUFFICES ASSUME IInv, [Next]_vars PROVE [Slot!Next]_(Slot!vars)
  OBVIOUS
<1>1. TypeOK'
  BY TypeStep DEF IInv
<1>2. ASSUME NEW s \in Sessions, AcquireStep(s) \/ AutoStep(s) \/ HostStep(s) \/ Choice(s)
      PROVE  [Slot!Next]_(Slot!vars)
  BY <1>1, <1>2, AcquireRefines, HandleRefines, ChoiceRefines
<1>3. CASE UNCHANGED vars
  BY <1>3, QuietRefines DEF vars, acquireVars, handleVars, Askers
<1> QED BY <1>2, <1>3, DeliverRefines DEF Next

\* The lease protocol implements its contract: no live record is stolen, no
\* token holds twice, no renewal shortens a lease or changes its holder, and
\* only a holder that asked loses its record, for every number of sessions,
\* every clock skew and every loss, delay and reordering of writes.
THEOREM LeaseKeepsContract == Spec => KeepsContract
<1>1. Init => Slot!Init
  <2> SUFFICES ASSUME Init PROVE Slot!Init
    OBVIOUS
  <2>1. \A s \in Sessions : released[s] = "never"
    BY DEF Init
  <2>2. Askers = {}
    BY <2>1 DEF Askers
  <2>3. used = IF lease.body.op = "Put" THEN {lease.body.token} ELSE {}
    BY DEF Init, NoBody, Undated
  <2> QED BY <2>2, <2>3 DEF Slot!Init
<1>2. IInv /\ [Next]_vars => [Slot!Next]_(Slot!vars)
  BY StepRefines
<1> QED BY <1>1, <1>2, Invariance, PTL DEF Spec, KeepsContract, Slot!Spec
=============================================================================
