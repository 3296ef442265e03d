-------------------------- MODULE IndexGateProofs ---------------------------
(***************************************************************************)
(* Theorems about IndexGate, for every number of replicas, older peers and *)
(* keys, any keys the bucket starts with, and every bound.                 *)
(***************************************************************************)
EXTENDS IndexGate, TLAPS

Gaps == live \ idx

\* What a task that may mark the index knows: every key without index record
\* is one it has still to read or one written since it looked.
TaskInv(r, t) ==
  /\ pc[r][t] = "scan" => Gaps \subseteq todo[r][t] \cup fresh[r][t]
  /\ pc[r][t] \in {"openMark", "mark"} => Gaps \subseteq fresh[r][t]
  /\ pc[r][t] \in {"trust", "delete"} => Gaps \subseteq wild

\* It holds from the first mark on: of the mark, of the marker it leaves when it
\* is taken back, and of a replica that trusts the index after both are gone.
MarkInv ==
  /\ mark # "none" => Gaps \subseteq wild
  /\ \A r \in Replicas : ready[r] => Gaps \subseteq wild

GateInv == TypeOK /\ MarkInv /\ \A r \in Replicas, t \in Tasks : TaskInv(r, t)

ReplicaStep(r) ==
  \/ SweepTick(r) \/ GateTick(r) \/ Open(r) \/ OpenMark(r) \/ Gate(r) \/ DeleteMark(r)
  \/ TakeLease(r) \/ Sweep(r) \/ GateRead(r) \/ Elapse(r) \/ Lapse(r) \/ HostCall(r) \/ GateFail(r)
  \/ Restart(r)
  \/ \E t \in Tasks : \/ (\E k \in Keys : Backfill(r, t, k)) \/ ScanEnds(r, t) \/ MarkComplete(r, t)
                      \/ Trust(r, t) \/ Fail(r, t) \/ MarkUnanswered(r, t)

-----------------------------------------------------------------------------
(* Types.                                                                  *)

LEMMA InitType == Init => TypeOK
  BY GateAssumption DEF Init, TypeOK, Tasks, Steps

LEMMA WriterType ==
  ASSUME TypeOK, NEW k \in Keys, Put(k) \/ Remove(k) \/ \E o \in Olds : OldWrite(o, k)
  PROVE  TypeOK'
  BY DEF TypeOK, Put, Remove, OldWrite, Settled, gate, fleet

LEMMA FleetType ==
  ASSUME TypeOK, NEW o \in Olds,
         OldStart(o) \/ OldStop(o) \/ \E r \in Replicas : Hear(r, o) \/ Forget(r, o)
  PROVE  TypeOK'
<1>1. CASE OldStart(o) \/ OldStop(o)
  BY <1>1 DEF TypeOK, OldStart, OldStop, store, gate, work
<1>2. ASSUME NEW r \in Replicas, Hear(r, o) PROVE TypeOK'
  BY <1>2 DEF TypeOK, Hear, store, gate, work
<1>3. ASSUME NEW r \in Replicas, Forget(r, o) PROVE TypeOK'
  <2>1. events' \in 0..MaxEvents
    BY <1>3, GateAssumption DEF TypeOK, Forget, Rare
  <2>. QED BY <1>3, <2>1 DEF TypeOK, Forget, store, gate, work
<1>. QED BY <1>1, <1>2, <1>3

\* A table of the tasks with one entry changed.
LEMMA OneEntry ==
  ASSUME NEW S, NEW f \in [Replicas -> [Tasks -> S]], NEW r \in Replicas, NEW t \in Tasks, NEW v \in S
  PROVE  LET g == [f EXCEPT ![r][t] = v]
         IN /\ g \in [Replicas -> [Tasks -> S]] /\ g[r][t] = v
            /\ \A s \in Replicas, u \in Tasks : s # r \/ u # t => g[s][u] = f[s][u]
  OBVIOUS

LEMMA GotoStep ==
  ASSUME TypeOK, NEW r \in Replicas, NEW t \in Tasks, NEW step \in Steps, Goto(r, t, step)
  PROVE  /\ pc' \in [Replicas -> [Tasks -> Steps]] /\ pc'[r][t] = step
         /\ \A s \in Replicas, u \in Tasks : s # r \/ u # t => pc'[s][u] = pc[s][u]
<1>1. pc \in [Replicas -> [Tasks -> Steps]]
  BY DEF TypeOK
<1>2. pc' = [pc EXCEPT ![r][t] = step]
  BY DEF Goto
<1>. QED BY <1>1, <1>2, OneEntry

LEMMA LooksStep ==
  ASSUME TypeOK, NEW r \in Replicas, NEW t \in Tasks, Looks(r, t)
  PROVE  /\ fresh' \in [Replicas -> [Tasks -> SUBSET Keys]] /\ fresh'[r][t] = {}
         /\ \A s \in Replicas, u \in Tasks : s # r \/ u # t => fresh'[s][u] = fresh[s][u]
<1>1. fresh \in [Replicas -> [Tasks -> SUBSET Keys]] /\ {} \in SUBSET Keys
  BY DEF TypeOK
<1>2. fresh' = [fresh EXCEPT ![r][t] = {}]
  BY DEF Looks
<1>. QED BY <1>1, <1>2, OneEntry

LEMMA TodoStep ==
  ASSUME TypeOK, NEW r \in Replicas, NEW t \in Tasks, NEW ks \in SUBSET Keys,
         Reads(r, t, ks)
  PROVE  /\ todo' \in [Replicas -> [Tasks -> SUBSET Keys]] /\ todo'[r][t] = ks
         /\ \A s \in Replicas, u \in Tasks : s # r \/ u # t => todo'[s][u] = todo[s][u]
<1>1. todo \in [Replicas -> [Tasks -> SUBSET Keys]]
  BY DEF TypeOK
<1>2. todo' = [todo EXCEPT ![r][t] = ks]
  BY DEF Reads
<1>. QED BY <1>1, <1>2, OneEntry

LEMMA RareType == ASSUME TypeOK, Rare PROVE events' \in 0..MaxEvents
  BY GateAssumption DEF TypeOK, Rare

LEMMA StepNames ==
  /\ "sweep" \in Tasks /\ "host" \in Tasks
  /\ \A s \in {"open", "openMark", "idle", "gate", "delete", "lease", "sweeping", "scan",
                 "mark", "trust", "gateRead"} : s \in Steps
  BY DEF Tasks, Steps

-----------------------------------------------------------------------------
(* Marks.                                                                  *)

LEMMA InitGate == Init => GateInv
<1>. SUFFICES ASSUME Init PROVE GateInv
  OBVIOUS
<1>1. TypeOK
  BY InitType
<1>2. MarkInv
  BY DEF Init, MarkInv
<1>3. \A r \in Replicas, t \in Tasks : TaskInv(r, t)
  BY DEF Init, TaskInv, Tasks
<1>. QED BY <1>1, <1>2, <1>3 DEF GateInv

\* A write settles its key, or is one that every task that looked and the last
\* mark account for.
LEMMA WriterGate ==
  ASSUME GateInv, NEW k \in Keys, Put(k) \/ Remove(k) \/ \E o \in Olds : OldWrite(o, k)
  PROVE  GateInv'
<1>1. TypeOK'
  BY WriterType DEF GateInv
<1>2. MarkInv'
  BY DEF GateInv, TypeOK, MarkInv, Gaps, Put, Remove, OldWrite, Settled, gate
<1>3. ASSUME NEW r \in Replicas, NEW t \in Tasks PROVE TaskInv(r, t)'
  <2>1. CASE Put(k) \/ Remove(k)
    BY <2>1 DEF GateInv, TypeOK, TaskInv, Gaps, Put, Remove, Settled, gate
  <2>2. CASE \E o \in Olds : OldWrite(o, k)
    BY <2>2 DEF GateInv, TypeOK, TaskInv, Gaps, OldWrite, Looked, gate
  <2>. QED BY <2>1, <2>2
<1>. QED BY <1>1, <1>2, <1>3 DEF GateInv

LEMMA FleetGate ==
  ASSUME GateInv, NEW o \in Olds,
         OldStart(o) \/ OldStop(o) \/ \E r \in Replicas : Hear(r, o) \/ Forget(r, o)
  PROVE  GateInv'
<1>1. TypeOK'
  BY FleetType DEF GateInv
<1>2. MarkInv' /\ \A r \in Replicas, t \in Tasks : TaskInv(r, t)'
  BY DEF GateInv, MarkInv, TaskInv, Gaps, OldStart, OldStop, Hear, Forget, store, gate, work
<1>. QED BY <1>1, <1>2 DEF GateInv

LEMMA SweepTickGate ==
  ASSUME GateInv, NEW r \in Replicas, SweepTick(r)
  PROVE  GateInv'
<1>1. TypeOK /\ MarkInv /\ \A s \in Replicas, u \in Tasks : TaskInv(s, u)
  BY DEF GateInv
<1>2. /\ pc' \in [Replicas -> [Tasks -> Steps]] /\ (pc'[r]["sweep"] = "gate")
      /\ \A s \in Replicas, u \in Tasks : s # r \/ u # "sweep" => pc'[s][u] = pc[s][u]
  BY <1>1, GotoStep, StepNames DEF SweepTick
<1>3. TypeOK'
  BY <1>1, <1>2, StepNames DEF TypeOK, SweepTick, UnindexedPeerPresent, store, fleet, gate, work
<1>4. MarkInv'
  BY <1>1, <1>2, StepNames DEF TypeOK, MarkInv, TaskInv, Gaps, SweepTick, store, fleet, gate, work
<1>5. ASSUME NEW s \in Replicas, NEW u \in Tasks PROVE TaskInv(s, u)'
  BY <1>1, <1>2, StepNames DEF TypeOK, MarkInv, TaskInv, Gaps, SweepTick, store, fleet, gate, work
<1>. QED BY <1>3, <1>4, <1>5 DEF GateInv

LEMMA OpenGate ==
  ASSUME GateInv, NEW r \in Replicas, Open(r)
  PROVE  GateInv'
<1>1. TypeOK /\ MarkInv /\ \A s \in Replicas, u \in Tasks : TaskInv(s, u)
  BY DEF GateInv
<1>2. /\ pc' \in [Replicas -> [Tasks -> Steps]] /\ (pc'[r]["sweep"] = "openMark" \/ pc'[r]["sweep"] = "idle")
      /\ \A s \in Replicas, u \in Tasks : s # r \/ u # "sweep" => pc'[s][u] = pc[s][u]
  BY <1>1, GotoStep, StepNames DEF Open
<1>3. /\ fresh' \in [Replicas -> [Tasks -> SUBSET Keys]] /\ fresh'[r]["sweep"] = {}
      /\ \A s \in Replicas, u \in Tasks : s # r \/ u # "sweep" => fresh'[s][u] = fresh[s][u]
  BY <1>1, LooksStep, StepNames DEF Open
<1>4. TypeOK'
  BY <1>1, <1>2, <1>3, StepNames DEF TypeOK, Open, store, fleet, gate, work
<1>5. MarkInv'
  BY <1>1, <1>2, <1>3, StepNames DEF TypeOK, MarkInv, TaskInv, Gaps, Open, Empty, store, fleet, gate, work
<1>6. ASSUME NEW s \in Replicas, NEW u \in Tasks PROVE TaskInv(s, u)'
  <2>1. UNCHANGED <<live, idx, wild, todo>>
    BY DEF Open, store
  <2>2. CASE s = r /\ u = "sweep"
    <3>1. CASE Empty
      <4>1. Gaps' = {}
        BY <2>1, <3>1 DEF Gaps, Empty
      <4>. QED BY <4>1, <1>2, <2>2 DEF TaskInv
    <3>2. CASE ~Empty
      <4>1. Goto(r, "sweep", "idle")
        BY <3>2 DEF Open
      <4>2. pc'[r]["sweep"] = "idle"
        BY <4>1, <1>1, GotoStep, StepNames
      <4>. QED BY <4>2, <2>2 DEF TaskInv
    <3>. QED BY <3>1, <3>2
  <2>3. CASE s # r \/ u # "sweep"
    BY <1>1, <1>2, <1>3, <2>1, <2>3 DEF TaskInv, Gaps
  <2>. QED BY <2>2, <2>3
<1>. QED BY <1>4, <1>5, <1>6 DEF GateInv

LEMMA OpenMarkGate ==
  ASSUME GateInv, NEW r \in Replicas, OpenMark(r)
  PROVE  GateInv'
<1>1. TypeOK /\ MarkInv /\ \A s \in Replicas, u \in Tasks : TaskInv(s, u)
  BY DEF GateInv
<1>2. /\ pc' \in [Replicas -> [Tasks -> Steps]] /\ (pc'[r]["sweep"] = "idle")
      /\ \A s \in Replicas, u \in Tasks : s # r \/ u # "sweep" => pc'[s][u] = pc[s][u]
  BY <1>1, GotoStep, StepNames DEF OpenMark, Rest
<1>3. /\ fresh' \in [Replicas -> [Tasks -> SUBSET Keys]] /\ fresh'[r]["sweep"] = {}
      /\ \A s \in Replicas, u \in Tasks : s # r \/ u # "sweep" => fresh'[s][u] = fresh[s][u]
  BY <1>1, LooksStep, StepNames DEF OpenMark, Rest
<1>4. TypeOK'
  BY <1>1, <1>2, <1>3, StepNames DEF TypeOK, OpenMark, Rest, SetMark, store, fleet, gate, work
<1>5. MarkInv'
  BY <1>1, <1>2, <1>3, StepNames DEF TypeOK, MarkInv, TaskInv, Gaps, OpenMark, Rest, SetMark, store, fleet, gate, work
<1>6. ASSUME NEW s \in Replicas, NEW u \in Tasks PROVE TaskInv(s, u)'
  <2>1. UNCHANGED <<live, idx, todo>> /\ TaskInv(s, u)
    BY <1>1 DEF OpenMark
  <2>2. Gaps' \subseteq wild'
    BY <1>1, StepNames DEF TaskInv, Gaps, OpenMark, SetMark
  <2>3. CASE s = r /\ u = "sweep"
    BY <1>2, <2>2, <2>3 DEF TaskInv
  <2>4. CASE s # r \/ u # "sweep"
    BY <1>2, <1>3, <2>1, <2>2, <2>4 DEF TaskInv, Gaps
  <2>. QED BY <2>3, <2>4
<1>. QED BY <1>4, <1>5, <1>6 DEF GateInv

LEMMA GateGate ==
  ASSUME GateInv, NEW r \in Replicas, Gate(r)
  PROVE  GateInv'
<1>1. TypeOK /\ MarkInv /\ \A s \in Replicas, u \in Tasks : TaskInv(s, u)
  BY DEF GateInv
<1>2. /\ pc' \in [Replicas -> [Tasks -> Steps]] /\ (pc'[r]["sweep"] = "delete" \/ pc'[r]["sweep"] = "lease")
      /\ \A s \in Replicas, u \in Tasks : s # r \/ u # "sweep" => pc'[s][u] = pc[s][u]
  BY <1>1, GotoStep, StepNames DEF Gate
<1>3. TypeOK'
  BY <1>1, <1>2, StepNames DEF TypeOK, Gate, SetReady, store, fleet, gate, work
<1>4. MarkInv'
  BY <1>1, <1>2, StepNames DEF TypeOK, MarkInv, TaskInv, Gaps, Gate, SetReady, store, fleet, gate, work
<1>5. ASSUME NEW s \in Replicas, NEW u \in Tasks PROVE TaskInv(s, u)'
  <2>1. UNCHANGED <<live, idx, wild, todo, fresh>> /\ TaskInv(s, u)
    BY <1>1 DEF Gate, store
  <2>2. CASE s = r /\ u = "sweep"
    <3>1. CASE mark = "set"
      BY <1>1, <1>2, <2>1, <2>2, <3>1 DEF TaskInv, MarkInv, Gaps
    <3>2. CASE mark # "set"
      <4>1. Goto(r, "sweep", "lease")
        BY <3>2 DEF Gate
      <4>2. pc'[r]["sweep"] = "lease"
        BY <4>1, <1>1, GotoStep, StepNames
      <4>. QED BY <4>2, <2>2 DEF TaskInv
    <3>. QED BY <3>1, <3>2
  <2>3. CASE s # r \/ u # "sweep"
    BY <1>2, <2>1, <2>3 DEF TaskInv, Gaps
  <2>. QED BY <2>2, <2>3
<1>. QED BY <1>3, <1>4, <1>5 DEF GateInv

LEMMA GateFailGate ==
  ASSUME GateInv, NEW r \in Replicas, GateFail(r)
  PROVE  GateInv'
<1>1. TypeOK /\ MarkInv /\ \A s \in Replicas, u \in Tasks : TaskInv(s, u)
  BY DEF GateInv
<1>2. /\ pc' \in [Replicas -> [Tasks -> Steps]] /\ (pc'[r]["sweep"] = "lease")
      /\ \A s \in Replicas, u \in Tasks : s # r \/ u # "sweep" => pc'[s][u] = pc[s][u]
  BY <1>1, GotoStep, StepNames DEF GateFail
<1>3. events' \in 0..MaxEvents
  BY <1>1, RareType DEF GateFail, TypeOK
<1>4. TypeOK'
  BY <1>1, <1>2, <1>3, StepNames DEF TypeOK, GateFail, SetReady, store, fleet, gate, work
<1>5. MarkInv'
  BY <1>1, <1>2, <1>3, StepNames DEF TypeOK, MarkInv, TaskInv, Gaps, GateFail, SetReady, store, fleet, gate, work
<1>6. ASSUME NEW s \in Replicas, NEW u \in Tasks PROVE TaskInv(s, u)'
  BY <1>1, <1>2, <1>3, StepNames DEF TypeOK, MarkInv, TaskInv, Gaps, GateFail, SetReady, store, fleet, gate, work
<1>. QED BY <1>4, <1>5, <1>6 DEF GateInv

LEMMA DeleteMarkGate ==
  ASSUME GateInv, NEW r \in Replicas, DeleteMark(r)
  PROVE  GateInv'
<1>1. TypeOK /\ MarkInv /\ \A s \in Replicas, u \in Tasks : TaskInv(s, u)
  BY DEF GateInv
<1>2. /\ pc' \in [Replicas -> [Tasks -> Steps]] /\ (pc'[r]["sweep"] = "lease")
      /\ \A s \in Replicas, u \in Tasks : s # r \/ u # "sweep" => pc'[s][u] = pc[s][u]
  BY <1>1, GotoStep, StepNames DEF DeleteMark
<1>3. TypeOK'
  BY <1>1, <1>2, StepNames DEF TypeOK, DeleteMark, store, fleet, gate, work
<1>4. MarkInv'
  BY <1>1, <1>2, StepNames DEF TypeOK, MarkInv, TaskInv, Gaps, DeleteMark, store, fleet, gate, work
<1>5. ASSUME NEW s \in Replicas, NEW u \in Tasks PROVE TaskInv(s, u)'
  BY <1>1, <1>2, StepNames DEF TypeOK, MarkInv, TaskInv, Gaps, DeleteMark, store, fleet, gate, work
<1>. QED BY <1>3, <1>4, <1>5 DEF GateInv

LEMMA GateReadGate ==
  ASSUME GateInv, NEW r \in Replicas, GateRead(r)
  PROVE  GateInv'
<1>1. TypeOK /\ MarkInv /\ \A s \in Replicas, u \in Tasks : TaskInv(s, u)
  BY DEF GateInv
<1>2. /\ pc' \in [Replicas -> [Tasks -> Steps]] /\ (pc'[r]["sweep"] = "idle")
      /\ \A s \in Replicas, u \in Tasks : s # r \/ u # "sweep" => pc'[s][u] = pc[s][u]
  BY <1>1, GotoStep, StepNames DEF GateRead
<1>3. TypeOK'
  BY <1>1, <1>2, StepNames DEF TypeOK, GateRead, SetReady, store, fleet, gate, work
<1>4. MarkInv'
  BY <1>1, <1>2, StepNames DEF TypeOK, MarkInv, TaskInv, Gaps, GateRead, SetReady, store, fleet, gate, work
<1>5. ASSUME NEW s \in Replicas, NEW u \in Tasks PROVE TaskInv(s, u)'
  BY <1>1, <1>2, StepNames DEF TypeOK, MarkInv, TaskInv, Gaps, GateRead, SetReady, store, fleet, gate, work
<1>. QED BY <1>3, <1>4, <1>5 DEF GateInv

LEMMA ScanEndsGate ==
  ASSUME GateInv, NEW r \in Replicas, NEW t \in Tasks, ScanEnds(r, t)
  PROVE  GateInv'
<1>1. TypeOK /\ MarkInv /\ \A s \in Replicas, u \in Tasks : TaskInv(s, u)
  BY DEF GateInv
<1>2. UNCHANGED <<live, idx, mark, wild, todo, old, sees, recent, ready, unindexed, holder, lease, events>>
  BY DEF ScanEnds, store, fleet, gate
<1>3. MarkInv'
  BY <1>1, <1>2 DEF MarkInv, Gaps
<1>4. CASE Rest(r, t)
  <2>1. /\ pc' \in [Replicas -> [Tasks -> Steps]] /\ pc'[r][t] = "idle"
        /\ \A s \in Replicas, u \in Tasks : s # r \/ u # t => pc'[s][u] = pc[s][u]
    BY <1>1, <1>4, GotoStep, StepNames DEF Rest
  <2>2. /\ fresh' \in [Replicas -> [Tasks -> SUBSET Keys]] /\ fresh'[r][t] = {}
        /\ \A s \in Replicas, u \in Tasks : s # r \/ u # t => fresh'[s][u] = fresh[s][u]
    BY <1>1, <1>4, LooksStep DEF Rest
  <2>3. TypeOK'
    BY <1>1, <1>2, <2>1, <2>2 DEF TypeOK
  <2>4. ASSUME NEW s \in Replicas, NEW u \in Tasks PROVE TaskInv(s, u)'
    BY <1>1, <1>2, <2>1, <2>2 DEF TaskInv, Gaps
  <2>. QED BY <1>3, <2>3, <2>4 DEF GateInv
<1>5. CASE Goto(r, t, "mark") /\ UNCHANGED fresh
  <2>1. /\ pc' \in [Replicas -> [Tasks -> Steps]] /\ pc'[r][t] = "mark"
        /\ \A s \in Replicas, u \in Tasks : s # r \/ u # t => pc'[s][u] = pc[s][u]
    BY <1>1, <1>5, GotoStep, StepNames
  <2>2. Gaps \subseteq fresh[r][t]
    BY <1>1 DEF ScanEnds, TaskInv
  <2>3. TypeOK'
    BY <1>1, <1>2, <1>5, <2>1 DEF TypeOK
  <2>4. ASSUME NEW s \in Replicas, NEW u \in Tasks PROVE TaskInv(s, u)'
    BY <1>1, <1>2, <1>5, <2>1, <2>2 DEF TaskInv, Gaps
  <2>. QED BY <1>3, <2>3, <2>4 DEF GateInv
<1>. QED BY <1>4, <1>5 DEF ScanEnds

LEMMA MarkCompleteGate ==
  ASSUME GateInv, NEW r \in Replicas, NEW t \in Tasks, MarkComplete(r, t)
  PROVE  GateInv'
<1>1. TypeOK /\ MarkInv /\ \A s \in Replicas, u \in Tasks : TaskInv(s, u)
  BY DEF GateInv
<1>2. /\ pc' \in [Replicas -> [Tasks -> Steps]] /\ (pc'[r][t] = "trust")
      /\ \A s \in Replicas, u \in Tasks : s # r \/ u # t => pc'[s][u] = pc[s][u]
  BY <1>1, GotoStep, StepNames DEF MarkComplete
<1>3. /\ fresh' \in [Replicas -> [Tasks -> SUBSET Keys]] /\ fresh'[r][t] = {}
      /\ \A s \in Replicas, u \in Tasks : s # r \/ u # t => fresh'[s][u] = fresh[s][u]
  BY <1>1, LooksStep, StepNames DEF MarkComplete
<1>4. TypeOK'
  BY <1>1, <1>2, <1>3, StepNames DEF TypeOK, MarkComplete, SetMark, store, fleet, gate, work
<1>5. MarkInv'
  BY <1>1, <1>2, <1>3, StepNames DEF TypeOK, MarkInv, TaskInv, Gaps, MarkComplete, SetMark, store, fleet, gate, work
<1>6. ASSUME NEW s \in Replicas, NEW u \in Tasks PROVE TaskInv(s, u)'
  <2>1. UNCHANGED <<live, idx, todo>> /\ TaskInv(s, u)
    BY <1>1 DEF MarkComplete
  <2>2. Gaps' \subseteq wild'
    BY <1>1, StepNames DEF TaskInv, Gaps, MarkComplete, SetMark
  <2>3. CASE s = r /\ u = t
    BY <1>2, <2>2, <2>3 DEF TaskInv
  <2>4. CASE s # r \/ u # t
    BY <1>2, <1>3, <2>1, <2>2, <2>4 DEF TaskInv, Gaps
  <2>. QED BY <2>3, <2>4
<1>. QED BY <1>4, <1>5, <1>6 DEF GateInv

LEMMA TrustGate ==
  ASSUME GateInv, NEW r \in Replicas, NEW t \in Tasks, Trust(r, t)
  PROVE  GateInv'
<1>1. TypeOK /\ MarkInv /\ \A s \in Replicas, u \in Tasks : TaskInv(s, u)
  BY DEF GateInv
<1>2. /\ pc' \in [Replicas -> [Tasks -> Steps]] /\ (pc'[r][t] = "idle")
      /\ \A s \in Replicas, u \in Tasks : s # r \/ u # t => pc'[s][u] = pc[s][u]
  BY <1>1, GotoStep, StepNames DEF Trust
<1>3. TypeOK'
  BY <1>1, <1>2, StepNames DEF TypeOK, Trust, SetReady, store, fleet, gate, work
<1>4. MarkInv'
  BY <1>1, <1>2, StepNames DEF TypeOK, MarkInv, TaskInv, Gaps, Trust, SetReady, store, fleet, gate, work
<1>5. ASSUME NEW s \in Replicas, NEW u \in Tasks PROVE TaskInv(s, u)'
  BY <1>1, <1>2, StepNames DEF TypeOK, MarkInv, TaskInv, Gaps, Trust, SetReady, store, fleet, gate, work
<1>. QED BY <1>3, <1>4, <1>5 DEF GateInv

LEMMA MarkUnansweredGate ==
  ASSUME GateInv, NEW r \in Replicas, NEW t \in Tasks, MarkUnanswered(r, t)
  PROVE  GateInv'
<1>1. TypeOK /\ MarkInv /\ \A s \in Replicas, u \in Tasks : TaskInv(s, u)
  BY DEF GateInv
<1>2. /\ pc' \in [Replicas -> [Tasks -> Steps]] /\ (pc'[r][t] = "idle")
      /\ \A s \in Replicas, u \in Tasks : s # r \/ u # t => pc'[s][u] = pc[s][u]
  BY <1>1, GotoStep, StepNames DEF MarkUnanswered, Rest
<1>3. /\ fresh' \in [Replicas -> [Tasks -> SUBSET Keys]] /\ fresh'[r][t] = {}
      /\ \A s \in Replicas, u \in Tasks : s # r \/ u # t => fresh'[s][u] = fresh[s][u]
  BY <1>1, LooksStep, StepNames DEF MarkUnanswered, Rest
<1>4. events' \in 0..MaxEvents
  BY <1>1, RareType DEF MarkUnanswered, Rest, TypeOK
<1>5. TypeOK'
  BY <1>1, <1>2, <1>3, <1>4, StepNames DEF TypeOK, MarkUnanswered, Rest, SetMark, store, fleet, gate, work
<1>6. MarkInv'
  BY <1>1, <1>2, <1>3, <1>4, StepNames DEF TypeOK, MarkInv, TaskInv, Gaps, MarkUnanswered, Rest, SetMark, store, fleet, gate, work
<1>7. ASSUME NEW s \in Replicas, NEW u \in Tasks PROVE TaskInv(s, u)'
  <2>1. UNCHANGED <<live, idx, todo>> /\ TaskInv(s, u)
    BY <1>1 DEF MarkUnanswered
  <2>2. Gaps' \subseteq wild'
    BY <1>1, StepNames DEF TaskInv, Gaps, MarkUnanswered, SetMark
  <2>3. CASE s = r /\ u = t
    BY <1>2, <2>2, <2>3 DEF TaskInv
  <2>4. CASE s # r \/ u # t
    BY <1>2, <1>3, <2>1, <2>2, <2>4 DEF TaskInv, Gaps
  <2>. QED BY <2>3, <2>4
<1>. QED BY <1>5, <1>6, <1>7 DEF GateInv

\* A step that leaves the store and the work of every task alone.
LEMMA QuietGate ==
  ASSUME GateInv, NEW r \in Replicas, Elapse(r) \/ Lapse(r)
  PROVE  GateInv'
<1>1. CASE Elapse(r)
  BY <1>1 DEF GateInv, TypeOK, MarkInv, TaskInv, Gaps, Elapse, store, fleet, work
<1>2. CASE Lapse(r)
  <2>1. events' \in 0..MaxEvents
    BY <1>2, RareType DEF GateInv, TypeOK, Lapse
  <2>. QED BY <1>2, <2>1 DEF GateInv, TypeOK, MarkInv, TaskInv, Gaps, Lapse, store, fleet, work
<1>. QED BY <1>1, <1>2

LEMMA GateTickGate ==
  ASSUME GateInv, NEW r \in Replicas, GateTick(r)
  PROVE  GateInv'
<1>1. CASE UnindexedPeerPresent(r)
  BY <1>1 DEF GateTick, GateInv, TypeOK, MarkInv, TaskInv, Gaps, store, fleet
<1>2. CASE ~UnindexedPeerPresent(r)
  <2>1. /\ pc' \in [Replicas -> [Tasks -> Steps]] /\ pc'[r]["sweep"] = "gateRead"
        /\ \A s \in Replicas, u \in Tasks : s # r \/ u # "sweep" => pc'[s][u] = pc[s][u]
    BY <1>2, GotoStep, StepNames DEF GateTick, GateInv
  <2>2. TypeOK' /\ MarkInv'
    BY <1>2, <2>1 DEF GateTick, GateInv, TypeOK, MarkInv, Gaps, store, fleet
  <2>3. ASSUME NEW s \in Replicas, NEW u \in Tasks PROVE TaskInv(s, u)'
    BY <1>2, <2>1 DEF GateTick, GateInv, TaskInv, Gaps, store
  <2>. QED BY <2>2, <2>3 DEF GateInv
<1>. QED BY <1>1, <1>2

\* A backfill starts with every live key to read.
LEMMA StartScanGate ==
  ASSUME GateInv, NEW r \in Replicas, NEW t \in Tasks, StartScan(r, t), UNCHANGED <<live, idx, wild>>
  PROVE  /\ pc' \in [Replicas -> [Tasks -> Steps]]
         /\ todo' \in [Replicas -> [Tasks -> SUBSET Keys]]
         /\ fresh' \in [Replicas -> [Tasks -> SUBSET Keys]]
         /\ \A s \in Replicas, u \in Tasks : TaskInv(s, u)'
<1>1. /\ pc' \in [Replicas -> [Tasks -> Steps]] /\ pc'[r][t] = "scan"
      /\ \A s \in Replicas, u \in Tasks : s # r \/ u # t => pc'[s][u] = pc[s][u]
  BY GotoStep, StepNames DEF StartScan, GateInv
<1>2. /\ fresh' \in [Replicas -> [Tasks -> SUBSET Keys]] /\ fresh'[r][t] = {}
      /\ \A s \in Replicas, u \in Tasks : s # r \/ u # t => fresh'[s][u] = fresh[s][u]
  <2>1. TypeOK /\ Looks(r, t)
    BY DEF StartScan, GateInv
  <2>. QED BY <2>1, LooksStep
<1>3. /\ todo' \in [Replicas -> [Tasks -> SUBSET Keys]] /\ todo'[r][t] = live
      /\ \A s \in Replicas, u \in Tasks : s # r \/ u # t => todo'[s][u] = todo[s][u]
  BY TodoStep DEF StartScan, GateInv, TypeOK
<1>4. ASSUME NEW s \in Replicas, NEW u \in Tasks PROVE TaskInv(s, u)'
  <2>1. CASE s = r /\ u = t
    <3>1. pc'[s][u] = "scan" /\ todo'[s][u] = live
      BY <1>1, <1>3, <2>1
    <3>. QED BY <3>1 DEF TaskInv, Gaps
  <2>2. CASE s # r \/ u # t
    <3>1. TaskInv(s, u)
      BY DEF GateInv
    <3>2. pc'[s][u] = pc[s][u] /\ todo'[s][u] = todo[s][u] /\ fresh'[s][u] = fresh[s][u]
      BY <1>1, <1>2, <1>3, <2>2
    <3>. QED BY <3>1, <3>2 DEF TaskInv, Gaps
  <2>. QED BY <2>1, <2>2
<1>. QED BY <1>1, <1>2, <1>3, <1>4

LEMMA TakeLeaseGate ==
  ASSUME GateInv, NEW r \in Replicas, TakeLease(r)
  PROVE  GateInv'
<1>1. /\ holder' \in Replicas \cup {Nobody} /\ lease' \in [Replicas -> BOOLEAN]
      /\ unindexed' \in [Replicas -> BOOLEAN]
  BY DEF GateInv, TypeOK, TakeLease
<1>2. /\ pc' \in [Replicas -> [Tasks -> Steps]] /\ pc'[r]["sweep"] \in {"sweeping", "idle"}
      /\ \A s \in Replicas, u \in Tasks : s # r \/ u # "sweep" => pc'[s][u] = pc[s][u]
  BY GotoStep, StepNames DEF TakeLease, GateInv
<1>3. TypeOK' /\ MarkInv'
  BY <1>1, <1>2 DEF TakeLease, GateInv, TypeOK, MarkInv, Gaps, store, fleet
<1>4. ASSUME NEW s \in Replicas, NEW u \in Tasks PROVE TaskInv(s, u)'
  BY <1>2 DEF TakeLease, GateInv, TaskInv, Gaps, store
<1>. QED BY <1>3, <1>4 DEF GateInv

LEMMA SweepGate ==
  ASSUME GateInv, NEW r \in Replicas, Sweep(r)
  PROVE  GateInv'
<1>1. unindexed' \in [Replicas -> BOOLEAN] /\ UNCHANGED <<live, idx, wild>>
  BY DEF GateInv, TypeOK, Sweep
<1>2. mark' = mark \/ mark' = "none"
  BY DEF Sweep
<1>3. MarkInv'
  BY <1>1, <1>2 DEF GateInv, MarkInv, Gaps, Sweep
<1>4. CASE StartScan(r, "sweep")
  <2>1. /\ pc' \in [Replicas -> [Tasks -> Steps]]
        /\ todo' \in [Replicas -> [Tasks -> SUBSET Keys]]
        /\ fresh' \in [Replicas -> [Tasks -> SUBSET Keys]]
        /\ \A s \in Replicas, u \in Tasks : TaskInv(s, u)'
    BY <1>1, <1>4, StartScanGate, StepNames
  <2>2. TypeOK'
    BY <1>1, <1>2, <2>1 DEF GateInv, TypeOK, Sweep, fleet
  <2>. QED BY <1>3, <2>1, <2>2 DEF GateInv
<1>5. CASE Goto(r, "sweep", "idle") /\ UNCHANGED <<todo, fresh>>
  <2>1. /\ pc' \in [Replicas -> [Tasks -> Steps]] /\ pc'[r]["sweep"] = "idle"
        /\ \A s \in Replicas, u \in Tasks : s # r \/ u # "sweep" => pc'[s][u] = pc[s][u]
    BY <1>5, GotoStep, StepNames DEF GateInv
  <2>2. TypeOK'
    BY <1>1, <1>2, <1>5, <2>1 DEF GateInv, TypeOK, Sweep, fleet
  <2>3. ASSUME NEW s \in Replicas, NEW u \in Tasks PROVE TaskInv(s, u)'
    BY <1>1, <1>5, <2>1 DEF GateInv, TaskInv, Gaps
  <2>. QED BY <1>3, <2>2, <2>3 DEF GateInv
<1>. QED BY <1>4, <1>5 DEF Sweep

LEMMA HostCallGate ==
  ASSUME GateInv, NEW r \in Replicas, HostCall(r)
  PROVE  GateInv'
<1>1. events' \in 0..MaxEvents
  BY RareType DEF GateInv, TypeOK, HostCall
<1>2. CASE StartScan(r, "host")
  <2>1. UNCHANGED <<live, idx, mark>>
    BY DEF HostCall, store
  <2>. QED BY <1>1, <1>2, <2>1, StartScanGate, StepNames
           DEF GateInv, TypeOK, MarkInv, Gaps, HostCall, store, fleet, gate
<1>3. CASE UNCHANGED <<pc, todo, fresh>>
  BY <1>1, <1>3 DEF GateInv, TypeOK, MarkInv, TaskInv, Gaps, HostCall, store, fleet, gate
<1>. QED BY <1>2, <1>3 DEF HostCall

LEMMA BackfillGate ==
  ASSUME GateInv, NEW r \in Replicas, NEW t \in Tasks, NEW k \in Keys, Backfill(r, t, k)
  PROVE  GateInv'
<1>1. TypeOK'
  BY DEF GateInv, TypeOK, Backfill, Reads, Settled, fleet, gate
<1>2. MarkInv'
  BY DEF GateInv, TypeOK, MarkInv, Gaps, Backfill, Reads, Settled, gate
<1>3. ASSUME NEW s \in Replicas, NEW u \in Tasks PROVE TaskInv(s, u)'
  BY DEF GateInv, TypeOK, TaskInv, Gaps, Backfill, Reads, Settled
<1>. QED BY <1>1, <1>2, <1>3 DEF GateInv

LEMMA FailGate ==
  ASSUME GateInv, NEW r \in Replicas, NEW t \in Tasks, Fail(r, t)
  PROVE  GateInv'
<1>1. /\ pc' \in [Replicas -> [Tasks -> Steps]] /\ pc'[r][t] \in {"lease", "idle"}
      /\ \A s \in Replicas, u \in Tasks : s # r \/ u # t => pc'[s][u] = pc[s][u]
  BY GotoStep, StepNames DEF GateInv, Fail
<1>2. /\ fresh' \in [Replicas -> [Tasks -> SUBSET Keys]]
      /\ \A s \in Replicas, u \in Tasks : s # r \/ u # t => fresh'[s][u] = fresh[s][u]
  <2>1. TypeOK /\ Looks(r, t)
    BY DEF GateInv, Fail
  <2>. QED BY <2>1, LooksStep
<1>3. /\ todo' \in [Replicas -> [Tasks -> SUBSET Keys]]
      /\ \A s \in Replicas, u \in Tasks : s # r \/ u # t => todo'[s][u] = todo[s][u]
  <2>1. TypeOK /\ {} \in SUBSET Keys /\ Reads(r, t, {})
    BY DEF GateInv, Fail
  <2>. QED BY <2>1, TodoStep
<1>4. events' \in 0..MaxEvents
  BY RareType DEF GateInv, Fail
<1>5. lease' \in [Replicas -> BOOLEAN] /\ unindexed' \in [Replicas -> BOOLEAN]
  BY DEF GateInv, TypeOK, Fail
<1>6. TypeOK' /\ MarkInv'
  BY <1>1, <1>2, <1>3, <1>4, <1>5 DEF GateInv, TypeOK, MarkInv, Gaps, Fail, store, fleet
<1>7. ASSUME NEW s \in Replicas, NEW u \in Tasks PROVE TaskInv(s, u)'
  <2>1. UNCHANGED <<live, idx, wild>> /\ TaskInv(s, u)
    BY DEF GateInv, Fail, store
  <2>2. CASE s = r /\ u = t
    BY <1>1, <2>2 DEF TaskInv
  <2>3. CASE s # r \/ u # t
    BY <1>1, <1>2, <1>3, <2>1, <2>3 DEF TaskInv, Gaps
  <2>. QED BY <2>2, <2>3
<1>. QED BY <1>6, <1>7 DEF GateInv

LEMMA RestartGate ==
  ASSUME GateInv, NEW r \in Replicas, Restart(r)
  PROVE  GateInv'
<1>1. events' \in 0..MaxEvents
  BY RareType DEF GateInv, Restart
<1>2. /\ pc' \in [Replicas -> [Tasks -> Steps]] /\ \A u \in Tasks : pc'[r][u] \in {"open", "idle"}
      /\ \A s \in Replicas : s # r => pc'[s] = pc[s]
  BY StepNames DEF GateInv, TypeOK, Restart
<1>3. TypeOK' /\ MarkInv'
  BY <1>1, <1>2 DEF GateInv, TypeOK, MarkInv, Gaps, Restart, SetReady, store
<1>4. ASSUME NEW s \in Replicas, NEW u \in Tasks PROVE TaskInv(s, u)'
  BY <1>2 DEF GateInv, TypeOK, TaskInv, Gaps, Restart, store
<1>. QED BY <1>3, <1>4 DEF GateInv

LEMMA ReplicaGate ==
  ASSUME GateInv, NEW r \in Replicas, ReplicaStep(r)
  PROVE  GateInv'
  BY SweepTickGate, OpenGate, OpenMarkGate, GateGate, GateFailGate, DeleteMarkGate, GateReadGate,
     ScanEndsGate, MarkCompleteGate, TrustGate, MarkUnansweredGate, QuietGate, GateTickGate,
     TakeLeaseGate, SweepGate, HostCallGate, BackfillGate, FailGate, RestartGate
  DEF ReplicaStep

LEMMA StepGate == GateInv /\ [Next]_vars => GateInv'
<1>. SUFFICES ASSUME GateInv, [Next]_vars PROVE GateInv'
  OBVIOUS
<1>1. ASSUME NEW k \in Keys, Put(k) \/ Remove(k) \/ \E o \in Olds : OldWrite(o, k) PROVE GateInv'
  BY <1>1, WriterGate
<1>2. ASSUME NEW o \in Olds,
             OldStart(o) \/ OldStop(o) \/ \E r \in Replicas : Hear(r, o) \/ Forget(r, o)
      PROVE  GateInv'
  BY <1>2, FleetGate
<1>3. ASSUME NEW r \in Replicas,
             \/ SweepTick(r) \/ GateTick(r) \/ TaskStep(r) \/ Elapse(r) \/ Lapse(r)
             \/ HostCall(r) \/ Completion(r, "host") \/ Failure(r)
             \/ \E t \in Tasks : ScanLater(r, t)
      PROVE  GateInv'
  <2>1. \A t \in Tasks : todo[r][t] \subseteq Keys /\ fresh[r][t] \subseteq Keys
    BY DEF GateInv, TypeOK
  <2>2. "host" \in Tasks /\ "sweep" \in Tasks
    BY DEF Tasks
  <2>3. ReplicaStep(r)
    BY <1>3, <2>1, <2>2 DEF ReplicaStep, TaskStep, Completion, Failure, Scan, ScanLater
  <2>. QED BY <2>3, ReplicaGate
<1>4. CASE UNCHANGED vars
  BY <1>4 DEF GateInv, TypeOK, MarkInv, TaskInv, Gaps, vars, store, fleet, gate, work
<1>. QED BY <1>1, <1>2, <1>3, <1>4 DEF Next

\* Every variable keeps its type.
THEOREM GateTypes == Spec => []TypeOK
<1>1. GateInv => TypeOK
  BY DEF GateInv
<1>. QED BY <1>1, InitGate, StepGate, PTL DEF Spec

\* mark_index_complete never hides a key that was there: whatever number of
\* sweep tasks and host calls backfill, mark and invalidate at once, what a
\* complete or trusted index lacks was written by an older peer since the look
\* behind the last mark.
THEOREM GapsStayRecent == Spec => []GapsAreRecent
<1>1. GateInv => GapsAreRecent
  BY DEF GateInv, MarkInv, GapsAreRecent, Trusted, Gaps
<1>. QED BY <1>1, InitGate, StepGate, PTL DEF Spec
=============================================================================
