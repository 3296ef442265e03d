--------------------------- MODULE KvIndexProofs ---------------------------
(***************************************************************************)
(* The index record of a key (KvStore): as long as callers ask for no TTL, *)
(* a live key without an index record at rest is one whose loss some call  *)
(* reported, however puts, claims, counts, deletes, TTL changes and sweeps *)
(* interleave and whichever records the key started with.                  *)
(*                                                                         *)
(* With TTLs this is false (LiveKeysIndexed and its run): a value a TTL    *)
(* change brings back after a sweep has looked for the last time stays     *)
(* without its index record.                                               *)
(***************************************************************************)
EXTENDS KvStoreProofs

\* No call asks for a TTL; what the key starts with may have one.
NoTtls == Ttls \subseteq {0}

\* The key does not start out live and without its index record.
FirstsIndexed ==
  \A f \in Firsts : f.data.op = "Put" /\ (f.data.exp = 0 \/ f.data.exp > 1) => f.index

-----------------------------------------------------------------------------
(* The invariant: a failure is on record, or the index is in order.        *)

\* The call has met a failure and will report it.
Failing(p) ==
  \/ pc[p] \in {"index", "answer"} /\ loc[p].ack = "failed"
  \/ /\ pc[p] = "answer" /\ loc[p].ack = "ok" /\ loc[p].indexed = "failed"
     /\ call[p].op \notin {"sweep", "delete"}
  \/ pc[p] \in {"unindex", "reread", "rewrite"} /\ call[p].op # "sweep"

Reporting(p) == Failing(p) \/ pc[p] \in {"err", "crashed"}

Reported == faults + refusals > 0 /\ \E p \in Procs : Reporting(p)

\* A write that relies on the index record of the value it replaces.
Keeper(p) == pc[p] = "data" /\ ~loc[p].creates /\ loc[p].body.op = "Put"

\* The record is live, or a write under way will replace it as if it were.
Vital ==
  data.op = "Put" /\ (Live \/ \E p \in Procs : Keeper(p) /\ loc[p].expect = data.rev)

\* The call is about to store the index record of a vital key.
Mending(p) ==
  \/ pc[p] = "index" /\ loc[p].ack = "ok"
  \/ pc[p] \in {"purgeData", "reread", "rewrite"} /\ call[p].op = "sweep"

NoGap == Vital /\ ~index => \E p \in Procs : Mending(p)

Calm(p) == ~Failing(p) /\ late[p] \subseteq {"index"}

\* What is stored behind a sweep's back is dead or lives for good, so that the
\* sweep's last look sees whether the key is vital.
SweepTidy(p) ==
  call[p].op = "sweep" /\ pc[p] \in {"unindex", "purgeData", "reread"} =>
    /\ Vital /\ data.rev > loc[p].mark => data.exp = 0
    /\ pc[p] = "reread" => data.rev \notin 1..loc[p].mark

\* A new value has no expiry, and a value that is kept has the old one or none.
WriteTidy(p) ==
  /\ call[p].ttl = 0
  /\ pc[p] = "index" => call[p].op \in {"put", "claim", "incr"}
  /\ call[p].op = "claim" /\ pc[p] \in {"read", "data", "index", "answer"} =>
       loc[p].body.exp = 0
  /\ pc[p] = "data" =>
       /\ loc[p].indexed = "none"
       /\ loc[p].creates => loc[p].body.exp = 0 /\ call[p].op \in {"put", "claim", "incr"}
       /\ Keeper(p) =>
            /\ loc[p].expect > 0
            /\ loc[p].expect = data.rev =>
                 data.op = "Put" /\ loc[p].body.exp \in {0, data.exp}

Tidy == NoGap /\ \A p \in Procs : Calm(p) /\ SweepTidy(p) /\ WriteTidy(p)

-----------------------------------------------------------------------------
(* A failure stays on record.                                              *)

\* The types the cases below need.
LEMMA OwnTypes ==
  ASSUME IInv, NEW p \in Procs
  PROVE  /\ pc \in [Procs -> {"idle"} \cup Steps \cup Outcomes] /\ loc \in [Procs -> Loc]
         /\ call \in [Procs -> Call] /\ late \in [Procs -> SUBSET Requests]
         /\ loc[p] \in Loc /\ call[p].op \in Kinds /\ ProcInv(p)
BY DEF IInv, TypeOK, Call

\* A sum that does not shrink stays positive.
LEMMA StaysPositive ==
  ASSUME NEW a \in Int, NEW b \in Int, NEW c \in Int, NEW d \in Int,
         a + b <= c + d, a + b > 0
  PROVE  c + d > 0
OBVIOUS

\* Failures are only ever added.
LEMMA CountersGrow ==
  ASSUME IInv, [Next]_vars
  PROVE  faults + refusals <= faults' + refusals'
<1>1. faults \in Nat /\ refusals \in Nat
  BY CallsAssumption DEF IInv, TypeOK
<1>2. \/ faults' = faults /\ refusals' = refusals
      \/ faults' = faults + 1 /\ refusals' = refusals
      \/ faults' = faults /\ refusals' = refusals + 1
  <2>1. ASSUME NEW p \in Procs, Begin(p) \/ CallStep(p) PROVE Unsent
    BY <2>1 DEF Begin, CallStep, WriteStep, RemoveStep, Read, WriteData, WriteIndex, Answer,
       RemoveIndex, RemoveData, Reread, Rewrite, Scan, Settle
  <2>2. ASSUME NEW p \in Procs, FaultStep(p) PROVE Fault \/ Refusal
    BY <2>2 DEF FaultStep, RefuseData, LoseData, RefuseIndex, LoseIndex, RefuseRewrite, Fail,
       Crash, Abandon
  <2>3. ASSUME NEW p \in Procs, Deliver(p) PROVE UNCHANGED <<faults, refusals>>
    BY <2>3 DEF Deliver
  <2>4. CASE Tick \/ UNCHANGED vars
    BY <2>4 DEF Tick, vars
  <2> QED BY <2>1, <2>2, <2>3, <2>4 DEF Next, Unsent, Fault, Refusal
<1> QED BY <1>1, <1>2

\* A call on its way to report a failure stays on it.
LEMMA ReportingStays ==
  ASSUME IInv, NEW p \in Procs, Reporting(p),
         Begin(p) \/ CallStep(p) \/ FaultStep(p) \/ Deliver(p)
  PROVE  Reporting(p)'
<1>1. CASE WriteIndex(p) \/ RefuseIndex(p) \/ LoseIndex(p)
  <2>1. pc[p] = "index" /\ (Indexed(p, "ok") \/ Indexed(p, "conflict") \/ Indexed(p, "failed"))
    BY <1>1 DEF WriteIndex, RefuseIndex, LoseIndex
  <2>2. pc'[p] = "answer" /\ loc'[p].ack = loc[p].ack
    BY <2>1, OwnTypes DEF Indexed, Goto, Loc
  <2>3. loc[p].ack = "failed"
    BY <2>1 DEF Reporting, Failing
  <2> QED BY <2>2, <2>3 DEF Reporting, Failing
<1>2. CASE Answer(p)
  <2>1. pc[p] = "answer" /\ call' = call
    BY <1>2 DEF Answer
  <2>2. CASE loc[p].ack = "failed"
    <3>1. pc'[p] = IF loc[p].indexed = "ok" THEN "unindex" ELSE "err"
      BY <1>2, <2>2, OwnTypes DEF Answer, Goto
    <3>2. loc[p].indexed = "ok" => call[p].op # "sweep"
      BY OwnTypes DEF ProcInv, CallInv
    <3> QED BY <2>1, <3>1, <3>2 DEF Reporting, Failing
  <2>3. CASE /\ loc[p].ack = "ok" /\ loc[p].indexed = "failed"
             /\ call[p].op \notin {"sweep", "delete"}
    <3>1. pc'[p] = "err"
      BY <1>2, <2>3, OwnTypes DEF Answer, Goto
    <3> QED BY <3>1 DEF Reporting
  <2> QED BY <2>1, <2>2, <2>3 DEF Reporting, Failing
<1>3. CASE RemoveStep(p) \/ RefuseRewrite(p)
  <2>1. pc[p] \in {"unindex", "reread", "rewrite"} /\ call[p].op # "sweep" /\ call' = call
    BY <1>3, OwnTypes DEF RemoveStep, RemoveIndex, RemoveData, Reread, Rewrite, RefuseRewrite,
       Reporting, Failing, ProcInv, CallInv
  <2>2. pc'[p] \in {"reread", "rewrite", "err"}
    BY <1>3, <2>1, OwnTypes DEF RemoveStep, RemoveIndex, RemoveData, Reread, Rewrite,
       RefuseRewrite, Repaired, Goto
  <2> QED BY <2>1, <2>2 DEF Reporting, Failing
<1>4. CASE Fail(p) \/ Crash(p)
  <2>1. pc'[p] \in {"err", "crashed"}
    BY <1>4, OwnTypes DEF Fail, Crash, Abandon, Goto
  <2> QED BY <2>1 DEF Reporting
<1>5. CASE Deliver(p)
  BY <1>5 DEF Deliver, Reporting, Failing
<1>6. pc[p] \notin {"idle", "read", "data", "scan", "settle"}
  BY DEF Reporting, Failing
<1> QED BY <1>1, <1>2, <1>3, <1>4, <1>5, <1>6
        DEF Begin, CallStep, WriteStep, FaultStep, Read, WriteData, Scan, Settle, RefuseData,
            LoseData

\* Once a failure is on record it stays there.
LEMMA ReportedStays ==
  ASSUME IInv, Reported, [Next]_vars
  PROVE  Reported'
<1>1. faults' + refusals' > 0
  <2>1. TypeOK /\ TypeOK'
    BY TypeStep DEF IInv
  <2>2. faults \in Int /\ refusals \in Int /\ faults' \in Int /\ refusals' \in Int
    BY <2>1 DEF TypeOK
  <2>3. faults + refusals <= faults' + refusals'
    BY CountersGrow
  <2>4. faults + refusals > 0
    BY DEF Reported
  <2> QED BY <2>2, <2>3, <2>4, StaysPositive
<1>2. PICK p \in Procs : Reporting(p)
  BY DEF Reported
<1>3. ASSUME NEW q \in Procs, Begin(q) \/ CallStep(q) \/ FaultStep(q) \/ Deliver(q)
      PROVE  Reporting(p)'
  <2>1. CASE q = p
    BY <1>2, <1>3, <2>1, ReportingStays
  <2>2. CASE q # p
    <3>1. pc'[p] = pc[p] /\ call'[p] = call[p] /\ loc'[p] = loc[p]
      BY <1>3, <2>2, OthersKept DEF IInv
    <3> QED BY <1>2, <3>1 DEF Reporting, Failing
  <2> QED BY <2>1, <2>2
<1>4. ASSUME Tick \/ UNCHANGED vars PROVE Reporting(p)'
  BY <1>2, <1>4 DEF Tick, vars, Reporting, Failing
<1>5. Reporting(p)'
  BY <1>3, <1>4 DEF Next
<1> QED BY <1>1, <1>5 DEF Reported

-----------------------------------------------------------------------------
(* The calls that take no step.                                            *)

\* Nothing new is vital while the record stays, unless a call relies on it
\* that has seen it live.
LEMMA VitalFrame ==
  ASSUME IInv, TypeOK', data' = data, now <= now',
         \A q \in Procs : Keeper(q)' /\ loc'[q].expect = data.rev =>
           Live \/ (Keeper(q) /\ loc[q].expect = data.rev)
  PROVE  Vital' => Vital
<1>1. TypeOK /\ now' \in Nat
  BY DEF IInv, TypeOK
<1>2. Live' => Live
  BY <1>1, DeadFrame
<1> QED BY <1>2 DEF Vital, Live

\* A write of a new record leaves it vital only if it is live: nobody can have
\* read it.
LEMMA NewVital ==
  ASSUME IInv, IInv', data'.rev = seq + 1, seq' = seq + 1,
         \A q \in Procs : Keeper(q)' => Keeper(q) /\ loc'[q].expect = loc[q].expect
  PROVE  Vital' => Live'
<1>1. ASSUME NEW q \in Procs, Keeper(q)', loc'[q].expect = data'.rev
      PROVE  FALSE
  <2>1. Keeper(q) /\ loc'[q].expect = loc[q].expect
    BY <1>1
  <2>2. Flying(q)
    BY <2>1 DEF Keeper, Flying
  <2>3. loc[q].expect <= seq
    BY <2>2 DEF IInv, ProcInv, FlightInv, Harmless, Expects
  <2>4. loc[q].expect \in Int /\ seq \in Nat
    BY DEF IInv, TypeOK, Loc
  <2> QED BY <1>1, <2>1, <2>3, <2>4
<1> QED BY <1>1 DEF Vital

\* The record stays or goes: a call that takes no step stays in order.
LEMMA OthersTidy ==
  ASSUME IInv, TypeOK', now <= now', NEW q \in Procs, Calm(q), SweepTidy(q), WriteTidy(q),
         pc'[q] = pc[q], call'[q] = call[q], loc'[q] = loc[q], late'[q] = late[q],
         \/ data' = data /\ (Vital' => Vital)
         \/ data' = NoData
  PROVE  Calm(q)' /\ SweepTidy(q)' /\ WriteTidy(q)'
<1>1. Calm(q)'
  BY DEF Calm, Failing
<1>2. CASE data' = data /\ (Vital' => Vital)
  <2>1. SweepTidy(q)'
    BY <1>2 DEF SweepTidy
  <2>2. WriteTidy(q)'
    BY <1>2 DEF WriteTidy, Keeper
  <2> QED BY <1>1, <2>1, <2>2
<1>3. CASE data' = NoData
  <2>1. data'.rev = 0 /\ data'.op = "None" /\ loc[q].mark \in Nat /\ loc[q].expect \in Int
    BY <1>3 DEF NoData, IInv, TypeOK, Loc
  <2>2. ~Vital' /\ data'.rev \notin 1..loc[q].mark
    BY <2>1 DEF Vital
  <2>3. SweepTidy(q)'
    BY <2>2 DEF SweepTidy
  <2>4. WriteTidy(q)'
    BY <2>1 DEF WriteTidy, Keeper
  <2> QED BY <1>1, <2>3, <2>4
<1> QED BY <1>2, <1>3

\* The record p stores is dead, or lives for good where a sweep looks again.
LEMMA StoredTidy ==
  ASSUME IInv, IInv', Tidy, NEW p \in Procs, pc[p] = "data", Accepts(p), StoreData(p), now' = now,
         Vital' => Live',
         NEW q \in Procs \ {p},
         pc'[q] = pc[q], call'[q] = call[q], loc'[q] = loc[q], late'[q] = late[q]
  PROVE  Calm(q)' /\ SweepTidy(q)' /\ WriteTidy(q)'
<1>1. Calm(q) /\ SweepTidy(q) /\ WriteTidy(q) /\ WriteTidy(p)
  BY DEF Tidy
<1>2. /\ data'.rev = seq + 1 /\ data'.op = loc[p].body.op /\ data'.exp = loc[p].body.exp
      /\ seq \in Nat /\ data.rev \in Nat /\ data.exp \in Nat /\ now \in Nat
      /\ loc[q].mark \in Nat /\ loc[q].expect \in Int /\ loc[p].expect \in Int
  BY DEF StoreData, IInv, TypeOK, Record, Loc
<1>3. Calm(q)'
  BY <1>1 DEF Calm, Failing
<1>4. WriteTidy(q)'
  <2>1. ASSUME Keeper(q) PROVE loc[q].expect # data'.rev
    <3>1. Flying(q)
      BY <2>1 DEF Keeper, Flying
    <3>2. loc[q].expect <= seq
      BY <3>1 DEF IInv, ProcInv, FlightInv, Harmless, Expects
    <3> QED BY <1>2, <3>2
  <2>2. Keeper(q)' <=> Keeper(q)
    BY DEF Keeper
  <2> QED BY <1>1, <2>1, <2>2 DEF WriteTidy
<1>5. ASSUME call[q].op = "sweep", pc[q] \in {"unindex", "purgeData", "reread"}, Vital'
      PROVE  data'.exp = 0
  <2>1. data'.op = "Put" /\ Live'
    BY <1>5 DEF Vital
  <2>2. CASE loc[p].creates
    BY <1>1, <1>2, <2>2 DEF WriteTidy
  <2>3. CASE ~loc[p].creates
    <3>1. Keeper(p)
      BY <1>2, <2>1, <2>3 DEF Keeper
    <3>2. loc[p].expect = data.rev /\ data.rev > 0 /\ data.op = "Put"
          /\ loc[p].body.exp \in {0, data.exp}
      <4>1. loc[p].expect > 0 /\ loc[p].expect = data.rev
        BY <1>1, <1>2, <3>1 DEF WriteTidy, Accepts, Anything
      <4> QED BY <1>1, <3>1, <4>1 DEF WriteTidy
    <3>3. Vital
      BY <3>1, <3>2 DEF Vital
    <3>4. CASE data.rev > loc[q].mark
      BY <1>1, <1>2, <1>5, <3>2, <3>3, <3>4 DEF SweepTidy
    <3>5. CASE data.rev <= loc[q].mark
      <4>1. data.rev \in 1..loc[q].mark
        BY <1>2, <3>2, <3>5
      <4>2. Condemning(q)
        BY <1>1, <1>5, <4>1 DEF SweepTidy, Condemning
      <4>3. ~Live
        BY <4>1, <4>2 DEF IInv, ProcInv, SweepInv, Doomed
      <4>4. data.exp # 0 /\ data.exp <= now
        BY <3>2, <4>3 DEF Live, IsExpired
      <4>5. data'.exp = 0 \/ ~(data'.exp <= now)
        BY <2>1 DEF Live, IsExpired
      <4> QED BY <1>2, <3>2, <4>4, <4>5
    <3> QED BY <1>2, <3>4, <3>5
  <2> QED BY <2>2, <2>3
<1>6. pc[q] = "reread" => data'.rev \notin 1..loc[q].mark
  <2>1. loc[q].mark <= seq
    BY DEF IInv, ProcInv, SweepInv, Marked
  <2> QED BY <1>2, <2>1
<1>7. SweepTidy(q)'
  BY <1>5, <1>6 DEF SweepTidy
<1> QED BY <1>3, <1>4, <1>7

\* A step of p that stores no data keeps the index in order if p's own part
\* stays in order and no gap opens.
LEMMA TidyFrame ==
  ASSUME IInv, TypeOK', Tidy, NEW p \in Procs,
         Begin(p) \/ CallStep(p) \/ FaultStep(p) \/ Deliver(p),
         \/ data' = data /\ (Vital' => Vital)
         \/ data' = NoData,
         Calm(p)', SweepTidy(p)', WriteTidy(p)', NoGap'
  PROVE  Tidy'
<1>1. ASSUME NEW q \in Procs, q # p PROVE Calm(q)' /\ SweepTidy(q)' /\ WriteTidy(q)'
  <2>1. /\ pc'[q] = pc[q] /\ call'[q] = call[q] /\ loc'[q] = loc[q] /\ late'[q] = late[q]
        /\ now' = now /\ now \in Nat
    BY <1>1, OthersKept DEF IInv, TypeOK
  <2>2. Calm(q) /\ SweepTidy(q) /\ WriteTidy(q) /\ now <= now'
    BY <2>1 DEF Tidy
  <2> QED BY <2>1, <2>2, OthersTidy
<1> QED BY <1>1 DEF Tidy

\* No gap opens where the record and its index stay and p leaves no mending
\* undone.
LEMMA NoGapFrame ==
  ASSUME IInv, Tidy, NEW p \in Procs, Begin(p) \/ CallStep(p) \/ FaultStep(p) \/ Deliver(p),
         Vital' => Vital, index' = index, Mending(p) => Mending(p)'
  PROVE  NoGap'
<1>1. \A q \in Procs : Mending(q) => Mending(q)'
  BY OthersKept DEF IInv, Mending
<1> QED BY <1>1 DEF Tidy, NoGap

-----------------------------------------------------------------------------
(* The steps of a call.                                                    *)

\* A step of p that leaves the record, and p not relying on it, makes nothing
\* vital.
LEMMA VitalKept ==
  ASSUME IInv, TypeOK', NEW p \in Procs, Begin(p) \/ CallStep(p) \/ FaultStep(p) \/ Deliver(p),
         data' = data,
         Keeper(p)' => Live \/ (Keeper(p) /\ loc'[p].expect = loc[p].expect)
  PROVE  Vital' => Vital
<1>1. TypeOK
  BY DEF IInv
<1>2. ASSUME NEW q \in Procs, Keeper(q)', loc'[q].expect = data.rev
      PROVE  Live \/ (Keeper(q) /\ loc[q].expect = data.rev)
  <2>1. CASE q = p
    BY <1>2, <2>1
  <2>2. CASE q # p
    <3>1. pc'[q] = pc[q] /\ loc'[q] = loc[q]
      BY <1>1, <2>2, OthersKept
    <3> QED BY <1>2, <3>1 DEF Keeper
  <2> QED BY <2>1, <2>2
<1>3. now <= now'
  <2>1. now' = now
    BY DEF Begin, CallStep, WriteStep, RemoveStep, FaultStep, Read, WriteData, WriteIndex, Answer,
       RemoveIndex, RemoveData, Reread, Rewrite, Scan, Settle, RefuseData, LoseData, RefuseIndex,
       LoseIndex, RefuseRewrite, Fail, Crash, Abandon, Deliver
  <2> QED BY <1>1, <2>1 DEF TypeOK
<1> QED BY <1>2, <1>3, VitalFrame

\* A call that goes where it neither writes nor removes anything, having
\* mended nothing, leaves the index in order.
LEMMA MoveTidy ==
  ASSUME IInv, TypeOK', Tidy, NEW p \in Procs,
         Begin(p) \/ CallStep(p) \/ FaultStep(p) \/ Deliver(p),
         UNCHANGED storeVars, late'[p] \subseteq {"index"}, ~Mending(p), call'[p].ttl = 0,
         pc'[p] \in {"read", "scan", "settle", "ok", "no", "conflict", "err"},
         call'[p].op = "claim" /\ pc'[p] = "read" => loc'[p].body.exp = 0
  PROVE  Tidy'
<1>1. data' = data /\ index' = index
  BY DEF storeVars
<1>2. ~Keeper(p)' /\ Calm(p)' /\ SweepTidy(p)' /\ WriteTidy(p)'
  BY DEF Keeper, Calm, Failing, SweepTidy, WriteTidy
<1>3. Vital' => Vital
  BY <1>1, <1>2, VitalKept
<1>4. NoGap'
  BY <1>1, <1>3, NoGapFrame
<1> QED BY <1>1, <1>2, <1>3, <1>4, TidyFrame

\* A call that goes on to its data write: a new value has no expiry, and a
\* call that relies on the index record has just seen the value live.
LEMMA PublishTidy ==
  ASSUME IInv, TypeOK', Tidy, NEW p \in Procs,
         Begin(p) \/ CallStep(p) \/ FaultStep(p) \/ Deliver(p),
         NEW e, NEW b, NEW c, Publish(p, e, b, c),
         UNCHANGED storeVars, late'[p] = late[p], ~Mending(p), call'[p].ttl = 0,
         c => b.exp = 0 /\ call'[p].op \in {"put", "claim", "incr"},
         call'[p].op = "claim" => b.exp = 0,
         ~c /\ b.op = "Put" => Live /\ e = data.rev /\ b.exp \in {0, data.exp}
  PROVE  Tidy'
<1>1. data' = data /\ index' = index
  BY DEF storeVars
<1>2. /\ pc'[p] = "data" /\ loc'[p].expect = e /\ loc'[p].body = b /\ loc'[p].creates = c
      /\ loc'[p].indexed = "none"
  BY OwnTypes DEF Publish, Goto
<1>3. Keeper(p)' => Live
  BY <1>2 DEF Keeper
<1>4. Vital' => Vital
  BY <1>1, <1>3, VitalKept
<1>5. Calm(p)' /\ SweepTidy(p)'
  BY <1>2 DEF Tidy, Calm, Failing, SweepTidy
<1>6. WriteTidy(p)'
  <2>1. ASSUME Keeper(p)'
        PROVE  loc'[p].expect > 0 /\ data'.op = "Put" /\ loc'[p].body.exp \in {0, data'.exp}
    <3>1. Live /\ e = data.rev /\ b.exp \in {0, data.exp}
      BY <1>2, <2>1 DEF Keeper
    <3>2. data.op = "Put" /\ data.rev # 0 /\ data.rev \in Nat
      BY <3>1 DEF Live, IInv, SlotInv, TypeOK, Record
    <3> QED BY <1>1, <1>2, <3>1, <3>2
  <2> QED BY <1>2, <2>1 DEF WriteTidy
<1>7. NoGap'
  BY <1>1, <1>4, NoGapFrame
<1> QED BY <1>1, <1>4, <1>5, <1>6, <1>7, TidyFrame

LEMMA BeginTidy ==
  ASSUME NoTtls, IInv, TypeOK', Tidy, NEW p \in Procs, Begin(p)
  PROVE  Tidy'
<1>1. PICK c \in Menu :
        /\ call' = [call EXCEPT ![p] = c]
        /\ \/ /\ c.op \in {"put", "claim"}
              /\ Publish(p, IF c.op = "put" THEN Anything ELSE 0,
                         PutBody(c.arg, ExpiresAt(c.ttl)), TRUE)
           \/ c.op \in {"delete", "expire", "incr"} /\ Goto(p, "read")
           \/ c.op = "sweep" /\ Goto(p, "scan")
  BY DEF Begin
<1>2. call'[p] = c /\ c.ttl = 0
  <2>1. c.ttl \in Ttls \cup {0}
    BY DEF Menu
  <2> QED BY <1>1, <2>1, OwnTypes DEF NoTtls
<1>3. /\ pc[p] = "idle" /\ late'[p] = late[p] /\ UNCHANGED storeVars
      /\ late'[p] \subseteq {"index"} /\ ~Mending(p)
  BY DEF Begin, Unsent, Tidy, Calm, Mending
<1>4. CASE c.op \in {"put", "claim"} /\ Publish(p, IF c.op = "put" THEN Anything ELSE 0,
                                                PutBody(c.arg, ExpiresAt(c.ttl)), TRUE)
  <2>1. PutBody(c.arg, ExpiresAt(c.ttl)).exp = 0
    BY <1>2 DEF PutBody, ExpiresAt
  <2> QED BY <1>2, <1>3, <1>4, <2>1, PublishTidy
<1>5. CASE c.op \in {"delete", "expire", "incr"} /\ Goto(p, "read")
  <2>1. pc'[p] = "read"
    BY <1>5, OwnTypes DEF Goto
  <2> QED BY <1>2, <1>3, <1>5, <2>1, MoveTidy
<1>6. CASE c.op = "sweep" /\ Goto(p, "scan")
  <2>1. pc'[p] = "scan"
    BY <1>6, OwnTypes DEF Goto
  <2> QED BY <1>2, <1>3, <1>6, <2>1, MoveTidy
<1> QED BY <1>1, <1>4, <1>5, <1>6

LEMMA ReadTidy ==
  ASSUME IInv, TypeOK', Tidy, NEW p \in Procs, Read(p)
  PROVE  Tidy'
<1>0. /\ pc[p] = "read" /\ late'[p] = late[p] /\ UNCHANGED storeVars /\ call' = call
      /\ late'[p] \subseteq {"index"} /\ ~Mending(p) /\ call[p].ttl = 0
      /\ call[p].op = "claim" => loc[p].body.exp = 0
  BY DEF Read, Unsent, Tidy, Calm, Mending, WriteTidy
<1>1. CallStep(p)
  BY DEF CallStep
<1>2. ASSUME NEW to \in {"no", "err", "ok", "conflict"}, Goto(p, to) PROVE Tidy'
  <2>1. pc'[p] = to
    BY <1>2, OwnTypes DEF Goto
  <2> QED BY <1>0, <1>1, <2>1, MoveTidy
<1>3. CASE call[p].op = "claim" /\ ReadForClaim(p)
  <2>1. Publish(p, data.rev, loc[p].body, TRUE) => Tidy'
    BY <1>0, <1>1, <1>3, PublishTidy
  <2> QED BY <1>2, <1>3, <2>1 DEF ReadForClaim
<1>4. CASE call[p].op = "delete" /\ ReadForDelete(p)
  <2>1. Marker.op = "Del"
    BY DEF Marker
  <2> QED BY <1>0, <1>1, <1>4, <2>1, PublishTidy DEF ReadForDelete
<1>5. CASE call[p].op = "expire" /\ ReadForExpire(p)
  <2> DEFINE b == PutBody(data.val, ExpiresAt(call[p].ttl))
  <2>1. b.op = "Put" /\ b.exp = 0
    BY <1>0 DEF PutBody, ExpiresAt
  <2> HIDE DEF b
  <2>2. Live /\ Publish(p, data.rev, b, FALSE) => Tidy'
    BY <1>0, <1>1, <1>5, <2>1, PublishTidy
  <2> QED BY <1>2, <1>5, <2>2 DEF ReadForExpire, b
<1>6. CASE call[p].op = "incr" /\ ReadForIncr(p)
  <2>1. \/ Goto(p, "err") \/ Goto(p, "ok")
        \/ \E v : Live /\ Publish(p, data.rev, PutBody(v, data.exp), FALSE)
        \/ \E v : ~Live /\ Publish(p, data.rev, PutBody(v, 0), TRUE)
    <3> DEFINE current == IF Live THEN data.val ELSE 0
               next == current + call[p].arg
               exp == IF Live /\ call[p].ttl = 0 THEN data.exp ELSE ExpiresAt(call[p].ttl)
    <3>1. Goto(p, "err") \/ Goto(p, "ok") \/ Publish(p, data.rev, PutBody(next, exp), ~Live)
      BY <1>6 DEF ReadForIncr
    <3>2. Live => exp = data.exp
      BY <1>0
    <3>3. ~Live => exp = 0
      BY <1>0 DEF ExpiresAt
    <3> HIDE DEF current, next, exp
    <3>4. CASE Live
      <4>1. (~Live) = FALSE
        BY <3>4
      <4> QED BY <3>1, <3>2, <3>4, <4>1
    <3>5. CASE ~Live
      <4>1. (~Live) = TRUE
        BY <3>5
      <4> QED BY <3>1, <3>3, <3>5, <4>1
    <3> QED BY <3>4, <3>5
  <2>2. ASSUME NEW v, Live, Publish(p, data.rev, PutBody(v, data.exp), FALSE) PROVE Tidy'
    <3>1. PutBody(v, data.exp).exp = data.exp
      BY DEF PutBody
    <3> QED BY <1>0, <1>1, <1>6, <2>2, <3>1, PublishTidy
  <2>3. ASSUME NEW v, Publish(p, data.rev, PutBody(v, 0), TRUE) PROVE Tidy'
    <3>1. PutBody(v, 0).exp = 0
      BY DEF PutBody
    <3> QED BY <1>0, <1>1, <1>6, <2>3, <3>1, PublishTidy
  <2> QED BY <1>2, <2>1, <2>2, <2>3
<1> QED BY <1>3, <1>4, <1>5, <1>6 DEF Read

\* The data write is stored: a new value's index record comes behind it, and a
\* value that is kept was vital before.
LEMMA StoreTidy ==
  ASSUME IInv, IInv', Tidy, NEW p \in Procs, WriteData(p), Accepts(p)
  PROVE  Tidy'
<1>1. /\ pc[p] = "data" /\ StoreData(p) /\ Acked(p, "ok") /\ late' = late /\ now' = now
      /\ call' = call
  BY DEF WriteData, Unsent
<1>2. /\ pc'[p] = IF loc[p].creates THEN "index" ELSE "answer"
      /\ loc'[p].ack = "ok" /\ loc'[p].indexed = loc[p].indexed /\ loc'[p].body = loc[p].body
  BY <1>1, OwnTypes DEF Acked, Goto, Loc
<1>3. WriteTidy(p) /\ Calm(p) /\ NoGap
  BY DEF Tidy
<1>4. /\ data'.rev = seq + 1 /\ seq' = seq + 1 /\ data'.op = loc[p].body.op /\ index' = index
      /\ data.rev \in Nat /\ loc[p].expect \in Int
  BY <1>1 DEF StoreData, IInv, TypeOK, Record, Loc
<1>5. CallStep(p) /\ TypeOK
  BY DEF CallStep, WriteStep, IInv
<1>6. \A q \in Procs \ {p} :
        pc'[q] = pc[q] /\ call'[q] = call[q] /\ loc'[q] = loc[q] /\ late'[q] = late[q]
  BY <1>5, OthersKept
<1>7. Vital' => Live'
  <2>1. ~Keeper(p)'
    BY <1>2 DEF Keeper
  <2>2. \A q \in Procs : Keeper(q)' => Keeper(q) /\ loc'[q].expect = loc[q].expect
    BY <1>6, <2>1 DEF Keeper
  <2> QED BY <1>4, <2>2, NewVital
<1>8. \A q \in Procs \ {p} : Calm(q)' /\ SweepTidy(q)' /\ WriteTidy(q)'
  BY <1>1, <1>6, <1>7, StoredTidy
<1>9. Calm(p)' /\ SweepTidy(p)' /\ WriteTidy(p)'
  BY <1>1, <1>2, <1>3 DEF Calm, Failing, SweepTidy, WriteTidy
<1>10. NoGap'
  <2>1. CASE loc[p].creates
    BY <1>2, <2>1 DEF NoGap, Mending
  <2>2. CASE ~loc[p].creates /\ loc[p].body.op # "Put"
    BY <1>4, <2>2 DEF NoGap, Vital
  <2>3. CASE ~loc[p].creates /\ loc[p].body.op = "Put"
    <3>1. Keeper(p)
      BY <1>1, <2>3 DEF Keeper
    <3>2. loc[p].expect = data.rev
      BY <1>1, <1>3, <1>4, <3>1 DEF WriteTidy, Accepts, Anything
    <3>3. Vital
      BY <1>1, <1>3, <3>1, <3>2 DEF WriteTidy, Vital
    <3>4. ~Mending(p)
      BY <1>1 DEF Mending
    <3>5. \A q \in Procs \ {p} : Mending(q) => Mending(q)'
      BY <1>6 DEF Mending
    <3> QED BY <1>3, <1>4, <3>3, <3>4, <3>5 DEF NoGap
  <2> QED BY <2>1, <2>2, <2>3
<1> QED BY <1>8, <1>9, <1>10 DEF Tidy

\* The data write is refused by its revision.
LEMMA ConflictTidy ==
  ASSUME IInv, IInv', Tidy, NEW p \in Procs, WriteData(p), ~Accepts(p)
  PROVE  Tidy'
<1>1. /\ pc[p] = "data" /\ UNCHANGED storeVars /\ Acked(p, "conflict") /\ late' = late
      /\ call' = call /\ TypeOK'
  BY DEF WriteData, Unsent, IInv
<1>2. /\ pc'[p] = IF loc[p].creates THEN "index" ELSE "answer"
      /\ loc'[p].ack = "conflict" /\ loc'[p].body = loc[p].body
  BY <1>1, OwnTypes DEF Acked, Goto, Loc
<1>3. WriteTidy(p) /\ Calm(p) /\ CallStep(p) /\ data' = data /\ index' = index
  BY <1>1 DEF Tidy, CallStep, WriteStep, storeVars
<1>4. Calm(p)' /\ SweepTidy(p)' /\ WriteTidy(p)'
  BY <1>1, <1>2, <1>3 DEF Calm, Failing, SweepTidy, WriteTidy
<1>5. ~Keeper(p)' /\ ~Mending(p)
  BY <1>1, <1>2 DEF Keeper, Mending
<1>6. Vital' => Vital
  BY <1>1, <1>3, <1>5, VitalKept
<1>7. NoGap'
  BY <1>3, <1>5, <1>6, NoGapFrame
<1> QED BY <1>1, <1>3, <1>4, <1>6, <1>7, TidyFrame

\* The index record is stored, or refused or lost behind a refused data record.
LEMMA IndexTidy ==
  ASSUME IInv, IInv', Tidy, NEW p \in Procs, WriteIndex(p) \/ RefuseIndex(p) \/ LoseIndex(p),
         ~Reported'
  PROVE  Tidy'
<1>1. /\ pc[p] = "index" /\ call' = call /\ TypeOK' /\ (CallStep(p) \/ FaultStep(p))
      /\ late'[p] \subseteq late[p] \cup {"index"} /\ data' = data
  BY OwnTypes DEF WriteIndex, RefuseIndex, LoseIndex, Unsent, IInv, CallStep, WriteStep, FaultStep,
     StoreIndex, storeVars
<1>2. WriteTidy(p) /\ Calm(p) /\ loc[p].ack \in {"ok", "conflict"}
  <2>1. loc[p].ack \in Acks /\ loc[p].ack # "none"
    BY <1>1, OwnTypes DEF Loc, ProcInv, OnceInv
  <2>2. loc[p].ack # "failed"
    BY <1>1 DEF Tidy, Calm, Failing
  <2> QED BY <2>1, <2>2 DEF Tidy, Acks
<1>3. /\ pc'[p] = "answer" /\ loc'[p].ack = loc[p].ack /\ loc'[p].body = loc[p].body
      /\ WriteIndex(p) => loc'[p].indexed # "failed"
      /\ ~WriteIndex(p) => loc'[p].indexed = "failed"
  <2>1. CASE WriteIndex(p)
    <3>1. Indexed(p, "ok") \/ Indexed(p, "conflict")
      BY <2>1 DEF WriteIndex
    <3> QED BY <2>1, <3>1, OwnTypes DEF Indexed, Goto, Loc
  <2>2. CASE ~WriteIndex(p)
    <3>1. Indexed(p, "failed")
      BY <2>2 DEF RefuseIndex, LoseIndex
    <3> QED BY <2>2, <3>1, OwnTypes DEF Indexed, Goto, Loc
  <2> QED BY <2>1, <2>2
<1>4. SweepTidy(p)' /\ WriteTidy(p)' /\ ~Keeper(p)'
  BY <1>1, <1>2, <1>3 DEF SweepTidy, WriteTidy, Keeper
<1>5. Vital' => Vital
  BY <1>1, <1>4, VitalKept
<1>6. CASE WriteIndex(p)
  <2>1. Calm(p)'
    BY <1>1, <1>2, <1>3, <1>6 DEF Calm, Failing
  <2>2. NoGap'
    BY <1>6 DEF WriteIndex, StoreIndex, NoGap
  <2> QED BY <1>1, <1>4, <1>5, <2>1, <2>2, TidyFrame
<1>7. CASE ~WriteIndex(p)
  <2>1. faults' + refusals' > 0
    <3>1. faults \in Nat /\ refusals \in Nat
      BY CallsAssumption DEF IInv, TypeOK
    <3>2. \/ faults' = faults + 1 /\ refusals' = refusals
          \/ faults' = faults /\ refusals' = refusals + 1
      BY <1>7 DEF RefuseIndex, LoseIndex, Fault, Refusal
    <3> QED BY <3>1, <3>2
  <2>2. ~Reporting(p)'
    BY <2>1 DEF Reported
  <2>3. loc[p].ack = "conflict"
    BY <1>1, <1>2, <1>3, <1>7, <2>2 DEF Reporting, Failing, WriteTidy
  <2>4. Calm(p)' /\ ~Mending(p) /\ index' = index
    BY <1>1, <1>2, <1>7, <2>2, <2>3
       DEF Calm, Reporting, Mending, RefuseIndex, LoseIndex, storeVars
  <2>5. NoGap'
    BY <1>1, <1>5, <2>4, NoGapFrame
  <2> QED BY <1>1, <1>4, <1>5, <2>4, <2>5, TidyFrame
<1> QED BY <1>6, <1>7

\* The call makes what it can of its acks.
LEMMA AnswerTidy ==
  ASSUME IInv, IInv', Tidy, NEW p \in Procs, Answer(p)
  PROVE  Tidy'
<1>1. /\ pc[p] = "answer" /\ UNCHANGED storeVars /\ late' = late /\ call' = call /\ TypeOK'
      /\ CallStep(p) /\ ~Mending(p)
  BY DEF Answer, Unsent, IInv, CallStep, WriteStep, Mending
<1>2. WriteTidy(p) /\ Calm(p) /\ loc[p].ack # "failed"
  BY <1>1 DEF Tidy, Calm, Failing
<1>3. CASE loc[p].ack = "ok" /\ call[p].op = "sweep"
  <2>1. pc'[p] = "rewrite" /\ loc' = loc
    BY <1>3, <1>1, OwnTypes DEF Answer, Goto
  <2>2. Calm(p)' /\ SweepTidy(p)' /\ WriteTidy(p)' /\ ~Keeper(p)'
    BY <1>1, <1>2, <1>3, <2>1 DEF Calm, Failing, SweepTidy, WriteTidy, Keeper
  <2>3. data' = data /\ index' = index
    BY <1>1 DEF storeVars
  <2>4. Vital' => Vital
    BY <1>1, <2>2, <2>3, VitalKept
  <2>5. NoGap'
    BY <1>1, <2>3, <2>4, NoGapFrame
  <2> QED BY <1>1, <2>2, <2>3, <2>4, <2>5, TidyFrame
<1>4. CASE loc[p].ack = "ok" /\ call[p].op # "sweep"
  <2>1. pc'[p] \in {"ok", "no", "err"}
    BY <1>4, <1>1, OwnTypes DEF Answer, Goto
  <2> QED BY <1>1, <1>2, <2>1, MoveTidy DEF Calm, WriteTidy
<1>5. CASE loc[p].ack = "conflict"
  <2>1. LostCas(p)
    BY <1>5 DEF Answer
  <2>2. pc'[p] \in {"read", "conflict", "ok"}
    BY <2>1, <1>1, OwnTypes DEF LostCas, Goto
  <2>3. loc'[p].body = loc[p].body
    BY <2>1, OwnTypes DEF LostCas, Loc
  <2> QED BY <1>1, <1>2, <2>2, <2>3, MoveTidy DEF Calm, WriteTidy
<1> QED BY <1>2, <1>3, <1>4, <1>5 DEF Answer

\* The sweep's removals: its last look finds a vital key live.
LEMMA RemoveTidy ==
  ASSUME IInv, IInv', Tidy, NEW p \in Procs, RemoveStep(p)
  PROVE  Tidy'
<1>1. /\ call' = call /\ loc' = loc /\ late' = late /\ TypeOK' /\ CallStep(p)
      /\ pc[p] \in {"unindex", "purgeData", "reread", "rewrite"}
  BY DEF RemoveStep, RemoveIndex, RemoveData, Reread, Rewrite, Unsent, IInv, CallStep
<1>2. call[p].op = "sweep" /\ Calm(p) /\ SweepTidy(p) /\ WriteTidy(p)
  BY <1>1, OwnTypes DEF Tidy, Calm, Failing, ProcInv, CallInv
<1>3. pc'[p] \in {"purgeData", "reread", "rewrite", "ok"}
  BY <1>1, <1>2, OwnTypes
     DEF RemoveStep, RemoveIndex, RemoveData, Reread, Rewrite, Repaired, Goto
<1>4. Calm(p)' /\ WriteTidy(p)' /\ ~Keeper(p)'
  BY <1>1, <1>2, <1>3 DEF Calm, Failing, WriteTidy, Keeper
<1>5. data' = data => (Vital' => Vital)
  BY <1>1, <1>4, VitalKept
<1>6. CASE RemoveIndex(p)
  <2>1. pc[p] = "unindex" /\ pc'[p] = "purgeData" /\ data' = data
    BY <1>2, <1>6, OwnTypes DEF RemoveIndex, Goto, PurgeIndex
  <2>2. SweepTidy(p)'
    BY <1>1, <1>2, <1>5, <2>1 DEF SweepTidy
  <2>3. NoGap'
    BY <1>1, <1>2, <2>1 DEF NoGap, Mending
  <2> QED BY <1>1, <1>4, <1>5, <2>1, <2>2, <2>3, TidyFrame
<1>7. CASE RemoveData(p)
  <2>1. pc[p] = "purgeData" /\ pc'[p] = "reread" /\ PurgeThrough(p)
    BY <1>7, OwnTypes DEF RemoveData, Goto
  <2>2. CASE data' = NoData
    <3>1. ~Vital' /\ data'.rev \notin 1..loc[p].mark
      BY <2>2 DEF Vital, NoData, IInv, TypeOK, Loc
    <3>2. SweepTidy(p)' /\ NoGap'
      BY <1>1, <3>1 DEF SweepTidy, NoGap
    <3> QED BY <1>1, <1>4, <2>2, <3>2, TidyFrame
  <2>3. CASE data.rev \notin 1..loc[p].mark /\ UNCHANGED storeVars
    <3>1. data' = data /\ index' = index
      BY <2>3 DEF storeVars
    <3>2. SweepTidy(p)'
      BY <1>1, <1>2, <1>5, <2>1, <2>3, <3>1 DEF SweepTidy
    <3>3. Mending(p)'
      BY <1>1, <1>2, <2>1 DEF Mending
    <3>4. NoGap'
      BY <3>3 DEF NoGap
    <3> QED BY <1>1, <1>4, <1>5, <3>1, <3>2, <3>4, TidyFrame
  <2> QED BY <2>1, <2>2, <2>3 DEF PurgeThrough
<1>8. CASE Reread(p)
  <2>1. pc[p] = "reread" /\ data' = data /\ index' = index
    BY <1>8 DEF Reread, storeVars
  <2>2. pc'[p] = IF Live THEN "rewrite" ELSE "ok"
    BY <1>2, <1>8, OwnTypes DEF Reread, Repaired, Goto
  <2>3. SweepTidy(p)'
    BY <2>2 DEF SweepTidy
  <2>4. NoGap'
    <3>1. CASE Live
      BY <1>1, <1>2, <2>2, <3>1 DEF NoGap, Mending
    <3>2. CASE ~Live
      <4>1. ASSUME Vital PROVE FALSE
        <5>1. data.op = "Put" /\ data.rev \notin 1..loc[p].mark
          BY <1>2, <2>1, <4>1 DEF Vital, SweepTidy
        <5>2. data.rev # 0 /\ data.rev \in Nat /\ loc[p].mark \in Nat
          BY <5>1 DEF IInv, SlotInv, TypeOK, Record, Loc
        <5>3. data.rev > loc[p].mark
          BY <5>1, <5>2
        <5>4. data.exp = 0
          BY <1>2, <2>1, <4>1, <5>3 DEF SweepTidy
        <5> QED BY <3>2, <5>1, <5>4 DEF Live, IsExpired
      <4> QED BY <1>5, <2>1, <4>1 DEF NoGap
    <3> QED BY <3>1, <3>2
  <2> QED BY <1>1, <1>4, <1>5, <2>1, <2>3, <2>4, TidyFrame
<1>9. CASE Rewrite(p)
  <2>1. pc'[p] = "ok" /\ data' = data /\ index' = TRUE
    BY <1>2, <1>9, OwnTypes DEF Rewrite, StoreIndex, Repaired, Goto
  <2>2. SweepTidy(p)' /\ NoGap'
    BY <2>1 DEF SweepTidy, NoGap
  <2> QED BY <1>1, <1>4, <1>5, <2>1, <2>2, TidyFrame
<1> QED BY <1>6, <1>7, <1>8, <1>9 DEF RemoveStep

\* The sweep condemns the record it has read and no later one, or keeps it.
LEMMA ScanTidy ==
  ASSUME IInv, IInv', Tidy, NEW p \in Procs, Scan(p) \/ Settle(p)
  PROVE  Tidy'
<1>1. /\ pc[p] \in {"scan", "settle"} /\ call' = call /\ late' = late /\ TypeOK' /\ CallStep(p)
      /\ UNCHANGED storeVars /\ ~Mending(p) /\ call[p].op = "sweep"
  BY OwnTypes DEF Scan, Settle, Unsent, IInv, CallStep, Mending, ProcInv, CallInv
<1>2. Calm(p) /\ WriteTidy(p) /\ data' = data /\ index' = index
  BY <1>1 DEF Tidy, storeVars
<1>3. ASSUME pc'[p] = "unindex", loc'[p].mark = data.rev PROVE Tidy'
  <2>1. Calm(p)' /\ WriteTidy(p)' /\ ~Keeper(p)'
    BY <1>1, <1>2, <1>3 DEF Calm, Failing, WriteTidy, Keeper
  <2>2. Vital' => Vital
    BY <1>1, <1>2, <2>1, VitalKept
  <2>3. ~(data'.rev > loc'[p].mark)
    BY <1>2, <1>3 DEF IInv, TypeOK, Record
  <2>4. SweepTidy(p)'
    BY <1>3, <2>3 DEF SweepTidy
  <2>5. NoGap'
    BY <1>1, <1>2, <2>2, NoGapFrame
  <2> QED BY <1>1, <1>2, <2>1, <2>2, <2>4, <2>5, TidyFrame
<1>4. ASSUME pc'[p] \in {"settle", "ok"} PROVE Tidy'
  BY <1>1, <1>2, <1>4, MoveTidy DEF Calm, WriteTidy
<1>5. CASE Scan(p)
  <2>1. loc'[p].mark = data.rev
    BY <1>5, OwnTypes DEF Scan, Loc
  <2>2. pc'[p] \in {"unindex", "settle", "ok"}
    BY <1>5, OwnTypes DEF Scan, Goto
  <2> QED BY <1>3, <1>4, <2>1, <2>2
<1>6. CASE Settle(p)
  <2> DEFINE b == PutBody(data.val, data.exp)
  <2>1. b.exp = data.exp /\ b.op = "Put"
    BY DEF PutBody
  <2> HIDE DEF b
  <2>2. CASE Goto(p, "ok")
    BY <1>4, <2>2, OwnTypes DEF Goto
  <2>3. CASE data.rev = loc[p].mark /\ Goto(p, "unindex") /\ UNCHANGED loc
    BY <1>3, <2>3, OwnTypes DEF Goto
  <2>4. CASE data.rev = loc[p].mark /\ Live /\ Publish(p, loc[p].mark, b, FALSE)
    BY <1>1, <1>2, <2>1, <2>4, PublishTidy DEF WriteTidy
  <2> QED BY <1>6, <2>2, <2>3, <2>4 DEF Settle, b
<1> QED BY <1>5, <1>6

\* A failure is put on record where it happens, except that of an index record
\* published behind a refused data record.
LEMMA FaultReports ==
  ASSUME IInv, NEW p \in Procs, FaultStep(p)
  PROVE  Reported' \/ RefuseIndex(p) \/ LoseIndex(p)
<1>1. faults' + refusals' > 0
  <2>1. faults \in Nat /\ refusals \in Nat
    BY CallsAssumption DEF IInv, TypeOK
  <2>2. \/ faults' = faults + 1 /\ refusals' = refusals
        \/ faults' = faults /\ refusals' = refusals + 1
    BY DEF FaultStep, RefuseData, LoseData, RefuseIndex, LoseIndex, RefuseRewrite, Fail, Crash,
       Abandon, Fault, Refusal
  <2> QED BY <2>1, <2>2
<1>2. CASE RefuseData(p) \/ LoseData(p)
  <2>1. Acked(p, "failed")
    BY <1>2 DEF RefuseData, LoseData
  <2>2. pc'[p] \in {"index", "answer"} /\ loc'[p].ack = "failed"
    BY <2>1, OwnTypes DEF Acked, Goto, Loc
  <2> QED BY <1>1, <2>2 DEF Reported, Reporting, Failing
<1>3. CASE RefuseRewrite(p) \/ Fail(p) \/ Crash(p)
  <2>1. pc'[p] \in {"err", "crashed"}
    BY <1>3, OwnTypes DEF RefuseRewrite, Fail, Crash, Abandon, Goto
  <2> QED BY <1>1, <2>1 DEF Reported, Reporting
<1> QED BY <1>2, <1>3 DEF FaultStep

\* An index record nobody waits for is stored, or is not.
LEMMA DeliverTidy ==
  ASSUME IInv, IInv', Tidy, NEW p \in Procs, Deliver(p)
  PROVE  Tidy'
<1>1. PICK r \in late[p] :
        /\ late' = [late EXCEPT ![p] = @ \ {r}]
        /\ \/ r = "data" \/ r = "purgeIndex" \/ r = "purgeData"
           \/ StoreIndex \/ UNCHANGED storeVars
  BY DEF Deliver
<1>2. r = "index" /\ Calm(p) /\ SweepTidy(p) /\ WriteTidy(p)
  BY DEF Tidy, Calm
<1>3. /\ StoreIndex \/ UNCHANGED storeVars
      /\ UNCHANGED <<pc, call, loc>> /\ late'[p] \subseteq late[p] /\ TypeOK'
  BY <1>1, <1>2, OwnTypes DEF Deliver, IInv
<1>4. data' = data /\ (index' = TRUE \/ index' = index)
  BY <1>3 DEF StoreIndex, storeVars
<1>5. Vital' => Vital
  <2>1. Keeper(p)' => Keeper(p) /\ loc'[p].expect = loc[p].expect
    BY <1>3 DEF Keeper
  <2> QED BY <1>3, <1>4, <2>1, VitalKept
<1>6. Calm(p)' /\ WriteTidy(p)'
  BY <1>2, <1>3, <1>4 DEF Calm, Failing, WriteTidy, Keeper
<1>7. SweepTidy(p)'
  BY <1>2, <1>3, <1>4, <1>5 DEF SweepTidy
<1>8. NoGap'
  <2>1. Mending(p) => Mending(p)'
    BY <1>3 DEF Mending
  <2>2. CASE index' = TRUE
    BY <2>2 DEF NoGap
  <2>3. CASE index' = index
    BY <1>5, <2>1, <2>3, NoGapFrame
  <2> QED BY <1>4, <2>2, <2>3
<1> QED BY <1>3, <1>4, <1>5, <1>6, <1>7, <1>8, TidyFrame

\* Time only lets records die.
LEMMA TickTidy ==
  ASSUME IInv, IInv', Tidy, Tick \/ UNCHANGED vars
  PROVE  Tidy'
<1>1. /\ UNCHANGED <<pc, call, loc, late, data, index>> /\ now <= now' /\ TypeOK'
  BY DEF Tick, vars, storeVars, IInv, TypeOK
<1>2. Vital' => Vital
  <2>1. \A q \in Procs : Keeper(q)' /\ loc'[q].expect = data.rev =>
          Keeper(q) /\ loc[q].expect = data.rev
    BY <1>1 DEF Keeper
  <2> QED BY <1>1, <2>1, VitalFrame
<1>3. ASSUME NEW q \in Procs PROVE Calm(q)' /\ SweepTidy(q)' /\ WriteTidy(q)'
  BY <1>1, <1>2, OthersTidy DEF Tidy
<1>4. NoGap'
  BY <1>1, <1>2 DEF Tidy, NoGap, Mending
<1> QED BY <1>3, <1>4 DEF Tidy

\* The index stays in order, or a failure is on record.
LEMMA TidyStep ==
  ASSUME NoTtls
  PROVE  IInv /\ (Tidy \/ Reported) /\ [Next]_vars => (Tidy \/ Reported)'
<1> SUFFICES ASSUME IInv, Tidy \/ Reported, [Next]_vars PROVE Tidy' \/ Reported'
  OBVIOUS
<1>1. CASE Reported
  BY <1>1, ReportedStays
<1>2. CASE Tidy
  <2>1. IInv' /\ TypeOK'
    BY InvStep DEF IInv
  <2>2. ASSUME NEW p \in Procs, Begin(p) \/ CallStep(p) PROVE Tidy' \/ Reported'
    <3>1. CASE Begin(p) \/ Read(p)
      BY <1>2, <2>1, <3>1, BeginTidy, ReadTidy
    <3>2. CASE WriteData(p)
      BY <1>2, <2>1, <3>2, StoreTidy, ConflictTidy
    <3>3. CASE WriteIndex(p)
      BY <1>2, <2>1, <3>3, IndexTidy
    <3>4. CASE Answer(p) \/ RemoveStep(p) \/ Scan(p) \/ Settle(p)
      BY <1>2, <2>1, <3>4, AnswerTidy, RemoveTidy, ScanTidy
    <3> QED BY <2>2, <3>1, <3>2, <3>3, <3>4 DEF CallStep, WriteStep
  <2>3. ASSUME NEW p \in Procs, FaultStep(p) PROVE Tidy' \/ Reported'
    BY <1>2, <2>1, <2>3, FaultReports, IndexTidy
  <2>4. ASSUME NEW p \in Procs, Deliver(p) PROVE Tidy'
    BY <1>2, <2>1, <2>4, DeliverTidy
  <2>5. CASE Tick \/ UNCHANGED vars
    BY <1>2, <2>1, <2>5, TickTidy
  <2> QED BY <2>2, <2>3, <2>4, <2>5 DEF Next
<1> QED BY <1>1, <1>2

\* The key starts out in order.
LEMMA TidyInit ==
  ASSUME FirstsIndexed
  PROVE  Init => Tidy
<1> SUFFICES ASSUME Init PROVE Tidy
  OBVIOUS
<1>1. \A p \in Procs : pc[p] = "idle" /\ late[p] = {} /\ call[p].ttl = 0
  BY DEF Init, NoCall
<1>2. \A p \in Procs : Calm(p) /\ SweepTidy(p) /\ WriteTidy(p) /\ ~Keeper(p)
  BY <1>1 DEF Calm, Failing, SweepTidy, WriteTidy, Keeper
<1>3. Vital => index
  <2> SUFFICES ASSUME Vital PROVE index
    OBVIOUS
  <2>1. Live
    BY <1>2 DEF Vital
  <2>2. PICK f \in Firsts : data = f.data /\ index = f.index
    BY DEF Init
  <2>3. f.data.exp \in Nat /\ now = 1
    BY FirstAssumption DEF Record, Init
  <2>4. f.data.op = "Put" /\ (f.data.exp = 0 \/ f.data.exp > 1)
    BY <2>1, <2>2, <2>3 DEF Live, IsExpired
  <2> QED BY <2>2, <2>4 DEF FirstsIndexed
<1> QED BY <1>2, <1>3 DEF Tidy, NoGap

\* When no call is under way, a live key without an index record is one whose
\* loss was reported: for every number of calls of every kind, with any number
\* of requests refused, lost or late, as long as callers ask for no TTL and the
\* key starts out indexed (publish_index, reindex_if_live, remove_dead, unindex).
THEOREM GapsAlwaysReported ==
  ASSUME NoTtls, FirstsIndexed
  PROVE  Spec => []GapsReported
<1>1. Init => Tidy \/ Reported
  BY TidyInit
<1>2. IInv /\ (Tidy \/ Reported) /\ [Next]_vars => (Tidy \/ Reported)'
  BY TidyStep
<1>3. Tidy \/ Reported => GapsReported
  <2> SUFFICES ASSUME Tidy \/ Reported, Quiet, Live, ~index
               PROVE  Reported /\ \E p \in Procs : pc[p] \in {"err", "crashed"}
    BY DEF GapsReported, Reported
  <2>1. \A p \in Procs : ~Mending(p) /\ ~Failing(p)
    BY DEF Quiet, Outcomes, Mending, Failing
  <2>2. Vital
    BY DEF Vital, Live
  <2>3. Reported
    BY <2>1, <2>2 DEF Tidy, NoGap
  <2> QED BY <2>1, <2>3 DEF Reported, Reporting
<1> QED BY <1>1, <1>2, <1>3, KvInvariance, PTL DEF Spec
=============================================================================
