--------------------------- MODULE KvStoreProofs ---------------------------
(***************************************************************************)
(* Theorems about KvStore, for every set of calls, values, increments and  *)
(* TTLs, every record the key may start with, and every bound.             *)
(***************************************************************************)
EXTENDS KvStore, TLAPS

-----------------------------------------------------------------------------
(* The inductive invariant.                                                *)

\* Revisions are given once, and an empty subject has revision 0.
SlotInv ==
  /\ data.rev <= seq
  /\ data.rev = 0 <=> data.op = "None"

\* A call has its operation and arguments from the menu, and nothing in flight
\* before it has sent anything.
CallInv(p) ==
  /\ call[p].op = "incr" => call[p].arg \in Deltas
  /\ pc[p] = "idle" => loc[p] = NoLoc
  /\ pc[p] \in {"idle", "scan"} => late[p] = {}
  /\ pc[p] \in {"scan", "settle", "purgeData"} => call[p].op = "sweep"
  /\ pc[p] = "read" => call[p].op \in {"claim", "delete", "expire", "incr"}
  /\ call[p].op = "claim" /\ pc[p] \in {"read", "data", "index", "answer"} =>
       loc[p].body.op = "Put"
  /\ call[p].op = "sweep" =>
       ~loc[p].creates /\ loc[p].indexed = "none" /\ pc[p] # "index"

\* While its data write is in flight a call has given it up, and never writes
\* again.
PlaceInv(p) ==
  "data" \in late[p] =>
    \/ pc[p] \in {"index", "answer"} /\ loc[p].ack = "failed"
    \/ pc[p] \in {"unindex", "reread", "rewrite"} /\ call[p].op # "sweep"
    \/ pc[p] \in {"err", "crashed"}

\* The sweep's revision is one of the past, and what it is about to remove, if
\* still there, is dead for good.
Condemning(p) ==
  \/ pc[p] = "unindex" /\ call[p].op = "sweep"
  \/ pc[p] = "purgeData"
  \/ "purgeData" \in late[p]

Marked(p) ==
  /\ loc[p].asof <= now
  /\ loc[p].mark <= seq
  /\ data.rev = 0 \/ loc[p].mark <= data.rev

Doomed(p) == data.rev \in 1..loc[p].mark => ~Live

SweepInv(p) == Marked(p) /\ (Condemning(p) => Doomed(p))

\* A data write that the server would accept now is one the contract allows.
Flying(p) == pc[p] = "data" \/ "data" \in late[p]

Fits(p) ==
  LET b == loc[p].body
      op == call[p].op
  IN /\ b.op = IF op = "delete" THEN "Del" ELSE "Put"
     /\ op = "claim" => ~Live
     /\ op \in {"expire", "sweep"} => data.op = "Put" /\ b.val = data.val
     /\ op = "sweep" => b.exp = data.exp
     /\ op = "incr" => \/ ~Live /\ b.val \in Deltas
                       \/ /\ data.op = "Put" /\ data.val # Blob
                          /\ \E d \in Deltas : b.val = data.val + d

\* What it expects is a revision of the past; only a claim and a new count
\* expect nothing.
Expects(p) ==
  /\ loc[p].expect <= seq
  /\ call[p].op \in {"put", "delete"} => loc[p].expect = Anything
  /\ call[p].op \in {"claim", "incr"} => loc[p].expect >= 0
  /\ call[p].op \in {"expire", "sweep"} => loc[p].expect > 0
  /\ call[p].op = "claim" => loc[p].body.op = "Put"
  /\ call[p].op = "incr" /\ loc[p].expect = 0 =>
       loc[p].body.op = "Put" /\ loc[p].body.val \in Deltas

Harmless(p) == Expects(p) /\ (Accepts(p) => Fits(p))

FlightInv(p) == Flying(p) => Harmless(p)

\* Where a call stands says whether its write was stored.
OnceInv(p) ==
  /\ pc[p] \in {"idle", "scan", "settle", "read", "data"} => applied[p] = 0
  /\ pc[p] \in {"index", "answer"} =>
       /\ loc[p].ack # "none"
       /\ loc[p].ack = "ok" => applied[p] = 1
       /\ loc[p].ack = "conflict" => applied[p] = 0
  /\ "data" \in late[p] => applied[p] = 0

\* A call that may still lose a round has one left.
RoundsInv(p) ==
  (\/ pc[p] \in {"idle", "scan", "settle", "data", "index", "answer"}
   \/ pc[p] = "read" /\ call[p].op # "claim")
  => loc[p].rounds < Rounds

ProcInv(p) ==
  RoundsInv(p) /\ CallInv(p) /\ PlaceInv(p) /\ SweepInv(p) /\ FlightInv(p) /\ OnceInv(p)

IInv == TypeOK /\ SlotInv /\ \A p \in Procs : ProcInv(p) /\ StoredAsReported(p)
-----------------------------------------------------------------------------
(* Type correctness.                                                       *)

\* The fixed records have their types, and so has what a call builds.
LEMMA Fixed ==
  /\ NoBody \in Body /\ Marker \in Body /\ NoData \in Record
  /\ NoLoc \in Loc /\ NoCall \in Call
BY CallsAssumption DEF NoBody, Marker, Body, NoData, Record, Value, NoLoc, Loc, Acks,
                       NoCall, Call, Kinds

LEMMA BodyType ==
  ASSUME NEW v \in Value, NEW e \in Nat
  PROVE  PutBody(v, e) \in Body
BY DEF PutBody, Body

LEMMA ExpiryType ==
  ASSUME TypeOK, NEW t \in Nat
  PROVE  ExpiresAt(t) \in Nat
BY DEF TypeOK, ExpiresAt

LEMMA MenuType ==
  ASSUME NEW c \in Menu
  PROVE  /\ c \in Call /\ c.op \in Ops
         /\ c.op = "incr" => c.arg \in Deltas
<1> USE CallsAssumption DEF Call, Value, Kinds
<1>1. CASE c \in [op : Ops \cap {"put", "claim"}, arg : Values, ttl : Ttls]
  BY <1>1
<1>2. CASE c \in [op : Ops \cap {"incr"}, arg : Deltas, ttl : Ttls]
  BY <1>2
<1>3. CASE c \in [op : Ops \cap {"expire"}, arg : {0}, ttl : Ttls]
  <2>1. c.op = "expire" /\ c.op \in Ops /\ c.arg = 0 /\ c.ttl \in Nat
    BY <1>3
  <2>2. c = [op |-> "expire", arg |-> 0, ttl |-> c.ttl]
    BY <1>3, <2>1
  <2> QED BY <2>1, <2>2
<1>4. CASE c \in [op : Ops \cap {"delete", "sweep"}, arg : {0}, ttl : {0}]
  BY <1>4
<1> QED BY <1>1, <1>2, <1>3, <1>4 DEF Menu

\* The local state of a call and the program points.
LocalOK == loc' \in [Procs -> Loc] /\ pc' \in [Procs -> {"idle"} \cup Steps \cup Outcomes]

LEMMA GotoType ==
  ASSUME TypeOK, NEW p \in Procs, NEW step \in {"idle"} \cup Steps \cup Outcomes, Goto(p, step)
  PROVE  pc' \in [Procs -> {"idle"} \cup Steps \cup Outcomes]
BY DEF TypeOK, Goto

LEMMA PublishType ==
  ASSUME TypeOK, NEW p \in Procs, NEW e \in Int, NEW b \in Body, NEW c \in BOOLEAN,
         Publish(p, e, b, c)
  PROVE  LocalOK
<1> DEFINE new ==
      [rounds |-> loc[p].rounds, expect |-> e, body |-> b, creates |-> c, existed |-> Live,
       ack |-> "none", indexed |-> "none", mark |-> loc[p].mark, asof |-> loc[p].asof]
<1>0. new \in Loc
  <2>1. /\ loc[p].rounds \in 0..Rounds /\ loc[p].mark \in Nat /\ loc[p].asof \in Nat
    BY DEF TypeOK, Loc
  <2>2. Live \in BOOLEAN
    BY DEF Live
  <2> HIDE DEF Live
  <2> QED BY <2>1, <2>2 DEF Loc, Acks
<1>1. loc' \in [Procs -> Loc]
  <2> HIDE DEF new
  <2>1. loc' = [loc EXCEPT ![p] = new]
    BY DEF Publish, new
  <2> QED BY <1>0, <2>1 DEF TypeOK
<1>2. pc' \in [Procs -> {"idle"} \cup Steps \cup Outcomes]
  BY GotoType DEF Publish, Steps
<1> QED BY <1>1, <1>2 DEF LocalOK

LEMMA BeginType ==
  ASSUME TypeOK, NEW p \in Procs, Begin(p)
  PROVE  LocalOK /\ call' \in [Procs -> Call]
<1>1. PICK c \in Menu :
        /\ call' = [call EXCEPT ![p] = c]
        /\ \/ /\ c.op \in {"put", "claim"}
              /\ Publish(p, IF c.op = "put" THEN Anything ELSE 0,
                         PutBody(c.arg, ExpiresAt(c.ttl)), TRUE)
           \/ Goto(p, "read") /\ UNCHANGED loc
           \/ loc' = [loc EXCEPT ![p].asof = now] /\ Goto(p, "scan")
  BY DEF Begin
<1>2. c \in Call /\ c.arg \in Value /\ c.ttl \in Nat
  BY MenuType DEF Call
<1>3. PutBody(c.arg, ExpiresAt(c.ttl)) \in Body
  BY <1>2, BodyType, ExpiryType
<1>4. (IF c.op = "put" THEN Anything ELSE 0) \in Int
  BY DEF Anything
<1>5. CASE Publish(p, IF c.op = "put" THEN Anything ELSE 0,
                   PutBody(c.arg, ExpiresAt(c.ttl)), TRUE)
  BY <1>1, <1>2, <1>3, <1>4, <1>5, PublishType DEF TypeOK
<1>6. CASE Goto(p, "read") /\ UNCHANGED loc
  BY <1>1, <1>2, <1>6, GotoType DEF TypeOK, LocalOK, Steps
<1>7. CASE loc' = [loc EXCEPT ![p].asof = now] /\ Goto(p, "scan")
  <2>1. loc' \in [Procs -> Loc]
    BY <1>7 DEF TypeOK, Loc
  <2> QED BY <1>1, <1>2, <1>7, <2>1, GotoType DEF TypeOK, LocalOK, Steps
<1> QED BY <1>1, <1>5, <1>6, <1>7

LEMMA ReadType ==
  ASSUME TypeOK, NEW p \in Procs, Read(p)
  PROVE  LocalOK
<1>1. /\ data.rev \in Int /\ data.val \in Value /\ data.exp \in Nat
      /\ loc[p] \in Loc /\ loc[p].body \in Body
      /\ call[p].arg \in Value /\ call[p].ttl \in Nat
  BY DEF TypeOK, Record, Loc, Call
<1>2. ExpiresAt(call[p].ttl) \in Nat /\ Live \in BOOLEAN
  BY <1>1, ExpiryType DEF Live
<1>3. CASE ReadForClaim(p)
  <2>1. CASE UNCHANGED loc
    BY <1>3, <2>1, GotoType DEF ReadForClaim, Publish, TypeOK, LocalOK, Steps, Outcomes
  <2>2. CASE Publish(p, data.rev, loc[p].body, TRUE)
    BY <1>1, <2>2, PublishType
  <2> QED BY <1>3, <2>1, <2>2 DEF ReadForClaim
<1>4. CASE ReadForDelete(p)
  <2>1. Anything \in Int
    BY DEF Anything
  <2> QED BY <1>4, <2>1, Fixed, PublishType DEF ReadForDelete
<1>5. CASE ReadForExpire(p)
  <2>1. CASE UNCHANGED loc /\ Goto(p, "no")
    BY <2>1, GotoType DEF TypeOK, LocalOK, Outcomes
  <2>2. CASE Publish(p, data.rev, PutBody(data.val, ExpiresAt(call[p].ttl)), FALSE)
    BY <1>1, <1>2, <2>2, PublishType, BodyType
  <2> QED BY <1>5, <2>1, <2>2 DEF ReadForExpire
<1>6. CASE ReadForIncr(p)
  <2> DEFINE current == IF Live THEN data.val ELSE 0
             next == current + call[p].arg
             exp == IF Live /\ call[p].ttl = 0 THEN data.exp ELSE ExpiresAt(call[p].ttl)
  <2>1. CASE UNCHANGED loc /\ (Goto(p, "err") \/ Goto(p, "ok"))
    BY <2>1, GotoType DEF TypeOK, LocalOK, Outcomes
  <2>2. CASE next \in Counts /\ Publish(p, data.rev, PutBody(next, exp), ~Live)
    <3>1. next \in Value
      <4> HIDE DEF next
      <4> QED BY <2>2, CallsAssumption DEF Counts, Value
    <3>3. exp \in Nat
      BY <1>1, <1>2
    <3>4. (~Live) \in BOOLEAN
      BY <1>2
    <3>2. PutBody(next, exp) \in Body
      BY <3>1, <3>3, BodyType
    <3> HIDE DEF next, exp
    <3> QED BY <1>1, <2>2, <3>4, <3>2, PublishType
  <2> QED BY <1>6, <2>1, <2>2 DEF ReadForIncr
<1> QED BY <1>3, <1>4, <1>5, <1>6 DEF Read

StoreOK ==
  /\ seq \in Nat /\ data \in Record /\ index \in BOOLEAN
  /\ applied \in [Procs -> Nat]
  /\ wrote \in Kinds \cup {"none", "purge"}

LEMMA StoreDataType ==
  ASSUME TypeOK, NEW p \in Procs, StoreData(p)
  PROVE  StoreOK'
<1>1. /\ loc[p].body.op \in {"None", "Put", "Del"} /\ loc[p].body.val \in Value
      /\ loc[p].body.exp \in Nat /\ call[p].op \in Kinds
  BY DEF TypeOK, Loc, Body, Call
<1>2. seq' \in Nat /\ data' \in Record
  BY <1>1 DEF TypeOK, StoreData, Record
<1>3. applied' \in [Procs -> Nat] /\ wrote' \in Kinds \cup {"none", "purge"}
  BY <1>1 DEF TypeOK, StoreData
<1>5. index' \in BOOLEAN
  BY DEF TypeOK, StoreData
<1> QED BY <1>2, <1>3, <1>5 DEF StoreOK

LEMMA StoreIndexType ==
  ASSUME TypeOK, StoreIndex \/ PurgeIndex \/ UNCHANGED storeVars
  PROVE  StoreOK'
BY DEF TypeOK, StoreOK, StoreIndex, PurgeIndex, storeVars

LEMMA PurgeType ==
  ASSUME TypeOK, NEW p \in Procs, PurgeThrough(p)
  PROVE  StoreOK'
<1>1. CASE UNCHANGED storeVars
  BY <1>1, StoreIndexType
<1>2. CASE data' = NoData /\ wrote' = "purge" /\ UNCHANGED <<seq, index, applied>>
  BY <1>2, Fixed DEF TypeOK, StoreOK
<1> QED BY <1>1, <1>2 DEF PurgeThrough

\* The write steps.
LEMMA AckedType ==
  ASSUME TypeOK, NEW p \in Procs, NEW ack \in Acks, Acked(p, ack) \/ Indexed(p, ack)
  PROVE  LocalOK
<1>1. loc' \in [Procs -> Loc]
  <2>1. loc' = [loc EXCEPT ![p].ack = ack] \/ loc' = [loc EXCEPT ![p].indexed = ack]
    BY DEF Acked, Indexed
  <2>2. loc \in [Procs -> Loc]
    BY DEF TypeOK
  <2>3. CASE loc' = [loc EXCEPT ![p].ack = ack]
    BY <2>2, <2>3 DEF Loc
  <2>4. CASE loc' = [loc EXCEPT ![p].indexed = ack]
    BY <2>2, <2>4 DEF Loc
  <2> QED BY <2>1, <2>3, <2>4
<1>2. pc' \in [Procs -> {"idle"} \cup Steps \cup Outcomes]
  BY DEF TypeOK, Acked, Indexed, Goto, Steps
<1> QED BY <1>1, <1>2 DEF LocalOK

LEMMA AnswerType ==
  ASSUME TypeOK, NEW p \in Procs, Answer(p), loc[p].rounds < Rounds
  PROVE  LocalOK
<1>1. CASE LostCas(p)
  <2>1. loc[p] \in Loc /\ loc[p].rounds \in 0..Rounds /\ Rounds \in Nat
    BY CallsAssumption DEF TypeOK, Loc
  <2>2. loc[p].rounds + 1 \in 0..Rounds
    BY <2>1
  <2>3. loc' = [loc EXCEPT ![p].rounds = loc[p].rounds + 1] \/ loc' = loc
    BY <1>1 DEF LostCas
  <2>4. loc' \in [Procs -> Loc]
    BY <2>2, <2>3 DEF TypeOK, Loc
  <2>5. pc' \in [Procs -> {"idle"} \cup Steps \cup Outcomes]
    BY <1>1 DEF TypeOK, LostCas, Goto, Steps, Outcomes
  <2> QED BY <2>4, <2>5 DEF LocalOK
<1>2. CASE loc[p].ack = "ok" /\ UNCHANGED loc
  BY <1>2 DEF Answer, LostCas, TypeOK, LocalOK, Goto, Steps, Outcomes
<1>3. CASE loc[p].ack = "failed" /\ UNCHANGED loc
  BY <1>3 DEF Answer, LostCas, TypeOK, LocalOK, Goto, Steps, Outcomes
<1> QED BY <1>1, <1>2, <1>3 DEF Answer

LEMMA ScanType ==
  ASSUME TypeOK, NEW p \in Procs, Scan(p) \/ Settle(p)
  PROVE  LocalOK
<1>1. data.rev \in Nat /\ data.val \in Value /\ data.exp \in Nat /\ loc[p].mark \in Nat
  BY DEF TypeOK, Record, Loc
<1>2. CASE Scan(p)
  <2>1. loc' \in [Procs -> Loc]
    <3>1. loc' = [loc EXCEPT ![p].mark = data.rev]
      BY <1>2 DEF Scan
    <3> QED BY <1>1, <3>1 DEF TypeOK, Loc
  <2>2. pc' \in [Procs -> {"idle"} \cup Steps \cup Outcomes]
    <3>1. Goto(p, "unindex") \/ Goto(p, "settle") \/ Goto(p, "ok")
      BY <1>2 DEF Scan
    <3> QED BY <3>1, GotoType DEF Steps, Outcomes
  <2> QED BY <2>1, <2>2 DEF LocalOK
<1>3. CASE Settle(p)
  <2>1. CASE UNCHANGED loc /\ (Goto(p, "ok") \/ Goto(p, "unindex"))
    BY <2>1, GotoType DEF TypeOK, LocalOK, Steps, Outcomes
  <2>2. CASE Publish(p, loc[p].mark, PutBody(data.val, data.exp), FALSE)
    <3>1. PutBody(data.val, data.exp) \in Body /\ loc[p].mark \in Int
      BY <1>1, BodyType
    <3> QED BY <2>2, <3>1, PublishType
  <2> QED BY <1>3, <2>1, <2>2 DEF Settle
<1> QED BY <1>2, <1>3

\* The removal steps.
LEMMA RemoveType ==
  ASSUME TypeOK, NEW p \in Procs, RemoveStep(p)
  PROVE  LocalOK /\ StoreOK'
<1>1. LocalOK
  BY DEF RemoveStep, RemoveIndex, RemoveData, Reread, Rewrite, Repaired, TypeOK, LocalOK,
         Goto, Steps, Outcomes
<1>2. StoreOK'
  BY StoreIndexType, PurgeType DEF RemoveStep, RemoveIndex, RemoveData, Reread, Rewrite
<1> QED BY <1>1, <1>2

\* What a failure leaves behind.
LEMMA FaultType ==
  ASSUME TypeOK, NEW p \in Procs, FaultStep(p)
  PROVE  /\ LocalOK /\ StoreOK' /\ late' \in [Procs -> SUBSET Requests]
         /\ faults' \in 0..MaxFaults /\ refusals' \in 0..MaxRefusals
         /\ UNCHANGED <<now, call>>
<1>1. UNCHANGED <<now, call>> /\ UNCHANGED storeVars
  BY DEF FaultStep, RefuseData, LoseData, RefuseIndex, LoseIndex, RefuseRewrite, Fail, Crash,
         Abandon
<1>2. StoreOK'
  BY <1>1, StoreIndexType
<1>3. faults' \in 0..MaxFaults /\ refusals' \in 0..MaxRefusals
  BY CallsAssumption
     DEF TypeOK, FaultStep, RefuseData, LoseData, RefuseIndex, LoseIndex, RefuseRewrite, Fail,
         Crash, Abandon, Fault, Refusal
<1>4. InFlight(p) \subseteq Requests
  BY DEF InFlight, Requests
<1>5. late' \in [Procs -> SUBSET Requests]
  <2>1. CASE Fail(p) \/ Crash(p)
    <3>1. PICK sent \in SUBSET InFlight(p) : late' = [late EXCEPT ![p] = @ \cup sent]
      BY <2>1 DEF Fail, Crash, Abandon
    <3> QED BY <1>4, <3>1 DEF TypeOK
  <2>2. CASE ~(Fail(p) \/ Crash(p))
    BY <2>2 DEF TypeOK, FaultStep, RefuseData, LoseData, RefuseIndex, LoseIndex, RefuseRewrite,
                Requests
  <2> QED BY <2>1, <2>2
<1>6. LocalOK
  <2>1. CASE RefuseData(p) \/ LoseData(p) \/ RefuseIndex(p) \/ LoseIndex(p)
    BY <2>1, AckedType DEF RefuseData, LoseData, RefuseIndex, LoseIndex, Acks
  <2>2. CASE RefuseRewrite(p) \/ Fail(p) \/ Crash(p)
    BY <2>2, GotoType DEF RefuseRewrite, Fail, Crash, Abandon, TypeOK, LocalOK, Outcomes
  <2> QED BY <2>1, <2>2 DEF FaultStep
<1> QED BY <1>1, <1>2, <1>3, <1>5, <1>6

\* Every step keeps the types.
LEMMA TypeStep == IInv /\ [Next]_vars => TypeOK'
<1> SUFFICES ASSUME IInv, [Next]_vars PROVE TypeOK'
  OBVIOUS
<1>0. TypeOK
  BY DEF IInv
<1>1. ASSUME NEW p \in Procs, Begin(p) PROVE TypeOK'
  BY <1>0, <1>1, BeginType, StoreIndexType DEF Begin, Unsent, TypeOK, LocalOK, StoreOK
<1>2. ASSUME NEW p \in Procs, Read(p) PROVE TypeOK'
  BY <1>0, <1>2, ReadType, StoreIndexType DEF Read, Unsent, TypeOK, LocalOK, StoreOK
<1>3. ASSUME NEW p \in Procs, WriteData(p) \/ WriteIndex(p) PROVE TypeOK'
  <2>1. LocalOK
    BY <1>0, <1>3, AckedType DEF WriteData, WriteIndex, Acks
  <2>2. StoreOK'
    BY <1>0, <1>3, StoreDataType, StoreIndexType DEF WriteData, WriteIndex
  <2> QED BY <1>0, <1>3, <2>1, <2>2 DEF WriteData, WriteIndex, Unsent, TypeOK, LocalOK, StoreOK
<1>4. ASSUME NEW p \in Procs, Answer(p) PROVE TypeOK'
  <2>1. loc[p].rounds < Rounds
    BY <1>4 DEF Answer, IInv, ProcInv, RoundsInv
  <2> QED BY <1>0, <1>4, <2>1, AnswerType, StoreIndexType
          DEF Answer, Unsent, TypeOK, LocalOK, StoreOK
<1>5. ASSUME NEW p \in Procs, RemoveStep(p) PROVE TypeOK'
  <2>1. UNCHANGED <<now, late, faults, refusals, call>>
    BY <1>5 DEF RemoveStep, RemoveIndex, RemoveData, Reread, Rewrite, Unsent
  <2> QED BY <1>0, <1>5, <2>1, RemoveType DEF TypeOK, LocalOK, StoreOK
<1>6. ASSUME NEW p \in Procs, Scan(p) \/ Settle(p) PROVE TypeOK'
  <2>1. UNCHANGED <<now, late, faults, refusals, call>> /\ UNCHANGED storeVars
    BY <1>6 DEF Scan, Settle, Unsent
  <2> QED BY <1>0, <1>6, <2>1, ScanType, StoreIndexType DEF TypeOK, LocalOK, StoreOK
<1>7. ASSUME NEW p \in Procs, FaultStep(p) PROVE TypeOK'
  BY <1>0, <1>7, FaultType DEF TypeOK, LocalOK, StoreOK
<1>8. ASSUME NEW p \in Procs, Deliver(p) PROVE TypeOK'
  <2>1. StoreOK'
    BY <1>0, <1>8, StoreDataType, StoreIndexType, PurgeType DEF Deliver
  <2>2. late' \in [Procs -> SUBSET Requests]
    BY <1>0, <1>8 DEF Deliver, TypeOK
  <2> QED BY <1>0, <1>8, <2>1, <2>2 DEF Deliver, TypeOK, StoreOK
<1>9. CASE Tick \/ UNCHANGED vars
  BY <1>0, <1>9 DEF Tick, vars, storeVars, TypeOK
<1> QED BY <1>1, <1>2, <1>3, <1>4, <1>5, <1>6, <1>7, <1>8, <1>9
        DEF Next, CallStep, WriteStep

-----------------------------------------------------------------------------
(* What time, stores and purges do to a call that takes no step.           *)

\* The data record stays, gets a successor with a new revision, or goes.
StoreChange ==
  \/ UNCHANGED <<seq, data>>
  \/ seq' = seq + 1 /\ data'.rev = seq + 1 /\ data'.op # "None"
  \/ seq' = seq /\ data' = NoData

LEMMA SlotFrame ==
  ASSUME TypeOK, SlotInv, StoreChange
  PROVE  SlotInv'
BY DEF TypeOK, Record, SlotInv, StoreChange, NoData

\* What is dead stays dead, and nothing is live in an empty subject.
LEMMA DeadFrame ==
  ASSUME TypeOK, now <= now', now' \in Nat
  PROVE  /\ data' = data /\ ~Live => ~Live'
         /\ data' = NoData => ~Live'
<1>1. now \in Nat /\ data.exp \in Nat
  BY DEF TypeOK, Record
<1>2. ASSUME data' = data, ~Live PROVE ~Live'
  BY <1>1, <1>2 DEF Live, IsExpired
<1>3. ASSUME data' = NoData PROVE ~Live'
  BY <1>3 DEF Live, NoData
<1> QED BY <1>2, <1>3

\* The parts of a call's local state its writes and removals depend on.
SameLocals(p) ==
  /\ call'[p] = call[p]
  /\ loc'[p].expect = loc[p].expect /\ loc'[p].body = loc[p].body
  /\ loc'[p].mark = loc[p].mark /\ loc'[p].asof = loc[p].asof

LEMMA MarkFrame ==
  ASSUME TypeOK, TypeOK', SlotInv, StoreChange, now <= now', NEW p \in Procs,
         loc'[p].mark = loc[p].mark, loc'[p].asof = loc[p].asof
  PROVE  /\ Marked(p) => Marked(p)'
         /\ Marked(p) /\ Doomed(p) => Doomed(p)'
<1>1. /\ now \in Nat /\ now' \in Nat /\ seq \in Nat /\ data.rev \in Nat
      /\ loc[p].asof \in Nat /\ loc[p].mark \in Nat
  BY DEF TypeOK, Record, Loc
<1>2. ASSUME Marked(p) PROVE Marked(p)'
  BY <1>1, <1>2 DEF Marked, StoreChange, SlotInv, NoData
<1>3. ASSUME Marked(p), Doomed(p) PROVE Doomed(p)'
  <2>1. CASE UNCHANGED <<seq, data>>
    BY <1>1, <1>3, <2>1, DeadFrame DEF Doomed
  <2>2. CASE seq' = seq + 1 /\ data'.rev = seq + 1
    BY <1>1, <1>3, <2>2 DEF Doomed, Marked
  <2>3. CASE data' = NoData
    BY <1>1, <2>3, DeadFrame DEF Doomed
  <2> QED BY <2>1, <2>2, <2>3 DEF StoreChange
<1> QED BY <1>2, <1>3

LEMMA HarmlessFrame ==
  ASSUME TypeOK, TypeOK', SlotInv, StoreChange, now <= now', NEW p \in Procs, SameLocals(p),
         Harmless(p)
  PROVE  Harmless(p)'
<1>1. /\ now' \in Nat /\ seq \in Nat /\ data.rev \in Nat /\ loc[p].expect \in Int
      /\ call[p].op \in Kinds
  BY DEF TypeOK, Record, Loc, Call
<1>2. Expects(p) /\ (Accepts(p) => Fits(p))
  BY DEF Harmless
<1>3. Expects(p)'
  BY <1>1, <1>2 DEF Expects, SameLocals, StoreChange
<1>4. ASSUME Accepts(p)' PROVE Fits(p)'
  <2>1. CASE UNCHANGED <<seq, data>>
    <3>1. Fits(p)
      BY <1>2, <1>4, <2>1 DEF Accepts, SameLocals
    <3>2. ~Live => ~Live'
      BY <1>1, <2>1, DeadFrame
    <3> QED BY <2>1, <3>1, <3>2 DEF Fits, SameLocals
  <2>2. CASE seq' = seq + 1 /\ data'.rev = seq + 1
    <3>1. loc[p].expect = Anything
      BY <1>1, <1>2, <1>4, <2>2 DEF Accepts, Expects, SameLocals
    <3>2. call[p].op \in {"put", "delete"}
      BY <1>1, <1>2, <3>1 DEF Expects, Anything, Kinds
    <3>3. Fits(p)
      BY <1>2, <3>1 DEF Accepts
    <3> QED BY <3>2, <3>3 DEF Fits, SameLocals
  <2>3. CASE data' = NoData
    <3>1. ~Live'
      BY <1>1, <2>3, DeadFrame
    <3>2. loc[p].expect \in {Anything, 0}
      BY <1>4, <2>3 DEF Accepts, SameLocals, NoData
    <3>3. CASE loc[p].expect = Anything
      <4>1. call[p].op \in {"put", "delete"}
        BY <1>1, <1>2, <3>3 DEF Expects, Anything, Kinds
      <4>2. Fits(p)
        BY <1>2, <3>3 DEF Accepts
      <4> QED BY <4>1, <4>2 DEF Fits, SameLocals
    <3>4. CASE loc[p].expect = 0
      <4>1. call[p].op \in {"claim", "incr"}
        BY <1>1, <1>2, <3>4 DEF Expects, Kinds, Anything
      <4>2. call[p].op \in {"claim", "incr"} => Fits(p)'
        BY <1>2, <3>1, <3>4 DEF Expects, Fits, SameLocals
      <4> QED BY <4>1, <4>2
    <3> QED BY <3>2, <3>3, <3>4
  <2> QED BY <2>1, <2>2, <2>3 DEF StoreChange
<1> QED BY <1>3, <1>4 DEF Harmless

LEMMA OtherFrame ==
  ASSUME TypeOK, TypeOK', SlotInv, StoreChange, now <= now',
         NEW p \in Procs, ProcInv(p), StoredAsReported(p),
         pc'[p] = pc[p], call'[p] = call[p], loc'[p] = loc[p], late'[p] = late[p],
         applied'[p] = applied[p]
  PROVE  ProcInv(p)' /\ StoredAsReported(p)'
<1>1. SameLocals(p)
  BY DEF SameLocals
<1>2. SweepInv(p)'
  BY MarkFrame DEF ProcInv, SweepInv, Condemning
<1>3. FlightInv(p)'
  BY <1>1, HarmlessFrame DEF ProcInv, FlightInv, Flying
<1>4. RoundsInv(p)' /\ CallInv(p)' /\ PlaceInv(p)' /\ OnceInv(p)' /\ StoredAsReported(p)'
  BY DEF ProcInv, RoundsInv, CallInv, PlaceInv, OnceInv, StoredAsReported
<1> QED BY <1>2, <1>3, <1>4 DEF ProcInv

-----------------------------------------------------------------------------
(* The steps of a call.                                                    *)

\* What a step of call p starts from and what it must establish.
Own(p) == ProcInv(p)' /\ StoredAsReported(p)'

\* A step that stores nothing leaves the record as it was.
LEMMA QuietStore ==
  ASSUME UNCHANGED storeVars \/ StoreIndex \/ PurgeIndex
  PROVE  StoreChange /\ UNCHANGED <<seq, data, applied>>
BY DEF storeVars, StoreIndex, PurgeIndex, StoreChange

LEMMA BeginInv ==
  ASSUME IInv, TypeOK', NEW p \in Procs, Begin(p)
  PROVE  Own(p)
<1> USE DEF IInv
<1>0. /\ loc[p] = NoLoc /\ late[p] = {} /\ late' = late /\ applied[p] = 0 /\ Marked(p)
      /\ now' = now /\ UNCHANGED <<seq, data, applied>> /\ pc[p] = "idle"
  BY DEF Begin, Unsent, storeVars, ProcInv, CallInv, OnceInv, SweepInv
<1>t. /\ data.rev \in Nat /\ now \in Nat /\ seq \in Nat /\ Rounds \in Nat \ {0}
      /\ pc \in [Procs -> {"idle"} \cup Steps \cup Outcomes]
      /\ call \in [Procs -> Call] /\ loc \in [Procs -> Loc]
  BY CallsAssumption DEF TypeOK, Record
<1>1. PICK c \in Menu :
        /\ call' = [call EXCEPT ![p] = c]
        /\ \/ /\ c.op \in {"put", "claim"}
              /\ Publish(p, IF c.op = "put" THEN Anything ELSE 0,
                         PutBody(c.arg, ExpiresAt(c.ttl)), TRUE)
           \/ /\ c.op \in {"delete", "expire", "incr"}
              /\ Goto(p, "read") /\ UNCHANGED loc
           \/ /\ c.op = "sweep"
              /\ loc' = [loc EXCEPT ![p].asof = now] /\ Goto(p, "scan")
  BY DEF Begin
<1>2. call'[p] = c /\ (c.op = "incr" => c.arg \in Deltas)
  BY <1>t, <1>1, MenuType
<1>3. CASE c.op \in {"put", "claim"} /\ Publish(p, IF c.op = "put" THEN Anything ELSE 0,
                         PutBody(c.arg, ExpiresAt(c.ttl)), TRUE)
  <2>1. /\ pc'[p] = "data"
        /\ loc'[p].rounds = 0 /\ loc'[p].mark = 0 /\ loc'[p].asof = 0
        /\ loc'[p].expect = IF c.op = "put" THEN Anything ELSE 0
        /\ loc'[p].body.op = "Put"
    BY <1>0, <1>t, <1>3 DEF Publish, Goto, NoLoc, PutBody
  <2>2. Harmless(p)'
    <3>1. c.op = "claim" /\ Accepts(p)' => ~Live'
      BY <1>0, <1>2, <2>1 DEF Accepts, Live, SlotInv, Anything
    <3> QED BY <1>0, <1>t, <1>2, <1>3, <2>1, <3>1 DEF Harmless, Expects, Fits, Anything
  <2>3. SweepInv(p)'
    BY <1>0, <1>t, <2>1 DEF SweepInv, Marked, Condemning
  <2>4. RoundsInv(p)' /\ CallInv(p)' /\ PlaceInv(p)' /\ OnceInv(p)' /\ StoredAsReported(p)'
    BY <1>0, <1>t, <1>2, <1>3, <2>1
       DEF RoundsInv, CallInv, PlaceInv, OnceInv, StoredAsReported
  <2> QED BY <2>2, <2>3, <2>4 DEF Own, ProcInv, FlightInv
<1>4. CASE c.op \in {"delete", "expire", "incr"} /\ Goto(p, "read") /\ UNCHANGED loc
  <2>1. pc'[p] = "read" /\ loc'[p] = NoLoc
    BY <1>0, <1>t, <1>4 DEF Goto
  <2> QED BY <1>0, <1>t, <1>2, <1>4, <2>1
          DEF Own, ProcInv, RoundsInv, CallInv, PlaceInv, OnceInv, StoredAsReported, SweepInv,
              Marked, Condemning, FlightInv, Flying, NoLoc
<1>5. CASE c.op = "sweep" /\ loc' = [loc EXCEPT ![p].asof = now] /\ Goto(p, "scan")
  <2>1. /\ pc'[p] = "scan" /\ loc'[p].rounds = 0 /\ loc'[p].mark = 0 /\ loc'[p].asof = now
        /\ loc'[p].creates = FALSE /\ loc'[p].indexed = "none"
    BY <1>0, <1>t, <1>5 DEF Goto, NoLoc
  <2> QED BY <1>0, <1>t, <1>2, <1>5, <2>1
          DEF Own, ProcInv, RoundsInv, CallInv, PlaceInv, OnceInv, StoredAsReported, SweepInv,
              Marked, Condemning, FlightInv, Flying
<1> QED BY <1>1, <1>3, <1>4, <1>5

\* A call that goes on to its data write.
LEMMA PublishInv ==
  ASSUME IInv, TypeOK', NEW p \in Procs, NEW e, NEW b, NEW c, Publish(p, e, b, c),
         UNCHANGED <<now, late, call>>, UNCHANGED storeVars,
         pc[p] \in {"read", "settle"}, loc[p].rounds < Rounds, Harmless(p)',
         call[p].op = "claim" => b.op = "Put", call[p].op = "sweep" => ~c
  PROVE  Own(p)
<1> USE DEF IInv
<1>t. /\ pc \in [Procs -> {"idle"} \cup Steps \cup Outcomes] /\ loc \in [Procs -> Loc]
      /\ now \in Nat
  BY DEF TypeOK
<1>1. /\ pc'[p] = "data"
      /\ loc'[p].rounds = loc[p].rounds /\ loc'[p].mark = loc[p].mark
      /\ loc'[p].asof = loc[p].asof /\ loc'[p].body = b /\ loc'[p].creates = c
      /\ loc'[p].indexed = "none"
  BY <1>t DEF Publish, Goto
<1>2. /\ "data" \notin late[p] /\ applied[p] = 0 /\ SweepInv(p) /\ CallInv(p)
      /\ UNCHANGED <<seq, data, applied>>
  BY DEF ProcInv, PlaceInv, OnceInv, storeVars
<1>3. SweepInv(p)'
  BY <1>t, <1>1, <1>2, MarkFrame DEF SweepInv, Condemning, StoreChange
<1>4. RoundsInv(p)' /\ PlaceInv(p)' /\ OnceInv(p)' /\ StoredAsReported(p)'
  BY <1>t, <1>1, <1>2 DEF RoundsInv, PlaceInv, OnceInv, StoredAsReported
<1>5. CallInv(p)'
  BY <1>t, <1>1, <1>2 DEF CallInv
<1>6. FlightInv(p)'
  BY DEF FlightInv
<1> QED BY <1>3, <1>4, <1>5, <1>6 DEF Own, ProcInv

\* A call that ends, or moves on, without touching the record or its own
\* variables: step is where it goes.
LEMMA MoveInv ==
  ASSUME IInv, TypeOK', NEW p \in Procs, NEW step, Goto(p, step),
         now' = now, UNCHANGED <<late, call>>, loc' = loc, StoreChange, applied' = applied,
         step \in {"unindex", "purgeData", "reread", "rewrite"} \cup Outcomes,
         step = "unindex" /\ call[p].op = "sweep" => Doomed(p),
         step = "purgeData" => Doomed(p) /\ call[p].op = "sweep",
         "data" \in late[p] =>
           \/ step \in {"unindex", "reread", "rewrite"} /\ call[p].op # "sweep"
           \/ step \in {"err", "crashed"},
         step = "ok" /\ applied[p] = 0 =>
           call[p].op = "sweep" \/ (call[p].op = "incr" /\ call[p].arg = 0),
         step = "no" => (applied[p] = 1 <=> call[p].op = "delete"),
         step = "conflict" => applied[p] = 0
  PROVE  Own(p)
<1> USE DEF IInv
<1>t. pc \in [Procs -> {"idle"} \cup Steps \cup Outcomes] /\ now \in Nat
  BY DEF TypeOK
<1>1. /\ pc'[p] = step
      /\ step \notin {"idle", "scan", "settle", "read", "data", "index", "answer"}
  BY <1>t DEF Goto, Outcomes
<1>2. ProcInv(p) /\ SlotInv /\ SameLocals(p) /\ applied[p] <= 1
  BY DEF SameLocals, StoredAsReported
<1>3. SweepInv(p)'
  BY <1>t, <1>1, <1>2, MarkFrame DEF ProcInv, SweepInv, Condemning
<1>4. FlightInv(p)'
  BY <1>t, <1>1, <1>2, HarmlessFrame DEF ProcInv, FlightInv, Flying
<1>5. RoundsInv(p)' /\ PlaceInv(p)' /\ OnceInv(p)'
  BY <1>1, <1>2 DEF ProcInv, RoundsInv, PlaceInv, OnceInv
<1>6. CallInv(p)'
  BY <1>1, <1>2 DEF ProcInv, CallInv
<1>7. StoredAsReported(p)'
  BY <1>1, <1>2 DEF StoredAsReported
<1> QED BY <1>3, <1>4, <1>5, <1>6, <1>7 DEF Own, ProcInv

LEMMA ReadInv ==
  ASSUME IInv, TypeOK', NEW p \in Procs, Read(p)
  PROVE  Own(p)
<1> USE DEF IInv
<1>0. /\ pc[p] = "read" /\ UNCHANGED <<now, late, call>> /\ UNCHANGED storeVars
      /\ "data" \notin late[p] /\ applied[p] = 0 /\ CallInv(p) /\ RoundsInv(p)
      /\ UNCHANGED <<seq, data, applied>> /\ StoreChange
  BY DEF Read, Unsent, ProcInv, PlaceInv, OnceInv, storeVars, StoreChange
<1>t. /\ loc \in [Procs -> Loc] /\ call[p].ttl \in Nat /\ call[p].op \in Kinds
      /\ call[p].arg \in Value
      /\ loc[p].rounds \in 0..Rounds /\ Rounds \in Nat \ {0} /\ seq \in Nat /\ data.rev \in Nat
  BY CallsAssumption DEF TypeOK, Loc, Call, Record
<1>1. CASE call[p].op = "claim" /\ ReadForClaim(p)
  <2>1. CASE Goto(p, "no") /\ UNCHANGED loc
    BY <1>0, <1>1, <2>1, MoveInv DEF Outcomes
  <2>2. CASE Goto(p, "conflict") /\ UNCHANGED loc
    BY <1>0, <1>1, <2>2, MoveInv DEF Outcomes
  <2>3. CASE ~Live /\ loc[p].rounds < Rounds /\ Publish(p, data.rev, loc[p].body, TRUE)
    <3>1. loc'[p].expect = data.rev /\ loc'[p].body = loc[p].body
      BY <1>t, <2>3 DEF Publish
    <3>2. loc[p].body.op = "Put"
      BY <1>0, <1>1 DEF CallInv
    <3>3. ~Live'
      BY <1>0, <2>3 DEF Live, IsExpired
    <3>4. Harmless(p)'
      BY <1>0, <1>t, <1>1, <3>1, <3>2, <3>3
         DEF Harmless, Expects, Fits, SlotInv
    <3> QED BY <1>0, <1>1, <2>3, <3>2, <3>4, PublishInv
  <2> QED BY <1>1, <2>1, <2>2, <2>3 DEF ReadForClaim
<1>2. CASE call[p].op = "delete" /\ ReadForDelete(p)
  <2>1. loc'[p].expect = Anything /\ loc'[p].body.op = "Del" /\ loc[p].rounds < Rounds
    BY <1>0, <1>t, <1>2 DEF ReadForDelete, Publish, Marker, RoundsInv
  <2>2. Harmless(p)'
    BY <1>0, <1>t, <1>2, <2>1 DEF Harmless, Expects, Fits, Anything
  <2> QED BY <1>0, <1>2, <2>1, <2>2, PublishInv DEF ReadForDelete
<1>3. CASE call[p].op = "expire" /\ ReadForExpire(p)
  <2>1. CASE Goto(p, "no") /\ UNCHANGED loc
    BY <1>0, <1>3, <2>1, MoveInv DEF Outcomes
  <2>2. CASE Live /\ Publish(p, data.rev, PutBody(data.val, ExpiresAt(call[p].ttl)), FALSE)
    <3>1. /\ loc'[p].expect = data.rev /\ loc'[p].body.op = "Put"
          /\ loc'[p].body.val = data.val /\ loc[p].rounds < Rounds
      BY <1>0, <1>t, <1>3, <2>2 DEF Publish, PutBody, RoundsInv
    <3>2. data.op = "Put" /\ data.rev # 0 /\ data.rev <= seq
      BY <2>2 DEF Live, SlotInv
    <3>3. Harmless(p)'
      BY <1>0, <1>t, <1>3, <3>1, <3>2 DEF Harmless, Expects, Fits
    <3> QED BY <1>0, <1>3, <2>2, <3>1, <3>3, PublishInv
  <2> QED BY <1>3, <2>1, <2>2 DEF ReadForExpire
<1>4. CASE call[p].op = "incr" /\ ReadForIncr(p)
  <2> DEFINE current == IF Live THEN data.val ELSE 0
             next == current + call[p].arg
             exp == IF Live /\ call[p].ttl = 0 THEN data.exp ELSE ExpiresAt(call[p].ttl)
  <2>1. CASE Goto(p, "err") /\ UNCHANGED loc
    BY <1>0, <2>1, MoveInv DEF Outcomes
  <2>2. CASE current # Blob /\ next = current /\ Goto(p, "ok") /\ UNCHANGED loc
    <3>0. call[p].arg \in Int
      BY <1>0, <1>4, CallsAssumption DEF CallInv
    <3>1. current \in Int
      <4>1. data.val \in Value
        BY DEF TypeOK, Record
      <4>2. CASE Live
        <5>1. data.val # Blob
          BY <2>2, <4>2
        <5> QED BY <4>1, <4>2, <5>1 DEF Value
      <4> QED BY <4>2
    <3>2. call[p].arg = 0
      BY <2>2, <3>0, <3>1
    <3>3. Goto(p, "ok") /\ loc' = loc
      BY <2>2
    <3> HIDE DEF next, current
    <3> QED BY <1>0, <1>4, <3>2, <3>3, MoveInv DEF Outcomes
  <2>3. CASE current # Blob /\ Publish(p, data.rev, PutBody(next, exp), ~Live)
    <3>1. /\ loc'[p].expect = data.rev /\ loc'[p].body.op = "Put"
          /\ loc'[p].body.val = next /\ loc[p].rounds < Rounds
      BY <1>0, <1>t, <1>4, <2>3 DEF Publish, PutBody, RoundsInv
    <3>2. call[p].arg \in Deltas /\ call[p].arg \in Int
      BY <1>0, <1>4, CallsAssumption DEF CallInv
    <3>3. ASSUME Live PROVE Harmless(p)'
      <4>1. data.op = "Put" /\ data.rev # 0 /\ data.rev <= seq /\ data.val # Blob
        BY <2>3, <3>3 DEF Live, SlotInv
      <4>2. next = data.val + call[p].arg
        BY <3>3
      <4> HIDE DEF next
      <4> QED BY <1>0, <1>t, <1>4, <3>1, <3>2, <4>1, <4>2
              DEF Harmless, Expects, Fits
    <3>4. ASSUME ~Live PROVE Harmless(p)'
      <4>1. ~Live'
        BY <1>0, <3>4 DEF Live, IsExpired
      <4>2. next \in Deltas
        BY <3>2, <3>4
      <4> HIDE DEF next
      <4> QED BY <1>0, <1>t, <1>4, <3>1, <4>1, <4>2 DEF Harmless, Expects, Fits, SlotInv
    <3>5. Harmless(p)' => Own(p)
      <4> HIDE DEF next, exp
      <4> QED BY <1>0, <1>4, <2>3, <3>1, PublishInv
    <3> QED BY <3>3, <3>4, <3>5
  <2> QED BY <1>4, <2>1, <2>2, <2>3 DEF ReadForIncr
<1> QED BY <1>1, <1>2, <1>3, <1>4 DEF Read

\* A stored data write is one the contract allows, and gives a new revision.
LEMMA StoreFits ==
  ASSUME IInv, NEW p \in Procs, Flying(p), Accepts(p), StoreData(p)
  PROVE  Fits(p) /\ StoreChange /\ applied'[p] = applied[p] + 1
<1>1. Fits(p)
  BY DEF IInv, ProcInv, FlightInv, Harmless
<1>2. loc[p].body.op \in {"Put", "Del"}
  BY <1>1 DEF Fits
<1>3. StoreChange
  BY <1>2 DEF StoreData, StoreChange
<1>4. applied'[p] = applied[p] + 1
  BY DEF StoreData, IInv, TypeOK
<1> QED BY <1>1, <1>3, <1>4

\* The answer to a data write, or the want of one.
LEMMA AckedInv ==
  ASSUME IInv, TypeOK', NEW p \in Procs, NEW ack \in {"ok", "conflict", "failed"},
         pc[p] = "data", Acked(p, ack), now' = now, call' = call, StoreChange,
         late'[p] \in {late[p], late[p] \cup {"data"}},
         late'[p] # late[p] => ack = "failed",
         applied'[p] = IF ack = "ok" THEN 1 ELSE 0
  PROVE  Own(p)
<1> USE DEF IInv
<1>t. /\ pc \in [Procs -> {"idle"} \cup Steps \cup Outcomes] /\ loc \in [Procs -> Loc]
      /\ now \in Nat /\ loc[p] \in Loc
  BY DEF TypeOK
<1>1. ProcInv(p) /\ "data" \notin late[p] /\ Harmless(p)
  BY DEF ProcInv, PlaceInv, FlightInv, Flying
<1>2. pc'[p] = IF loc[p].creates THEN "index" ELSE "answer"
  BY <1>t DEF Acked, Goto
<1>3. /\ loc'[p].ack = ack /\ loc'[p].rounds = loc[p].rounds
      /\ loc'[p].creates = loc[p].creates /\ loc'[p].indexed = loc[p].indexed
      /\ loc'[p].body = loc[p].body /\ loc'[p].expect = loc[p].expect
      /\ loc'[p].mark = loc[p].mark /\ loc'[p].asof = loc[p].asof
  BY <1>t DEF Acked, Loc
<1>4. SweepInv(p)'
  BY <1>t, <1>1, <1>2, <1>3, MarkFrame DEF ProcInv, SweepInv, Condemning
<1>5. FlightInv(p)'
  BY <1>t, <1>1, <1>3, HarmlessFrame DEF FlightInv, SameLocals
<1>6. RoundsInv(p)' /\ CallInv(p)'
  BY <1>1, <1>2, <1>3 DEF ProcInv, RoundsInv, CallInv
<1>7. PlaceInv(p)' /\ OnceInv(p)' /\ StoredAsReported(p)'
  BY <1>1, <1>2, <1>3 DEF PlaceInv, OnceInv, StoredAsReported
<1> QED BY <1>4, <1>5, <1>6, <1>7 DEF Own, ProcInv

\* The answer to an index record, or the want of one.
LEMMA IndexedInv ==
  ASSUME IInv, TypeOK', NEW p \in Procs, NEW ack \in Acks,
         pc[p] = "index", Indexed(p, ack), now' = now, call' = call, StoreChange,
         late'[p] \in {late[p], late[p] \cup {"index"}}, applied' = applied
  PROVE  Own(p)
<1> USE DEF IInv
<1>t. /\ pc \in [Procs -> {"idle"} \cup Steps \cup Outcomes] /\ loc \in [Procs -> Loc]
      /\ now \in Nat /\ loc[p] \in Loc
  BY DEF TypeOK
<1>1. ProcInv(p) /\ StoredAsReported(p) /\ pc'[p] = "answer"
  BY <1>t DEF Indexed, Goto
<1>3. /\ loc'[p].ack = loc[p].ack /\ loc'[p].rounds = loc[p].rounds
      /\ loc'[p].creates = loc[p].creates
      /\ loc'[p].body = loc[p].body /\ loc'[p].expect = loc[p].expect
      /\ loc'[p].mark = loc[p].mark /\ loc'[p].asof = loc[p].asof
  BY <1>t DEF Indexed, Loc
<1>4. SweepInv(p)'
  BY <1>t, <1>1, <1>3, MarkFrame DEF ProcInv, SweepInv, Condemning
<1>5. FlightInv(p)'
  BY <1>t, <1>1, <1>3, HarmlessFrame DEF ProcInv, FlightInv, Flying, SameLocals
<1>6. RoundsInv(p)' /\ CallInv(p)'
  BY <1>1, <1>3 DEF ProcInv, RoundsInv, CallInv
<1>7. PlaceInv(p)' /\ OnceInv(p)' /\ StoredAsReported(p)'
  BY <1>1, <1>3 DEF ProcInv, PlaceInv, OnceInv, StoredAsReported
<1> QED BY <1>4, <1>5, <1>6, <1>7 DEF Own, ProcInv

LEMMA WriteInv ==
  ASSUME IInv, TypeOK', NEW p \in Procs,
         \/ WriteData(p) \/ RefuseData(p) \/ LoseData(p)
         \/ WriteIndex(p) \/ RefuseIndex(p) \/ LoseIndex(p)
  PROVE  Own(p)
<1>t. late \in [Procs -> SUBSET Requests] /\ now \in Nat
  BY DEF IInv, TypeOK
<1>1. CASE WriteData(p)
  <2>0. applied[p] = 0 /\ Flying(p)
    BY <1>1 DEF WriteData, IInv, ProcInv, OnceInv, Flying
  <2>1. CASE Accepts(p) /\ StoreData(p) /\ Acked(p, "ok")
    BY <1>1, <2>0, <2>1, StoreFits, AckedInv DEF WriteData, Unsent
  <2>2. CASE ~Accepts(p) /\ UNCHANGED storeVars /\ Acked(p, "conflict")
    BY <1>1, <2>0, <2>2, QuietStore, AckedInv DEF WriteData, Unsent
  <2> QED BY <1>1, <2>1, <2>2 DEF WriteData
<1>2. CASE RefuseData(p) \/ LoseData(p)
  <2>1. pc[p] = "data" /\ Acked(p, "failed") /\ now' = now /\ call' = call
        /\ UNCHANGED storeVars
    BY <1>2 DEF RefuseData, LoseData
  <2>2. late'[p] \in {late[p], late[p] \cup {"data"}}
    BY <1>t, <1>2 DEF RefuseData, LoseData
  <2>3. applied[p] = 0
    BY <2>1 DEF IInv, ProcInv, OnceInv
  <2> QED BY <2>1, <2>2, <2>3, QuietStore, AckedInv
<1>3. CASE WriteIndex(p)
  BY <1>3, QuietStore, IndexedInv DEF WriteIndex, Unsent, Acks
<1>4. CASE RefuseIndex(p) \/ LoseIndex(p)
  <2>1. pc[p] = "index" /\ Indexed(p, "failed") /\ now' = now /\ call' = call
        /\ UNCHANGED storeVars
    BY <1>4 DEF RefuseIndex, LoseIndex
  <2>2. late'[p] \in {late[p], late[p] \cup {"index"}}
    BY <1>t, <1>4 DEF RefuseIndex, LoseIndex
  <2> QED BY <2>1, <2>2, QuietStore, IndexedInv DEF Acks
<1> QED BY <1>1, <1>2, <1>3, <1>4

LEMMA LostCasInv ==
  ASSUME IInv, TypeOK', NEW p \in Procs, pc[p] = "answer", loc[p].ack = "conflict", LostCas(p),
         now' = now, UNCHANGED <<late, call>>, StoreChange, applied' = applied
  PROVE  Own(p)
<1> USE DEF IInv
<1>t. /\ pc \in [Procs -> {"idle"} \cup Steps \cup Outcomes] /\ loc \in [Procs -> Loc]
      /\ now \in Nat /\ loc[p] \in Loc /\ loc[p].rounds \in 0..Rounds /\ Rounds \in Nat
  BY CallsAssumption DEF TypeOK, Loc
<1>1. ProcInv(p) /\ "data" \notin late[p] /\ applied[p] = 0
  BY DEF ProcInv, PlaceInv, OnceInv
<1>2. CASE call[p].op = "sweep"
  <2>1. Goto(p, "ok") /\ loc' = loc
    BY <1>2 DEF LostCas
  <2> QED BY <1>1, <1>2, <2>1, MoveInv DEF Outcomes
<1>3. CASE call[p].op # "sweep"
  <2>1. /\ loc' = [loc EXCEPT ![p].rounds = loc[p].rounds + 1]
        /\ \/ call[p].op = "claim" /\ Goto(p, "read")
           \/ /\ call[p].op \in {"expire", "incr"}
              /\ Goto(p, IF loc[p].rounds + 1 < Rounds THEN "read" ELSE "conflict")
    BY <1>3 DEF LostCas
  <2>2. /\ loc'[p].rounds = loc[p].rounds + 1 /\ loc'[p].body = loc[p].body
        /\ loc'[p].mark = loc[p].mark /\ loc'[p].asof = loc[p].asof
        /\ pc'[p] \in {"read", "conflict"}
        /\ pc'[p] = "read" => call[p].op \in {"claim", "expire", "incr"}
        /\ pc'[p] = "read" /\ call[p].op # "claim" => loc'[p].rounds < Rounds
    BY <1>t, <2>1 DEF Goto, Loc
  <2>3. SweepInv(p)'
    BY <1>t, <1>1, <2>2, MarkFrame DEF ProcInv, SweepInv, Condemning
  <2>4. RoundsInv(p)' /\ PlaceInv(p)' /\ FlightInv(p)' /\ OnceInv(p)' /\ StoredAsReported(p)'
    BY <1>1, <2>2 DEF RoundsInv, PlaceInv, FlightInv, Flying, OnceInv, StoredAsReported
  <2>5. CallInv(p)'
    BY <1>1, <1>3, <2>2 DEF ProcInv, CallInv
  <2> QED BY <2>3, <2>4, <2>5 DEF Own, ProcInv
<1> QED BY <1>2, <1>3

LEMMA AnswerInv ==
  ASSUME IInv, TypeOK', NEW p \in Procs, Answer(p)
  PROVE  Own(p)
<1>0. /\ pc[p] = "answer" /\ now' = now /\ UNCHANGED <<late, call>> /\ StoreChange
      /\ applied' = applied
  BY QuietStore DEF Answer, Unsent
<1>1. ProcInv(p) /\ call[p].op \in Kinds
  BY DEF IInv, TypeOK, Call
<1>2. CASE loc[p].ack = "ok" /\ UNCHANGED loc
  <2>1. "data" \notin late[p] /\ applied[p] = 1
    BY <1>0, <1>1, <1>2 DEF ProcInv, PlaceInv, OnceInv
  <2>2. \/ call[p].op = "sweep" /\ Goto(p, "rewrite")
        \/ call[p].op = "delete" /\ Goto(p, "no")
        \/ Goto(p, "ok")
        \/ Goto(p, "err")
    BY <1>2, <1>1 DEF Answer, LostCas, Kinds
  <2> QED BY <1>0, <1>2, <2>1, <2>2, MoveInv DEF Outcomes
<1>3. CASE loc[p].ack = "conflict" /\ LostCas(p)
  BY <1>0, <1>3, LostCasInv
<1>4. CASE loc[p].ack = "failed" /\ UNCHANGED loc
  <2>1. Goto(p, "err") \/ (Goto(p, "unindex") /\ loc[p].indexed = "ok")
    BY <1>4 DEF Answer, LostCas
  <2>2. loc[p].indexed = "ok" => call[p].op # "sweep"
    BY <1>1 DEF ProcInv, CallInv
  <2>3. CASE Goto(p, "err")
    BY <1>0, <1>4, <2>3, MoveInv DEF Outcomes
  <2>4. CASE Goto(p, "unindex") /\ call[p].op # "sweep"
    BY <1>0, <1>4, <2>4, MoveInv DEF Outcomes
  <2> QED BY <2>1, <2>2, <2>3, <2>4
<1> QED BY <1>2, <1>3, <1>4 DEF Answer

\* A purge removes only what is doomed, and keeps what has come since.
LEMMA PurgeChange ==
  ASSUME TypeOK, NEW p \in Procs, PurgeThrough(p)
  PROVE  StoreChange /\ applied' = applied
BY DEF PurgeThrough, StoreChange, storeVars

LEMMA RemoveInv ==
  ASSUME IInv, TypeOK', NEW p \in Procs, RemoveStep(p) \/ RefuseRewrite(p)
  PROVE  Own(p)
<1>0. /\ now' = now /\ UNCHANGED <<late, call>> /\ loc' = loc
      /\ pc[p] \in {"unindex", "purgeData", "reread", "rewrite"}
  BY DEF RemoveStep, RemoveIndex, RemoveData, Reread, Rewrite, RefuseRewrite, Unsent
<1>1. StoreChange /\ applied' = applied
  BY QuietStore, PurgeChange
     DEF RemoveStep, RemoveIndex, RemoveData, Reread, Rewrite, RefuseRewrite, IInv
<1>2. ProcInv(p)
  BY DEF IInv
<1>3. /\ pc[p] = "unindex" /\ call[p].op = "sweep" => Doomed(p)
      /\ pc[p] = "purgeData" => call[p].op = "sweep"
      /\ "data" \in late[p] => call[p].op # "sweep"
  BY <1>0, <1>2 DEF ProcInv, SweepInv, Condemning, CallInv, PlaceInv
<1>4. \/ pc[p] = "unindex" /\ call[p].op = "sweep" /\ Goto(p, "purgeData")
      \/ Goto(p, "reread")
      \/ Goto(p, "rewrite")
      \/ call[p].op = "sweep" /\ Goto(p, "ok")
      \/ Goto(p, "err")
  BY DEF RemoveStep, RemoveIndex, RemoveData, Reread, Rewrite, RefuseRewrite, Repaired
<1>5. CASE pc[p] = "unindex" /\ call[p].op = "sweep" /\ Goto(p, "purgeData")
  BY <1>0, <1>1, <1>3, <1>5, MoveInv
<1>6. CASE Goto(p, "reread") \/ Goto(p, "rewrite")
  BY <1>0, <1>1, <1>3, <1>6, MoveInv
<1>7. CASE call[p].op = "sweep" /\ Goto(p, "ok")
  BY <1>0, <1>1, <1>3, <1>7, MoveInv DEF Outcomes
<1>8. CASE Goto(p, "err")
  BY <1>0, <1>1, <1>8, MoveInv DEF Outcomes
<1> QED BY <1>4, <1>5, <1>6, <1>7, <1>8

\* What the sweep finds dead by the time it started is dead now.
LEMMA DeadIsDead ==
  ASSUME TypeOK, NEW p \in Procs, loc[p].asof <= now, Dead(p)
  PROVE  ~Live
<1>1. loc[p].asof \in Nat /\ now \in Nat /\ data.exp \in Nat
  BY DEF TypeOK, Loc, Record
<1> QED BY <1>1 DEF Dead, Live, IsExpired

LEMMA ScanInv ==
  ASSUME IInv, TypeOK', NEW p \in Procs, Scan(p)
  PROVE  Own(p)
<1> USE DEF IInv
<1>t. /\ pc \in [Procs -> {"idle"} \cup Steps \cup Outcomes] /\ loc \in [Procs -> Loc]
      /\ now \in Nat /\ loc[p] \in Loc /\ data.rev \in Nat /\ seq \in Nat
  BY DEF TypeOK, Record
<1>0. /\ pc[p] = "scan" /\ UNCHANGED <<now, late, call>> /\ UNCHANGED <<seq, data, applied>>
      /\ loc' = [loc EXCEPT ![p].mark = data.rev]
  BY DEF Scan, Unsent, storeVars
<1>1. /\ late[p] = {} /\ applied[p] = 0 /\ Marked(p) /\ call[p].op = "sweep"
      /\ RoundsInv(p) /\ CallInv(p)
  BY <1>0 DEF ProcInv, CallInv, OnceInv, SweepInv
<1>2. /\ loc'[p].mark = data.rev /\ loc'[p].asof = loc[p].asof
      /\ loc'[p].rounds = loc[p].rounds /\ loc'[p].body = loc[p].body
      /\ loc'[p].creates = loc[p].creates /\ loc'[p].indexed = loc[p].indexed
  BY <1>t, <1>0 DEF Loc
<1>3. \/ pc'[p] = "unindex" /\ Dead(p)
      \/ pc'[p] \in {"settle", "ok"}
  BY <1>t DEF Scan, Goto
<1>4. SweepInv(p)'
  <2>1. Marked(p)'
    BY <1>t, <1>0, <1>1, <1>2 DEF Marked, SlotInv
  <2>2. CASE pc'[p] = "unindex" /\ Dead(p)
    <3>1. ~Live
      BY <1>1, <2>2, DeadIsDead DEF Marked
    <3>2. ~Live'
      BY <1>0, <3>1 DEF Live, IsExpired
    <3> QED BY <2>1, <3>2 DEF SweepInv, Doomed
  <2>3. CASE pc'[p] \in {"settle", "ok"}
    BY <1>0, <1>1, <2>1, <2>3 DEF SweepInv, Condemning
  <2> QED BY <1>3, <2>2, <2>3
<1>5. RoundsInv(p)' /\ PlaceInv(p)' /\ FlightInv(p)' /\ OnceInv(p)' /\ StoredAsReported(p)'
  BY <1>0, <1>1, <1>2, <1>3
     DEF RoundsInv, PlaceInv, FlightInv, Flying, OnceInv, StoredAsReported
<1>6. CallInv(p)'
  BY <1>0, <1>1, <1>2, <1>3 DEF CallInv
<1> QED BY <1>4, <1>5, <1>6 DEF Own, ProcInv

LEMMA SettleInv ==
  ASSUME IInv, TypeOK', NEW p \in Procs, Settle(p)
  PROVE  Own(p)
<1> USE DEF IInv
<1>t. /\ loc \in [Procs -> Loc] /\ seq \in Nat /\ data.rev \in Nat /\ loc[p].mark \in Nat
  BY DEF TypeOK, Record, Loc
<1>0. /\ pc[p] = "settle" /\ UNCHANGED <<now, late, call>> /\ UNCHANGED storeVars
      /\ UNCHANGED <<seq, data, applied>> /\ StoreChange
  BY DEF Settle, Unsent, storeVars, StoreChange
<1>1. /\ "data" \notin late[p] /\ applied[p] = 0 /\ call[p].op = "sweep" /\ loc[p].rounds < Rounds
  BY <1>0 DEF ProcInv, PlaceInv, OnceInv, CallInv, RoundsInv
<1>2. CASE Goto(p, "ok") /\ UNCHANGED loc
  BY <1>0, <1>1, <1>2, MoveInv DEF Outcomes
<1>3. CASE data.rev = loc[p].mark /\ data.op = "Put" /\ ~Live /\ Goto(p, "unindex") /\ UNCHANGED loc
  BY <1>0, <1>1, <1>3, MoveInv DEF Doomed
<1>4. CASE /\ data.rev = loc[p].mark /\ data.op = "Put"
           /\ Publish(p, loc[p].mark, PutBody(data.val, data.exp), FALSE)
  <2>1. /\ loc'[p].expect = data.rev /\ loc'[p].body.op = "Put"
        /\ loc'[p].body.val = data.val /\ loc'[p].body.exp = data.exp
    BY <1>t, <1>4 DEF Publish, PutBody
  <2>2. data.rev # 0 /\ data.rev <= seq
    BY <1>4 DEF SlotInv
  <2>3. Harmless(p)'
    BY <1>0, <1>t, <1>1, <1>4, <2>1, <2>2 DEF Harmless, Expects, Fits
  <2> QED BY <1>0, <1>1, <1>4, <2>3, PublishInv
<1> QED BY <1>2, <1>3, <1>4 DEF Settle

\* A call that ends with something of it still in flight.
LEMMA AbandonInv ==
  ASSUME IInv, TypeOK', NEW p \in Procs, Fail(p) \/ Crash(p)
  PROVE  Own(p)
<1> USE DEF IInv
<1>t. /\ pc \in [Procs -> {"idle"} \cup Steps \cup Outcomes]
      /\ late \in [Procs -> SUBSET Requests] /\ now \in Nat
  BY DEF TypeOK
<1>0. /\ now' = now /\ call' = call /\ loc' = loc /\ UNCHANGED <<seq, data, applied>>
      /\ pc[p] \in Steps /\ pc'[p] \in {"err", "crashed"} /\ StoreChange
  BY <1>t DEF Fail, Crash, Abandon, Goto, storeVars, StoreChange
<1>1. PICK sent \in SUBSET InFlight(p) : late' = [late EXCEPT ![p] = @ \cup sent]
  BY DEF Fail, Crash, Abandon
<1>2. late'[p] = late[p] \cup sent
  BY <1>t, <1>1
<1>3. /\ "data" \in sent => pc[p] = "data"
      /\ "purgeData" \in sent => pc[p] = "purgeData"
  BY DEF InFlight
<1>4. ProcInv(p) /\ StoredAsReported(p) /\ SameLocals(p)
  BY <1>0 DEF SameLocals
<1>5. SweepInv(p)'
  BY <1>t, <1>0, <1>2, <1>3, <1>4, MarkFrame DEF ProcInv, SweepInv, Condemning
<1>6. FlightInv(p)'
  BY <1>t, <1>0, <1>2, <1>3, <1>4, HarmlessFrame DEF ProcInv, FlightInv, Flying
<1>7. RoundsInv(p)' /\ PlaceInv(p)' /\ OnceInv(p)' /\ StoredAsReported(p)'
  BY <1>0, <1>2, <1>3, <1>4 DEF ProcInv, RoundsInv, PlaceInv, OnceInv, StoredAsReported
<1>8. CallInv(p)'
  BY <1>0, <1>4 DEF ProcInv, CallInv
<1> QED BY <1>5, <1>6, <1>7, <1>8 DEF Own, ProcInv

LEMMA DeliverInv ==
  ASSUME IInv, TypeOK', NEW p \in Procs, Deliver(p)
  PROVE  Own(p) /\ StoreChange
<1> USE DEF IInv
<1>t. late \in [Procs -> SUBSET Requests] /\ now \in Nat
  BY DEF TypeOK
<1>0. now' = now /\ UNCHANGED <<pc, call, loc>> /\ ProcInv(p) /\ StoredAsReported(p) /\ SameLocals(p)
  BY DEF Deliver, SameLocals
<1>1. PICK r \in late[p] :
        /\ late' = [late EXCEPT ![p] = @ \ {r}]
        /\ \/ r = "data" /\ Accepts(p) /\ StoreData(p)
           \/ r = "index" /\ "data" \notin late[p] /\ StoreIndex
           \/ r = "purgeIndex" /\ PurgeIndex
           \/ r = "purgeData" /\ PurgeThrough(p)
           \/ UNCHANGED storeVars
  BY DEF Deliver
<1>2. late'[p] = late[p] \ {r}
  BY <1>t, <1>1
<1>3. StoreChange /\ (applied'[p] = applied[p] \/ (r = "data" /\ applied'[p] = applied[p] + 1))
  <2>1. CASE r = "data" /\ Accepts(p) /\ StoreData(p)
    BY <2>1, StoreFits DEF Flying
  <2>2. CASE UNCHANGED storeVars \/ StoreIndex \/ PurgeIndex
    BY <2>2, QuietStore
  <2>3. CASE PurgeThrough(p)
    BY <2>3, PurgeChange
  <2> QED BY <1>1, <2>1, <2>2, <2>3
<1>4. r = "data" => /\ applied[p] = 0
                    /\ \/ pc[p] \in {"index", "answer"} /\ loc[p].ack = "failed"
                       \/ pc[p] \in {"unindex", "reread", "rewrite", "err", "crashed"}
  BY <1>0 DEF ProcInv, OnceInv, PlaceInv
<1>5. SweepInv(p)'
  BY <1>t, <1>0, <1>2, <1>3, MarkFrame DEF ProcInv, SweepInv, Condemning
<1>6. FlightInv(p)'
  BY <1>t, <1>0, <1>2, <1>3, HarmlessFrame DEF ProcInv, FlightInv, Flying
<1>7. RoundsInv(p)' /\ PlaceInv(p)' /\ CallInv(p)'
  BY <1>0, <1>2 DEF ProcInv, RoundsInv, PlaceInv, CallInv
<1>8. OnceInv(p)' /\ StoredAsReported(p)'
  BY <1>0, <1>2, <1>3, <1>4 DEF ProcInv, OnceInv, StoredAsReported
<1> QED BY <1>3, <1>5, <1>6, <1>7, <1>8 DEF Own, ProcInv

-----------------------------------------------------------------------------
(* The invariant.                                                          *)

\* A step of one call leaves the variables of the others alone.
LEMMA OthersKept ==
  ASSUME TypeOK, NEW p \in Procs, Begin(p) \/ CallStep(p) \/ FaultStep(p) \/ Deliver(p),
         NEW q \in Procs, q # p
  PROVE  /\ pc'[q] = pc[q] /\ call'[q] = call[q] /\ loc'[q] = loc[q] /\ late'[q] = late[q]
         /\ applied'[q] = applied[q] /\ now' = now
<1> USE DEF TypeOK, Goto, Publish, Unsent, storeVars, StoreData, StoreIndex, PurgeIndex,
            PurgeThrough
<1>1. CASE Begin(p)
  BY <1>1 DEF Begin
<1>2. CASE Read(p)
  BY <1>2 DEF Read, ReadForClaim, ReadForDelete, ReadForExpire, ReadForIncr
<1>3. CASE WriteData(p) \/ WriteIndex(p)
  BY <1>3 DEF WriteData, WriteIndex, Acked, Indexed
<1>4. CASE Answer(p)
  BY <1>4 DEF Answer, LostCas
<1>5. CASE RemoveStep(p)
  BY <1>5 DEF RemoveStep, RemoveIndex, RemoveData, Reread, Rewrite, Repaired
<1>6. CASE Scan(p) \/ Settle(p)
  BY <1>6 DEF Scan, Settle
<1>7. CASE FaultStep(p)
  BY <1>7 DEF FaultStep, RefuseData, LoseData, RefuseIndex, LoseIndex, RefuseRewrite, Fail, Crash,
              Abandon, Acked, Indexed
<1>8. CASE Deliver(p)
  BY <1>8 DEF Deliver
<1> QED BY <1>1, <1>2, <1>3, <1>4, <1>5, <1>6, <1>7, <1>8 DEF CallStep, WriteStep

\* Every step of a call keeps its own part of the invariant, and changes the
\* record in one of the three ways.
LEMMA OwnStep ==
  ASSUME IInv, TypeOK', NEW p \in Procs, Begin(p) \/ CallStep(p) \/ FaultStep(p) \/ Deliver(p)
  PROVE  Own(p) /\ StoreChange
<1>1. CASE Begin(p) \/ Read(p) \/ Answer(p) \/ Scan(p) \/ Settle(p)
  <2>1. StoreChange
    BY <1>1, QuietStore DEF Begin, Read, Answer, Scan, Settle
  <2> QED BY <1>1, <2>1, BeginInv, ReadInv, AnswerInv, ScanInv, SettleInv
<1>2. CASE WriteData(p) \/ WriteIndex(p)
  <2>1. WriteData(p) => Flying(p)
    BY DEF WriteData, Flying
  <2>2. StoreChange
    BY <1>2, <2>1, QuietStore, StoreFits DEF WriteData, WriteIndex
  <2> QED BY <1>2, <2>2, WriteInv
<1>3. CASE RemoveStep(p)
  <2>1. StoreChange
    BY <1>3, QuietStore, PurgeChange
       DEF RemoveStep, RemoveIndex, RemoveData, Reread, Rewrite, IInv
  <2> QED BY <1>3, <2>1, RemoveInv
<1>4. CASE FaultStep(p)
  <2>1. StoreChange
    BY <1>4, QuietStore
       DEF FaultStep, RefuseData, LoseData, RefuseIndex, LoseIndex, RefuseRewrite, Fail, Crash,
           Abandon
  <2> QED BY <1>4, <2>1, WriteInv, RemoveInv, AbandonInv DEF FaultStep
<1>5. CASE Deliver(p)
  BY <1>5, DeliverInv
<1> QED BY <1>1, <1>2, <1>3, <1>4, <1>5 DEF CallStep, WriteStep

LEMMA InvInit == Init => IInv
<1> SUFFICES ASSUME Init PROVE IInv
  OBVIOUS
<1>1. TypeOK
  <2>1. PICK f \in Firsts : data = f.data /\ index = f.index /\ seq = f.data.rev
    BY DEF Init
  <2>2. f.data \in Record /\ f.index \in BOOLEAN /\ f.data.rev \in Nat
    BY FirstAssumption DEF Record
  <2> QED BY <2>1, <2>2, Fixed, CallsAssumption DEF Init, TypeOK
<1>2. SlotInv
  BY <1>1, FirstAssumption DEF Init, SlotInv, TypeOK, Record
<1>3. ASSUME NEW p \in Procs PROVE ProcInv(p) /\ StoredAsReported(p)
  <2>1. /\ pc[p] = "idle" /\ late[p] = {} /\ loc[p] = NoLoc /\ applied[p] = 0 /\ now = 1
        /\ call[p].op = "put"
    BY DEF Init, NoCall
  <2>2. data.rev \in Nat /\ seq = data.rev /\ Rounds \in Nat \ {0}
    BY <1>1, CallsAssumption DEF Init, TypeOK, Record
  <2> QED BY <2>1, <2>2
          DEF ProcInv, RoundsInv, CallInv, PlaceInv, SweepInv, Marked, Condemning, FlightInv,
              Flying, OnceInv, StoredAsReported, NoLoc
<1> QED BY <1>1, <1>2, <1>3 DEF IInv

LEMMA InvStep == IInv /\ [Next]_vars => IInv'
<1> SUFFICES ASSUME IInv, [Next]_vars PROVE IInv'
  OBVIOUS
<1>0. TypeOK' /\ TypeOK /\ SlotInv /\ now \in Nat
  BY TypeStep DEF IInv, TypeOK
<1>1. ASSUME NEW p \in Procs, Begin(p) \/ CallStep(p) \/ FaultStep(p) \/ Deliver(p)
      PROVE  IInv'
  <2>1. Own(p) /\ StoreChange
    BY <1>0, <1>1, OwnStep
  <2>2. ASSUME NEW q \in Procs PROVE Own(q)
    <3>1. CASE q = p
      BY <2>1, <3>1
    <3>2. CASE q # p
      <4>1. /\ pc'[q] = pc[q] /\ call'[q] = call[q] /\ loc'[q] = loc[q]
            /\ late'[q] = late[q] /\ applied'[q] = applied[q] /\ now' = now
        BY <1>0, <1>1, <3>2, OthersKept
      <4>2. ProcInv(q) /\ StoredAsReported(q) /\ now <= now'
        BY <1>0, <4>1 DEF IInv
      <4> QED BY <1>0, <2>1, <4>1, <4>2, OtherFrame DEF Own
    <3> QED BY <3>1, <3>2
  <2> QED BY <1>0, <2>1, <2>2, SlotFrame DEF IInv, Own
<1>2. CASE Tick \/ UNCHANGED vars
  <2>1. /\ UNCHANGED <<pc, call, loc, late, applied>> /\ StoreChange /\ now <= now'
    BY <1>0, <1>2 DEF Tick, vars, storeVars, StoreChange
  <2>2. ASSUME NEW q \in Procs PROVE Own(q)
    BY <1>0, <2>1, OtherFrame DEF IInv, Own
  <2> QED BY <1>0, <2>1, <2>2, SlotFrame DEF IInv, Own
<1> QED BY <1>1, <1>2 DEF Next

\* The inductive invariant of the store: a data write in flight, awaited or
\* not, is either refused by its revision or allowed by the contract, what the
\* sweep is about to remove is dead or newer, and where a call stands says
\* whether it has stored anything.
THEOREM KvInvariance == Spec => []IInv
BY InvInit, InvStep, PTL DEF Spec

\* Every reachable state of the store is well typed; in particular no call
\* loses more CAS rounds than it has.
THEOREM KvTyped == Spec => []TypeOK
<1>1. IInv => TypeOK
  BY DEF IInv
<1> QED BY <1>1, KvInvariance, PTL

\* A call stores its value at most once, and its answer says whether it did.
THEOREM WritesApplyOnce == Spec => []AppliedOnce
<1>1. IInv => AppliedOnce
  BY DEF IInv, AppliedOnce
<1> QED BY <1>1, KvInvariance, PTL

-----------------------------------------------------------------------------
(* The contract.                                                           *)

\* A data write that fits is a step of the contract.
LEMMA StoreRefines ==
  ASSUME IInv, NEW p \in Procs, Flying(p), Accepts(p), StoreData(p), now' = now
  PROVE  Cell!Next
<1>1. Fits(p)
  BY StoreFits
<1>2. /\ data'.rev = seq + 1 /\ data'.op = loc[p].body.op /\ data'.val = loc[p].body.val
      /\ data'.exp = loc[p].body.exp /\ wrote' = call[p].op
  BY DEF StoreData
<1>3. call[p].op \in Kinds /\ data'.rev > data.rev
  BY <1>2 DEF IInv, TypeOK, SlotInv, Call, Record
<1>4. Live <=> Cell!Live
  <2>1. now \in Nat /\ data.exp \in Nat
    BY DEF IInv, TypeOK, Record
  <2> QED BY <2>1 DEF Live, Cell!Live, IsExpired
<1>5. CASE call[p].op = "put"
  BY <1>1, <1>2, <1>3, <1>5 DEF Fits, Cell!Next, Cell!Put, Cell!Writes
<1>6. CASE call[p].op = "claim"
  BY <1>1, <1>2, <1>3, <1>4, <1>6 DEF Fits, Cell!Next, Cell!Claim, Cell!Writes
<1>7. CASE call[p].op = "delete"
  BY <1>1, <1>2, <1>3, <1>7 DEF Fits, Cell!Next, Cell!Delete, Cell!Writes
<1>8. CASE call[p].op = "expire"
  BY <1>1, <1>2, <1>3, <1>8 DEF Fits, Cell!Next, Cell!Touch, Cell!Writes
<1>9. CASE call[p].op = "incr"
  BY <1>1, <1>2, <1>3, <1>4, <1>9 DEF Fits, Cell!Next, Cell!Count, Cell!Writes
<1>10. CASE call[p].op = "sweep"
  BY <1>1, <1>2, <1>3, <1>10 DEF Fits, Cell!Next, Cell!Upgrade, Cell!Writes
<1> QED BY <1>3, <1>5, <1>6, <1>7, <1>8, <1>9, <1>10 DEF Kinds

LEMMA PurgeRefines ==
  ASSUME IInv, NEW p \in Procs, Condemning(p), PurgeThrough(p), now' = now
  PROVE  [Cell!Next]_(Cell!vars)
<1>1. CASE UNCHANGED storeVars
  BY <1>1 DEF storeVars, Cell!vars
<1>2. CASE data.rev \in 1..loc[p].mark /\ data' = NoData /\ wrote' = "purge"
  <2>1. ~Live
    BY <1>2 DEF IInv, ProcInv, SweepInv, Doomed
  <2>2. now \in Nat /\ data.exp \in Nat
    BY DEF IInv, TypeOK, Record
  <2>3. ~Cell!Live
    BY <2>1, <2>2 DEF Live, Cell!Live, IsExpired
  <2> QED BY <1>2, <2>3 DEF Cell!Next, Cell!Remove, NoData
<1> QED BY <1>1, <1>2 DEF PurgeThrough

\* The KV store implements the contract of a key, for every set of calls and
\* every loss, delay and refusal of writes: no claim takes a live key, no
\* increment is lost, no TTL change alters a value, and the sweep removes
\* nothing that is not dead.
THEOREM StoreKeepsContract == Spec => KeepsContract
<1>1. Init => Cell!Init
  BY DEF Init, Cell!Init
<1>2. IInv /\ [Next]_vars => [Cell!Next]_(Cell!vars)
  <2> SUFFICES ASSUME IInv, [Next]_vars PROVE [Cell!Next]_(Cell!vars)
    OBVIOUS
  <2>1. ASSUME NEW p \in Procs, WriteData(p) PROVE [Cell!Next]_(Cell!vars)
    BY <2>1, StoreRefines DEF WriteData, Flying, storeVars, Cell!vars
  <2>2. ASSUME NEW p \in Procs, Deliver(p) PROVE [Cell!Next]_(Cell!vars)
    <3>1. CASE \E r \in late[p] : r = "data" /\ Accepts(p) /\ StoreData(p)
      BY <2>2, <3>1, StoreRefines DEF Deliver, Flying
    <3>2. CASE \E r \in late[p] : r = "purgeData" /\ PurgeThrough(p)
      BY <2>2, <3>2, PurgeRefines DEF Deliver, Condemning
    <3>3. CASE UNCHANGED storeVars \/ StoreIndex \/ PurgeIndex
      BY <2>2, <3>3 DEF Deliver, storeVars, StoreIndex, PurgeIndex, Cell!vars
    <3> QED BY <2>2, <3>1, <3>2, <3>3 DEF Deliver
  <2>3. ASSUME NEW p \in Procs, RemoveStep(p) PROVE [Cell!Next]_(Cell!vars)
    <3>1. CASE RemoveData(p)
      BY <3>1, PurgeRefines DEF RemoveData, Condemning
    <3>2. CASE RemoveIndex(p) \/ Reread(p) \/ Rewrite(p)
      BY <3>2 DEF RemoveIndex, Reread, Rewrite, storeVars, StoreIndex, PurgeIndex, Cell!vars
    <3> QED BY <2>3, <3>1, <3>2 DEF RemoveStep
  <2>4. ASSUME NEW p \in Procs,
               Begin(p) \/ Read(p) \/ WriteIndex(p) \/ Answer(p) \/ Scan(p) \/ Settle(p)
        PROVE  UNCHANGED <<now, data, wrote>>
    BY <2>4 DEF Begin, Read, WriteIndex, Answer, Scan, Settle, storeVars, StoreIndex
  <2>5. ASSUME NEW p \in Procs, FaultStep(p) PROVE UNCHANGED <<now, data, wrote>>
    BY <2>5 DEF FaultStep, RefuseData, LoseData, RefuseIndex, LoseIndex, RefuseRewrite, Fail,
                Crash, Abandon, storeVars
  <2>6. CASE Tick
    BY <2>6 DEF Tick, storeVars, IInv, TypeOK, Cell!Next, Cell!Advance
  <2>7. CASE UNCHANGED vars
    BY <2>7 DEF vars, storeVars, Cell!vars
  <2> QED BY <2>1, <2>2, <2>3, <2>4, <2>5, <2>6, <2>7
          DEF Next, CallStep, WriteStep, Cell!vars
<1> QED BY <1>1, <1>2, KvInvariance, PTL DEF Spec, KeepsContract, Cell!Spec
=============================================================================
