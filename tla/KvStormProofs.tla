--------------------------- MODULE KvStormProofs ---------------------------
(***************************************************************************)
(* A storm of calls on one key (KvStore).  With a round for every call,    *)
(* and one more where claims are among them, no call gives up, whatever    *)
(* the calls are and whatever is lost, refused or late.  A call changes    *)
(* the data record at most once and then never again (it is spent), so a   *)
(* call that lost n rounds has n spent rivals.  A claim starts out         *)
(* expecting no record and may lose its first round to one that was        *)
(* always there.                                                           *)
(*                                                                         *)
(* Where only increments set the value, the count is the sum of the        *)
(* increments that were stored.                                            *)
(***************************************************************************)
EXTENDS KvStoreProofs, FiniteSetTheorems

\* As many rounds as calls, and one more for claims.
RoundsSuffice ==
  /\ IsFiniteSet(Procs)
  /\ Cardinality(Procs) + (IF "claim" \in Ops THEN 1 ELSE 0) <= Rounds

-----------------------------------------------------------------------------
(* The invariant.                                                          *)

\* Its data write was refused by its revision.
Losing(p) == pc[p] \in {"index", "answer"} /\ loc[p].ack = "conflict"

\* The call may still change the data record: by the write it has sent or will
\* send, or by the purge of a sweep.
MayChange(p) ==
  \/ pc[p] \in {"idle", "scan", "settle", "read", "data", "purgeData"}
  \/ pc[p] = "unindex" /\ call[p].op = "sweep"
  \/ Losing(p)
  \/ "data" \in late[p] \/ "purgeData" \in late[p]

Rivals(p) == {q \in Procs \ {p} : ~MayChange(q)}

\* The rounds a call may have lost by now.
Excused(p) == Cardinality(Rivals(p)) + (IF call[p].op = "claim" THEN 1 ELSE 0)

Retrying(p) == call[p].op # "sweep" /\ (pc[p] \in {"read", "data"} \/ Losing(p))

\* It has lost this round too, and knows it or will.
Outrun(p) ==
  \/ pc[p] = "data" /\ call[p].op \in {"claim", "expire", "incr"} /\ loc[p].expect # data.rev
  \/ call[p].op # "sweep" /\ Losing(p)

RoundsLost(p) ==
  /\ Retrying(p) => loc[p].rounds <= Excused(p)
  /\ Outrun(p) => loc[p].rounds + 1 <= Excused(p)

StormInv(p) ==
  /\ RoundsLost(p)
  /\ pc[p] # "conflict"
  /\ pc[p] # "idle" => call[p].op \in Ops
  /\ "purgeData" \in late[p] => pc[p] \in {"err", "crashed"} /\ "data" \notin late[p]

-----------------------------------------------------------------------------
(* Counting.                                                               *)

LEMMA RivalCount ==
  ASSUME RoundsSuffice, NEW p \in Procs
  PROVE  /\ IsFiniteSet(Rivals(p)) /\ Cardinality(Rivals(p)) \in Nat
         /\ Cardinality(Procs) \in Nat /\ Cardinality(Rivals(p)) + 1 <= Cardinality(Procs)
<1>1. IsFiniteSet(Procs \ {p}) /\ Cardinality(Procs \ {p}) = Cardinality(Procs) - 1
  BY FS_RemoveElement DEF RoundsSuffice
<1>2. Rivals(p) \in SUBSET (Procs \ {p})
  BY DEF Rivals
<1>3. IsFiniteSet(Rivals(p)) /\ Cardinality(Rivals(p)) <= Cardinality(Procs \ {p})
  BY <1>1, <1>2, FS_Subset
<1>4. Cardinality(Rivals(p)) \in Nat /\ Cardinality(Procs) \in Nat
  BY <1>3, FS_CardinalityType DEF RoundsSuffice
<1> QED BY <1>1, <1>3, <1>4

\* No rival comes back, and a call that has just made its change is a new one.
LEMMA RivalsGrow ==
  ASSUME RoundsSuffice, NEW p \in Procs,
         \A q \in Procs \ {p} : ~MayChange(q) => ~MayChange(q)'
  PROVE  /\ Cardinality(Rivals(p)) <= Cardinality(Rivals(p)')
         /\ \A q \in Procs \ {p} : MayChange(q) /\ ~MayChange(q)' =>
              Cardinality(Rivals(p)) + 1 <= Cardinality(Rivals(p)')
<1>1. Rivals(p)' \in SUBSET (Procs \ {p}) /\ Rivals(p) \in SUBSET (Rivals(p)')
  BY DEF Rivals
<1>2. IsFiniteSet(Procs \ {p})
  BY FS_RemoveElement DEF RoundsSuffice
<1>3. IsFiniteSet(Rivals(p)')
  BY <1>1, <1>2, FS_Subset
<1>4. Cardinality(Rivals(p)) <= Cardinality(Rivals(p)')
  BY <1>1, <1>3, FS_Subset
<1>5. ASSUME NEW q \in Procs \ {p}, MayChange(q), ~MayChange(q)'
      PROVE  Cardinality(Rivals(p)) + 1 <= Cardinality(Rivals(p)')
  <2>1. q \notin Rivals(p) /\ Rivals(p) \cup {q} \in SUBSET (Rivals(p)')
    BY <1>1, <1>5 DEF Rivals
  <2>2. Cardinality(Rivals(p) \cup {q}) = Cardinality(Rivals(p)) + 1
    BY <2>1, RivalCount, FS_AddElement
  <2>3. Cardinality(Rivals(p) \cup {q}) <= Cardinality(Rivals(p)')
    BY <1>3, <2>1, FS_Subset
  <2> QED BY <2>2, <2>3
<1> QED BY <1>4, <1>5

-----------------------------------------------------------------------------
(* A call changes the record once.                                         *)

\* The facts about a step's own call that the cases below need.
LEMMA OwnTypes ==
  ASSUME IInv, NEW p \in Procs
  PROVE  /\ pc \in [Procs -> {"idle"} \cup Steps \cup Outcomes] /\ loc \in [Procs -> Loc]
         /\ call \in [Procs -> Call] /\ late \in [Procs -> SUBSET Requests]
         /\ loc[p] \in Loc /\ loc[p].rounds \in 0..Rounds /\ loc[p].rounds \in Nat
         /\ call[p].op \in Kinds /\ ProcInv(p)
<1>1. Rounds \in Nat
  BY CallsAssumption
<1> QED BY <1>1 DEF IInv, TypeOK, Loc, Call

\* A step that leaves the record alone leaves a spent call spent.
LEMMA SpentStays ==
  ASSUME IInv, NEW p \in Procs, StormInv(p), ~MayChange(p),
         Begin(p) \/ CallStep(p) \/ FaultStep(p) \/ Deliver(p)
  PROVE  ~MayChange(p)' /\ data' = data
<1>1. /\ pc[p] \notin {"idle", "scan", "settle", "read", "data", "purgeData"}
      /\ pc[p] = "unindex" => call[p].op # "sweep"
      /\ ~Losing(p) /\ "data" \notin late[p] /\ "purgeData" \notin late[p]
  BY DEF MayChange
<1>2. CASE WriteIndex(p) \/ RefuseIndex(p) \/ LoseIndex(p)
  <2>1. /\ pc[p] = "index" /\ pc'[p] = "answer" /\ loc'[p].ack = loc[p].ack
        /\ late'[p] \subseteq late[p] \cup {"index"}
    <3>1. pc[p] = "index" /\ (Indexed(p, "ok") \/ Indexed(p, "conflict") \/ Indexed(p, "failed"))
      BY <1>2 DEF WriteIndex, RefuseIndex, LoseIndex
    <3>2. pc'[p] = "answer"
      BY <3>1, OwnTypes DEF Indexed, Goto
    <3>3. loc'[p].ack = loc[p].ack
      BY <3>1, OwnTypes DEF Indexed, Loc
    <3>4. late'[p] \subseteq late[p] \cup {"index"}
      BY <1>2, OwnTypes DEF WriteIndex, RefuseIndex, LoseIndex, Unsent
    <3> QED BY <3>1, <3>2, <3>3, <3>4
  <2>2. data' = data
    BY <1>2 DEF WriteIndex, RefuseIndex, LoseIndex, StoreIndex, storeVars
  <2> QED BY <1>1, <2>1, <2>2 DEF MayChange, Losing
<1>3. CASE Answer(p)
  <2>1. late'[p] = late[p] /\ data' = data /\ call'[p] = call[p] /\ loc[p].ack # "conflict"
    BY <1>1, <1>3 DEF Answer, Unsent, storeVars, Losing
  <2>2. pc'[p] \in {"rewrite", "ok", "no", "err"} \/ (pc'[p] = "unindex" /\ loc[p].indexed = "ok")
    BY <1>3, <2>1, OwnTypes DEF Answer, Goto
  <2>3. loc[p].indexed = "ok" => call[p].op # "sweep"
    BY OwnTypes DEF ProcInv, CallInv
  <2> QED BY <1>1, <2>1, <2>2, <2>3 DEF MayChange, Losing
<1>4. CASE RemoveStep(p) \/ RefuseRewrite(p)
  <2>1. pc[p] \in {"unindex", "reread", "rewrite"} /\ late'[p] = late[p] /\ data' = data /\ call'[p] = call[p]
    BY <1>1, <1>4 DEF RemoveStep, RemoveIndex, RemoveData, Reread, Rewrite, RefuseRewrite, PurgeIndex, StoreIndex,
                      Unsent, storeVars
  <2>2. pc'[p] \in {"reread", "rewrite", "ok", "err"}
    BY <1>1, <1>4, OwnTypes DEF RemoveStep, RemoveIndex, RemoveData, Reread, Rewrite, RefuseRewrite, Repaired, Goto
  <2> QED BY <1>1, <2>1, <2>2 DEF MayChange, Losing
<1>5. CASE Fail(p) \/ Crash(p)
  <2>1. pc'[p] \in {"err", "crashed"} /\ data' = data
    BY <1>5, OwnTypes DEF Fail, Crash, Abandon, Goto, storeVars
  <2>2. late'[p] \subseteq late[p] \cup {"index", "purgeIndex"}
    <3>1. InFlight(p) \subseteq {"index", "purgeIndex"}
      BY <1>1 DEF InFlight
    <3> QED BY <1>5, <3>1, OwnTypes DEF Fail, Crash, Abandon
  <2> QED BY <1>1, <2>1, <2>2 DEF MayChange, Losing
<1>6. CASE Deliver(p)
  <2>1. PICK r \in late[p] :
          /\ late' = [late EXCEPT ![p] = @ \ {r}]
          /\ \/ r = "data" \/ r = "purgeData" \/ StoreIndex \/ PurgeIndex \/ UNCHANGED storeVars
    BY <1>6 DEF Deliver
  <2>2. data' = data /\ late'[p] \subseteq late[p]
    BY <1>1, <2>1, OwnTypes DEF StoreIndex, PurgeIndex, storeVars
  <2>3. UNCHANGED <<pc, call, loc>>
    BY <1>6 DEF Deliver
  <2> QED BY <1>1, <2>2, <2>3 DEF MayChange, Losing
<1> QED BY <1>1, <1>2, <1>3, <1>4, <1>5, <1>6
        DEF Begin, CallStep, WriteStep, FaultStep, Read, WriteData, Scan, Settle, RefuseData, LoseData

\* A change of the record spends the call that makes it.
LEMMA ChangeSpends ==
  ASSUME IInv, NEW p \in Procs, StormInv(p), data' # data,
         Begin(p) \/ CallStep(p) \/ FaultStep(p) \/ Deliver(p)
  PROVE  MayChange(p) /\ ~MayChange(p)'
<1>1. CASE WriteData(p)
  <2>1. pc[p] = "data" /\ Acked(p, "ok") /\ late' = late
    BY <1>1 DEF WriteData, Unsent, storeVars
  <2>2. pc'[p] \in {"index", "answer"} /\ loc'[p].ack = "ok"
    BY <2>1, OwnTypes DEF Acked, Goto, Loc
  <2>3. "data" \notin late[p] /\ "purgeData" \notin late[p]
    BY <2>1, OwnTypes DEF ProcInv, PlaceInv, StormInv
  <2> QED BY <2>1, <2>2, <2>3 DEF MayChange, Losing
<1>2. CASE RemoveStep(p)
  <2>1. RemoveData(p)
    BY <1>2 DEF RemoveStep, RemoveIndex, Reread, Rewrite, PurgeIndex, StoreIndex, storeVars
  <2>2. pc[p] = "purgeData" /\ pc'[p] = "reread" /\ late' = late
    BY <2>1, OwnTypes DEF RemoveData, Goto, Unsent
  <2>3. "data" \notin late[p] /\ "purgeData" \notin late[p]
    BY <2>2, OwnTypes DEF ProcInv, PlaceInv, CallInv, StormInv
  <2> QED BY <2>2, <2>3 DEF MayChange, Losing
<1>3. CASE Deliver(p)
  <2>1. PICK r \in late[p] :
          /\ late' = [late EXCEPT ![p] = @ \ {r}]
          /\ \/ r = "data" \/ r = "purgeData" \/ StoreIndex \/ PurgeIndex \/ UNCHANGED storeVars
    BY <1>3 DEF Deliver
  <2>2. r \in {"data", "purgeData"} /\ late'[p] = late[p] \ {r} /\ UNCHANGED <<pc, call, loc>>
    BY <1>3, <2>1, OwnTypes DEF Deliver, StoreIndex, PurgeIndex, storeVars
  <2>3. "data" \notin late'[p] /\ "purgeData" \notin late'[p]
    BY <2>2 DEF StormInv
  <2>4. CASE r = "data"
    <3>1. \/ pc[p] \in {"index", "answer"} /\ loc[p].ack = "failed"
          \/ pc[p] \in {"unindex", "reread", "rewrite"} /\ call[p].op # "sweep"
          \/ pc[p] \in {"err", "crashed"}
      BY <2>4, OwnTypes DEF ProcInv, PlaceInv
    <3> QED BY <2>2, <2>3, <2>4, <3>1 DEF MayChange, Losing
  <2>5. CASE r = "purgeData"
    BY <2>2, <2>3, <2>5 DEF MayChange, Losing, StormInv
  <2> QED BY <2>2, <2>4, <2>5
<1> QED BY <1>1, <1>2, <1>3
        DEF Begin, CallStep, WriteStep, FaultStep, Read, WriteIndex, Answer, Scan, Settle, RefuseData, LoseData,
            RefuseIndex, LoseIndex, RefuseRewrite, Fail, Crash, Abandon, StoreIndex, storeVars

-----------------------------------------------------------------------------
(* The steps of a call.                                                    *)

\* A step of p leaves its rivals as they are.
LEMMA SameRivals ==
  ASSUME IInv, NEW p \in Procs, Begin(p) \/ CallStep(p) \/ FaultStep(p) \/ Deliver(p)
  PROVE  Cardinality(Rivals(p))' = Cardinality(Rivals(p))
<1>1. TypeOK
  BY DEF IInv
<1>2. \A q \in Procs \ {p} : MayChange(q)' <=> MayChange(q)
  BY <1>1, OthersKept DEF MayChange, Losing
<1>3. Rivals(p)' = Rivals(p)
  BY <1>2 DEF Rivals
<1> QED BY <1>3

\* A call that has ended, or is past its data write and did not lose it, has
\* lost no round it still has to make up for.
LEMMA PastRounds ==
  ASSUME IInv, NEW p \in Procs, StormInv(p),
         pc'[p] \notin {"idle", "read", "data", "conflict"}, ~Losing(p)', call'[p].op \in Ops,
         "purgeData" \in late'[p] => pc'[p] \in {"err", "crashed"} /\ "data" \notin late'[p]
  PROVE  StormInv(p)'
BY DEF StormInv, RoundsLost, Retrying, Outrun

LEMMA BeginStorm ==
  ASSUME RoundsSuffice, IInv, NEW p \in Procs, StormInv(p), Begin(p)
  PROVE  StormInv(p)'
<1>0. /\ loc[p].rounds = 0 /\ late'[p] = {} /\ Cardinality(Rivals(p))' = Cardinality(Rivals(p))
      /\ Cardinality(Rivals(p)) \in Nat
  <2>1. loc[p].rounds = 0 /\ late' = late /\ late[p] = {}
    BY OwnTypes DEF Begin, Unsent, ProcInv, CallInv, NoLoc
  <2> QED BY <2>1, SameRivals, RivalCount
<1>1. PICK c \in Menu :
        /\ call' = [call EXCEPT ![p] = c]
        /\ \/ /\ c.op \in {"put", "claim"}
              /\ Publish(p, IF c.op = "put" THEN Anything ELSE 0,
                         PutBody(c.arg, ExpiresAt(c.ttl)), TRUE)
           \/ Goto(p, "read") /\ UNCHANGED loc
           \/ c.op = "sweep" /\ Goto(p, "scan")
  BY DEF Begin
<1>2. call'[p] = c /\ c.op \in Ops
  BY <1>1, OwnTypes, MenuType
<1>3. CASE c.op \in {"put", "claim"} /\ Publish(p, IF c.op = "put" THEN Anything ELSE 0,
                                                PutBody(c.arg, ExpiresAt(c.ttl)), TRUE)
  <2>1. pc'[p] = "data" /\ loc'[p].rounds = 0
    BY <1>0, <1>3, OwnTypes DEF Publish, Goto
  <2>2. Excused(p)' = Cardinality(Rivals(p)) + (IF c.op = "claim" THEN 1 ELSE 0)
    BY <1>0, <1>2 DEF Excused
  <2>3. 0 <= Excused(p)' /\ (c.op = "claim" => 0 + 1 <= Excused(p)')
    BY <1>0, <2>2
  <2>4. RoundsLost(p)'
    BY <1>2, <1>3, <2>1, <2>3 DEF RoundsLost, Outrun, Losing
  <2> QED BY <1>0, <1>2, <2>1, <2>4 DEF StormInv
<1>4. CASE Goto(p, "read") /\ UNCHANGED loc
  <2>1. pc'[p] = "read" /\ loc'[p].rounds = 0
    BY <1>0, <1>4, OwnTypes DEF Goto
  <2>2. 0 <= Excused(p)'
    BY <1>0, <1>2 DEF Excused
  <2>3. RoundsLost(p)'
    BY <2>1, <2>2 DEF RoundsLost, Outrun, Losing
  <2> QED BY <1>0, <1>2, <2>1, <2>3 DEF StormInv
<1>5. CASE Goto(p, "scan")
  <2>1. pc'[p] = "scan"
    BY <1>5, OwnTypes DEF Goto
  <2> QED BY <1>0, <1>2, <2>1, PastRounds DEF Losing
<1> QED BY <1>1, <1>3, <1>4, <1>5

\* A call that reads publishes for the record it has read.
LEMMA PublishStorm ==
  ASSUME IInv, NEW p \in Procs, StormInv(p), pc[p] = "read", NEW e, NEW b, NEW c, Publish(p, e, b, c),
         UNCHANGED <<call, late, data>>, call[p].op = "delete" \/ e = data.rev,
         Cardinality(Rivals(p))' = Cardinality(Rivals(p))
  PROVE  StormInv(p)'
<1>1. pc'[p] = "data" /\ loc'[p].rounds = loc[p].rounds /\ loc'[p].expect = e
  BY OwnTypes DEF Publish, Goto
<1>2. call[p].op # "sweep"
  BY OwnTypes DEF ProcInv, CallInv
<1>3. loc[p].rounds <= Excused(p) /\ Excused(p)' = Excused(p)
  BY <1>2 DEF StormInv, RoundsLost, Retrying, Excused
<1>4. RoundsLost(p)'
  BY <1>1, <1>3 DEF RoundsLost, Outrun, Losing
<1> QED BY <1>1, <1>4 DEF StormInv

LEMMA ReadStorm ==
  ASSUME RoundsSuffice, IInv, NEW p \in Procs, StormInv(p), Read(p)
  PROVE  StormInv(p)'
<1>0. /\ pc[p] = "read" /\ UNCHANGED <<call, late, data>> /\ call[p].op \in Ops
      /\ Cardinality(Rivals(p))' = Cardinality(Rivals(p)) /\ "purgeData" \notin late[p]
  BY SameRivals DEF Read, Unsent, storeVars, StormInv, CallStep
<1>1. ASSUME NEW to \in {"no", "err", "ok"}, Goto(p, to) PROVE StormInv(p)'
  <2>1. pc'[p] = to
    BY <1>1, OwnTypes DEF Goto
  <2> QED BY <1>0, <2>1, PastRounds DEF Losing
<1>2. CASE call[p].op = "claim" /\ ReadForClaim(p)
  <2>1. loc[p].rounds # Rounds
    <3>1. loc[p].rounds <= Cardinality(Rivals(p)) + 1
      BY <1>0, <1>2 DEF StormInv, RoundsLost, Retrying, Excused
    <3>2. Cardinality(Procs) + 1 <= Rounds
      BY <1>0, <1>2 DEF RoundsSuffice
    <3>3. /\ Cardinality(Rivals(p)) \in Nat /\ Cardinality(Procs) \in Nat /\ Rounds \in Nat
          /\ Cardinality(Rivals(p)) + 1 <= Cardinality(Procs) /\ loc[p].rounds \in Nat
      BY RivalCount, OwnTypes, CallsAssumption
    <3> QED BY <3>1, <3>2, <3>3
  <2> QED BY <1>0, <1>1, <1>2, <2>1, PublishStorm DEF ReadForClaim
<1>3. CASE call[p].op = "delete" /\ ReadForDelete(p)
  BY <1>0, <1>3, PublishStorm DEF ReadForDelete
<1>4. CASE ReadForExpire(p)
  BY <1>0, <1>1, <1>4, PublishStorm DEF ReadForExpire
<1>5. CASE ReadForIncr(p)
  <2>1. \/ Goto(p, "err") \/ Goto(p, "ok")
        \/ \E b, c : Publish(p, data.rev, b, c)
    BY <1>5 DEF ReadForIncr
  <2> QED BY <1>0, <1>1, <2>1, PublishStorm
<1> QED BY <1>2, <1>3, <1>4, <1>5 DEF Read

\* A write refused by its revision was outrun before it got there.
LEMMA WriteStorm ==
  ASSUME RoundsSuffice, IInv, NEW p \in Procs, StormInv(p),
         WriteData(p) \/ RefuseData(p) \/ LoseData(p)
  PROVE  StormInv(p)'
<1>0. /\ pc[p] = "data" /\ call' = call /\ call[p].op \in Ops
      /\ Cardinality(Rivals(p))' = Cardinality(Rivals(p)) /\ "purgeData" \notin late[p]
      /\ late'[p] \subseteq late[p] \cup {"data"}
  BY SameRivals, OwnTypes
     DEF WriteData, RefuseData, LoseData, Unsent, StormInv, CallStep, WriteStep, FaultStep
<1>1. ASSUME NEW ack, Acked(p, ack)
      PROVE  pc'[p] \in {"index", "answer"} /\ loc'[p].ack = ack /\ loc'[p].rounds = loc[p].rounds
  BY <1>1, OwnTypes DEF Acked, Goto, Loc
<1>2. CASE Acked(p, "ok") \/ Acked(p, "failed")
  <2>1. pc'[p] \in {"index", "answer"} /\ ~Losing(p)'
    BY <1>1, <1>2 DEF Losing
  <2> QED BY <1>0, <2>1, PastRounds
<1>3. CASE ~Accepts(p) /\ Acked(p, "conflict")
  <2>1. call[p].op # "sweep" => Outrun(p)
    <3>1. loc[p].expect # Anything /\ loc[p].expect # data.rev
      BY <1>3 DEF Accepts
    <3>2. call[p].op \notin {"put", "delete"}
      BY <1>0, <3>1, OwnTypes DEF ProcInv, FlightInv, Flying, Harmless, Expects
    <3> QED BY <1>0, <3>1, <3>2, OwnTypes DEF Outrun, Kinds
  <2>2. Excused(p)' = Excused(p) /\ Excused(p) \in Int /\ loc[p].rounds \in Nat
    BY <1>0, RivalCount, OwnTypes DEF Excused
  <2>3. call[p].op # "sweep" => loc[p].rounds + 1 <= Excused(p)
    BY <2>1 DEF StormInv, RoundsLost
  <2>4. pc'[p] \in {"index", "answer"} /\ loc'[p].rounds = loc[p].rounds
    BY <1>1, <1>3
  <2>5. RoundsLost(p)'
    <3>1. ASSUME call[p].op # "sweep"
          PROVE  loc'[p].rounds <= Excused(p)' /\ loc'[p].rounds + 1 <= Excused(p)'
      BY <2>2, <2>3, <2>4, <3>1
    <3> QED BY <1>0, <2>4, <3>1 DEF RoundsLost, Retrying, Outrun
  <2> QED BY <1>0, <2>4, <2>5 DEF StormInv
<1> QED BY <1>2, <1>3 DEF WriteData, RefuseData, LoseData

LEMMA IndexStorm ==
  ASSUME IInv, NEW p \in Procs, StormInv(p), WriteIndex(p) \/ RefuseIndex(p) \/ LoseIndex(p)
  PROVE  StormInv(p)'
<1>0. /\ pc[p] = "index" /\ call' = call /\ call[p].op \in Ops
      /\ Cardinality(Rivals(p))' = Cardinality(Rivals(p)) /\ "purgeData" \notin late[p]
      /\ late'[p] \subseteq late[p] \cup {"index"}
  BY SameRivals, OwnTypes
     DEF WriteIndex, RefuseIndex, LoseIndex, Unsent, StormInv, CallStep, WriteStep, FaultStep
<1>1. Indexed(p, "ok") \/ Indexed(p, "conflict") \/ Indexed(p, "failed")
  BY DEF WriteIndex, RefuseIndex, LoseIndex
<1>2. pc'[p] = "answer" /\ loc'[p].ack = loc[p].ack /\ loc'[p].rounds = loc[p].rounds
  BY <1>1, OwnTypes DEF Indexed, Goto, Loc
<1>3. Excused(p)' = Excused(p)
  BY <1>0 DEF Excused
<1>4. RoundsLost(p)'
  BY <1>0, <1>2, <1>3 DEF StormInv, RoundsLost, Retrying, Outrun, Losing
<1> QED BY <1>0, <1>2, <1>4 DEF StormInv

\* A lost round leaves another while there are more calls than spent rivals.
LEMMA AnswerStorm ==
  ASSUME RoundsSuffice, IInv, NEW p \in Procs, StormInv(p), Answer(p)
  PROVE  StormInv(p)'
<1>0. /\ pc[p] = "answer" /\ UNCHANGED <<call, late>> /\ call[p].op \in Ops
      /\ Cardinality(Rivals(p))' = Cardinality(Rivals(p)) /\ "purgeData" \notin late[p]
  BY SameRivals DEF Answer, Unsent, StormInv, CallStep, WriteStep
<1>1. CASE loc[p].ack # "conflict"
  <2>1. pc'[p] \in {"rewrite", "ok", "no", "err", "unindex"}
    BY <1>1, OwnTypes DEF Answer, Goto
  <2> QED BY <1>0, <2>1, PastRounds DEF Losing
<1>2. CASE loc[p].ack = "conflict" /\ call[p].op = "sweep"
  <2>1. pc'[p] = "ok"
    BY <1>2, OwnTypes DEF Answer, LostCas, Goto
  <2> QED BY <1>0, <2>1, PastRounds DEF Losing
<1>3. CASE loc[p].ack = "conflict" /\ call[p].op # "sweep"
  <2>1. loc[p].rounds + 1 <= Excused(p)
    BY <1>0, <1>3 DEF StormInv, RoundsLost, Outrun, Losing
  <2>2. call[p].op # "claim" => loc[p].rounds + 1 < Rounds
    <3>1. /\ Cardinality(Rivals(p)) \in Nat /\ Cardinality(Procs) \in Nat /\ Rounds \in Nat
          /\ Cardinality(Rivals(p)) + 1 <= Cardinality(Procs) /\ loc[p].rounds \in Nat
          /\ Cardinality(Procs) <= Rounds
      <4>1. /\ Cardinality(Rivals(p)) \in Nat /\ Cardinality(Procs) \in Nat /\ Rounds \in Nat
            /\ Cardinality(Rivals(p)) + 1 <= Cardinality(Procs) /\ loc[p].rounds \in Nat
        BY RivalCount, OwnTypes, CallsAssumption
      <4>2. Cardinality(Procs) <= Rounds
        BY <4>1 DEF RoundsSuffice
      <4> QED BY <4>1, <4>2
    <3>2. call[p].op # "claim" => loc[p].rounds + 1 <= Cardinality(Rivals(p))
      BY <2>1, <3>1 DEF Excused
    <3> QED BY <3>1, <3>2
  <2>3. loc' = [loc EXCEPT ![p].rounds = loc[p].rounds + 1] /\ Goto(p, "read")
    BY <1>3, <2>2 DEF Answer, LostCas
  <2>4. pc'[p] = "read" /\ loc'[p].rounds = loc[p].rounds + 1
    BY <2>3, OwnTypes DEF Goto, Loc
  <2>5. Excused(p)' = Excused(p)
    BY <1>0 DEF Excused
  <2>6. RoundsLost(p)'
    BY <2>1, <2>4, <2>5 DEF RoundsLost, Outrun, Losing
  <2> QED BY <1>0, <2>4, <2>6 DEF StormInv
<1> QED BY <1>1, <1>2, <1>3

LEMMA SweepStorm ==
  ASSUME IInv, NEW p \in Procs, StormInv(p), Scan(p) \/ Settle(p)
  PROVE  StormInv(p)'
<1>0. /\ pc[p] \in {"scan", "settle"} /\ UNCHANGED <<call, late>> /\ call[p].op = "sweep" /\ call[p].op \in Ops
      /\ "purgeData" \notin late[p]
  BY OwnTypes DEF Scan, Settle, Unsent, StormInv, ProcInv, CallInv
<1>1. pc'[p] \in {"unindex", "settle", "ok", "data"}
  BY OwnTypes DEF Scan, Settle, Publish, Goto
<1>2. RoundsLost(p)'
  BY <1>0, <1>1 DEF RoundsLost, Retrying, Outrun
<1> QED BY <1>0, <1>1, <1>2 DEF StormInv

LEMMA RemoveStorm ==
  ASSUME IInv, NEW p \in Procs, StormInv(p), RemoveStep(p) \/ RefuseRewrite(p)
  PROVE  StormInv(p)'
<1>0. /\ pc[p] \in {"unindex", "purgeData", "reread", "rewrite"} /\ UNCHANGED <<call, late>> /\ call[p].op \in Ops
      /\ "purgeData" \notin late[p]
  BY DEF RemoveStep, RemoveIndex, RemoveData, Reread, Rewrite, RefuseRewrite, Unsent, StormInv
<1>1. pc'[p] \in {"purgeData", "reread", "rewrite", "ok", "err"}
  BY OwnTypes DEF RemoveStep, RemoveIndex, RemoveData, Reread, Rewrite, RefuseRewrite, Repaired, Goto
<1> QED BY <1>0, <1>1, PastRounds DEF Losing

LEMMA AbandonStorm ==
  ASSUME IInv, NEW p \in Procs, StormInv(p), Fail(p) \/ Crash(p)
  PROVE  StormInv(p)'
<1>0. pc[p] \in Steps /\ call' = call /\ call[p].op \in Ops /\ "purgeData" \notin late[p]
  BY DEF Fail, Crash, Abandon, StormInv, Steps
<1>1. pc'[p] \in {"err", "crashed"}
  BY OwnTypes DEF Fail, Crash, Abandon, Goto
<1>2. "purgeData" \in late'[p] => "data" \notin late'[p]
  <2>1. PICK sent \in SUBSET InFlight(p) : late' = [late EXCEPT ![p] = @ \cup sent]
    BY DEF Fail, Crash, Abandon
  <2>2. late'[p] = late[p] \cup sent
    BY <2>1, OwnTypes
  <2>3. "purgeData" \in InFlight(p) => pc[p] = "purgeData" /\ "data" \notin InFlight(p)
    BY DEF InFlight
  <2>4. pc[p] = "purgeData" => "data" \notin late[p]
    BY OwnTypes DEF ProcInv, PlaceInv, CallInv
  <2> QED BY <1>0, <2>1, <2>2, <2>3, <2>4
<1> QED BY <1>0, <1>1, <1>2, PastRounds DEF Losing

\* A request delivered late is one of a call that has lost no round.
LEMMA DeliverStorm ==
  ASSUME IInv, NEW p \in Procs, StormInv(p), Deliver(p)
  PROVE  StormInv(p)'
<1>0. UNCHANGED <<pc, call, loc>> /\ Cardinality(Rivals(p))' = Cardinality(Rivals(p))
  BY SameRivals DEF Deliver
<1>1. late'[p] \subseteq late[p]
  BY OwnTypes DEF Deliver
<1>2. CASE data' = data
  <2>1. Excused(p)' = Excused(p)
    BY <1>0 DEF Excused
  <2>2. RoundsLost(p)'
    BY <1>0, <1>2, <2>1 DEF StormInv, RoundsLost, Retrying, Outrun, Losing
  <2> QED BY <1>0, <1>1, <2>2 DEF StormInv
<1>3. CASE data' # data
  <2>1. ~MayChange(p)'
    BY <1>3, ChangeSpends
  <2>2. pc'[p] \notin {"idle", "read", "data"} /\ ~Losing(p)'
    BY <2>1 DEF MayChange
  <2> QED BY <1>0, <1>1, <2>2, PastRounds DEF StormInv
<1> QED BY <1>2, <1>3

-----------------------------------------------------------------------------
(* The theorem.                                                            *)

\* A step of another call: a change of the record is one more spent rival.
LEMMA OtherStorm ==
  ASSUME RoundsSuffice, IInv, \A q \in Procs : StormInv(q), NEW p \in Procs, NEW q \in Procs, p # q,
         Begin(q) \/ CallStep(q) \/ FaultStep(q) \/ Deliver(q)
  PROVE  StormInv(p)'
<1>1. /\ pc'[p] = pc[p] /\ call'[p] = call[p] /\ loc'[p] = loc[p] /\ late'[p] = late[p]
      /\ \A r \in Procs \ {q} : MayChange(r)' <=> MayChange(r)
  BY OthersKept DEF IInv, MayChange, Losing
<1>2. \A r \in Procs \ {p} : ~MayChange(r) => ~MayChange(r)'
  BY <1>1, SpentStays
<1>3. /\ Cardinality(Rivals(p)) <= Cardinality(Rivals(p)')
      /\ data' # data => Cardinality(Rivals(p)) + 1 <= Cardinality(Rivals(p)')
  BY <1>2, RivalsGrow, ChangeSpends
<1>4. Cardinality(Rivals(p)) \in Nat /\ Cardinality(Rivals(p)') \in Nat /\ loc[p].rounds \in Nat
  <2>1. Rivals(p)' \in SUBSET Procs
    BY DEF Rivals
  <2>2. IsFiniteSet(Rivals(p)')
    BY <2>1, FS_Subset DEF RoundsSuffice
  <2>3. Cardinality(Rivals(p)') \in Nat
    BY <2>2, FS_CardinalityType
  <2> QED BY <2>3, RivalCount, OwnTypes
<1>5. /\ Excused(p) \in Int /\ Excused(p)' \in Int /\ Excused(p) <= Excused(p)'
      /\ data' # data => Excused(p) + 1 <= Excused(p)'
  BY <1>1, <1>3, <1>4 DEF Excused
<1>6. (Retrying(p)' <=> Retrying(p)) /\ (data' = data => (Outrun(p)' <=> Outrun(p))) /\ (Outrun(p)' => Retrying(p)')
  BY <1>1 DEF Retrying, Outrun, Losing
<1>7. Retrying(p)' => loc'[p].rounds <= Excused(p)'
  <2>1. Retrying(p) => loc[p].rounds <= Excused(p)
    BY DEF StormInv, RoundsLost
  <2> QED BY <1>1, <1>4, <1>5, <1>6, <2>1
<1>8. Outrun(p)' => loc'[p].rounds + 1 <= Excused(p)'
  <2>1. /\ Retrying(p) => loc[p].rounds <= Excused(p)
        /\ Outrun(p) => loc[p].rounds + 1 <= Excused(p)
    BY DEF StormInv, RoundsLost
  <2>2. CASE data' = data
    BY <1>1, <1>4, <1>5, <1>6, <2>1, <2>2
  <2>3. CASE data' # data
    BY <1>1, <1>4, <1>5, <1>6, <2>1, <2>3
  <2> QED BY <2>2, <2>3
<1> QED BY <1>1, <1>7, <1>8 DEF StormInv, RoundsLost

LEMMA StormStart == Init => \A p \in Procs : StormInv(p)
BY DEF Init, StormInv, RoundsLost, Retrying, Outrun, Losing

LEMMA StormStep ==
  ASSUME RoundsSuffice, IInv, \A p \in Procs : StormInv(p), [Next]_vars
  PROVE  \A p \in Procs : StormInv(p)'
<1>1. ASSUME NEW q \in Procs, Begin(q) \/ CallStep(q) \/ FaultStep(q) \/ Deliver(q), NEW p \in Procs
      PROVE  StormInv(p)'
  <2>1. CASE p # q
    BY <1>1, <2>1, OtherStorm
  <2>2. CASE p = q
    BY <1>1, <2>2, BeginStorm, ReadStorm, WriteStorm, IndexStorm, AnswerStorm, SweepStorm, RemoveStorm,
       AbandonStorm, DeliverStorm
       DEF CallStep, WriteStep, FaultStep
  <2> QED BY <2>1, <2>2
<1>2. CASE Tick \/ UNCHANGED vars
  <2>1. UNCHANGED <<data, late, pc, call, loc>>
    BY <1>2 DEF Tick, vars, storeVars
  <2>2. ASSUME NEW p \in Procs PROVE StormInv(p)'
    <3>1. \A q \in Procs : MayChange(q)' <=> MayChange(q)
      BY <2>1 DEF MayChange, Losing
    <3>2. Rivals(p)' = Rivals(p)
      BY <3>1 DEF Rivals
    <3>3. Excused(p)' = Excused(p)
      BY <2>1, <3>2 DEF Excused
    <3> QED BY <2>1, <3>3 DEF StormInv, RoundsLost, Retrying, Outrun, Losing
  <2> QED BY <2>2
<1> QED BY <1>1, <1>2 DEF Next

\* With a round for each of the calls on a key, no increment and no expire
\* gives up on a storm of CAS writes, and with one more no claim does either;
\* for any number of calls of any kind, any losses and any delays.
THEOREM NoCallGivesUp == ASSUME RoundsSuffice PROVE Spec => []StormSurvived
<1> DEFINE SInv == IInv /\ \A p \in Procs : StormInv(p)
<1>1. Init => SInv
  BY InvInit, StormStart
<1>2. SInv /\ [Next]_vars => SInv'
  BY InvStep, StormStep
<1>3. SInv => StormSurvived
  BY DEF StormInv, StormSurvived
<1> QED BY <1>1, <1>2, <1>3, PTL DEF Spec

-----------------------------------------------------------------------------
(* Sums.  Induction over the subsets of a finite set is the search for a   *)
(* smallest one that fails.                                                *)

\* The element a fold takes next, and the function that adds up v over the subsets
\* of S in that order.
Pick(s) == CHOOSE x \in s : TRUE

Adds(f, v, S) ==
  f = [s \in SUBSET S |-> IF s = {} THEN 0 ELSE v[Pick(s)] + f[s \ {Pick(s)}]]

LEMMA PickIn == ASSUME NEW s, s # {} PROVE Pick(s) \in s
BY DEF Pick

\* A property of the subsets of a finite set that fails has a smallest failure.
LEMMA SmallestSet ==
  ASSUME NEW S, IsFiniteSet(S), NEW D, D \subseteq SUBSET S, D # {}
  PROVE  \E s \in D : \A t \in D : ~(t \subseteq s /\ t # s)
<1>1. IsWellFoundedOn(StrictSubsetOrdering(S), SUBSET S)
  BY FS_StrictSubsetOrderingWellFounded, FS_FiniteSubsetsOfFinite
<1>2. PICK s \in D : \A t \in D : ~(<<t, s>> \in StrictSubsetOrdering(S))
  BY <1>1, WFMin
<1> QED BY <1>2 DEF StrictSubsetOrdering

\* Any two such functions agree.
LEMMA AddsUnique ==
  ASSUME NEW T, NEW U, IsFiniteSet(T), NEW v, NEW f, NEW g, Adds(f, v, T), Adds(g, v, U),
         NEW t, t \subseteq T, t \subseteq U
  PROVE  f[t] = g[t]
<1> DEFINE D == {s \in SUBSET T : s \subseteq U /\ f[s] # g[s]}
<1> SUFFICES ASSUME D # {} PROVE FALSE
  OBVIOUS
<1>0. D \subseteq SUBSET T
  OBVIOUS
<1> HIDE DEF D
<1>1. PICK s \in D : \A r \in D : ~(r \subseteq s /\ r # s)
  BY <1>0, SmallestSet
<1> HIDE DEF D
<1>2. s \in SUBSET T /\ s \in SUBSET U /\ f[s] # g[s]
  BY DEF D
<1>3. s # {}
  BY <1>2 DEF Adds
<1> DEFINE r == s \ {Pick(s)}
<1>4. f[s] = v[Pick(s)] + f[r] /\ g[s] = v[Pick(s)] + g[r]
  BY <1>2, <1>3 DEF Adds
<1>5. r \subseteq s /\ r # s
  BY <1>3, PickIn
<1>6. r \notin D
  BY <1>1, <1>5
<1>7. f[r] = g[r]
  BY <1>6, <1>2 DEF D
<1> QED BY <1>2, <1>4, <1>7

\* There is one for every finite set.
LEMMA AddsExists ==
  ASSUME NEW S, IsFiniteSet(S), NEW v
  PROVE  \E f : Adds(f, v, S)
<1> DEFINE D == {s \in SUBSET S : ~ \E f : Adds(f, v, s)}
<1> SUFFICES ASSUME D # {} PROVE FALSE
  OBVIOUS
<1>0. D \subseteq SUBSET S
  OBVIOUS
<1> HIDE DEF D
<1>1. PICK T \in D : \A r \in D : ~(r \subseteq T /\ r # T)
  BY <1>0, SmallestSet
<1> DEFINE G(s) == CHOOSE f : Adds(f, v, s)
<1>2. T \in SUBSET S
  BY <1>0
<1>3. \A s \in SUBSET T : s # T => Adds(G(s), v, s)
  <2> SUFFICES ASSUME NEW s \in SUBSET T, s # T PROVE \E f : Adds(f, v, s)
    OBVIOUS
  <2> QED BY <1>1, <1>2 DEF D
<1>4. ~ \E f : Adds(f, v, T)
  BY DEF D
<1> HIDE DEF G
<1> DEFINE h == [s \in SUBSET T |-> IF s = {} THEN 0
                                    ELSE v[Pick(s)] + G(s \ {Pick(s)})[s \ {Pick(s)}]]
<1>5. ASSUME NEW s \in SUBSET T, s # T PROVE h[s] = G(s)[s]
  <2>1. Adds(G(s), v, s)
    BY <1>3, <1>5
  <2>2. CASE s = {}
    <3>1. G(s)[s] = 0
      BY <2>1, <2>2 DEF Adds
    <3> QED BY <2>2, <3>1
  <2>3. CASE s # {}
    <3> DEFINE r == s \ {Pick(s)}
    <3>1. r \in SUBSET T /\ r # T /\ r \subseteq s /\ Pick(s) \in s
      BY <2>3, <1>5, PickIn
    <3>2. Adds(G(r), v, r)
      BY <1>3, <3>1
    <3>3. G(s)[s] = v[Pick(s)] + G(s)[r]
      BY <2>1, <2>3 DEF Adds
    <3>4. IsFiniteSet(s)
      BY <1>2, FS_Subset
    <3>5. h[s] = v[Pick(s)] + G(r)[r]
      BY <2>3
    <3> HIDE DEF h, r
    <3>6. G(s)[r] = G(r)[r]
      BY <2>1, <3>1, <3>2, <3>4, AddsUnique
    <3> QED BY <3>3, <3>5, <3>6
  <2> QED BY <2>2, <2>3
<1>6. ASSUME NEW s \in SUBSET T, s # {}
      PROVE  h[s] = v[Pick(s)] + h[s \ {Pick(s)}]
  <2> DEFINE r == s \ {Pick(s)}
  <2>1. r \in SUBSET T /\ r # T
    BY <1>6, PickIn
  <2>2. h[r] = G(r)[r]
    BY <2>1, <1>5
  <2>3. h[s] = v[Pick(s)] + G(r)[r]
    BY <1>6
  <2> QED BY <2>2, <2>3
<1>7. h[{}] = 0
  OBVIOUS
<1>8. h = [s \in SUBSET T |-> h[s]]
  OBVIOUS
<1> HIDE DEF h
<1>9. h = [s \in SUBSET T |-> IF s = {} THEN 0 ELSE v[Pick(s)] + h[s \ {Pick(s)}]]
  BY <1>6, <1>7, <1>8
<1> QED BY <1>4, <1>9 DEF Adds

\* The community modules' sum is what such a function gives for the whole set.
LEMMA SumAdds ==
  ASSUME NEW S, IsFiniteSet(S), NEW v, DOMAIN v = S
  PROVE  \E f : Adds(f, v, S) /\ SumFunction(v) = f[S]
<1> DEFINE f == CHOOSE g : Adds(g, v, S)
<1>1. Adds(f, v, S)
  BY AddsExists
<1>2. SumFunction(v) = f[S]
  BY DEF SumFunction, SumFunctionOnSet, FoldFunctionOnSet, MapThenFoldSet, Adds, Pick
<1> QED BY <1>1, <1>2

LEMMA AddsInt ==
  ASSUME NEW S, IsFiniteSet(S), NEW v, \A x \in S : v[x] \in Int, NEW f, Adds(f, v, S)
  PROVE  \A s \in SUBSET S : f[s] \in Int
<1> DEFINE D == {s \in SUBSET S : f[s] \notin Int}
<1> SUFFICES ASSUME D # {} PROVE FALSE
  OBVIOUS
<1>0. D \subseteq SUBSET S
  OBVIOUS
<1> HIDE DEF D
<1>1. PICK s \in D : \A r \in D : ~(r \subseteq s /\ r # s)
  BY <1>0, SmallestSet
<1> HIDE DEF D
<1>2. s \in SUBSET S /\ f[s] \notin Int
  BY DEF D
<1>3. s # {}
  BY <1>2 DEF Adds
<1> DEFINE r == s \ {Pick(s)}
<1>4. f[s] = v[Pick(s)] + f[r]
  BY <1>2, <1>3 DEF Adds
<1>5. r \subseteq s /\ r # s /\ Pick(s) \in S
  BY <1>2, <1>3, PickIn
<1>6. r \notin D
  BY <1>1, <1>5
<1>7. f[r] \in Int
  BY <1>6, <1>2 DEF D
<1> QED BY <1>2, <1>4, <1>5, <1>7

\* Another value at one place changes the sum by the difference.
LEMMA AddsPoint ==
  ASSUME NEW S, IsFiniteSet(S), NEW v, NEW w, \A x \in S : v[x] \in Int /\ w[x] \in Int,
         NEW p \in S, \A x \in S : x # p => w[x] = v[x],
         NEW f, NEW g, Adds(f, v, S), Adds(g, w, S)
  PROVE  \A s \in SUBSET S : g[s] = f[s] + (IF p \in s THEN w[p] - v[p] ELSE 0)
<1> DEFINE Q(s) == g[s] = f[s] + (IF p \in s THEN w[p] - v[p] ELSE 0)
<1> DEFINE D == {s \in SUBSET S : ~Q(s)}
<1> SUFFICES ASSUME D # {} PROVE FALSE
  OBVIOUS
<1>0. D \subseteq SUBSET S
  OBVIOUS
<1> HIDE DEF D
<1>1. PICK s \in D : \A r \in D : ~(r \subseteq s /\ r # s)
  BY <1>0, SmallestSet
<1>2. s \in SUBSET S /\ ~Q(s)
  BY DEF D
<1>3. s # {}
  BY <1>2 DEF Adds
<1> DEFINE r == s \ {Pick(s)}
<1>4. f[s] = v[Pick(s)] + f[r] /\ g[s] = w[Pick(s)] + g[r]
  BY <1>2, <1>3 DEF Adds
<1>5. r \subseteq s /\ r # s /\ Pick(s) \in S /\ r \in SUBSET S
  BY <1>2, <1>3, PickIn
<1>6. Q(r)
  BY <1>1, <1>5 DEF D
<1>7. f[r] \in Int /\ g[r] \in Int
  BY <1>5, AddsInt
<1>8. Pick(s) \in s
  BY <1>3, PickIn
<1>9. CASE p = Pick(s)
  <2>1. p \in s /\ p \notin r
    BY <1>8, <1>9
  <2> QED BY <2>1, <1>2, <1>4, <1>5, <1>6, <1>7, <1>9
<1>10. CASE p # Pick(s)
  <2>1. p \in s <=> p \in r
    BY <1>10
  <2>2. w[Pick(s)] = v[Pick(s)]
    BY <1>5, <1>10
  <2> QED BY <2>1, <2>2, <1>2, <1>4, <1>5, <1>6, <1>7
<1> QED BY <1>9, <1>10

LEMMA SumPoint ==
  ASSUME NEW S, IsFiniteSet(S), NEW v \in [S -> Int], NEW w \in [S -> Int],
         NEW p \in S, \A x \in S : x # p => w[x] = v[x]
  PROVE  SumFunction(v) \in Int /\ SumFunction(w) = SumFunction(v) + (w[p] - v[p])
<1>1. PICK f : Adds(f, v, S) /\ SumFunction(v) = f[S]
  BY SumAdds
<1>2. PICK g : Adds(g, w, S) /\ SumFunction(w) = g[S]
  BY SumAdds
<1>3. f[S] \in Int
  BY <1>1, AddsInt
<1>4. \A s \in SUBSET S : g[s] = f[s] + (IF p \in s THEN w[p] - v[p] ELSE 0)
  BY <1>1, <1>2, AddsPoint
<1> QED BY <1>1, <1>2, <1>3, <1>4

\* Nothing adds up to nothing.
LEMMA SumZero ==
  ASSUME NEW S, IsFiniteSet(S)
  PROVE  SumFunction([x \in S |-> 0]) = 0
<1> DEFINE v == [x \in S |-> 0]
<1>1. PICK f : Adds(f, v, S) /\ SumFunction(v) = f[S]
  BY SumAdds
<1> DEFINE D == {s \in SUBSET S : f[s] # 0}
<1> SUFFICES ASSUME D # {} PROVE FALSE
  BY <1>1
<1>0. D \subseteq SUBSET S
  OBVIOUS
<1> HIDE DEF D
<1>2. PICK s \in D : \A r \in D : ~(r \subseteq s /\ r # s)
  BY <1>0, SmallestSet
<1>3. s \in SUBSET S /\ f[s] # 0
  BY DEF D
<1>4. s # {}
  BY <1>1, <1>3 DEF Adds
<1> DEFINE r == s \ {Pick(s)}
<1>5. f[s] = v[Pick(s)] + f[r]
  BY <1>1, <1>3, <1>4 DEF Adds
<1>6. r \subseteq s /\ r # s /\ Pick(s) \in S
  BY <1>3, <1>4, PickIn
<1>7. f[r] = 0
  BY <1>2, <1>3, <1>6 DEF D
<1> QED BY <1>3, <1>5, <1>6, <1>7

-----------------------------------------------------------------------------
(* The count.                                                              *)

\* Nothing but increments sets the value, and none of it lapses: no puts, claims
\* or deletes, no TTLs, and a key that starts without a value or at zero.
CountersOnly ==
  /\ IsFiniteSet(Procs)
  /\ Ops \subseteq {"incr", "expire", "sweep"} /\ Ttls \subseteq {0}
  /\ \A f \in Firsts : f.data.op = "Put" => f.data.val = 0 /\ f.data.exp = 0

Shares == [p \in Procs |-> applied[p] * call[p].arg]
Current == IF data.op = "Put" THEN data.val ELSE 0

\* The count is the sum of what was stored.
Tally ==
  /\ data.op = "Put" => data.exp = 0
  /\ Current = SumFunction(Shares)

\* Only increments add anything, and an increment in flight that the server
\* would take adds its own share to what is there, or to nothing.
ShareInv(p) ==
  /\ call[p].arg \in Int /\ call[p].ttl = 0
  /\ call[p].op # "incr" => call[p].arg = 0
  /\ pc[p] # "idle" => call[p].op \in {"incr", "expire", "sweep"}

AddsOwn(p) ==
  /\ loc[p].body.exp = 0
  /\ call[p].op = "incr" => /\ loc[p].expect = 0 => loc[p].body.val = call[p].arg
                            /\ loc[p].expect = data.rev => loc[p].body.val = Current + call[p].arg

CountInv(p) == ShareInv(p) /\ (Flying(p) => AddsOwn(p))

LEMMA MenuShares ==
  ASSUME CountersOnly, NEW c \in Menu
  PROVE  /\ c.op \in {"incr", "expire", "sweep"} /\ c.ttl = 0 /\ c.arg \in Int
         /\ c.op # "incr" => c.arg = 0
<1>1. CASE c \in [op : Ops \cap {"put", "claim"}, arg : Values, ttl : Ttls]
  BY <1>1 DEF CountersOnly
<1>2. CASE c \in [op : Ops \cap {"incr"}, arg : Deltas, ttl : Ttls]
  BY <1>2, CallsAssumption DEF CountersOnly
<1>3. CASE c \in [op : Ops \cap {"expire"}, arg : {0}, ttl : Ttls]
  <2>1. c.op = "expire" /\ c.arg = 0 /\ c.ttl \in Ttls
    BY <1>3
  <2>2. c.ttl = 0
    BY <2>1 DEF CountersOnly
  <2> QED BY <2>1, <2>2
<1>4. CASE c \in [op : Ops \cap {"delete", "sweep"}, arg : {0}, ttl : {0}]
  BY <1>4 DEF CountersOnly
<1> QED BY <1>1, <1>2, <1>3, <1>4 DEF Menu

LEMMA SharesType ==
  ASSUME IInv, \A p \in Procs : ShareInv(p)
  PROVE  Shares \in [Procs -> Int]
<1>1. ASSUME NEW p \in Procs PROVE applied[p] * call[p].arg \in Int
  <2>1. applied[p] \in Nat /\ call[p].arg \in Int
    BY DEF IInv, TypeOK, ShareInv
  <2> QED BY <2>1
<1> QED BY <1>1 DEF Shares

\* What a step of a call does to the record and the shares.
LEMMA StepStores ==
  ASSUME IInv, NEW p \in Procs, Begin(p) \/ CallStep(p) \/ FaultStep(p) \/ Deliver(p)
  PROVE  \/ data' = data /\ applied' = applied
         \/ /\ Flying(p) /\ Accepts(p) /\ StoreData(p)
            /\ call' = call /\ ~Flying(p)'
         \/ /\ Condemning(p) /\ data.rev \in 1..loc[p].mark /\ data' = NoData
            /\ UNCHANGED <<seq, applied, call>>
<1> USE DEF storeVars
<1>1. CASE WriteData(p)
  <2>1. pc[p] = "data" /\ UNCHANGED <<call, late>> /\ pc'[p] # "data"
    BY <1>1, OwnTypes DEF WriteData, Acked, Goto, Unsent
  <2>2. "data" \notin late[p]
    BY <2>1, OwnTypes DEF ProcInv, PlaceInv
  <2> QED BY <1>1, <2>1, <2>2 DEF WriteData, Flying
<1>2. CASE RemoveData(p)
  BY <1>2 DEF RemoveData, PurgeThrough, Condemning
<1>3. CASE Deliver(p)
  <2>1. PICK r \in late[p] :
          /\ late' = [late EXCEPT ![p] = @ \ {r}]
          /\ \/ r = "data" /\ Accepts(p) /\ StoreData(p)
             \/ r = "purgeData" /\ PurgeThrough(p)
             \/ StoreIndex \/ PurgeIndex \/ UNCHANGED storeVars
    BY <1>3 DEF Deliver
  <2>2. UNCHANGED <<pc, call, loc>> /\ late'[p] = late[p] \ {r}
    BY <1>3, <2>1, OwnTypes DEF Deliver
  <2>3. CASE r = "data" /\ Accepts(p) /\ StoreData(p)
    <3>1. pc[p] # "data"
      BY <2>3, OwnTypes DEF ProcInv, PlaceInv
    <3> QED BY <2>2, <2>3, <3>1 DEF Flying
  <2>4. CASE r = "purgeData" /\ PurgeThrough(p)
    BY <2>2, <2>4 DEF PurgeThrough, Condemning
  <2> QED BY <2>1, <2>3, <2>4 DEF StoreIndex, PurgeIndex
<1> QED BY <1>1, <1>2, <1>3
        DEF Begin, CallStep, WriteStep, RemoveStep, FaultStep, Read, WriteIndex, Answer, RemoveIndex, Reread,
            Rewrite, Scan, Settle, RefuseData, LoseData, RefuseIndex, LoseIndex, RefuseRewrite, Fail, Crash,
            Abandon, StoreIndex, PurgeIndex

\* A call that takes a step keeps its arguments, or has stored nothing yet.
LEMMA StepShares ==
  ASSUME CountersOnly, IInv, NEW p \in Procs, ShareInv(p),
         Begin(p) \/ CallStep(p) \/ FaultStep(p) \/ Deliver(p)
  PROVE  ShareInv(p)' /\ (call' = call \/ (applied[p] = 0 /\ applied' = applied))
<1>1. CASE Begin(p)
  <2>1. PICK c \in Menu : call' = [call EXCEPT ![p] = c]
    BY <1>1 DEF Begin
  <2>2. call'[p] = c /\ applied' = applied /\ pc[p] = "idle"
    BY <1>1, <2>1, OwnTypes DEF Begin, storeVars
  <2>3. applied[p] = 0
    BY <2>2, OwnTypes DEF ProcInv, OnceInv
  <2> QED BY <2>2, <2>3, MenuShares DEF ShareInv
<1>2. CASE CallStep(p) \/ FaultStep(p) \/ Deliver(p)
  <2>1. call' = call
    BY <1>2 DEF CallStep, WriteStep, RemoveStep, FaultStep, Read, WriteData, WriteIndex, Answer, RemoveIndex,
                RemoveData, Reread, Rewrite, Scan, Settle, RefuseData, LoseData, RefuseIndex, LoseIndex,
                RefuseRewrite, Fail, Crash, Abandon, Deliver
  <2>2. pc[p] = "idle" => pc'[p] = "idle"
    BY <1>2 DEF CallStep, WriteStep, RemoveStep, FaultStep, Read, WriteData, WriteIndex, Answer, RemoveIndex,
                RemoveData, Reread, Rewrite, Scan, Settle, RefuseData, LoseData, RefuseIndex, LoseIndex,
                RefuseRewrite, Fail, Crash, Deliver, Steps
  <2>3. ShareInv(p)'
    BY <2>1, <2>2 DEF ShareInv
  <2> QED BY <2>1, <2>3
<1> QED BY <1>1, <1>2

\* What a call sends it has just worked out from the record.
LEMMA PublishAdds ==
  ASSUME IInv, Tally, NEW p \in Procs, ShareInv(p), NEW body, body.exp = 0,
         call[p].op = "incr" => body.val = Current + call[p].arg,
         NEW creates, Publish(p, data.rev, body, creates), UNCHANGED <<data, call>>
  PROVE  AddsOwn(p)'
<1>1. loc'[p].body = body /\ loc'[p].expect = data.rev
  BY OwnTypes DEF Publish
<1>2. data.rev = 0 => Current = 0
  BY DEF IInv, SlotInv, Current
<1>3. call[p].arg \in Int
  BY DEF ShareInv
<1>4. Current' = Current
  BY DEF Current
<1> QED BY <1>1, <1>2, <1>3, <1>4 DEF AddsOwn

LEMMA ReadAdds ==
  ASSUME CountersOnly, IInv, Tally, NEW p \in Procs, ShareInv(p), Read(p)
  PROVE  Flying(p)' => AddsOwn(p)'
<1>0. pc[p] = "read" /\ UNCHANGED <<data, call, late, now>> /\ call[p].op \in {"incr", "expire"}
  BY DEF Read, Unsent, storeVars, ShareInv
<1>1. "data" \notin late'[p] /\ call[p].ttl = 0
  BY <1>0, OwnTypes DEF ProcInv, PlaceInv, ShareInv
<1>2. Live <=> data.op = "Put"
  BY DEF Live, IsExpired, Tally
<1>3. ExpiresAt(call[p].ttl) = 0
  BY <1>1 DEF ExpiresAt
<1>4. CASE ReadForExpire(p) /\ call[p].op = "expire"
  <2> DEFINE body == PutBody(data.val, ExpiresAt(call[p].ttl))
  <2>1. CASE Goto(p, "no")
    BY <1>1, <2>1, OwnTypes DEF Goto, Flying
  <2>2. CASE Publish(p, data.rev, body, FALSE)
    <3>1. body.exp = 0
      BY <1>3 DEF PutBody
    <3> HIDE DEF body
    <3> QED BY <1>0, <1>4, <2>2, <3>1, PublishAdds
  <2> QED BY <1>4, <2>1, <2>2 DEF ReadForExpire
<1>5. CASE ReadForIncr(p) /\ call[p].op = "incr"
  <2>1. CASE Goto(p, "err") \/ Goto(p, "ok")
    BY <1>1, <2>1, OwnTypes DEF Goto, Flying
  <2> DEFINE exp == IF Live /\ call[p].ttl = 0 THEN data.exp ELSE ExpiresAt(call[p].ttl)
  <2>2. CASE Publish(p, data.rev, PutBody(Current + call[p].arg, exp), ~Live)
    <3>1. exp = 0
      BY <1>2, <1>3 DEF Tally
    <3>2. PutBody(Current + call[p].arg, exp).exp = 0
          /\ PutBody(Current + call[p].arg, exp).val = Current + call[p].arg
      BY <3>1 DEF PutBody
    <3> HIDE DEF exp
    <3> QED BY <1>0, <2>2, <3>2, PublishAdds
  <2>3. Current = IF Live THEN data.val ELSE 0
    BY <1>2 DEF Current
  <2> QED BY <1>5, <2>1, <2>2, <2>3 DEF ReadForIncr
<1> QED BY <1>0, <1>4, <1>5 DEF Read

LEMMA SettleAdds ==
  ASSUME IInv, Tally, NEW p \in Procs, ShareInv(p), Settle(p)
  PROVE  Flying(p)' => AddsOwn(p)'
<1>0. pc[p] = "settle" /\ UNCHANGED <<data, call, late, now>> /\ call[p].op = "sweep"
  BY OwnTypes DEF Settle, Unsent, storeVars, ProcInv, CallInv
<1>1. "data" \notin late'[p]
  BY <1>0, OwnTypes DEF ProcInv, PlaceInv
<1>2. CASE Goto(p, "ok") \/ Goto(p, "unindex")
  BY <1>1, <1>2, OwnTypes DEF Goto, Flying
<1>3. CASE data.op = "Put" /\ data.rev = loc[p].mark
           /\ Publish(p, loc[p].mark, PutBody(data.val, data.exp), FALSE)
  BY <1>0, <1>3, PublishAdds DEF PutBody, Tally
<1> QED BY <1>2, <1>3 DEF Settle

\* Every other step of a call sends what it had sent, or nothing.
LEMMA RestAdds ==
  ASSUME CountersOnly, IInv, NEW p \in Procs, ShareInv(p), data' = data,
         Begin(p) \/ CallStep(p) \/ FaultStep(p) \/ Deliver(p), ~Read(p), ~Settle(p)
  PROVE  Flying(p)' => /\ Flying(p) /\ call'[p] = call[p]
                       /\ loc'[p].body = loc[p].body /\ loc'[p].expect = loc[p].expect
<1> USE DEF Flying
<1>1. CASE Begin(p)
  <2>1. PICK c \in Menu : \/ c.op \in {"put", "claim"}
                          \/ Goto(p, "read") \/ Goto(p, "scan")
    BY <1>1 DEF Begin
  <2>2. pc'[p] # "data"
    BY <2>1, MenuShares, OwnTypes DEF Goto
  <2>3. late'[p] = {}
    BY <1>1, OwnTypes DEF Begin, Unsent, ProcInv, CallInv
  <2> QED BY <2>2, <2>3
<1>2. CASE WriteData(p) \/ RefuseData(p) \/ LoseData(p)
  BY <1>2, OwnTypes DEF WriteData, RefuseData, LoseData, Acked, Goto, Unsent, Loc
<1>3. CASE WriteIndex(p) \/ RefuseIndex(p) \/ LoseIndex(p)
  BY <1>3, OwnTypes DEF WriteIndex, RefuseIndex, LoseIndex, Indexed, Goto, Unsent, Loc
<1>4. CASE Answer(p)
  <2>1. pc'[p] # "data" /\ UNCHANGED <<late, call>>
    BY <1>4, OwnTypes DEF Answer, LostCas, Goto, Unsent
  <2>2. loc'[p].body = loc[p].body /\ loc'[p].expect = loc[p].expect
    BY <1>4, OwnTypes DEF Answer, LostCas, Loc
  <2> QED BY <2>1, <2>2
<1>5. CASE RemoveStep(p) \/ RefuseRewrite(p)
  BY <1>5, OwnTypes DEF RemoveStep, RemoveIndex, RemoveData, Reread, Rewrite, RefuseRewrite, Repaired, Goto, Unsent
<1>6. CASE Scan(p)
  BY <1>6, OwnTypes DEF Scan, Goto, Unsent, Loc
<1>7. CASE Fail(p) \/ Crash(p)
  BY <1>7, OwnTypes DEF Fail, Crash, Abandon, InFlight, Goto
<1>8. CASE Deliver(p)
  BY <1>8, OwnTypes DEF Deliver
<1> QED BY <1>1, <1>2, <1>3, <1>4, <1>5, <1>6, <1>7, <1>8 DEF CallStep, WriteStep, FaultStep

\* A change of one share is a change of the sum.
LEMMA SharesPoint ==
  ASSUME CountersOnly, IInv, IInv', \A q \in Procs : ShareInv(q) /\ ShareInv(q)', NEW p \in Procs,
         \A q \in Procs : q # p => call'[q] = call[q] /\ applied'[q] = applied[q]
  PROVE  /\ SumFunction(Shares) \in Int
         /\ SumFunction(Shares)' = SumFunction(Shares) + (Shares'[p] - Shares[p])
<1>1. Shares \in [Procs -> Int]
  BY SharesType
<1>2. Shares' \in [Procs -> Int]
  BY DEF IInv, TypeOK, ShareInv, Shares
<1>3. \A q \in Procs : q # p => Shares'[q] = Shares[q]
  BY DEF Shares
<1>4. IsFiniteSet(Procs)
  BY DEF CountersOnly
<1> HIDE DEF Shares
<1>5. SumFunction(Shares') = SumFunction(Shares)'
  OBVIOUS
<1> QED BY <1>1, <1>2, <1>3, <1>4, <1>5, SumPoint

\* A step of a call keeps the count the sum of what was stored.
LEMMA TallyStep ==
  ASSUME CountersOnly, IInv, IInv', Tally, \A q \in Procs : CountInv(q), NEW p \in Procs,
         Begin(p) \/ CallStep(p) \/ FaultStep(p) \/ Deliver(p)
  PROVE  Tally'
<1>1. \A q \in Procs : q # p => call'[q] = call[q] /\ applied'[q] = applied[q] /\ pc'[q] = pc[q]
  BY OthersKept DEF IInv
<1>2. \A q \in Procs : ShareInv(q) /\ ShareInv(q)'
  BY <1>1, StepShares DEF CountInv, ShareInv
<1>3. /\ SumFunction(Shares) \in Int
      /\ SumFunction(Shares)' = SumFunction(Shares) + (Shares'[p] - Shares[p])
  BY <1>1, <1>2, SharesPoint
<1>4. /\ Shares[p] = applied[p] * call[p].arg /\ Shares'[p] = applied'[p] * call'[p].arg
      /\ call[p].arg \in Int /\ call'[p].arg \in Int /\ applied[p] \in Nat /\ Shares[p] \in Int
  BY <1>2, SharesType DEF Shares, ShareInv, IInv, TypeOK
<1>5. CASE data' = data /\ applied' = applied
  <2>1. Shares'[p] = Shares[p]
    BY <1>2, <1>4, <1>5, StepShares
  <2> QED BY <1>3, <1>4, <1>5, <2>1 DEF Tally, Current
<1>6. CASE Flying(p) /\ Accepts(p) /\ StoreData(p) /\ call' = call
  <2>1. Fits(p) /\ applied'[p] = applied[p] + 1
    BY <1>6, StoreFits
  <2>2. applied[p] = 0
    BY <1>6, OwnTypes DEF Flying, ProcInv, OnceInv
  <2>3. Shares[p] = 0 /\ Shares'[p] = call[p].arg
    BY <1>4, <1>6, <2>1, <2>2
  <2>4. AddsOwn(p) /\ ShareInv(p) /\ call[p].op \in {"incr", "expire", "sweep"}
    <3>1. pc[p] # "idle"
      BY <1>6, OwnTypes DEF Flying, ProcInv, CallInv
    <3> QED BY <1>6, <3>1 DEF CountInv, ShareInv
  <2>5. data'.op = "Put" /\ data'.val = loc[p].body.val /\ data'.exp = 0
    BY <1>6, <2>1, <2>4 DEF StoreData, Fits, AddsOwn
  <2>6. loc[p].body.val = Current + call[p].arg
    <3>1. CASE call[p].op = "incr"
      <4>1. loc[p].expect = data.rev
        BY <1>6, <3>1, OwnTypes DEF Accepts, ProcInv, FlightInv, Harmless, Expects, Anything
      <4> QED BY <2>4, <3>1, <4>1 DEF AddsOwn
    <3>2. CASE call[p].op # "incr"
      <4>1. loc[p].body.val = Current /\ call[p].arg = 0
        BY <2>1, <2>4, <3>2 DEF Fits, Current, ShareInv
      <4> QED BY <4>1, <1>3 DEF Tally
    <3> QED BY <3>1, <3>2
  <2> QED BY <1>3, <1>4, <2>3, <2>5, <2>6 DEF Tally, Current
<1>7. CASE /\ Condemning(p) /\ data.rev \in 1..loc[p].mark /\ data' = NoData
           /\ UNCHANGED <<seq, applied, call>>
  <2>1. ~Live
    BY <1>7, OwnTypes DEF ProcInv, SweepInv, Doomed
  <2>2. data.op # "Put" /\ data'.op # "Put"
    BY <1>7, <2>1 DEF Live, IsExpired, Tally, NoData
  <2>3. Shares'[p] = Shares[p]
    BY <1>4, <1>7
  <2> QED BY <1>3, <1>4, <2>2, <2>3 DEF Tally, Current
<1> QED BY <1>5, <1>6, <1>7, StepStores

\* What is in flight stays right while others write: a stored record has a new
\* revision, and what is purged counted nothing.
LEMMA FlightKept ==
  ASSUME IInv, Tally, NEW q \in Procs, Flying(q), AddsOwn(q), ShareInv(q),
         call'[q] = call[q], loc'[q].body = loc[q].body, loc'[q].expect = loc[q].expect,
         \/ data' = data
         \/ data'.rev = seq + 1
         \/ data' = NoData
  PROVE  AddsOwn(q)'
<1>1. loc[q].expect <= seq /\ loc[q].expect \in Int /\ seq \in Nat /\ call[q].arg \in Int
  BY OwnTypes DEF ProcInv, FlightInv, Harmless, Expects, IInv, TypeOK, Loc, ShareInv
<1>2. CASE data' = data
  BY <1>2 DEF AddsOwn, Current
<1>3. CASE data'.rev = seq + 1
  <2>1. loc'[q].expect # data'.rev
    BY <1>1, <1>3
  <2> QED BY <2>1 DEF AddsOwn
<1>4. CASE data' = NoData
  <2>1. Current' = 0 /\ data'.rev = 0
    BY <1>4 DEF Current, NoData
  <2> QED BY <1>1, <2>1 DEF AddsOwn
<1> QED BY <1>2, <1>3, <1>4

\* A purge is all its step does to the call's own part.
LEMMA PurgeKeeps ==
  ASSUME IInv, NEW p \in Procs, data' = NoData, data' # data, ~Read(p), ~Settle(p),
         Begin(p) \/ CallStep(p) \/ FaultStep(p) \/ Deliver(p)
  PROVE  call'[p] = call[p] /\ loc'[p] = loc[p] /\ (Flying(p)' => Flying(p))
<1>1. CASE RemoveData(p) \/ Deliver(p)
  BY <1>1, OwnTypes DEF RemoveData, Deliver, Goto, Unsent, Flying
<1>2. CASE WriteData(p)
  <2>1. StoreData(p) /\ Accepts(p) /\ Flying(p)
    BY <1>2 DEF WriteData, storeVars, Flying
  <2>2. loc[p].body.op # "None"
    BY <2>1, StoreFits DEF Fits
  <2> QED BY <2>1, <2>2 DEF StoreData, NoData
<1> QED BY <1>1, <1>2
        DEF Begin, CallStep, WriteStep, RemoveStep, FaultStep, WriteIndex, Answer, RemoveIndex, Reread, Rewrite,
            Scan, RefuseData, LoseData, RefuseIndex, LoseIndex, RefuseRewrite, Fail, Crash, Abandon, StoreIndex,
            PurgeIndex, storeVars

LEMMA CountStep ==
  ASSUME CountersOnly, IInv, IInv', Tally, \A p \in Procs : CountInv(p), [Next]_vars
  PROVE  Tally' /\ \A p \in Procs : CountInv(p)'
<1>1. ASSUME NEW p \in Procs, Begin(p) \/ CallStep(p) \/ FaultStep(p) \/ Deliver(p)
      PROVE  Tally' /\ \A q \in Procs : CountInv(q)'
  <2>1. Tally'
    BY <1>1, TallyStep
  <2>2. \/ data' = data
        \/ data'.rev = seq + 1 /\ ~Flying(p)'
        \/ data' = NoData
    BY <1>1, StepStores DEF StoreData
  <2>3. ASSUME NEW q \in Procs, q # p PROVE CountInv(q)'
    <3>1. /\ pc'[q] = pc[q] /\ call'[q] = call[q] /\ loc'[q] = loc[q] /\ late'[q] = late[q]
      BY <1>1, <2>3, OthersKept DEF IInv
    <3>2. ShareInv(q)' /\ (Flying(q)' <=> Flying(q))
      BY <3>1 DEF CountInv, ShareInv, Flying
    <3> QED BY <2>2, <3>1, <3>2, FlightKept DEF CountInv
  <2>4. ShareInv(p)'
    BY <1>1, StepShares DEF CountInv
  <2>5. Flying(p)' => AddsOwn(p)'
    <3>1. CASE Read(p) \/ Settle(p)
      BY <3>1, ReadAdds, SettleAdds DEF CountInv
    <3>2. CASE data' = data /\ ~Read(p) /\ ~Settle(p)
      BY <1>1, <3>2, RestAdds, FlightKept DEF CountInv
    <3>3. CASE data' = NoData /\ data' # data /\ ~Read(p) /\ ~Settle(p)
      <4>1. /\ call'[p] = call[p] /\ loc'[p] = loc[p] /\ (Flying(p)' => Flying(p))
        BY <1>1, <3>3, PurgeKeeps
      <4> QED BY <3>3, <4>1, FlightKept DEF CountInv
    <3> QED BY <2>2, <3>1, <3>2, <3>3
  <2> QED BY <2>1, <2>3, <2>4, <2>5 DEF CountInv
<1>2. CASE Tick \/ UNCHANGED vars
  <2>1. UNCHANGED <<data, late, pc, call, loc, applied>>
    BY <1>2 DEF Tick, vars, storeVars
  <2> QED BY <2>1 DEF Tally, Current, Shares, CountInv, ShareInv, AddsOwn, Flying
<1> QED BY <1>1, <1>2 DEF Next

LEMMA CountStart == CountersOnly /\ Init => Tally /\ \A p \in Procs : CountInv(p)
<1> SUFFICES ASSUME CountersOnly, Init PROVE Tally /\ \A p \in Procs : CountInv(p)
  OBVIOUS
<1>1. Shares = [p \in Procs |-> 0]
  BY DEF Shares, Init, NoCall
<1>2. SumFunction(Shares) = 0
  BY <1>1, SumZero DEF CountersOnly
<1>3. data.op = "Put" => data.val = 0 /\ data.exp = 0
  BY DEF Init, CountersOnly
<1>4. \A p \in Procs : CountInv(p)
  BY DEF Init, CountInv, ShareInv, NoCall, Flying
<1> QED BY <1>2, <1>3, <1>4 DEF Tally, Current

\* Where nothing but increments sets the value, the count is exactly the sum of
\* the increments that were stored (update_counter): for any number of calls,
\* increments of either sign, lost acks and late writes, with TTL removals and
\* sweeps running beside them.
THEOREM CountsAlwaysAddUp == ASSUME CountersOnly PROVE Spec => []CountsAddUp
<1> DEFINE CInv == IInv /\ Tally /\ \A p \in Procs : CountInv(p)
<1>1. Init => CInv
  BY InvInit, CountStart
<1>2. CInv /\ [Next]_vars => CInv'
  BY InvStep, CountStep
<1>3. CInv => CountsAddUp
  BY DEF Tally, Current, CountsAddUp, Shares
<1> QED BY <1>1, <1>2, <1>3, PTL DEF Spec
=============================================================================
