------------------------------- MODULE KvStore ------------------------------
(***************************************************************************)
(* One key of the KV store (state/kv.rs): its data record, its index       *)
(* record, and any number of calls on it.  A call is one put,              *)
(* put_if_absent ("claim"), delete, expire or incr of some replica, or one *)
(* sweep as far as it concerns this key.                                   *)
(*                                                                         *)
(* JetStream is external.  A record has a revision of its stream, a write  *)
(* may name the revision it expects (0: no record), and a purge removes a  *)
(* record without a trace.  Reads, writes and purges take effect           *)
(* atomically and in any interleaving, except that the records a call      *)
(* publishes are stored in the order of publishing (PendingWrite).  A full *)
(* bucket refuses a write; a request whose answer the caller never sees    *)
(* goes to late, and the server may still apply it at any later time.      *)
(***************************************************************************)
EXTENDS Integers, FiniteSets, Functions

CONSTANTS
  Procs,         \* calls
  Ops,           \* the operations they may be
  Values,        \* what puts and claims store
  Deltas,        \* what increments add
  Ttls,          \* TTLs asked for, in seconds; 0 is none
  Blob,          \* a value that is no count
  MaxCount,      \* i64::MAX
  Rounds,        \* CAS_WRITE_ATTEMPTS, CAS_ATTEMPTS
  Grace,         \* marker_grace of the sweep, in seconds
  Firsts,        \* the records and index entries the key may start with
  MaxTime,       \* bound: the clock stops
  MaxFaults,     \* bound: failed and unanswered requests and crashes
  MaxRefusals    \* bound: writes refused by a full bucket

Kinds == {"put", "claim", "delete", "expire", "incr", "sweep"}
Value == Int \cup {Blob}

ASSUME CallsAssumption ==
  /\ Ops \subseteq Kinds
  /\ Blob \notin Int
  /\ Values \subseteq Value /\ Deltas \subseteq Int /\ Ttls \subseteq Nat
  /\ MaxCount \in Nat /\ Rounds \in Nat \ {0} /\ Grace \in Nat
  /\ MaxTime \in Nat /\ MaxFaults \in Nat /\ MaxRefusals \in Nat

VARIABLES
  now,       \* time in seconds; the program starts in second 1 of the epoch
  seq,       \* last revision of the stream given to a data record
  data,      \* the key's data record
  index,     \* the key has an index record
  late,      \* per call, requests it no longer waits for
  faults,    \* failed and unanswered requests and crashes so far
  refusals,  \* refused writes so far
  pc,        \* where each call stands, or its outcome
  call,      \* its operation and arguments
  loc,       \* its local variables
  applied,   \* history: how often its data write was stored
  wrote      \* history: the operation behind the last change of data

storeVars == <<seq, data, index, applied, wrote>>
vars == <<now, storeVars, late, faults, refusals, pc, call, loc>>

-----------------------------------------------------------------------------
(* Records.  exp is the expiry in the value's envelope; a record of an     *)
(* older build (legacy) does not repeat it in its header.                  *)

Body == [op : {"None", "Put", "Del"}, val : Value, exp : Nat]
Record == [rev : Nat, op : {"None", "Put", "Del"}, val : Value, exp : Nat,
           at : Nat, legacy : BOOLEAN]

ASSUME FirstAssumption ==
  /\ Firsts \subseteq [data : Record, index : BOOLEAN]
  /\ \A f \in Firsts : /\ f.data.rev \in {0, 1}
                       /\ f.data.rev = 0 <=> f.data.op = "None"

NoBody == [op |-> "None", val |-> 0, exp |-> 0]
Marker == [op |-> "Del", val |-> 0, exp |-> 0]
NoData == [rev |-> 0, op |-> "None", val |-> 0, exp |-> 0, at |-> 0, legacy |-> FALSE]
PutBody(v, exp) == [op |-> "Put", val |-> v, exp |-> exp]

Anything == -1

\* slot(): a marker and an expired value are Dead, and no record is Empty.
IsExpired(exp) == exp # 0 /\ exp <= now
Live == data.op = "Put" /\ ~IsExpired(data.exp)

\* A TTL below a second counts as one; 0 stands for None.
ExpiresAt(ttl) == IF ttl = 0 THEN 0 ELSE now + ttl

-----------------------------------------------------------------------------
(* Calls.                                                                  *)

Outcomes == {"ok", "no", "conflict", "err", "crashed"}
Steps == {"read", "data", "index", "answer", "unindex", "purgeData", "reread",
          "rewrite", "scan", "settle"}
Acks == {"none", "ok", "conflict", "failed"}
Requests == {"data", "index", "purgeIndex", "purgeData"}

Call == [op : Kinds, arg : Value, ttl : Nat]
Loc == [rounds : 0..Rounds, expect : Int, body : Body, creates : BOOLEAN,
        existed : BOOLEAN, ack : Acks, indexed : Acks, mark : Nat, asof : Nat]

Counts == (-MaxCount - 1)..MaxCount

NoCall == [op |-> "put", arg |-> 0, ttl |-> 0]
NoLoc == [rounds |-> 0, expect |-> 0, body |-> NoBody, creates |-> FALSE,
          existed |-> FALSE, ack |-> "none", indexed |-> "none", mark |-> 0, asof |-> 0]

Goto(p, step) == pc' = [pc EXCEPT ![p] = step]

\* The call goes on to its data write; creates: with the index record behind
\* it.  existed, what a delete reports, is whether the key was live just before.
Publish(p, expect, body, creates) ==
  /\ loc' = [loc EXCEPT ![p] =
               [rounds |-> loc[p].rounds, expect |-> expect, body |-> body,
                creates |-> creates, existed |-> Live, ack |-> "none",
                indexed |-> "none", mark |-> loc[p].mark, asof |-> loc[p].asof]]
  /\ Goto(p, "data")

Unsent == UNCHANGED <<late, faults, refusals>>

Menu ==
  [op : Ops \cap {"put", "claim"}, arg : Values, ttl : Ttls] \cup
  [op : Ops \cap {"incr"}, arg : Deltas, ttl : Ttls] \cup
  [op : Ops \cap {"expire"}, arg : {0}, ttl : Ttls] \cup
  [op : Ops \cap {"delete", "sweep"}, arg : {0}, ttl : {0}]

\* The expiry of a put or a claim is fixed when the call begins.
Begin(p) ==
  /\ pc[p] = "idle"
  /\ \E c \in Menu :
       /\ call' = [call EXCEPT ![p] = c]
       /\ \/ /\ c.op \in {"put", "claim"}
             /\ Publish(p, IF c.op = "put" THEN Anything ELSE 0,
                        PutBody(c.arg, ExpiresAt(c.ttl)), TRUE)
          \/ /\ c.op \in {"delete", "expire", "incr"}
             /\ Goto(p, "read") /\ UNCHANGED loc
          \/ /\ c.op = "sweep"
             /\ loc' = [loc EXCEPT ![p].asof = now]
             /\ Goto(p, "scan")
  /\ Unsent /\ UNCHANGED <<now, storeVars>>

-----------------------------------------------------------------------------
(* What a call reads of the key before it writes.                          *)

\* Faulty variant: the rounds are counted but never run out.
ReadForClaimUnbounded(p) ==
  \/ Live /\ Goto(p, "no") /\ UNCHANGED loc
  \/ ~Live /\ Publish(p, data.rev, loc[p].body, TRUE)
\* put_if_absent, after a lost claim: lost to a live value, or retried
\* over what is dead unless the rounds are used up.
ReadForClaim(p) ==
  \/ Live /\ Goto(p, "no") /\ UNCHANGED loc
  \/ ~Live /\ loc[p].rounds = Rounds /\ Goto(p, "conflict") /\ UNCHANGED loc
  \/ /\ ~Live /\ loc[p].rounds < Rounds
     /\ Publish(p, data.rev, loc[p].body, TRUE)

ReadForDelete(p) == Publish(p, Anything, Marker, FALSE)

ReadForExpire(p) ==
  \/ ~Live /\ Goto(p, "no") /\ UNCHANGED loc
  \/ Live /\ Publish(p, data.rev, PutBody(data.val, ExpiresAt(call[p].ttl)), FALSE)

\* update_counter: a live value that is no count and a sum out of range are
\* errors; a count the step leaves as it is needs no write.
ReadForIncr(p) ==
  LET current == IF Live THEN data.val ELSE 0
      next == current + call[p].arg
      exp == IF Live /\ call[p].ttl = 0 THEN data.exp ELSE ExpiresAt(call[p].ttl)
  IN \/ current = Blob /\ Goto(p, "err") /\ UNCHANGED loc
     \/ /\ current # Blob /\ next \notin Counts
        /\ Goto(p, "err") /\ UNCHANGED loc
     \/ /\ current # Blob /\ next \in Counts
        /\ next = current /\ Live /\ call[p].ttl = 0
        /\ Goto(p, "ok") /\ UNCHANGED loc
     \/ /\ current # Blob /\ next \in Counts
        /\ ~(next = current /\ Live /\ call[p].ttl = 0)
        /\ Publish(p, data.rev, PutBody(next, exp), ~Live)

Read(p) ==
  /\ pc[p] = "read"
  /\ \/ call[p].op = "claim" /\ ReadForClaim(p)
     \/ call[p].op = "delete" /\ ReadForDelete(p)
     \/ call[p].op = "expire" /\ ReadForExpire(p)
     \/ call[p].op = "incr" /\ ReadForIncr(p)
  /\ Unsent /\ UNCHANGED <<now, storeVars, call>>
-----------------------------------------------------------------------------
(* The bucket: what happens to a request, now or later.                    *)

\* Faulty variant: a CAS on a revision is published without its header.
AcceptsRevision(p) == loc[p].expect # 0 \/ data.rev = 0
Accepts(p) == loc[p].expect \in {Anything, data.rev}

StoreData(p) ==
  /\ seq' = seq + 1
  /\ data' = [rev |-> seq + 1, op |-> loc[p].body.op, val |-> loc[p].body.val,
              exp |-> loc[p].body.exp, at |-> now, legacy |-> FALSE]
  /\ applied' = [applied EXCEPT ![p] = @ + 1]
  /\ wrote' = call[p].op
  /\ UNCHANGED index

\* Create-only: beside an index record that is there nothing is stored.
StoreIndex == index' = TRUE /\ UNCHANGED <<seq, data, applied, wrote>>

PurgeIndex == index' = FALSE /\ UNCHANGED <<seq, data, applied, wrote>>

\* Faulty variant: the purge has a subject filter and no sequence.
PurgeThroughAll(p) ==
  data' = NoData /\ wrote' = "purge" /\ UNCHANGED <<seq, index, applied>>
\* Removes the record read at revision mark; a later one survives.
PurgeThrough(p) ==
  \/ /\ data.rev \in 1..loc[p].mark
     /\ data' = NoData /\ wrote' = "purge"
     /\ UNCHANGED <<seq, index, applied>>
  \/ data.rev \notin 1..loc[p].mark /\ UNCHANGED storeVars

\* What the call has sent and not heard of.
InFlight(p) ==
  CASE pc[p] = "data" -> {"data"} \cup (IF loc[p].creates THEN {"index"} ELSE {})
    [] pc[p] \in {"index", "rewrite"} -> {"index"}
    [] pc[p] = "unindex" -> {"purgeIndex"}
    [] pc[p] = "purgeData" -> {"purgeData"}
    [] OTHER -> {}

\* The server gets to a request nobody waits for, an index record never
\* before the data record published ahead of it; or the request is lost, or
\* refused.
Deliver(p) ==
  /\ \E r \in late[p] :
       /\ late' = [late EXCEPT ![p] = @ \ {r}]
       /\ \/ r = "data" /\ Accepts(p) /\ StoreData(p)
          \/ r = "index" /\ "data" \notin late[p] /\ StoreIndex
          \/ r = "purgeIndex" /\ PurgeIndex
          \/ r = "purgeData" /\ PurgeThrough(p)
          \/ UNCHANGED storeVars
  /\ UNCHANGED <<now, faults, refusals, pc, call, loc>>

-----------------------------------------------------------------------------
(* The data write and, behind it, the index record.                        *)

Fault == faults < MaxFaults /\ faults' = faults + 1 /\ UNCHANGED refusals
Refusal == refusals < MaxRefusals /\ refusals' = refusals + 1 /\ UNCHANGED faults

Acked(p, ack) ==
  /\ loc' = [loc EXCEPT ![p].ack = ack]
  /\ Goto(p, IF loc[p].creates THEN "index" ELSE "answer")

WriteData(p) ==
  /\ pc[p] = "data"
  /\ \/ Accepts(p) /\ StoreData(p) /\ Acked(p, "ok")
     \/ ~Accepts(p) /\ UNCHANGED storeVars /\ Acked(p, "conflict")
  /\ Unsent /\ UNCHANGED <<now, call>>

RefuseData(p) ==
  /\ pc[p] = "data" /\ Refusal /\ Acked(p, "failed")
  /\ UNCHANGED <<now, storeVars, late, call>>

LoseData(p) ==
  /\ pc[p] = "data" /\ Fault /\ Acked(p, "failed")
  /\ late' = [late EXCEPT ![p] = @ \cup {"data"}]
  /\ UNCHANGED <<now, storeVars, call>>

Indexed(p, ack) == loc' = [loc EXCEPT ![p].indexed = ack] /\ Goto(p, "answer")

WriteIndex(p) ==
  /\ pc[p] = "index" /\ "data" \notin late[p]
  /\ StoreIndex
  /\ Indexed(p, IF index THEN "conflict" ELSE "ok")
  /\ Unsent /\ UNCHANGED <<now, call>>

RefuseIndex(p) ==
  /\ pc[p] = "index" /\ Refusal /\ Indexed(p, "failed")
  /\ UNCHANGED <<now, storeVars, late, call>>

LoseIndex(p) ==
  /\ pc[p] = "index" /\ Fault /\ Indexed(p, "failed")
  /\ late' = [late EXCEPT ![p] = @ \cup {"index"}]
  /\ UNCHANGED <<now, storeVars, call>>

\* Faulty variant: the last round is not tried.
LostCasEarly(p) ==
  LET rounds == loc[p].rounds + 1
  IN /\ loc' = [loc EXCEPT ![p].rounds = rounds]
     /\ Goto(p, IF rounds < Rounds - 1 THEN "read" ELSE "conflict")
\* What each operation makes of a lost CAS; put and delete expect Anything.
LostCas(p) ==
  LET rounds == loc[p].rounds + 1
  IN \/ /\ call[p].op = "claim"
        /\ loc' = [loc EXCEPT ![p].rounds = rounds] /\ Goto(p, "read")
     \/ /\ call[p].op \in {"expire", "incr"}
        /\ loc' = [loc EXCEPT ![p].rounds = rounds]
        /\ Goto(p, IF rounds < Rounds THEN "read" ELSE "conflict")
     \/ call[p].op = "sweep" /\ Goto(p, "ok") /\ UNCHANGED loc

\* Faulty variant: an unanswered write is tried again like a lost CAS.
AnswerRetries(p) ==
  /\ pc[p] = "answer"
  /\ \/ loc[p].ack = "ok" /\ UNCHANGED loc /\ Goto(p, "ok")
     \/ loc[p].ack # "ok" /\ LostCas(p)
  /\ Unsent /\ UNCHANGED <<now, storeVars, call>>
\* Faulty variant: the outcome of the index record is not looked at.
AnswerIgnoresIndex(p) ==
  /\ pc[p] = "answer"
  /\ \/ loc[p].ack = "ok" /\ UNCHANGED loc /\ Goto(p, "ok")
     \/ loc[p].ack = "conflict" /\ LostCas(p)
     \/ loc[p].ack = "failed" /\ UNCHANGED loc /\ Goto(p, "err")
  /\ Unsent /\ UNCHANGED <<now, storeVars, call>>
\* Faulty variant: the ack of the index record is awaited without a timeout.
AnswerWaits(p) ==
  /\ pc[p] = "answer" /\ loc[p].indexed # "failed"
  /\ \/ loc[p].ack = "ok" /\ UNCHANGED loc /\ Goto(p, "ok")
     \/ loc[p].ack = "conflict" /\ LostCas(p)
     \/ loc[p].ack = "failed" /\ UNCHANGED loc /\ Goto(p, "err")
  /\ Unsent /\ UNCHANGED <<now, storeVars, call>>
\* Both acks are in.  A refused data record must not leave its index record.
Answer(p) ==
  /\ pc[p] = "answer"
  /\ \/ /\ loc[p].ack = "ok" /\ UNCHANGED loc
        /\ Goto(p, CASE call[p].op = "sweep" -> "rewrite"
                     [] call[p].op = "delete" -> IF loc[p].existed THEN "ok" ELSE "no"
                     [] OTHER -> IF loc[p].indexed = "failed" THEN "err" ELSE "ok")
     \/ loc[p].ack = "conflict" /\ LostCas(p)
     \/ /\ loc[p].ack = "failed" /\ UNCHANGED loc
        /\ Goto(p, IF loc[p].indexed = "ok" THEN "unindex" ELSE "err")
  /\ Unsent /\ UNCHANGED <<now, storeVars, call>>

-----------------------------------------------------------------------------
(* Removal: unindex after a refused write, remove_dead of the sweep.       *)

\* What the call returns once the key is indexed again or is found dead.
Repaired(p) == Goto(p, IF call[p].op = "sweep" THEN "ok" ELSE "err")

RemoveIndex(p) ==
  /\ pc[p] = "unindex" /\ PurgeIndex
  /\ Goto(p, IF call[p].op = "sweep" THEN "purgeData" ELSE "reread")
  /\ Unsent /\ UNCHANGED <<now, call, loc>>

\* Faulty variant: no new read after the removals.
RemoveDataOnly(p) ==
  /\ pc[p] = "purgeData" /\ PurgeThrough(p) /\ Goto(p, "ok")
  /\ Unsent /\ UNCHANGED <<now, call, loc>>
RemoveData(p) ==
  /\ pc[p] = "purgeData" /\ PurgeThrough(p) /\ Goto(p, "reread")
  /\ Unsent /\ UNCHANGED <<now, call, loc>>

Reread(p) ==
  /\ pc[p] = "reread"
  /\ \/ Live /\ Goto(p, "rewrite")
     \/ ~Live /\ Repaired(p)
  /\ Unsent /\ UNCHANGED <<now, storeVars, call, loc>>

Rewrite(p) ==
  /\ pc[p] = "rewrite" /\ "data" \notin late[p]
  /\ StoreIndex /\ Repaired(p)
  /\ Unsent /\ UNCHANGED <<now, call, loc>>

RefuseRewrite(p) ==
  /\ pc[p] = "rewrite" /\ Refusal /\ Goto(p, "err")
  /\ UNCHANGED <<now, storeVars, late, call, loc>>
-----------------------------------------------------------------------------
(* The sweep: one record is judged by the time the sweep started.          *)

Dead(p) ==
  \/ data.op = "Put" /\ ~data.legacy /\ data.exp # 0 /\ data.exp <= loc[p].asof
  \/ data.op = "Del" /\ loc[p].asof >= data.at /\ loc[p].asof - data.at >= Grace

Unheaded == data.op = "Put" /\ data.legacy

Scan(p) ==
  /\ pc[p] = "scan"
  /\ loc' = [loc EXCEPT ![p].mark = data.rev]
  /\ \/ Dead(p) /\ Goto(p, "unindex")
     \/ Unheaded /\ Goto(p, "settle")
     \/ ~Dead(p) /\ ~Unheaded /\ Goto(p, "ok")
  /\ Unsent /\ UNCHANGED <<now, storeVars, call>>

\* Faulty variant: the rewrite is no CAS.
SettleBlind(p) ==
  /\ pc[p] = "settle"
  /\ LET same == data.rev = loc[p].mark /\ data.op = "Put"
     IN \/ ~same /\ Goto(p, "ok") /\ UNCHANGED loc
        \/ same /\ Publish(p, Anything, PutBody(data.val, data.exp), FALSE)
  /\ Unsent /\ UNCHANGED <<now, storeVars, call>>
\* settle_legacy: the record of an older build is removed when expired and
\* otherwise written again with its header, by a CAS.
Settle(p) ==
  /\ pc[p] = "settle"
  /\ LET same == data.rev = loc[p].mark /\ data.op = "Put"
     IN \/ ~same /\ Goto(p, "ok") /\ UNCHANGED loc
        \/ same /\ ~Live /\ Goto(p, "unindex") /\ UNCHANGED loc
        \/ same /\ Live /\ Publish(p, loc[p].mark, PutBody(data.val, data.exp), FALSE)
  /\ Unsent /\ UNCHANGED <<now, storeVars, call>>

-----------------------------------------------------------------------------
(* Failures and time.                                                      *)

\* The call ends without an answer to what it sent, or unable to send it.
\* Records are sent in order: the index record only behind the data record.
Abandon(p, outcome) ==
  /\ Fault
  /\ \E sent \in SUBSET InFlight(p) :
       /\ ("index" \in sent /\ pc[p] = "data") => "data" \in sent
       /\ late' = [late EXCEPT ![p] = @ \cup sent]
  /\ Goto(p, outcome)
  /\ UNCHANGED <<now, storeVars, call, loc>>

Fail(p) == pc[p] \in Steps \ {"answer"} /\ Abandon(p, "err")

Crash(p) == pc[p] \in Steps /\ Abandon(p, "crashed")

Tick == now < MaxTime /\ now' = now + 1 /\ UNCHANGED <<storeVars, late, faults, refusals, pc, call, loc>>

-----------------------------------------------------------------------------
Init ==
  /\ now = 1
  /\ \E f \in Firsts : data = f.data /\ index = f.index /\ seq = f.data.rev
  /\ late = [p \in Procs |-> {}] /\ faults = 0 /\ refusals = 0
  /\ pc = [p \in Procs |-> "idle"]
  /\ call = [p \in Procs |-> NoCall] /\ loc = [p \in Procs |-> NoLoc]
  /\ applied = [p \in Procs |-> 0] /\ wrote = "none"

\* The steps of a call that has begun.
WriteStep(p) == WriteData(p) \/ WriteIndex(p) \/ Answer(p)
RemoveStep(p) == RemoveIndex(p) \/ RemoveData(p) \/ Reread(p) \/ Rewrite(p)
CallStep(p) == Read(p) \/ WriteStep(p) \/ RemoveStep(p) \/ Scan(p) \/ Settle(p)
FaultStep(p) ==
  \/ RefuseData(p) \/ LoseData(p) \/ RefuseIndex(p) \/ LoseIndex(p) \/ RefuseRewrite(p)
  \/ Fail(p) \/ Crash(p)

Next ==
  \/ \E p \in Procs : Begin(p) \/ CallStep(p) \/ FaultStep(p) \/ Deliver(p)
  \/ Tick

Spec == Init /\ [][Next]_vars

\* A ready task is run, and a request is not under way forever: the server
\* gets to it or it is lost.
FairSpec == Spec /\ \A p \in Procs : WF_vars(CallStep(p)) /\ WF_vars(Deliver(p))

-----------------------------------------------------------------------------
(* Properties.                                                             *)

\* Every variable has its type; in particular no call exceeds its CAS rounds.
TypeOK ==
  /\ now \in Nat /\ seq \in Nat /\ data \in Record /\ index \in BOOLEAN
  /\ late \in [Procs -> SUBSET Requests]
  /\ faults \in 0..MaxFaults /\ refusals \in 0..MaxRefusals
  /\ pc \in [Procs -> {"idle"} \cup Steps \cup Outcomes]
  /\ call \in [Procs -> Call] /\ loc \in [Procs -> Loc]
  /\ applied \in [Procs -> Nat]
  /\ wrote \in Kinds \cup {"none", "purge"}

Cell == INSTANCE KvCell WITH cell <- data

\* The protocol of reads, compare-and-swap writes and purges implements the
\* contract of a key: claims take only a key without a live value, counts add
\* to what is there, a TTL change keeps the value, the sweep removes only what
\* is dead, also when writes are applied after their caller gave up.
KeepsContract == Cell!Spec

\* What a call may have stored, by where it stands.
StoredAsReported(p) ==
  /\ applied[p] <= 1
  /\ pc[p] = "ok" /\ applied[p] = 0 =>
       call[p].op = "sweep" \/ (call[p].op = "incr" /\ call[p].arg = 0)
  /\ pc[p] = "no" => (applied[p] = 1 <=> call[p].op = "delete")
  /\ pc[p] = "conflict" => applied[p] = 0

\* A call stores its value at most once however often it retries; it stores it
\* when it reports success and does not when it reports a lost race or an
\* absent key.  Only an increment by nothing succeeds without a write, and a
\* delete leaves its marker whether or not the key was there.
AppliedOnce == \A p \in Procs : StoredAsReported(p)

Quiet == \A p \in Procs : pc[p] \in {"idle"} \cup Outcomes

\* When no call is under way, a live key without an index record is one whose
\* loss was reported: some call failed for want of an answer or of room.  The
\* create-only index record, the order of remove_dead and the new read after
\* it leave no gap by interleaving alone.
GapsReported ==
  Quiet /\ Live /\ ~index =>
    faults + refusals > 0 /\ \E p \in Procs : pc[p] \in {"err", "crashed"}

\* Each round of a storm has a winner: with as many rounds as there are
\* contenders no call gives up (update_counter's "N-way storms need up to N
\* rounds").
StormSurvived == \A p \in Procs : pc[p] # "conflict"

\* Where nothing but increments sets the value, the count is the sum of the
\* increments that were stored: none is lost or stored twice over another,
\* also when its caller was told nothing.
CountsAddUp ==
  data.op = "Put" => data.val = SumFunction([p \in Procs |-> applied[p] * call[p].arg])

\* Every call ends, with an outcome of its own: the retries are bounded and
\* no step waits for another call.
EveryCallAnswers == \A p \in Procs : pc[p] \in Steps ~> pc[p] \in Outcomes

\* The documentation of NatsKv: "Every live key also has an index record",
\* taken at rest.
LiveKeysIndexed == Quiet /\ Live => index
=============================================================================
