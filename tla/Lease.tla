------------------------------- MODULE Lease -------------------------------
(***************************************************************************)
(* The lease primitive (lease.rs): one lease key, its record in the leases *)
(* bucket, its fencing counter in the fencing bucket, and any number of    *)
(* sessions.  A session is one acquire call together with the handle it    *)
(* returns: the host's renew and release calls on that handle and the      *)
(* background renewal task.                                                *)
(*                                                                         *)
(* JetStream is external.  A key's last record carries a revision that     *)
(* grows with every write, and a write names the revision it expects       *)
(* (0: no record).  A read or a write takes effect atomically; the time    *)
(* between two of them is where the processes interleave.  A write whose   *)
(* answer the caller never sees (timeout, lost connection, aborted task,   *)
(* crash) is kept in late or lateFence: the server may still apply it at   *)
(* any later time, under the same revision check, or never.                *)
(***************************************************************************)
EXTENDS Integers, FiniteSets

CONSTANTS
  Sessions,      \* acquire calls
  Nodes,         \* node ids
  NoNode,        \* no node id
  NodeOf,        \* the node a session runs on
  Waiters,       \* sessions that block (acquire_*); the others try_acquire_*
  LegacyHolder,  \* the key may start with an older version's undated record of
                 \* this holder, unless it is NoNode
  TTL,           \* lease TTL, in ticks
  Pct,           \* lease.renew_before_expiry_percent
  Sec,           \* ticks per second
  MinSleep,      \* floor of the renewal sleep (50 ms)
  RetrySleep,    \* ACQUIRE_LEADERSHIP_RETRY_MS
  WaitFactor,    \* 10 in the code: max_wait * 10
  Rounds,        \* 16 in the code: CAS attempts of bump_fencing_token
  Skew,          \* a node's clock ahead of the slowest one, in ticks
  NewServer,     \* the server is 2.14 or later: lost CAS answered with 10164
  Prompt,        \* time waits for every step that is due (timing runs)
  StartBy,       \* bound: no acquire begins later
  MaxTime,       \* bound: the clock stops
  MaxCalls,      \* bound: host calls per handle
  MaxFaults      \* bound: lost answers and crashes

ASSUME SessionsAssumption ==
  /\ NodeOf \in [Sessions -> Nodes]
  /\ Waiters \subseteq Sessions
  /\ NoNode \notin Nodes
  /\ LegacyHolder \in Nodes \cup {NoNode}

ASSUME TimeAssumption ==
  /\ TTL \in Nat \ {0} /\ Sec \in Nat \ {0} /\ Pct \in 1..99
  /\ MinSleep \in Nat \ {0} /\ RetrySleep \in Nat \ {0} /\ WaitFactor \in Nat
  /\ Rounds \in Nat \ {0}
  /\ Skew \in [Nodes -> Nat]
  /\ StartBy \in Nat /\ MaxTime \in Nat /\ MaxCalls \in Nat /\ MaxFaults \in Nat
  /\ NewServer \in BOOLEAN /\ Prompt \in BOOLEAN

VARIABLES
  now,        \* time in ticks; the program starts in second 1 of the epoch
  lease,      \* last record of the key in the leases bucket
  fence,      \* last record of fencing.<key> in the fencing bucket
  late,       \* lease writes whose caller no longer listens
  lateFence,  \* fencing writes whose caller no longer listens
  faults,     \* lost answers and crashes so far
  pc,         \* where each acquire call stands
  loc,        \* its local variables
  mine,       \* the record it writes (LeaseInner afterwards)
  task,       \* the renewal task ("auto") and the host's call ("host")
  shown,      \* LeaseInner.expires_at, as the handle shows it
  released,   \* outcome of the host's last release call
  calls,      \* host calls made on the handle
  used        \* history: tokens some lease record ever carried

acquireVars == <<pc, loc, mine>>
handleVars == <<task, shown, released, calls>>
vars == <<now, lease, fence, late, lateFence, faults, acquireVars, handleVars, used>>

-----------------------------------------------------------------------------
(* Records.                                                                *)

Workers == {"auto", "host"}

Body == [op : {"None", "Put", "Del"}, node : Nodes \cup {NoNode},
         token : Nat, exp : Nat, shown : Nat]

NoBody == [op |-> "None", node |-> NoNode, token |-> 0, exp |-> 0, shown |-> 0]
Marker == [op |-> "Del", node |-> NoNode, token |-> 0, exp |-> 0, shown |-> 0]
Undated == [op |-> "Put", node |-> LegacyHolder, token |-> 1, exp |-> 0, shown |-> 0]

LeaseWrite == [expect : Nat, body : Body]
FenceWrite == [expect : Nat, val : Nat]

\* The local variables of an acquire call, and the state of a worker: where it
\* stands, the revision it read, the record it is about to write, when it wakes.
Loc == [rounds : 0..Rounds, started : Nat, wake : Nat, rev : Nat, next : Nat]
TaskPc == {"off", "sleep", "ended", "read", "cas", "reread", "relRead", "relCas"}
Task == [pc : TaskPc, rev : Nat, body : Body, wake : Nat]

NoLoc == [rounds |-> 0, started |-> 0, wake |-> 0, rev |-> 0, next |-> 0]

\* A worker at step p with nothing read, or asleep until t.
At(p) == [pc |-> p, rev |-> 0, body |-> NoBody, wake |-> 0]
Asleep(t) == [pc |-> "sleep", rev |-> 0, body |-> NoBody, wake |-> t]

-----------------------------------------------------------------------------
(* Clocks and expiry.                                                      *)

Secs(n) == (now + Skew[n]) \div Sec

ExpiryFor(n) == Secs(n) + TTL \div Sec
ShownFor(n) == (now + Skew[n] + TTL) \div Sec

Expired(body, n) == body.exp # 0 /\ body.exp <= Secs(n)

Larger(a, b) == IF a > b THEN a ELSE b

\* Faulty variant: renew_before_expiry_percent is ignored.
SleepWholeTTL == Larger(TTL, MinSleep)
SleepFor == Larger((TTL * (100 - Pct)) \div 100, MinSleep)
GiveUp == WaitFactor * Larger(3 * TTL, Sec)

\* The record an attempt of session s would write now under token k.
Record(s, k) ==
  [op |-> "Put", node |-> NodeOf[s], token |-> k,
   exp |-> ExpiryFor(NodeOf[s]), shown |-> ShownFor(NodeOf[s])]

Stamped(body, s) ==
  [op |-> body.op, node |-> body.node, token |-> body.token,
   exp |-> ExpiryFor(NodeOf[s]), shown |-> ShownFor(NodeOf[s])]

-----------------------------------------------------------------------------
(* The leases and fencing buckets.                                         *)

WriteLease(body) ==
  /\ lease' = [rev |-> lease.rev + 1, body |-> body]
  /\ used' = IF body.op = "Put" THEN used \cup {body.token} ELSE used

AcquireWrite(s) ==
  IF pc[s] \in {"create", "reclaimCas"}
  THEN {[expect |-> loc[s].rev, body |-> mine[s]]} ELSE {}

BumpWrite(s) ==
  IF pc[s] = "bumpCas" THEN {[expect |-> loc[s].rev, val |-> loc[s].next]} ELSE {}

TaskWrite(s, w) ==
  IF task[s][w].pc \in {"cas", "relCas"}
  THEN {[expect |-> task[s][w].rev, body |-> task[s][w].body]} ELSE {}

Fault == faults < MaxFaults /\ faults' = faults + 1

\* The server gets to an abandoned write: applied if the revision still
\* matches, refused otherwise.
DeliverLease ==
  /\ \E w \in late :
       /\ late' = late \ {w}
       /\ IF lease.rev = w.expect THEN WriteLease(w.body) ELSE UNCHANGED <<lease, used>>
  /\ UNCHANGED <<now, fence, lateFence, faults, acquireVars, handleVars>>

DeliverFence ==
  /\ \E w \in lateFence :
       /\ lateFence' = lateFence \ {w}
       /\ fence' = IF fence.rev = w.expect
                   THEN [rev |-> fence.rev + 1, val |-> w.val] ELSE fence
  /\ UNCHANGED <<now, lease, late, faults, acquireVars, handleVars, used>>

-----------------------------------------------------------------------------
(* Acquire: acquire_async and try_acquire_async.                           *)

Working == {"bumpRead", "bumpCas", "create", "reclaimRead", "reclaimCas"}
Acquiring == Working \cup {"sleep"}
Returned == {"handle", "none", "timeout", "err", "crashed", "dropped"}

\* The call's local variables, with the time it began kept.
Local(s, rounds, wake, rev, next) ==
  [loc EXCEPT ![s] = [rounds |-> rounds, started |-> loc[s].started,
                      wake |-> wake, rev |-> rev, next |-> next]]

Return(s, result) ==
  /\ pc' = [pc EXCEPT ![s] = result]
  /\ loc' = [loc EXCEPT ![s] = NoLoc]

Begin(s) ==
  /\ pc[s] = "idle" /\ now <= StartBy
  /\ pc' = [pc EXCEPT ![s] = "bumpRead"]
  /\ loc' = [loc EXCEPT ![s] = [NoLoc EXCEPT !.started = now]]
  /\ UNCHANGED <<now, lease, fence, late, lateFence, faults, mine, handleVars, used>>

BumpRead(s) ==
  /\ pc[s] = "bumpRead"
  /\ pc' = [pc EXCEPT ![s] = "bumpCas"]
  /\ loc' = Local(s, loc[s].rounds, 0, fence.rev, fence.val + 1)
  /\ UNCHANGED <<now, lease, fence, late, lateFence, faults, mine, handleVars, used>>

\* The token is minted, then the record is built: both before the create.
Minted(s) ==
  /\ fence' = [rev |-> fence.rev + 1, val |-> loc[s].next]
  /\ mine' = [mine EXCEPT ![s] = Record(s, loc[s].next)]
  /\ loc' = Local(s, 0, 0, 0, 0)
  /\ pc' = [pc EXCEPT ![s] = "create"]

\* Faulty variant: the rounds are counted but never run out.
BumpLostUnbounded(s) ==
  /\ UNCHANGED <<fence, mine>>
  /\ pc' = [pc EXCEPT ![s] = "bumpRead"]
  /\ loc' = Local(s, loc[s].rounds + 1, 0, 0, 0)

BumpLost(s) ==
  /\ UNCHANGED <<fence, mine>>
  /\ IF loc[s].rounds + 1 < Rounds
     THEN /\ pc' = [pc EXCEPT ![s] = "bumpRead"]
          /\ loc' = Local(s, loc[s].rounds + 1, 0, 0, 0)
     ELSE Return(s, "err")

\* Faulty variant: the counter is written without its revision.
BumpCasUnchecked(s) ==
  /\ pc[s] = "bumpCas"
  /\ Minted(s)
  /\ UNCHANGED <<now, lease, late, lateFence, faults, handleVars, used>>

BumpCas(s) ==
  /\ pc[s] = "bumpCas"
  /\ IF fence.rev = loc[s].rev THEN Minted(s) ELSE BumpLost(s)
  /\ UNCHANGED <<now, lease, late, lateFence, faults, handleVars, used>>

\* spawn_lease_handle: the handle shows the record's expiry and the renewal
\* task starts with its sleep.
Acquired(s) ==
  /\ Return(s, "handle")
  /\ shown' = [shown EXCEPT ![s] = mine[s].shown]
  /\ task' = [task EXCEPT ![s]["auto"] =
                Asleep(now + SleepFor)]
  /\ UNCHANGED <<mine, released, calls>>

\* Faulty variant: the wait has no limit.
HeldForever(s) ==
  /\ UNCHANGED <<lease, used, mine, handleVars>>
  /\ IF s \notin Waiters
     THEN Return(s, "none")
     ELSE /\ pc' = [pc EXCEPT ![s] = "sleep"]
          /\ loc' = Local(s, 0, now + RetrySleep, 0, 0)

Held(s) ==
  /\ UNCHANGED <<lease, used, mine, handleVars>>
  /\ IF s \notin Waiters THEN Return(s, "none")
     ELSE IF now - loc[s].started > GiveUp THEN Return(s, "timeout")
     ELSE /\ pc' = [pc EXCEPT ![s] = "sleep"]
          /\ loc' = Local(s, 0, now + RetrySleep, 0, 0)

Create(s) ==
  /\ pc[s] = "create"
  /\ IF lease.rev = 0
     THEN WriteLease(mine[s]) /\ Acquired(s)
     ELSE /\ pc' = [pc EXCEPT ![s] = "reclaimRead"]
          /\ UNCHANGED <<lease, used, loc, mine, handleVars>>
  /\ UNCHANGED <<now, fence, late, lateFence, faults>>

\* Faulty variant: only a released lease is taken over.
ReclaimableReleased(body, n) == body.op = "Del"

Reclaimable(body, n) ==
  body.op = "Del" \/ (body.op = "Put" /\ Expired(body, n))

ReclaimRead(s) ==
  /\ pc[s] = "reclaimRead"
  /\ IF Reclaimable(lease.body, NodeOf[s])
     THEN /\ pc' = [pc EXCEPT ![s] = "reclaimCas"]
          /\ loc' = Local(s, 0, 0, lease.rev, 0)
          /\ UNCHANGED <<lease, used, mine, handleVars>>
     ELSE Held(s)
  /\ UNCHANGED <<now, fence, late, lateFence, faults>>

ReclaimCas(s) ==
  /\ pc[s] = "reclaimCas"
  /\ IF lease.rev = loc[s].rev
     THEN WriteLease(mine[s]) /\ Acquired(s)
     ELSE Held(s)
  /\ UNCHANGED <<now, fence, late, lateFence, faults>>

Retry(s) ==
  /\ pc[s] = "sleep" /\ now >= loc[s].wake
  /\ pc' = [pc EXCEPT ![s] = "bumpRead"]
  /\ loc' = Local(s, 0, 0, 0, 0)
  /\ UNCHANGED <<now, lease, fence, late, lateFence, faults, mine, handleVars, used>>

\* A store call fails or goes unanswered.  Only the reclaim's CAS reports any
\* error as Held; every other failure ends the call with an error.
AcquireFail(s) ==
  /\ pc[s] \in Working
  /\ Fault
  /\ late' = late \cup AcquireWrite(s)
  /\ lateFence' = lateFence \cup BumpWrite(s)
  /\ IF pc[s] = "reclaimCas"
     THEN Held(s)
     ELSE Return(s, "err") /\ UNCHANGED <<lease, used, mine, handleVars>>
  /\ UNCHANGED <<now, fence>>

-----------------------------------------------------------------------------
(* The handle: renew_inner by the renewal task or by the host, release.    *)

\* Faulty variant: the fencing token is not compared.
OwnsByNode(s) == lease.body.op = "Put" /\ lease.body.node = NodeOf[s]
Owns(s) ==
  /\ lease.body.op = "Put"
  /\ lease.body.node = NodeOf[s] /\ lease.body.token = mine[s].token

\* What a worker does after renew_inner: the renewal task sleeps again, or
\* ends on LeaseExpired; the host's call returns.
After(w, expired) ==
  IF w = "host" THEN At("off")
  ELSE IF expired THEN At("ended")
  ELSE Asleep(now + SleepFor)

Wake(s) ==
  /\ task[s]["auto"].pc = "sleep" /\ now >= task[s]["auto"].wake
  /\ task' = [task EXCEPT ![s]["auto"] = At("read")]
  /\ UNCHANGED <<now, lease, fence, late, lateFence, faults, acquireVars,
                 shown, released, calls, used>>

HostCall(s, first, outcome) ==
  /\ pc[s] = "handle" /\ task[s]["host"].pc = "off" /\ calls[s] < MaxCalls
  /\ task' = [task EXCEPT ![s]["host"] = At(first)]
  /\ calls' = [calls EXCEPT ![s] = @ + 1]
  /\ released' = [released EXCEPT ![s] = outcome]
  /\ UNCHANGED <<now, lease, fence, late, lateFence, faults, acquireVars, shown, used>>

HostRenew(s) == HostCall(s, "read", released[s])
HostRelease(s) == HostCall(s, "relRead", "pending")

RenewRead(s, w) ==
  /\ task[s][w].pc = "read"
  /\ task' = [task EXCEPT ![s][w] =
       IF Owns(s)
       THEN [pc |-> "cas", rev |-> lease.rev, body |-> Stamped(lease.body, s), wake |-> 0]
       ELSE After(w, TRUE)]
  /\ UNCHANGED <<now, lease, fence, late, lateFence, faults, acquireVars,
                 shown, released, calls, used>>

RenewCas(s, w) ==
  /\ task[s][w].pc = "cas"
  /\ IF lease.rev = task[s][w].rev
     THEN /\ WriteLease(task[s][w].body)
          /\ shown' = [shown EXCEPT ![s] = task[s][w].body.shown]
          /\ task' = [task EXCEPT ![s][w] = After(w, FALSE)]
     ELSE /\ task' = [task EXCEPT ![s][w] = At("reread")]
          /\ UNCHANGED <<lease, used, shown>>
  /\ UNCHANGED <<now, fence, late, lateFence, faults, acquireVars, released, calls>>

\* Faulty variant: the handle keeps a stamp of its own after a lost CAS.
RenewRereadOwnStamp(s, w) ==
  /\ task[s][w].pc = "reread"
  /\ task' = [task EXCEPT ![s][w] = After(w, ~Owns(s))]
  /\ shown' = IF Owns(s) THEN [shown EXCEPT ![s] = ShownFor(NodeOf[s])] ELSE shown
  /\ UNCHANGED <<now, lease, fence, late, lateFence, faults, acquireVars,
                 released, calls, used>>

\* A lost CAS: the handle takes over the expiry the other renewal stored.
RenewReread(s, w) ==
  /\ task[s][w].pc = "reread"
  /\ task' = [task EXCEPT ![s][w] = After(w, ~Owns(s))]
  /\ shown' = IF Owns(s) THEN [shown EXCEPT ![s] = lease.body.shown] ELSE shown
  /\ UNCHANGED <<now, lease, fence, late, lateFence, faults, acquireVars,
                 released, calls, used>>

ReleaseReturn(s, result) ==
  /\ released' = [released EXCEPT ![s] = result]
  /\ task' = [task EXCEPT ![s]["host"] = At("off")]

ReleaseRead(s) ==
  /\ task[s]["host"].pc = "relRead"
  /\ IF Owns(s)
     THEN /\ task' = [task EXCEPT ![s]["host"] =
                        [pc |-> "relCas", rev |-> lease.rev, body |-> Marker, wake |-> 0]]
          /\ UNCHANGED released
     ELSE ReleaseReturn(s, "ok")
  /\ UNCHANGED <<now, lease, fence, late, lateFence, faults, acquireVars,
                 shown, calls, used>>

\* Only the 10071 answer of older servers is recognised as a lost CAS.
ReleaseCas(s) ==
  /\ task[s]["host"].pc = "relCas"
  /\ IF lease.rev = task[s]["host"].rev
     THEN WriteLease(Marker) /\ ReleaseReturn(s, "ok")
     ELSE /\ ReleaseReturn(s, IF NewServer THEN "err" ELSE "ok")
          /\ UNCHANGED <<lease, used>>
  /\ UNCHANGED <<now, fence, late, lateFence, faults, acquireVars, shown, calls>>

RenewFail(s, w) ==
  /\ task[s][w].pc \in {"read", "cas", "reread"}
  /\ Fault
  /\ late' = late \cup TaskWrite(s, w)
  /\ task' = [task EXCEPT ![s][w] = After(w, FALSE)]
  /\ UNCHANGED <<now, lease, fence, lateFence, acquireVars, shown, released, calls, used>>

ReleaseFail(s) ==
  /\ task[s]["host"].pc \in {"relRead", "relCas"}
  /\ Fault
  /\ late' = late \cup TaskWrite(s, "host")
  /\ ReleaseReturn(s, "err")
  /\ UNCHANGED <<now, lease, fence, lateFence, acquireVars, shown, calls, used>>

\* Dropping the handle aborts the renewal task, wherever it is.
DropHandle(s) ==
  /\ pc[s] = "handle" /\ task[s]["host"].pc = "off"
  /\ pc' = [pc EXCEPT ![s] = "dropped"]
  /\ late' = late \cup TaskWrite(s, "auto")
  /\ task' = [task EXCEPT ![s]["auto"] = At("off")]
  /\ UNCHANGED <<now, lease, fence, lateFence, faults, loc, mine, shown, released, calls, used>>

\* The process dies, or the host drops the acquire future: everything the
\* session was doing stops where it stands.
Crash(s) ==
  /\ pc[s] \in Acquiring \cup {"handle"}
  /\ Fault
  /\ late' = late \cup AcquireWrite(s) \cup TaskWrite(s, "auto") \cup TaskWrite(s, "host")
  /\ lateFence' = lateFence \cup BumpWrite(s)
  /\ Return(s, "crashed")
  /\ task' = [task EXCEPT ![s] = [w \in Workers |-> At("off")]]
  /\ UNCHANGED <<now, lease, fence, mine, shown, released, calls, used>>

-----------------------------------------------------------------------------
(* Time and the specification.                                             *)

Due(s) ==
  \/ pc[s] \in Working
  \/ pc[s] = "sleep" /\ now >= loc[s].wake
  \/ task[s]["auto"].pc \in {"read", "cas", "reread"}
  \/ task[s]["auto"].pc = "sleep" /\ now >= task[s]["auto"].wake
  \/ task[s]["host"].pc # "off"

Tick ==
  /\ now < MaxTime
  /\ Prompt => \A s \in Sessions : ~Due(s)
  /\ now' = now + 1
  /\ UNCHANGED <<lease, fence, late, lateFence, faults, acquireVars, handleVars, used>>

Init ==
  /\ now = Sec
  /\ \/ lease = [rev |-> 0, body |-> NoBody] /\ fence = [rev |-> 0, val |-> 0] /\ used = {}
     \/ /\ LegacyHolder # NoNode /\ lease = [rev |-> 1, body |-> Undated]
        /\ fence = [rev |-> 1, val |-> 1] /\ used = {1}
  /\ late = {} /\ lateFence = {} /\ faults = 0
  /\ pc = [s \in Sessions |-> "idle"]
  /\ loc = [s \in Sessions |-> NoLoc]
  /\ mine = [s \in Sessions |-> NoBody]
  /\ task = [s \in Sessions |-> [w \in Workers |-> At("off")]]
  /\ shown = [s \in Sessions |-> 0]
  /\ released = [s \in Sessions |-> "never"]
  /\ calls = [s \in Sessions |-> 0]

\* Steps a task takes once started: the acquire call, the renewal task, the
\* host's call.
AcquireStep(s) ==
  BumpRead(s) \/ BumpCas(s) \/ Create(s) \/ ReclaimRead(s) \/ ReclaimCas(s) \/ Retry(s)

RenewStep(s, w) == RenewRead(s, w) \/ RenewCas(s, w) \/ RenewReread(s, w)

AutoStep(s) == Wake(s) \/ RenewStep(s, "auto")
HostStep(s) == RenewStep(s, "host") \/ ReleaseRead(s) \/ ReleaseCas(s)

\* Steps the host may or may not take, and failures.
Choice(s) ==
  \/ Begin(s) \/ HostRenew(s) \/ HostRelease(s) \/ DropHandle(s)
  \/ AcquireFail(s) \/ ReleaseFail(s) \/ Crash(s)
  \/ \E w \in Workers : RenewFail(s, w)

Next ==
  \/ Tick \/ DeliverLease \/ DeliverFence
  \/ \E s \in Sessions : AcquireStep(s) \/ AutoStep(s) \/ HostStep(s) \/ Choice(s)

Spec == Init /\ [][Next]_vars

\* The tokio runtime polls every task that is ready, and the clock runs.
\* Nothing obliges the host to call, nor the network to fail or to deliver.
FairSpec ==
  /\ Spec
  /\ WF_vars(Tick)
  /\ \A s \in Sessions :
       WF_vars(AcquireStep(s)) /\ WF_vars(AutoStep(s)) /\ WF_vars(HostStep(s))

-----------------------------------------------------------------------------
(* Properties.                                                             *)

\* Type invariant: every variable of the acquire, renew and release paths
\* keeps its type (lease.rs: LeaseRecord, LeaseInner, AcquireParams).
TypeOK ==
  /\ now \in Nat
  /\ lease \in [rev : Nat, body : Body]
  /\ fence \in [rev : Nat, val : Nat]
  /\ late \in SUBSET LeaseWrite
  /\ lateFence \in SUBSET FenceWrite
  /\ faults \in 0..MaxFaults
  /\ pc \in [Sessions -> {"idle"} \cup Acquiring \cup Returned]
  /\ loc \in [Sessions -> Loc]
  /\ mine \in [Sessions -> Body]
  /\ task \in [Sessions -> [Workers -> Task]]
  /\ shown \in [Sessions -> Nat]
  /\ released \in [Sessions -> {"never", "pending", "ok", "err"}]
  /\ calls \in [Sessions -> 0..MaxCalls]
  /\ used \in SUBSET Nat

\* No two sessions ever carry the same fencing token, however their
\* read-then-CAS rounds on the counter interleave and whichever abandoned
\* increments the server applies late (bump_fencing_token).
TokensUnique ==
  \A s, t \in Sessions :
    mine[s].token # 0 /\ mine[s].token = mine[t].token => s = t

\* The expiry a handle shows is never later than the one in the record other
\* nodes judge it by, with the renewal task, the host's renew and abandoned
\* renewals all writing the record (renew_inner).
HandleNotAhead ==
  \A s \in Sessions :
    pc[s] = "handle" /\ Owns(s) => shown[s] <= lease.body.shown

\* The lease as a whole keeps the contract of LeaseSlot: no live record is
\* stolen, no token holds the slot twice, no renewal shortens a lease or
\* changes its holder, and only a holder that asked loses its record.
Askers == {mine[s].token : s \in {t \in Sessions : released[t] # "never"}}
Slot == INSTANCE LeaseSlot WITH slot <- lease.body, askers <- Askers
KeepsContract == Slot!Spec

\* With timely tasks and no failures, a holder that has not released keeps its
\* record, and no node's clock ever sees that record expired: the renewal task
\* wakes "with lease.renew_before_expiry_percent of the TTL still to spare"
\* (renewal_loop, expiry_for).
LiveHolderKeeps ==
  \A s \in Sessions :
    pc[s] = "handle" /\ released[s] = "never" =>
      Owns(s) /\ \A n \in Nodes : ~Expired(lease.body, n)

\* An acquire that began returns: with a handle, with None, or with an error
\* (acquire_async, try_acquire_async).
AcquireReturns ==
  \A s \in Sessions : pc[s] \in Acquiring ~> pc[s] \in Returned

\* The record of a holder that is gone does not wedge the key: a waiter that
\* has more than a TTL of patience left sees a dated record that no handle
\* answers for replaced, unless a failure ends its wait first
\* (reclaim_if_expired).
Orphaned ==
  /\ lease.body.op = "Put" /\ lease.body.exp # 0
  /\ \A s \in Sessions : pc[s] = "handle" => mine[s].token # lease.body.token

Patient(t) ==
  /\ pc[t] = "sleep"
  /\ now - loc[t].started + TTL + Sec + 2 * RetrySleep <= GiveUp

OrphanReplaced ==
  \A t \in Waiters :
    (Patient(t) /\ Orphaned) ~> (~Orphaned \/ pc[t] \in {"err", "crashed"})

\* "Our record carries a fresh, strictly-higher fencing token": whoever holds
\* the lease holds the highest token that ever held it (reclaim_if_expired).
HighestTokenHolds ==
  lease.body.op = "Put" => \A k \in used : k <= lease.body.token
=============================================================================
