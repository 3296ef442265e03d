----------------------------- MODULE IndexGate ------------------------------
(***************************************************************************)
(* The key index of one bucket in a fleet where some nodes run an older    *)
(* build that does not write it (sweep.rs; the index operations of         *)
(* state/kv.rs).  Each replica of this build runs a sweep task that trusts *)
(* the index or takes it back, and the holder of the sweep lease makes it  *)
(* complete again; a host may ask for the same (complete_key_index).       *)
(*                                                                         *)
(* A write of this build keeps the key's index record in step: KvStore     *)
(* models how.  The peer list is Peers: here a replica sees an older peer  *)
(* from some heartbeat on and until it left or expired.  The lease is      *)
(* Lease: it is lost by a failed renewal and taken when nobody holds it.   *)
(***************************************************************************)
EXTENDS Naturals, FiniteSets

CONSTANTS
  Replicas,    \* nodes of this build
  Olds,        \* processes of an older build, each of which runs once
  Keys,
  FirstKeys,   \* sets of keys, all unindexed, the bucket may start with
  Nobody,      \* holds no lease
  Callers,     \* bound: replicas whose host calls complete_key_index
  MaxEvents    \* bound: failed store calls, lapses, restarts, silent peers and
               \* calls of complete_key_index

ASSUME GateAssumption ==
  /\ FirstKeys \subseteq SUBSET Keys /\ Nobody \notin Replicas
  /\ Callers \subseteq Replicas /\ MaxEvents \in Nat

VARIABLES
  live,        \* keys with a live data record
  idx,         \* keys with an index record
  mark,        \* the record under INDEX_STATE_KEY
  old,         \* an older process: not started, up or gone
  sees,        \* older peers in a replica's peer cache
  recent,      \* unindexed_seen is less than a peer expiry ago
  ready,       \* index_ready: listings of the replica read the index
  holder,      \* who holds the sweep lease
  lease,       \* the replica has a handle of the sweep lease
  unindexed,   \* local of the sweep tick: an older peer was there
  pc,          \* the sweep task and the host's call of each replica
  todo,        \* keys its backfill has not read
  events,      \* failures, restarts and host calls so far
  fresh,       \* history: unindexed keys older peers wrote since a task looked at
               \* the bucket that it may mark
  wild         \* history: those they wrote since the look behind the last mark

store == <<live, idx, mark, wild>>
fleet == <<old, sees>>
gate == <<recent, ready, unindexed, holder, lease>>
work == <<pc, todo, fresh>>
vars == <<store, fleet, gate, work, events>>

Tasks == {"sweep", "host"}
Steps == {"open", "openMark", "idle", "gate", "delete", "lease", "sweeping", "scan",
          "mark", "trust", "gateRead"}

\* The task has looked at the bucket and may mark its index complete.
Looked(r, t) == pc[r][t] \in {"openMark", "scan", "mark"}

Goto(r, t, step) == pc' = [pc EXCEPT ![r][t] = step]
\* What the task does depends on the bucket as it is now.
Looks(r, t) == fresh' = [fresh EXCEPT ![r][t] = {}]
\* The task is done, for now.
Rest(r, t) == Goto(r, t, "idle") /\ Looks(r, t)
\* The keys its backfill has to read.
Reads(r, t, ks) == todo' = [todo EXCEPT ![r][t] = ks]
Rare == events < MaxEvents /\ events' = events + 1

-----------------------------------------------------------------------------
(* Writers, and what the peer list shows of the older ones.                *)

\* An older peer's key that is indexed or gone is of no concern any more.
Settled(k) ==
  /\ wild' = wild \ {k}
  /\ fresh' = [r \in Replicas |-> [t \in Tasks |-> fresh[r][t] \ {k}]]

\* A put of this build, and a delete with the sweep that follows it.
Put(k) ==
  /\ k \notin live /\ live' = live \cup {k} /\ idx' = idx \cup {k} /\ Settled(k)
  /\ UNCHANGED <<mark, fleet, gate, pc, todo, events>>
Remove(k) ==
  /\ k \in live /\ live' = live \ {k} /\ idx' = idx \ {k} /\ Settled(k)
  /\ UNCHANGED <<mark, fleet, gate, pc, todo, events>>

OldStart(o) ==
  /\ old[o] = "new" /\ old' = [old EXCEPT ![o] = "up"]
  /\ UNCHANGED <<store, sees, gate, work, events>>
OldStop(o) ==
  /\ old[o] = "up" /\ old' = [old EXCEPT ![o] = "gone"]
  /\ UNCHANGED <<store, sees, gate, work, events>>
OldWrite(o, k) ==
  /\ old[o] = "up" /\ k \notin live /\ live' = live \cup {k}
  /\ wild' = wild \cup {k}
  /\ fresh' = [r \in Replicas |-> [t \in Tasks |->
               fresh[r][t] \cup (IF Looked(r, t) THEN {k} ELSE {})]]
  /\ UNCHANGED <<idx, mark, fleet, gate, pc, todo, events>>

Hear(r, o) ==
  /\ old[o] = "up" /\ o \notin sees[r] /\ sees' = [sees EXCEPT ![r] = @ \cup {o}]
  /\ UNCHANGED <<store, old, gate, work, events>>
\* It left or expired; an entry of a live peer expires when its heartbeats are lost.
Forget(r, o) ==
  /\ o \in sees[r] /\ sees' = [sees EXCEPT ![r] = @ \ {o}]
  /\ \/ old[o] = "gone" /\ UNCHANGED events
     \/ old[o] = "up" /\ Rare
  /\ UNCHANGED <<store, old, gate, work>>

UnindexedPeerPresent(r) == sees[r] # {}

-----------------------------------------------------------------------------
(* Opening the bucket: complete_index_if_empty.                            *)

Empty == live = {} /\ idx = {} /\ mark = "none"

SetMark(r, t) == mark' = "set" /\ wild' = fresh[r][t]

Open(r) ==
  /\ pc[r]["sweep"] = "open" /\ Looks(r, "sweep")
  /\ Goto(r, "sweep", IF Empty THEN "openMark" ELSE "idle")
  /\ UNCHANGED <<store, fleet, gate, todo, events>>

OpenMark(r) ==
  /\ pc[r]["sweep"] = "openMark" /\ SetMark(r, "sweep") /\ Rest(r, "sweep")
  /\ UNCHANGED <<live, idx, fleet, gate, todo, events>>

-----------------------------------------------------------------------------
(* The gate: gate_index, invalidate_index.                                 *)

SweepTick(r) ==
  /\ pc[r]["sweep"] = "idle" /\ Goto(r, "sweep", "gate")
  /\ unindexed' = [unindexed EXCEPT ![r] = UnindexedPeerPresent(r)]
  /\ recent' = [recent EXCEPT ![r] = @ \/ UnindexedPeerPresent(r)]
  /\ UNCHANGED <<store, fleet, ready, holder, lease, todo, fresh, events>>

SetReady(r, b) == ready' = [ready EXCEPT ![r] = b]

Gate(r) ==
  /\ pc[r]["sweep"] = "gate"
  /\ \/ /\ unindexed[r] /\ SetReady(r, FALSE)
        /\ Goto(r, "sweep", IF mark = "set" THEN "delete" ELSE "lease")
     \/ /\ ~unindexed[r] /\ SetReady(r, mark = "set") /\ Goto(r, "sweep", "lease")
  /\ UNCHANGED <<store, fleet, recent, unindexed, holder, lease, todo, fresh, events>>

\* The state could not be read: trust ends all the same if a peer is there.
GateFail(r) ==
  /\ pc[r]["sweep"] = "gate" /\ Rare /\ Goto(r, "sweep", "lease")
  /\ SetReady(r, ready[r] /\ ~unindexed[r])
  /\ UNCHANGED <<store, fleet, recent, unindexed, holder, lease, todo, fresh>>

\* Faulty variant: listings stop reading the index, but its mark stays.
DeleteMarkKept(r) ==
  /\ pc[r]["sweep"] = "delete" /\ Goto(r, "sweep", "lease")
  /\ UNCHANGED <<store, fleet, gate, todo, fresh, events>>
DeleteMark(r) ==
  /\ pc[r]["sweep"] = "delete" /\ mark' = "deleted" /\ Goto(r, "sweep", "lease")
  /\ UNCHANGED <<live, idx, wild, fleet, gate, todo, fresh, events>>

\* Between sweeps: a replica that does not trust the index looks again.
GateTick(r) ==
  /\ pc[r]["sweep"] = "idle" /\ ~ready[r]
  /\ \/ /\ UnindexedPeerPresent(r)
        /\ recent' = [recent EXCEPT ![r] = TRUE] /\ UNCHANGED pc
     \/ /\ ~UnindexedPeerPresent(r)
        /\ Goto(r, "sweep", "gateRead") /\ UNCHANGED recent
  /\ UNCHANGED <<store, fleet, ready, unindexed, holder, lease, todo, fresh, events>>

GateRead(r) ==
  /\ pc[r]["sweep"] = "gateRead" /\ SetReady(r, mark = "set") /\ Goto(r, "sweep", "idle")
  /\ UNCHANGED <<store, fleet, recent, unindexed, holder, lease, todo, fresh, events>>

\* A peer expiry has passed since the replica last saw an older peer.
Elapse(r) ==
  /\ recent[r] /\ recent' = [recent EXCEPT ![r] = FALSE]
  /\ UNCHANGED <<store, fleet, ready, unindexed, holder, lease, work, events>>

-----------------------------------------------------------------------------
(* The sweep lease, and making the index complete: complete_index,         *)
(* complete_key_index, backfill_index.                                     *)

\* The consumer is created: it delivers every key that is there.
StartScan(r, t) ==
  /\ Looks(r, t) /\ Reads(r, t, live) /\ Goto(r, t, "scan")

\* Faulty variant: a bucket whose index was taken back is not completed again.
MayCompleteOnce(r) == ~unindexed[r] /\ ~recent[r] /\ ~ready[r] /\ mark = "none"
\* No older peer is there nor was of late, and the index is not read yet.
MayComplete(r) == ~unindexed[r] /\ ~recent[r] /\ ~ready[r]

\* Renew the lease or take a free one; only its holder goes on.
TakeLease(r) ==
  /\ pc[r]["sweep"] = "lease"
  /\ LET free == holder = Nobody
         held == free \/ (lease[r] /\ holder = r)
     IN /\ holder' = IF free THEN r ELSE holder
        /\ lease' = [lease EXCEPT ![r] = held]
        /\ \/ held /\ Goto(r, "sweep", "sweeping") /\ UNCHANGED unindexed
           \/ ~held /\ Goto(r, "sweep", "idle")
              /\ unindexed' = [unindexed EXCEPT ![r] = FALSE]
  /\ UNCHANGED <<store, fleet, recent, ready, todo, fresh, events>>

\* The sweep, and then the decision to complete the index.  Of the sweep's
\* removals (KvStore), here the delete marker DeleteMark left, if it is old
\* enough and the sweep gets to it.
Sweep(r) ==
  /\ pc[r]["sweep"] = "sweeping"
  /\ \/ UNCHANGED mark
     \/ mark = "deleted" /\ mark' = "none"
  /\ \/ MayComplete(r) /\ StartScan(r, "sweep")
     \/ ~MayComplete(r) /\ Goto(r, "sweep", "idle") /\ UNCHANGED <<todo, fresh>>
  /\ unindexed' = [unindexed EXCEPT ![r] = FALSE]
  /\ UNCHANGED <<live, idx, wild, fleet, recent, ready, holder, lease, events>>

\* A lease nobody renews any more, or one whose renewals fail for too long.
Lapse(r) ==
  /\ holder = r /\ holder' = Nobody
  /\ \/ ~lease[r] /\ UNCHANGED events
     \/ lease[r] /\ Rare
  /\ UNCHANGED <<store, fleet, recent, ready, unindexed, lease, work>>

HostCall(r) ==
  /\ r \in Callers /\ pc[r]["host"] = "idle" /\ Rare
  /\ \/ UnindexedPeerPresent(r) /\ UNCHANGED <<pc, todo, fresh>>
     \/ ~UnindexedPeerPresent(r) /\ StartScan(r, "host")
  /\ UNCHANGED <<store, fleet, gate>>

\* The next record of the key k is read, and indexed if it is a live one.
Backfill(r, t, k) ==
  /\ pc[r][t] = "scan"
  /\ idx' = (IF k \in live THEN idx \cup {k} ELSE idx)
  /\ Reads(r, t, todo[r][t] \ {k}) /\ Settled(k)
  /\ UNCHANGED <<live, mark, fleet, gate, pc, events>>
Scan(r, t) == \E k \in todo[r][t] : Backfill(r, t, k)
\* Records written meanwhile are delivered too, until none is pending.
ScanLater(r, t) == \E k \in fresh[r][t] \ todo[r][t] : Backfill(r, t, k)

\* Faulty variant: the backfill has not waited for the last records.
ScanEndsEarly(r, t) ==
  /\ pc[r][t] = "scan" /\ Goto(r, t, "mark")
  /\ UNCHANGED <<store, fleet, gate, todo, fresh, events>>
\* The backfill is over; the sweep task, and only it, looks at the peers again.
ScanEnds(r, t) ==
  /\ pc[r][t] = "scan" /\ todo[r][t] = {}
  /\ \/ t = "sweep" /\ UnindexedPeerPresent(r) /\ Rest(r, t)
     \/ ~(t = "sweep" /\ UnindexedPeerPresent(r)) /\ Goto(r, t, "mark") /\ UNCHANGED fresh
  /\ UNCHANGED <<store, fleet, gate, todo, events>>

MarkComplete(r, t) ==
  /\ pc[r][t] = "mark" /\ SetMark(r, t) /\ Goto(r, t, "trust") /\ Looks(r, t)
  /\ UNCHANGED <<live, idx, fleet, gate, todo, events>>

Trust(r, t) ==
  /\ pc[r][t] = "trust" /\ SetReady(r, TRUE) /\ Goto(r, t, "idle")
  /\ UNCHANGED <<store, fleet, recent, unindexed, holder, lease, todo, fresh, events>>

-----------------------------------------------------------------------------
(* Failures.                                                               *)

\* A store call fails: the sweep task goes on with its next step, or waits
\* for the next tick.
Fail(r, t) ==
  /\ Rare
  /\ pc[r][t] \in {"open", "openMark", "delete", "lease", "scan", "mark", "gateRead"}
  /\ Goto(r, t, IF pc[r][t] = "delete" THEN "lease" ELSE "idle")
  /\ lease' = [lease EXCEPT ![r] = @ /\ pc[r][t] # "lease"]
  /\ Reads(r, t, {}) /\ Looks(r, t)
  /\ unindexed' = [unindexed EXCEPT ![r] = @ /\ pc[r][t] = "delete"]
  /\ UNCHANGED <<store, fleet, recent, ready, holder>>

\* The mark is stored and its answer lost.
MarkUnanswered(r, t) ==
  /\ Rare /\ pc[r][t] = "mark" /\ SetMark(r, t) /\ Rest(r, t)
  /\ UNCHANGED <<live, idx, fleet, gate, todo>>

\* The process stops and starts again, with an empty peer cache.
Restart(r) ==
  /\ Rare
  /\ pc' = [pc EXCEPT ![r] = [t \in Tasks |-> IF t = "sweep" THEN "open" ELSE "idle"]]
  /\ sees' = [sees EXCEPT ![r] = {}] /\ recent' = [recent EXCEPT ![r] = FALSE]
  /\ SetReady(r, FALSE) /\ unindexed' = [unindexed EXCEPT ![r] = FALSE]
  /\ lease' = [lease EXCEPT ![r] = FALSE]
  /\ todo' = [todo EXCEPT ![r] = [t \in Tasks |-> {}]]
  /\ fresh' = [fresh EXCEPT ![r] = [t \in Tasks |-> {}]]
  /\ UNCHANGED <<store, old, holder>>

-----------------------------------------------------------------------------
Init ==
  /\ live \in FirstKeys /\ idx = {} /\ mark = "none" /\ wild = {}
  /\ old = [o \in Olds |-> "new"] /\ sees = [r \in Replicas |-> {}]
  /\ recent = [r \in Replicas |-> FALSE] /\ ready = [r \in Replicas |-> FALSE]
  /\ unindexed = [r \in Replicas |-> FALSE]
  /\ holder = Nobody /\ lease = [r \in Replicas |-> FALSE]
  /\ pc = [r \in Replicas |-> [t \in Tasks |-> IF t = "sweep" THEN "open" ELSE "idle"]]
  /\ todo = [r \in Replicas |-> [t \in Tasks |-> {}]]
  /\ fresh = [r \in Replicas |-> [t \in Tasks |-> {}]]
  /\ events = 0

Completion(r, t) == Scan(r, t) \/ ScanEnds(r, t) \/ MarkComplete(r, t) \/ Trust(r, t)
TaskStep(r) ==
  \/ Open(r) \/ OpenMark(r) \/ Gate(r) \/ DeleteMark(r) \/ TakeLease(r)
  \/ Sweep(r) \/ GateRead(r) \/ Completion(r, "sweep")
Failure(r) ==
  \/ GateFail(r) \/ Restart(r)
  \/ \E t \in Tasks : Fail(r, t) \/ MarkUnanswered(r, t)

Next ==
  \/ \E k \in Keys : Put(k) \/ Remove(k) \/ \E o \in Olds : OldWrite(o, k)
  \/ \E o \in Olds : OldStart(o) \/ OldStop(o) \/ \E r \in Replicas : Hear(r, o) \/ Forget(r, o)
  \/ \E r \in Replicas :
       \/ SweepTick(r) \/ GateTick(r) \/ TaskStep(r) \/ Elapse(r) \/ Lapse(r)
       \/ HostCall(r) \/ Completion(r, "host") \/ Failure(r)
       \/ \E t \in Tasks : ScanLater(r, t)

Spec == Init /\ [][Next]_vars

\* Tasks run, heartbeats arrive, entries and leases that nobody renews expire.
\* The sweep tick is taken whenever it is due: select! is biased to it, so
\* the gate ticks in between do not keep it out.  A backfill reads faster
\* than others write: it reaches a record with none pending.
FairSpec ==
  /\ Spec
  /\ \A r \in Replicas :
       /\ SF_vars(SweepTick(r)) /\ WF_vars(TaskStep(r))
       /\ WF_vars(Elapse(r)) /\ WF_vars(Lapse(r) /\ ~lease[r])
       /\ \A o \in Olds : WF_vars(Hear(r, o)) /\ WF_vars(Forget(r, o) /\ old[o] = "gone")

-----------------------------------------------------------------------------
(* Properties.                                                             *)

TypeOK ==
  /\ live \subseteq Keys /\ idx \subseteq Keys /\ mark \in {"none", "set", "deleted"}
  /\ wild \subseteq Keys
  /\ old \in [Olds -> {"new", "up", "gone"}] /\ sees \in [Replicas -> SUBSET Olds]
  /\ recent \in [Replicas -> BOOLEAN] /\ ready \in [Replicas -> BOOLEAN]
  /\ unindexed \in [Replicas -> BOOLEAN]
  /\ holder \in Replicas \cup {Nobody} /\ lease \in [Replicas -> BOOLEAN]
  /\ pc \in [Replicas -> [Tasks -> Steps]]
  /\ todo \in [Replicas -> [Tasks -> SUBSET Keys]]
  /\ fresh \in [Replicas -> [Tasks -> SUBSET Keys]]
  /\ events \in 0..MaxEvents

Trusted == mark = "set" \/ \E r \in Replicas : ready[r]

\* A key that a complete or trusted index does not have was written by an
\* older peer after the backfill, or the look at the empty bucket, behind the
\* last mark began: no key that was there is ever lost by marking, with any
\* number of replicas and host calls completing and invalidating at once.
GapsAreRecent == Trusted => live \ idx \subseteq wild

\* While an older peer stays, the index is taken back and stays so: neither a
\* backfill that began before nor a restart brings it back ("a replica that
\* sees such a peer marks the index incomplete").
OldPeerEndsTrust == \A o \in Olds : <>[](old[o] = "up") => <>[]~Trusted

\* Once no older peer is up, the index is completed and every replica reads it
\* again.
TrustReturns ==
  <>[](\A o \in Olds : old[o] # "up") =>
    <>[](mark = "set" /\ \A r \in Replicas : ready[r])

AtRest ==
  /\ \A o \in Olds : old[o] # "up"
  /\ \A r \in Replicas : sees[r] = {} /\ \A t \in Tasks : pc[r][t] = "idle"

\* What the mark stands for ("Record that the index holds every live key",
\* mark_index_complete): with no older peer left and nothing under way, an
\* index marked complete has every live key.
CompleteAtRest == AtRest /\ mark = "set" => live \subseteq idx
=============================================================================
