------------------------------- MODULE Peers --------------------------------
(***************************************************************************)
(* The peer list of one replica (peer.rs): the heartbeats of the other     *)
(* nodes, the task that folds them into the cache and sweeps it, the       *)
(* events it broadcasts, and a host that lists and watches the peers       *)
(* through a StreamForwarder.                                              *)
(*                                                                         *)
(* NATS core is external.  A life of a node is one process with one        *)
(* connection: its messages arrive in order or are lost, while messages of *)
(* two lives of a node arrive in any order.  Time is counted in ticks;     *)
(* what the code measures is kept as the age of each cache entry, and the  *)
(* two interval timers as countdowns.  A timer that fires while its task   *)
(* is busy fires once (MissedTickBehavior::Skip).                          *)
(***************************************************************************)
EXTENDS StreamForwarder

CONSTANTS
  Nodes,      \* the other nodes
  Lives,      \* bound: processes a node runs, one after the other
  Interval,   \* node.heartbeat_interval_sec, in ticks
  Expiry,     \* node.peer_expiry_sec, in ticks
  OldLife,    \* whether a life of a node is an older build (no kv_index)
  Prompt,     \* time waits for every step that is due
  MaxFaults   \* bound: lost messages, crashes and ended subscriptions

ASSUME PeersAssumption ==
  /\ Lives \in Nat \ {0} /\ MaxFaults \in Nat /\ Prompt \in BOOLEAN
  /\ Interval \in Nat \ {0} /\ Expiry \in Nat /\ Expiry > Interval
  /\ OldLife \in [Nodes -> [1..Lives -> BOOLEAN]]
  /\ Items = [node : Nodes, kind : {"joined", "left", "degraded", "healthy"}]

VARIABLES
  life,      \* number of the node's current or last process
  up,        \* that process runs
  due,       \* its publisher's timer has fired
  beatIn,    \* ticks until it fires next
  wire,      \* messages under way, per life
  missed,    \* history: heartbeats lost since the last one sent for good
  sub,       \* the subscriber task
  sweepDue, sweepIn,   \* its sweep timer
  cache,     \* the peer cache
  out,       \* events of the last change not yet sent
  view,      \* the peers as the host knows them
  synced,    \* the host listed the peers, or watched from the start, and no
             \* event was lost since
  exact,     \* the host watched from the start and knows nothing else
  faults     \* lost messages, crashes and ended subscriptions so far

nodeVars == <<life, up, due, beatIn, wire, missed>>
taskVars == <<sub, sweepDue, sweepIn, cache, out>>
hostVars == <<view, synced, exact>>
vars == <<nodeVars, taskVars, hostVars, faults, streamVars>>

Kinds == {"joined", "left", "degraded", "healthy"}
Message == [leaving : BOOLEAN, old : BOOLEAN]
NoEntry == [health |-> "absent", age |-> 0, old |-> FALSE]
Entry == [health : {"absent", "healthy", "degraded"}, age : Nat, old : BOOLEAN]
DegradedAfter == 2 * Interval
\* Ages beyond this one are the same to every comparison.
Ancient == DegradedAfter + Expiry + Interval

-----------------------------------------------------------------------------
(* The other nodes: publisher_loop, leave.                                 *)

Fault == faults < MaxFaults /\ faults' = faults + 1

\* A message of the node's current life, to a subscriber that is there.
Sends(p, i, leaving) ==
  \/ /\ sub = "running"
     /\ wire' = [wire EXCEPT ![p][i] =
                   Append(@, [leaving |-> leaving, old |-> OldLife[p][i]])]
     /\ missed' = [missed EXCEPT ![p] = 0] /\ UNCHANGED faults
  \/ sub # "running" /\ UNCHANGED <<wire, missed, faults>>
  \/ sub = "running" /\ Fault /\ missed' = [missed EXCEPT ![p] = @ + 1] /\ UNCHANGED wire

\* A process starts; its first heartbeat goes out at once, and the interval's
\* first tick is immediate.
Start(p) ==
  /\ ~up[p] /\ life[p] < Lives
  /\ life' = [life EXCEPT ![p] = @ + 1] /\ up' = [up EXCEPT ![p] = TRUE]
  /\ due' = [due EXCEPT ![p] = TRUE] /\ beatIn' = [beatIn EXCEPT ![p] = Interval]
  /\ Sends(p, life[p] + 1, FALSE)
  /\ UNCHANGED <<taskVars, hostVars, streamVars>>

Beat(p) ==
  /\ up[p] /\ due[p] /\ due' = [due EXCEPT ![p] = FALSE]
  /\ Sends(p, life[p], FALSE)
  /\ UNCHANGED <<life, up, beatIn, taskVars, hostVars, streamVars>>

Stops(p) ==
  /\ up' = [up EXCEPT ![p] = FALSE] /\ due' = [due EXCEPT ![p] = FALSE]
  /\ beatIn' = [beatIn EXCEPT ![p] = Interval]

\* shutdown: the publisher is stopped before the leaving message goes out.
Leave(p) ==
  /\ up[p] /\ Stops(p)
  /\ Sends(p, life[p], TRUE)
  /\ UNCHANGED <<life, taskVars, hostVars, streamVars>>

\* A process dies, with what its connection has not sent yet.
Die(p) ==
  /\ up[p] /\ Stops(p) /\ Fault
  /\ \E n \in 0..Len(wire[p][life[p]]) :
       wire' = [wire EXCEPT ![p][life[p]] = SubSeq(@, 1, n)]
  /\ UNCHANGED <<life, missed, taskVars, hostVars, streamVars>>

-----------------------------------------------------------------------------
(* The subscriber task: subscriber_loop.                                   *)

Silent == [p \in Nodes |-> "none"]

\* Lazy connect: the workers start; the sweep interval's first tick is immediate.
Connect ==
  /\ sub = "off" /\ sub' = "running" /\ sweepDue' = TRUE /\ sweepIn' = Interval
  /\ UNCHANGED <<nodeVars, cache, out, hostVars, faults, streamVars>>

\* The subscription fails or its stream ends: the task returns and the cache
\* stays as it is.
SubscriptionEnds ==
  /\ sub = "running" /\ out = Silent /\ Fault /\ sub' = "ended"
  /\ UNCHANGED <<nodeVars, sweepDue, sweepIn, cache, out, hostVars, streamVars>>

\* Faulty variant: a heartbeat refreshes an entry and keeps its flag.
FoldKeepsFlag(p, m) ==
  \/ /\ m.leaving /\ cache' = [cache EXCEPT ![p] = NoEntry]
     /\ out' = [out EXCEPT ![p] = IF cache[p].health = "absent" THEN "none" ELSE "left"]
  \/ /\ ~m.leaving
     /\ cache' = [cache EXCEPT ![p] =
                    [health |-> "healthy", age |-> 0,
                     old |-> IF @.health = "absent" THEN m.old ELSE @.old]]
     /\ out' = [out EXCEPT ![p] = CASE cache[p].health = "absent" -> "joined"
                                    [] cache[p].health = "degraded" -> "healthy"
                                    [] OTHER -> "none"]
\* Faulty variant: a heartbeat announces the node whether or not it was known.
FoldAlwaysJoins(p, m) ==
  \/ /\ m.leaving /\ cache' = [cache EXCEPT ![p] = NoEntry]
     /\ out' = [out EXCEPT ![p] = IF cache[p].health = "absent" THEN "none" ELSE "left"]
  \/ /\ ~m.leaving
     /\ cache' = [cache EXCEPT ![p] = [health |-> "healthy", age |-> 0, old |-> m.old]]
     /\ out' = [out EXCEPT ![p] = "joined"]
\* A message of node p is folded into the cache.
Fold(p, m) ==
  \/ /\ m.leaving /\ cache' = [cache EXCEPT ![p] = NoEntry]
     /\ out' = [out EXCEPT ![p] = IF cache[p].health = "absent" THEN "none" ELSE "left"]
  \/ /\ ~m.leaving
     /\ cache' = [cache EXCEPT ![p] = [health |-> "healthy", age |-> 0, old |-> m.old]]
     /\ out' = [out EXCEPT ![p] = CASE cache[p].health = "absent" -> "joined"
                                    [] cache[p].health = "degraded" -> "healthy"
                                    [] OTHER -> "none"]

Receive(p, i) ==
  /\ sub = "running" /\ out = Silent /\ wire[p][i] # <<>>
  /\ Fold(p, Head(wire[p][i]))
  /\ wire' = [wire EXCEPT ![p][i] = Tail(@)]
  /\ UNCHANGED <<life, up, due, beatIn, missed, sub, sweepDue, sweepIn, hostVars, faults, streamVars>>

\* Faulty variant: degraded one interval too early.
JudgeEarly(e) ==
  CASE e.health = "absent" \/ e.age > Expiry -> "absent"
    [] e.health # "absent" /\ e.age <= Expiry /\ e.age > Interval -> "degraded"
    [] OTHER -> "healthy"
\* Faulty variant: an expired entry is degraded like any other.
JudgeNeverEvicts(e) ==
  CASE e.health = "absent" -> "absent"
    [] e.health # "absent" /\ e.age > DegradedAfter -> "degraded"
    [] OTHER -> "healthy"
\* Evict, degrade or keep.
Judge(e) ==
  CASE e.health = "absent" \/ e.age > Expiry -> "absent"
    [] e.health # "absent" /\ e.age <= Expiry /\ e.age > DegradedAfter -> "degraded"
    [] OTHER -> "healthy"

Sweep ==
  /\ sub = "running" /\ out = Silent /\ sweepDue /\ sweepDue' = FALSE
  /\ cache' = [p \in Nodes |-> IF Judge(cache[p]) = "absent" THEN NoEntry
                               ELSE [cache[p] EXCEPT !.health = Judge(cache[p])]]
  /\ out' = [p \in Nodes |-> CASE Judge(cache[p]) = cache[p].health -> "none"
                               [] Judge(cache[p]) # cache[p].health /\ Judge(cache[p]) = "absent" -> "left"
                               [] OTHER -> Judge(cache[p])]
  /\ UNCHANGED <<nodeVars, sub, sweepIn, hostVars, faults, streamVars>>

\* The events go out after the lock is released, those of a sweep one by one.
SendEvent(p) ==
  /\ sub = "running" /\ out[p] # "none" /\ out' = [out EXCEPT ![p] = "none"]
  /\ Post([node |-> p, kind |-> out[p]])
  /\ synced' = (synced /\ ~Overflows) /\ exact' = (exact /\ ~Overflows)
  /\ UNCHANGED <<nodeVars, sub, sweepDue, sweepIn, cache, view, faults, handle, task, aborted, signal, gaveUp>>

-----------------------------------------------------------------------------
(* The host: watch_peers, list_peers.                                      *)

Nobody == [p \in Nodes |-> "absent"]
Health == [p \in Nodes |-> cache[p].health]
\* What an event tells of its node.
Effect(kind) == CASE kind = "left" -> "absent" [] kind = "degraded" -> "degraded" [] OTHER -> "healthy"

\* Faulty variant: the connection first, then the receiver.
WatchPeersLate ==
  /\ OpenReceiver /\ synced' = TRUE /\ exact' = (sub = "off")
  /\ UNCHANGED <<nodeVars, taskVars, view, faults>>
\* The receiver first, then the connection, so that nothing is missed.
WatchPeers ==
  /\ OpenReceiver /\ synced' = (sub = "off") /\ exact' = (sub = "off")
  /\ UNCHANGED <<nodeVars, taskVars, view, faults>>

\* Connected by now, or the attempt failed and some later call connects.
SpawnWatch == Spawn /\ UNCHANGED <<nodeVars, taskVars, hostVars, faults>>

\* A listing replaces what the host knows; with a receiver in place, what
\* follows reaches it.
ListPeers ==
  /\ sub # "off" /\ handle \in {"opening", "open"} /\ view # Health
  /\ view' = Health /\ synced' = TRUE /\ exact' = FALSE
  /\ UNCHANGED <<nodeVars, taskVars, faults, streamVars>>

EmitEvent ==
  /\ Emit
  /\ view' = [view EXCEPT ![Head(inbox).node] = Effect(Head(inbox).kind)]
  /\ UNCHANGED <<nodeVars, taskVars, synced, exact, faults>>

StreamStep ==
  /\ \/ FirstPoll \/ EmitReturns \/ DropFuture \/ Cancel \/ CancelReturns \/ CancelGivesUp
     \/ SourceEnds /\ sub = "ended"
  /\ UNCHANGED <<nodeVars, taskVars, hostVars, faults>>

-----------------------------------------------------------------------------
(* Time, and the specification.                                            *)

Idle ==
  /\ \A p \in Nodes : ~(up[p] /\ due[p]) /\ \A i \in 1..Lives : wire[p][i] = <<>>
  /\ out = Silent /\ ~(sub = "running" /\ sweepDue)

\* A countdown starts again when its timer fires.
Down(n) == IF n = 1 THEN Interval ELSE n - 1

Tick ==
  /\ Prompt => Idle
  /\ beatIn' = [p \in Nodes |-> IF up[p] THEN Down(beatIn[p]) ELSE beatIn[p]]
  /\ due' = [p \in Nodes |-> due[p] \/ (up[p] /\ beatIn[p] = 1)]
  /\ sweepIn' = Down(sweepIn) /\ sweepDue' = (sweepDue \/ sweepIn = 1)
  /\ cache' = [p \in Nodes |-> IF cache[p].health = "absent" \/ cache[p].age = Ancient
                               THEN cache[p] ELSE [cache[p] EXCEPT !.age = @ + 1]]
  /\ UNCHANGED <<life, up, wire, missed, sub, out, hostVars, faults, streamVars>>

Init ==
  /\ life = [p \in Nodes |-> 0] /\ up = [p \in Nodes |-> FALSE]
  /\ due = [p \in Nodes |-> FALSE] /\ beatIn = [p \in Nodes |-> Interval]
  /\ wire = [p \in Nodes |-> [i \in 1..Lives |-> <<>>]]
  /\ missed = [p \in Nodes |-> 0]
  /\ sub = "off" /\ sweepDue = FALSE /\ sweepIn = Interval
  /\ cache = [p \in Nodes |-> NoEntry] /\ out = Silent
  /\ view = Nobody /\ synced = FALSE /\ exact = FALSE /\ faults = 0
  /\ StreamInit

NodeStep(p) == Start(p) \/ Beat(p) \/ Leave(p) \/ Die(p)
Arrival(p) == \E i \in 1..Lives : Receive(p, i)
HostStep == WatchPeers \/ SpawnWatch \/ ListPeers

Next ==
  \/ \E p \in Nodes : NodeStep(p) \/ Arrival(p) \/ SendEvent(p)
  \/ Connect \/ SubscriptionEnds \/ Sweep \/ HostStep \/ EmitEvent \/ StreamStep \/ Tick

Spec == Init /\ [][Next]_vars

\* The timers fire, a ready task is polled, a message under way arrives, and
\* recv_timeout ends.  No callback has to return.
FairSpec ==
  /\ Spec
  /\ \A p \in Nodes : WF_vars(Beat(p)) /\ WF_vars(SendEvent(p))
                      /\ \A i \in 1..Lives : WF_vars(Receive(p, i))
  /\ WF_vars(Sweep) /\ WF_vars(Tick)
  /\ WF_vars(HandleStep /\ UNCHANGED <<nodeVars, taskVars, hostVars, faults>>)

-----------------------------------------------------------------------------
(* Properties.                                                             *)

TypeOK ==
  /\ life \in [Nodes -> 0..Lives] /\ up \in [Nodes -> BOOLEAN]
  /\ due \in [Nodes -> BOOLEAN] /\ beatIn \in [Nodes -> 1..Interval]
  /\ wire \in [Nodes -> [1..Lives -> Seq(Message)]] /\ missed \in [Nodes -> Nat]
  /\ sub \in {"off", "running", "ended"}
  /\ sweepDue \in BOOLEAN /\ sweepIn \in 1..Interval
  /\ cache \in [Nodes -> Entry] /\ out \in [Nodes -> Kinds \cup {"none"}]
  /\ view \in [Nodes -> {"absent", "healthy", "degraded"}]
  /\ synced \in BOOLEAN /\ exact \in BOOLEAN /\ faults \in 0..MaxFaults
  /\ StreamTypeOK

\* Events about p the receiver has not read.
Unread(p) == {i \in 1..Len(inbox) : inbox[i].node = p}
Latest(p, i) == i \in Unread(p) /\ \A j \in Unread(p) : j <= i

Watching == handle \in {"opening", "open"} /\ task # "ended"

\* A host that watches before the connection is made, or lists the peers once
\* it watches, and loses no event, ends up with the cache: events are sent
\* after the lock is released and in the order of the changes, so a listing
\* in between never leaves it with a peer that left or without one that
\* joined.  What it will know of p: from the event to be sent, else from the
\* last unread one, else already.
WatcherSeesCache ==
  Watching /\ synced =>
    \A p \in Nodes :
      /\ out[p] # "none" => Effect(out[p]) = cache[p].health
      /\ out[p] = "none" =>
           /\ \A i \in 1..Len(inbox) : Latest(p, i) => Effect(inbox[i].kind) = cache[p].health
           /\ Unread(p) = {} => view[p] = cache[p].health

\* A host that knows the peers from events alone gets a join of a peer it does
\* not have, a leave or a health change of one it has, and no health change
\* that changes nothing.
EventsMakeSense ==
  [][EmitEvent /\ exact =>
       LET e == Head(inbox)
       IN /\ e.kind = "joined" <=> view[e.node] = "absent"
          /\ e.kind # "joined" => view[e.node] # Effect(e.kind)]_vars

\* While the task runs, no peer stays listed for longer than the expiry and
\* one sweep interval after its last heartbeat ("one silent for
\* node.peer_expiry_sec is evicted").
SilentEvicted == sub = "running" => \A p \in Nodes : cache[p].age <= Expiry + Interval

\* A peer whose heartbeats arrive, but for a single one, is not shown as
\* degraded ("a peer that has missed two heartbeat intervals is marked
\* degraded").
OneLossForgiven ==
  \A p \in Nodes :
    up[p] /\ ~due[p] /\ missed[p] <= 1 /\ sub = "running" /\ (\A i \in 1..Lives : wire[p][i] = <<>>)
      => cache[p].health # "degraded"

\* Once a node stays up, it stays listed, healthy and with the flag of its
\* build, whatever an earlier life's messages did when they arrived late; once
\* it stays down it is not listed.
ListSettles ==
  \A p \in Nodes :
    /\ <>[](up[p] /\ sub = "running") =>
         <>[](cache[p].health = "healthy" /\ cache[p].old = OldLife[p][life[p]])
    /\ <>[](~up[p] /\ sub = "running") => <>[](cache[p] = NoEntry)
=============================================================================
