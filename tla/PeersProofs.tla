---------------------------- MODULE PeersProofs -----------------------------
(***************************************************************************)
(* Proofs about StreamForwarder and Peers, for any set of nodes, any       *)
(* number of lives, any channel capacity and any intervals.                *)
(*                                                                         *)
(* A stream is safe to free because its done signal is sent only by the    *)
(* end of its future (StreamInv).  What a watcher will know of a peer is   *)
(* the cache's health of it because an event is computed under the lock    *)
(* and sent before the next change (EventInv), and because the last unread *)
(* event about a peer is the last one sent about it (InboxInv).  An event  *)
(* makes sense to the host that reads it because it made sense to who had  *)
(* read all events before it (SenseInv).  A peer that lost one heartbeat   *)
(* is not degraded because its entry's age and the time to its next beat   *)
(* stay below what the sweep allows (BeatInv).                             *)
(***************************************************************************)
EXTENDS Peers, TLAPS

-----------------------------------------------------------------------------
(* The stream.                                                             *)

StreamInv ==
  /\ StreamTypeOK
  /\ signal # "none" => task = "ended"
  /\ handle = "closed" /\ ~gaveUp => signal # "none"
  /\ handle \in {"none", "opening"} => task = "none"
  /\ handle = "none" => inbox = <<>>

LEMMA SeqFacts ==
  ASSUME NEW S, NEW s \in Seq(S)
  PROVE  /\ s # <<>> => /\ Head(s) \in S /\ Tail(s) \in Seq(S) /\ Len(Tail(s)) = Len(s) - 1
                        /\ Head(s) = s[1] /\ Len(s) >= 1
                        /\ \A i \in 1..Len(Tail(s)) : Tail(s)[i] = s[i + 1]
         /\ \A e \in S : /\ Append(s, e) \in Seq(S) /\ Len(Append(s, e)) = Len(s) + 1
                         /\ Append(s, e)[Len(s) + 1] = e
                         /\ \A i \in 1..Len(s) : Append(s, e)[i] = s[i]
         /\ Len(s) \in Nat
<1>1. ASSUME s # <<>>
      PROVE  /\ Head(s) \in S /\ Tail(s) \in Seq(S) /\ Len(Tail(s)) = Len(s) - 1
             /\ Head(s) = s[1] /\ Len(s) >= 1
             /\ \A i \in 1..Len(Tail(s)) : Tail(s)[i] = s[i + 1]
  BY <1>1
<1>2. ASSUME NEW e \in S
      PROVE  /\ Append(s, e) \in Seq(S) /\ Len(Append(s, e)) = Len(s) + 1
             /\ Append(s, e)[Len(s) + 1] = e
             /\ \A i \in 1..Len(s) : Append(s, e)[i] = s[i]
  OBVIOUS
<1>. QED BY <1>1, <1>2

LEMMA StreamStart == StreamInit => StreamInv
<1>1. <<>> \in Seq(Items) /\ Len(<<>>) <= Capacity
  BY CapacityAssumption
<1>. QED BY <1>1 DEF StreamInit, StreamInv, StreamTypeOK

LEMMA PostStream ==
  ASSUME StreamInv, NEW e \in Items, Post(e), UNCHANGED <<handle, task, aborted, signal, gaveUp>>
  PROVE  StreamInv'
<1>1. inbox \in Seq(Items) /\ Len(inbox) \in Nat /\ Len(inbox) <= Capacity
  BY SeqFacts DEF StreamInv, StreamTypeOK
<1>2. inbox' \in Seq(Items) /\ Len(inbox') <= Capacity
  <2>1. CASE UNCHANGED inbox
    BY <1>1, <2>1
  <2>2. CASE ~Overflows /\ Receiving /\ inbox' = Append(inbox, e)
    BY <1>1, <2>2, SeqFacts, CapacityAssumption DEF Overflows
  <2>3. CASE Overflows /\ inbox' = Append(Tail(inbox), e)
    <3>1. Len(inbox) = Capacity /\ inbox # <<>>
      BY <2>3, CapacityAssumption DEF Overflows
    <3>2. Tail(inbox) \in Seq(Items) /\ Len(Tail(inbox)) = Capacity - 1
      BY <1>1, <3>1, SeqFacts
    <3>. QED BY <2>3, <3>2, SeqFacts, CapacityAssumption
  <2>. QED BY <2>1, <2>2, <2>3 DEF Post
<1>3. handle = "none" => inbox' = <<>>
  BY DEF StreamInv, Post, Receiving, Overflows
<1>. QED BY <1>2, <1>3 DEF StreamInv, StreamTypeOK

LEMMA ForwarderStream ==
  ASSUME StreamInv, OpenReceiver \/ Spawn \/ Cancel \/ TaskStep \/ HandleStep
  PROVE  StreamInv'
<1>1. CASE Emit
  <2>1. Tail(inbox) \in Seq(Items) /\ Len(Tail(inbox)) <= Capacity
    BY <1>1, SeqFacts, CapacityAssumption DEF Emit, StreamInv, StreamTypeOK
  <2>. QED BY <1>1, <2>1 DEF Emit, StreamInv, StreamTypeOK
<1>2. CASE OpenReceiver \/ Spawn \/ Cancel
  BY <1>2 DEF OpenReceiver, Spawn, Cancel, StreamInv, StreamTypeOK
<1>3. CASE FirstPoll \/ EmitReturns \/ SourceEnds \/ DropFuture
  BY <1>3 DEF FirstPoll, EmitReturns, SourceEnds, DropFuture, Finish, StreamInv, StreamTypeOK
<1>4. CASE HandleStep
  BY <1>4 DEF HandleStep, CancelReturns, CancelGivesUp, StreamInv, StreamTypeOK
<1>. QED BY <1>1, <1>2, <1>3, <1>4 DEF TaskStep

LEMMA StillStream ==
  ASSUME StreamInv, UNCHANGED streamVars
  PROVE  StreamInv'
  BY DEF StreamInv, StreamTypeOK, streamVars

LEMMA StreamSafe == StreamInv => NoCallbackAfterCancel
  BY DEF StreamInv, NoCallbackAfterCancel

\* However an abort meets the forwarder (before its first poll, at an await,
\* in the middle of a callback), cancel_stream does not return before the
\* forwarder is gone unless it gave up waiting; for any items and capacity.
THEOREM StreamCancelSafe == StreamSpec => []NoCallbackAfterCancel
<1>1. ASSUME StreamInv, [StreamNext]_streamVars PROVE StreamInv'
  <2>1. ASSUME NEW e \in Items, Post(e), UNCHANGED <<handle, task, aborted, signal, gaveUp>>
        PROVE  StreamInv'
    BY <1>1, <2>1, PostStream
  <2>. QED BY <1>1, <2>1, ForwarderStream, StillStream DEF StreamNext
<1>. QED BY <1>1, StreamStart, StreamSafe, PTL DEF StreamSpec

-----------------------------------------------------------------------------
(* Types.                                                                  *)

PeersInv ==
  /\ TypeOK /\ StreamInv
  /\ \A p \in Nodes : up[p] => life[p] >= 1
  /\ sub = "off" => cache = [p \in Nodes |-> NoEntry] /\ out = Silent
  /\ handle = "none" => view = Nobody

LEMMA SendsType ==
  ASSUME TypeOK, NEW p \in Nodes, NEW i \in 1..Lives, NEW l \in BOOLEAN, Sends(p, i, l)
  PROVE  /\ wire' \in [Nodes -> [1..Lives -> Seq(Message)]] /\ missed' \in [Nodes -> Nat]
         /\ faults' \in 0..MaxFaults
<1>1. wire \in [Nodes -> [1..Lives -> Seq(Message)]] /\ missed \in [Nodes -> Nat]
      /\ faults \in 0..MaxFaults
  BY DEF TypeOK
<1>2. [leaving |-> l, old |-> OldLife[p][i]] \in Message
  BY PeersAssumption DEF Message
<1>3. wire[p][i] \in Seq(Message)
  BY <1>1
<1>4. ASSUME NEW m \in Message
      PROVE  [wire EXCEPT ![p][i] = Append(@, m)] \in [Nodes -> [1..Lives -> Seq(Message)]]
  <2>1. Append(wire[p][i], m) \in Seq(Message)
    BY <1>3
  <2>. QED BY <1>1, <2>1
<1>5. wire' \in [Nodes -> [1..Lives -> Seq(Message)]]
  <2>1. wire' = [wire EXCEPT ![p][i] = Append(@, [leaving |-> l, old |-> OldLife[p][i]])]
        \/ wire' = wire
    BY DEF Sends
  <2>. QED BY <1>1, <1>2, <1>4, <2>1, Zenon
<1>6. missed[p] + 1 \in Nat /\ 0 \in Nat
  BY <1>1
<1>7. missed' \in [Nodes -> Nat]
  BY <1>1, <1>6 DEF Sends
<1>8. faults' \in 0..MaxFaults
  BY <1>1, PeersAssumption DEF Sends, Fault
<1>. QED BY <1>5, <1>7, <1>8

LEMMA MessageOut ==
  ASSUME TypeOK, NEW p \in Nodes, NEW i \in 1..Lives, wire[p][i] # <<>>
  PROVE  /\ Head(wire[p][i]) \in Message
         /\ [wire EXCEPT ![p][i] = Tail(@)] \in [Nodes -> [1..Lives -> Seq(Message)]]
<1>1. wire \in [Nodes -> [1..Lives -> Seq(Message)]] /\ wire[p][i] \in Seq(Message)
  BY DEF TypeOK
<1>2. Head(wire[p][i]) \in Message /\ Tail(wire[p][i]) \in Seq(Message)
  BY <1>1
<1>. QED BY <1>1, <1>2

LEMMA FoldType ==
  ASSUME TypeOK, NEW p \in Nodes, NEW m \in Message, Fold(p, m)
  PROVE  cache' \in [Nodes -> Entry] /\ out' \in [Nodes -> Kinds \cup {"none"}]
<1>1. cache \in [Nodes -> Entry] /\ out \in [Nodes -> Kinds \cup {"none"}]
  BY DEF TypeOK
<1>2. NoEntry \in Entry /\ [health |-> "healthy", age |-> 0, old |-> m.old] \in Entry
  BY DEF NoEntry, Entry, Message
<1>. QED BY <1>1, <1>2 DEF Fold, Kinds

LEMMA JudgeKind ==
  ASSUME NEW e \in Entry
  PROVE  /\ Judge(e) \in {"absent", "healthy", "degraded"}
         /\ Judge(e) # "absent" => e.age <= Expiry /\ e.health # "absent"
  BY PeersAssumption DEF Judge, Entry

LEMMA SweepType ==
  ASSUME TypeOK, Sweep
  PROVE  cache' \in [Nodes -> Entry] /\ out' \in [Nodes -> Kinds \cup {"none"}]
<1>1. cache \in [Nodes -> Entry]
  BY DEF TypeOK
<1>2. ASSUME NEW p \in Nodes
      PROVE  /\ NoEntry \in Entry
             /\ [cache[p] EXCEPT !.health = Judge(cache[p])] \in Entry
             /\ (CASE Judge(cache[p]) = cache[p].health -> "none"
                   [] Judge(cache[p]) # cache[p].health /\ Judge(cache[p]) = "absent" -> "left"
                   [] OTHER -> Judge(cache[p])) \in Kinds \cup {"none"}
  <2>1. cache[p] \in Entry
    BY <1>1
  <2>2. Judge(cache[p]) \in {"absent", "healthy", "degraded"}
    BY <2>1, JudgeKind
  <2>. QED BY <2>1, <2>2 DEF NoEntry, Entry, Kinds
<1>. QED BY <1>1, <1>2 DEF Sweep

LEMMA NodeType ==
  ASSUME PeersInv, NEW p \in Nodes, NodeStep(p)
  PROVE  PeersInv'
<1>1. TypeOK /\ UNCHANGED <<taskVars, hostVars, streamVars>>
  BY DEF PeersInv, NodeStep, Start, Beat, Leave, Die
<1>2. /\ wire' \in [Nodes -> [1..Lives -> Seq(Message)]] /\ missed' \in [Nodes -> Nat]
      /\ faults' \in 0..MaxFaults
  <2>1. CASE Start(p)
    <3>1. life[p] + 1 \in 1..Lives
      BY <1>1, <2>1, PeersAssumption DEF Start, TypeOK
    <3>. QED BY <1>1, <2>1, <3>1, SendsType DEF Start
  <2>2. CASE Beat(p)
    <3>1. life[p] \in 1..Lives
      BY <1>1, <2>2 DEF Beat, PeersInv, TypeOK
    <3>. QED BY <1>1, <2>2, <3>1, SendsType DEF Beat
  <2>3. CASE Leave(p)
    <3>1. life[p] \in 1..Lives
      BY <1>1, <2>3 DEF Leave, PeersInv, TypeOK
    <3>. QED BY <1>1, <2>3, <3>1, SendsType DEF Leave
  <2>4. CASE Die(p)
    <3>1. life[p] \in 1..Lives
      BY <1>1, <2>4 DEF Die, PeersInv, TypeOK
    <3>2. wire \in [Nodes -> [1..Lives -> Seq(Message)]] /\ wire[p][life[p]] \in Seq(Message)
      BY <1>1, <3>1 DEF TypeOK
    <3>3. PICK n \in 0..Len(wire[p][life[p]]) :
            wire' = [wire EXCEPT ![p][life[p]] = SubSeq(@, 1, n)]
      BY <2>4 DEF Die
    <3>4. SubSeq(wire[p][life[p]], 1, n) \in Seq(Message)
      BY <3>2, <3>3
    <3>5. wire' \in [Nodes -> [1..Lives -> Seq(Message)]]
      BY <3>1, <3>2, <3>3, <3>4
    <3>. QED BY <1>1, <2>4, <3>5, PeersAssumption DEF Die, Fault, TypeOK
  <2>. QED BY <2>1, <2>2, <2>3, <2>4 DEF NodeStep
<1>3. /\ life' \in [Nodes -> 0..Lives] /\ up' \in [Nodes -> BOOLEAN]
      /\ \A q \in Nodes : up'[q] => life'[q] >= 1
  <2>1. /\ life \in [Nodes -> 0..Lives] /\ up \in [Nodes -> BOOLEAN]
        /\ \A q \in Nodes : up[q] => life[q] >= 1
    BY DEF PeersInv, TypeOK
  <2>2. CASE Start(p)
    <3>1. life' = [life EXCEPT ![p] = @ + 1] /\ up' = [up EXCEPT ![p] = TRUE] /\ life[p] < Lives
      BY <2>2 DEF Start
    <3>. QED BY <2>1, <3>1, PeersAssumption
  <2>3. CASE Beat(p)
    BY <2>1, <2>3 DEF Beat
  <2>4. CASE Leave(p) \/ Die(p)
    <3>1. life' = life /\ up' = [up EXCEPT ![p] = FALSE]
      BY <2>4 DEF Leave, Die, Stops
    <3>. QED BY <2>1, <3>1
  <2>. QED BY <2>2, <2>3, <2>4 DEF NodeStep
<1>4. due' \in [Nodes -> BOOLEAN] /\ beatIn' \in [Nodes -> 1..Interval]
  <2>1. due \in [Nodes -> BOOLEAN] /\ beatIn \in [Nodes -> 1..Interval] /\ Interval \in 1..Interval
    BY <1>1, PeersAssumption DEF TypeOK
  <2>2. /\ due' = [due EXCEPT ![p] = TRUE] \/ due' = [due EXCEPT ![p] = FALSE]
        /\ beatIn' = [beatIn EXCEPT ![p] = Interval] \/ beatIn' = beatIn
    BY DEF NodeStep, Start, Beat, Leave, Die, Stops
  <2>. QED BY <2>1, <2>2
<1>5. TypeOK'
  BY <1>1, <1>2, <1>3, <1>4 DEF TypeOK, StreamTypeOK, taskVars, hostVars, streamVars
<1>6. StreamInv'
  BY <1>1, StillStream DEF PeersInv
<1>. QED BY <1>1, <1>3, <1>5, <1>6 DEF PeersInv, taskVars, hostVars, streamVars, Silent, Nobody

LEMMA ArrivalType ==
  ASSUME PeersInv, NEW p \in Nodes, Arrival(p)
  PROVE  PeersInv'
<1>1. PICK i \in 1..Lives : Receive(p, i)
  BY DEF Arrival
<1>2. TypeOK /\ UNCHANGED <<life, up, due, beatIn, missed, sub, sweepDue, sweepIn, hostVars, faults, streamVars>>
  BY <1>1 DEF PeersInv, Receive
<1>3. Head(wire[p][i]) \in Message /\ wire' \in [Nodes -> [1..Lives -> Seq(Message)]]
  BY <1>1, <1>2, MessageOut DEF Receive
<1>4. cache' \in [Nodes -> Entry] /\ out' \in [Nodes -> Kinds \cup {"none"}]
  BY <1>1, <1>2, <1>3, FoldType DEF Receive
<1>5. TypeOK'
  BY <1>2, <1>3, <1>4 DEF TypeOK, StreamTypeOK, hostVars, streamVars
<1>6. StreamInv'
  BY <1>2, StillStream DEF PeersInv
<1>7. sub' = "running"
  BY <1>1 DEF Receive
<1>. QED BY <1>2, <1>5, <1>6, <1>7 DEF PeersInv, hostVars, streamVars, Nobody

LEMMA TaskType ==
  ASSUME PeersInv, Connect \/ SubscriptionEnds \/ Sweep
  PROVE  PeersInv'
<1>1. TypeOK /\ UNCHANGED <<nodeVars, hostVars, streamVars>>
  BY DEF PeersInv, Connect, SubscriptionEnds, Sweep
<1>2. cache' \in [Nodes -> Entry] /\ out' \in [Nodes -> Kinds \cup {"none"}]
  BY <1>1, SweepType DEF Connect, SubscriptionEnds, TypeOK
<1>3. /\ sub' \in {"running", "ended"} /\ sweepDue' \in BOOLEAN /\ sweepIn' \in 1..Interval
      /\ faults' \in 0..MaxFaults
  <2>1. sub' \in {"running", "ended"} /\ sweepDue' \in BOOLEAN
    BY <1>1 DEF Connect, SubscriptionEnds, Sweep, TypeOK
  <2>2. sweepIn' \in 1..Interval
    BY <1>1, PeersAssumption DEF Connect, SubscriptionEnds, Sweep, TypeOK
  <2>3. faults' \in 0..MaxFaults
    BY <1>1, PeersAssumption DEF Connect, SubscriptionEnds, Sweep, Fault, TypeOK
  <2>. QED BY <2>1, <2>2, <2>3
<1>4. TypeOK'
  BY <1>1, <1>2, <1>3 DEF TypeOK, StreamTypeOK, nodeVars, hostVars, streamVars
<1>5. StreamInv'
  BY <1>1, StillStream DEF PeersInv
<1>. QED BY <1>1, <1>3, <1>4, <1>5 DEF PeersInv, nodeVars, hostVars, streamVars, Nobody

LEMMA SendEventType ==
  ASSUME PeersInv, NEW p \in Nodes, SendEvent(p)
  PROVE  PeersInv'
<1>1. TypeOK /\ StreamInv
      /\ UNCHANGED <<nodeVars, sub, sweepDue, sweepIn, cache, view, faults, handle, task, aborted, signal, gaveUp>>
  BY DEF PeersInv, SendEvent
<1>2. out[p] \in Kinds /\ out' \in [Nodes -> Kinds \cup {"none"}]
  BY <1>1 DEF SendEvent, TypeOK
<1>3. [node |-> p, kind |-> out[p]] \in Items
  BY <1>2, PeersAssumption DEF Kinds
<1>4. StreamInv'
  BY <1>1, <1>3, PostStream DEF SendEvent
<1>5. synced' \in BOOLEAN /\ exact' \in BOOLEAN
  BY DEF SendEvent
<1>6. TypeOK'
  BY <1>1, <1>2, <1>4, <1>5 DEF TypeOK, StreamInv, nodeVars
<1>7. sub' = "running"
  BY <1>1 DEF SendEvent
<1>. QED BY <1>1, <1>4, <1>6, <1>7 DEF PeersInv, nodeVars, Nobody

LEMMA HostType ==
  ASSUME PeersInv, HostStep \/ EmitEvent \/ StreamStep
  PROVE  PeersInv'
<1>1. TypeOK /\ StreamInv /\ UNCHANGED <<nodeVars, taskVars, faults>>
  BY DEF PeersInv, HostStep, WatchPeers, SpawnWatch, ListPeers, EmitEvent, StreamStep
<1>2. StreamInv'
  BY <1>1, ForwarderStream, StillStream
     DEF HostStep, WatchPeers, SpawnWatch, ListPeers, EmitEvent, StreamStep, TaskStep, HandleStep
<1>3. view' \in [Nodes -> {"absent", "healthy", "degraded"}]
  <2>1. CASE EmitEvent
    <3>1. Effect(Head(inbox).kind) \in {"absent", "healthy", "degraded"}
      BY DEF Effect
    <3>. QED BY <1>1, <2>1, <3>1 DEF EmitEvent, TypeOK
  <2>2. CASE ListPeers
    BY <1>1, <2>2 DEF ListPeers, Health, TypeOK, Entry
  <2>3. CASE UNCHANGED view
    BY <1>1, <2>3 DEF TypeOK
  <2>. QED BY <2>1, <2>2, <2>3 DEF HostStep, WatchPeers, SpawnWatch, StreamStep, hostVars
<1>4. synced' \in BOOLEAN /\ exact' \in BOOLEAN
  BY <1>1 DEF HostStep, WatchPeers, SpawnWatch, ListPeers, EmitEvent, StreamStep, TypeOK, hostVars
<1>5. TypeOK'
  BY <1>1, <1>2, <1>3, <1>4 DEF TypeOK, StreamInv, nodeVars, taskVars
<1>6. handle' # "none" \/ UNCHANGED <<handle, view>>
  <2>1. CASE EmitEvent
    BY <2>1, <1>1 DEF EmitEvent, Emit, StreamInv
  <2>2. CASE ListPeers
    BY <2>2 DEF ListPeers, streamVars
  <2>3. CASE WatchPeers \/ SpawnWatch \/ StreamStep
    BY <2>3, <1>1 DEF WatchPeers, SpawnWatch, StreamStep, OpenReceiver, Spawn, FirstPoll, EmitReturns,
       DropFuture, Cancel, CancelReturns, CancelGivesUp, SourceEnds, hostVars
  <2>. QED BY <2>1, <2>2, <2>3 DEF HostStep
<1>. QED BY <1>1, <1>2, <1>5, <1>6 DEF PeersInv, nodeVars, taskVars, Silent, Nobody

LEMMA TickType ==
  ASSUME PeersInv, Tick
  PROVE  PeersInv'
<1>1. TypeOK /\ UNCHANGED <<life, up, wire, missed, sub, out, hostVars, faults, streamVars>>
  BY DEF PeersInv, Tick
<1>2. cache' \in [Nodes -> Entry]
  <2>1. ASSUME NEW p \in Nodes
        PROVE  cache[p] \in Entry /\ [cache[p] EXCEPT !.age = @ + 1] \in Entry
    <3>1. cache[p] \in Entry
      BY <1>1 DEF TypeOK
    <3>. QED BY <3>1 DEF Entry
  <2>. QED BY <2>1 DEF Tick
<1>3. /\ due' \in [Nodes -> BOOLEAN] /\ beatIn' \in [Nodes -> 1..Interval]
      /\ sweepDue' \in BOOLEAN /\ sweepIn' \in 1..Interval
  BY <1>1, PeersAssumption DEF Tick, Down, TypeOK
<1>4. TypeOK'
  BY <1>1, <1>2, <1>3 DEF TypeOK, StreamTypeOK, hostVars, streamVars
<1>5. StreamInv'
  BY <1>1, StillStream DEF PeersInv
<1>6. cache = [p \in Nodes |-> NoEntry] => cache' = [p \in Nodes |-> NoEntry]
  BY DEF Tick, NoEntry
<1>. QED BY <1>1, <1>4, <1>5, <1>6 DEF PeersInv, hostVars, streamVars, Silent, Nobody

LEMMA PeersStart == Init => PeersInv
<1>. SUFFICES ASSUME Init PROVE PeersInv
  OBVIOUS
<1>1. StreamInv
  BY StreamStart DEF Init
<1>2. /\ cache \in [Nodes -> Entry] /\ out \in [Nodes -> Kinds \cup {"none"}]
      /\ view \in [Nodes -> {"absent", "healthy", "degraded"}]
  BY DEF Init, NoEntry, Entry, Silent, Nobody
<1>3. /\ life \in [Nodes -> 0..Lives] /\ up \in [Nodes -> BOOLEAN]
      /\ due \in [Nodes -> BOOLEAN] /\ beatIn \in [Nodes -> 1..Interval]
      /\ missed \in [Nodes -> Nat] /\ sweepIn \in 1..Interval /\ faults \in 0..MaxFaults
  BY PeersAssumption DEF Init
<1>4. wire \in [Nodes -> [1..Lives -> Seq(Message)]]
  <2>1. <<>> \in Seq(Message)
    OBVIOUS
  <2>. QED BY <2>1 DEF Init
<1>5. TypeOK
  BY <1>1, <1>2, <1>3, <1>4 DEF Init, TypeOK, StreamInv
<1>. QED BY <1>1, <1>3, <1>5 DEF Init, PeersInv

LEMMA PeersStep ==
  ASSUME PeersInv, [Next]_vars
  PROVE  PeersInv'
<1>1. CASE UNCHANGED vars
  <2>1. UNCHANGED <<nodeVars, taskVars, hostVars, faults, streamVars>>
    BY <1>1 DEF vars
  <2>2. StreamInv'
    BY <2>1, StillStream DEF PeersInv
  <2>3. TypeOK'
    BY <2>1, <2>2 DEF PeersInv, TypeOK, StreamInv, nodeVars, taskVars, hostVars
  <2>. QED BY <2>1, <2>2, <2>3 DEF PeersInv, nodeVars, taskVars, hostVars, streamVars, Silent, Nobody
<1>. QED BY <1>1, NodeType, ArrivalType, TaskType, SendEventType, HostType, TickType DEF Next

\* Whatever the nodes, the network and the host do, the peer task's state and
\* the stream keep their types: the inbox never exceeds its capacity.
THEOREM PeersTypes == Spec => []TypeOK
  BY PeersStart, PeersStep, PTL DEF Spec, PeersInv

\* The same stream, in the composition that forwards peer events: a cancel
\* that did not give up leaves no callback behind.
THEOREM WatchCancelSafe == Spec => []NoCallbackAfterCancel
  BY PeersStart, PeersStep, StreamSafe, PTL DEF Spec, PeersInv

-----------------------------------------------------------------------------
(* Eviction.                                                               *)

\* Between two sweeps an entry grows no older than what the last one left, and
\* the time since.
AgeInv ==
  sub = "running" =>
    \A p \in Nodes : /\ cache[p].age <= Expiry + Interval
                     /\ ~sweepDue => cache[p].age <= Expiry + Interval - sweepIn

LEMMA AgeStart == Init => AgeInv
  BY DEF Init, AgeInv

LEMMA AgeStep ==
  ASSUME Prompt, PeersInv, AgeInv, [Next]_vars
  PROVE  AgeInv'
<1>1. /\ cache \in [Nodes -> Entry] /\ sweepDue \in BOOLEAN /\ sweepIn \in 1..Interval
      /\ wire \in [Nodes -> [1..Lives -> Seq(Message)]]
  BY DEF PeersInv, TypeOK
<1>2. CASE UNCHANGED <<sub, cache, sweepDue, sweepIn>>
  BY <1>2 DEF AgeInv
<1>3. CASE Connect
  <2>1. \A p \in Nodes : cache'[p].age = 0 /\ sweepDue' = TRUE
    BY <1>3 DEF Connect, PeersInv, NoEntry
  <2>. QED BY <2>1, PeersAssumption DEF AgeInv
<1>4. ASSUME NEW p \in Nodes, NEW i \in 1..Lives, Receive(p, i) PROVE AgeInv'
  <2>1. UNCHANGED <<sub, sweepDue, sweepIn>>
    BY <1>4 DEF Receive
  <2>2. \A q \in Nodes : cache'[q] = cache[q] \/ cache'[q].age = 0
    BY <1>1, <1>4 DEF Receive, Fold, NoEntry
  <2>3. 0 <= Expiry + Interval /\ 0 <= Expiry + Interval - sweepIn
    BY <1>1, PeersAssumption
  <2>. QED BY <2>1, <2>2, <2>3 DEF AgeInv
<1>5. CASE SubscriptionEnds
  BY <1>5 DEF SubscriptionEnds, AgeInv
<1>6. CASE Sweep
  <2>1. ASSUME NEW p \in Nodes PROVE cache'[p].age <= Expiry
    <3>1. cache[p] \in Entry /\ (Judge(cache[p]) # "absent" => cache[p].age <= Expiry)
      BY <1>1, JudgeKind
    <3>2. cache'[p] = IF Judge(cache[p]) = "absent" THEN NoEntry
                      ELSE [cache[p] EXCEPT !.health = Judge(cache[p])]
      BY <1>6 DEF Sweep
    <3>3. CASE Judge(cache[p]) = "absent"
      BY <3>2, <3>3, PeersAssumption DEF NoEntry
    <3>4. CASE Judge(cache[p]) # "absent"
      <4>1. cache'[p].age = cache[p].age
        BY <3>1, <3>2, <3>4 DEF Entry
      <4>. QED BY <3>1, <3>4, <4>1
    <3>. QED BY <3>3, <3>4
  <2>2. ASSUME NEW p \in Nodes PROVE cache'[p].age \in Nat
    BY <1>1, <1>6 DEF Sweep, NoEntry, Entry
  <2>3. sweepDue' = FALSE /\ sweepIn' = sweepIn
    BY <1>6 DEF Sweep
  <2>. QED BY <1>1, <2>1, <2>2, <2>3, PeersAssumption DEF AgeInv
<1>7. CASE Tick
  <2>1. sub = "running" => ~sweepDue
    BY <1>7 DEF Tick, Idle
  <2>2. ASSUME NEW p \in Nodes
        PROVE  cache[p].age \in Nat /\ (cache'[p].age = cache[p].age \/ cache'[p].age = cache[p].age + 1)
    BY <1>1, <1>7 DEF Tick, Entry
  <2>3. /\ sub' = sub /\ sweepDue' = (sweepDue \/ sweepIn = 1)
        /\ sweepIn' = IF sweepIn = 1 THEN Interval ELSE sweepIn - 1
    BY <1>7 DEF Tick, Down
  <2>4. SUFFICES ASSUME sub = "running", NEW p \in Nodes
                 PROVE  /\ cache'[p].age <= Expiry + Interval
                        /\ ~sweepDue' => cache'[p].age <= Expiry + Interval - sweepIn'
    BY <2>3 DEF AgeInv
  <2>5. cache[p].age <= Expiry + Interval - sweepIn
    BY <2>1, <2>4 DEF AgeInv
  <2>6. /\ cache[p].age \in Nat /\ sweepIn \in Nat /\ sweepIn >= 1 /\ Expiry + Interval \in Nat
        /\ cache'[p].age = cache[p].age \/ cache'[p].age = cache[p].age + 1
    <3>1. cache[p].age \in Nat /\ (cache'[p].age = cache[p].age \/ cache'[p].age = cache[p].age + 1)
      BY <2>2
    <3>2. sweepIn \in Nat /\ sweepIn >= 1 /\ Expiry + Interval \in Nat
      BY <1>1, PeersAssumption
    <3>. QED BY <3>1, <3>2
  <2>7. cache'[p].age <= Expiry + Interval /\ cache'[p].age <= Expiry + Interval - (sweepIn - 1)
    <3>1. CASE cache'[p].age = cache[p].age
      BY <2>5, <2>6, <3>1, PeersAssumption, SMT
    <3>2. CASE cache'[p].age = cache[p].age + 1
      BY <2>5, <2>6, <3>2, PeersAssumption, SMT
    <3>. QED BY <2>6, <3>1, <3>2, Zenon
  <2>8. ~sweepDue' => sweepIn' = sweepIn - 1
    BY <2>3
  <2>. QED BY <2>7, <2>8
<1>8. CASE \E p \in Nodes : NodeStep(p) \/ SendEvent(p)
  <2>1. UNCHANGED <<sub, cache, sweepDue, sweepIn>>
    BY <1>8 DEF NodeStep, Start, Beat, Leave, Die, SendEvent, taskVars
  <2>. QED BY <2>1, <1>2
<1>9. CASE HostStep \/ EmitEvent \/ StreamStep \/ UNCHANGED vars
  <2>1. UNCHANGED <<sub, cache, sweepDue, sweepIn>>
    BY <1>9 DEF HostStep, WatchPeers, SpawnWatch, ListPeers, EmitEvent, StreamStep, vars, taskVars
  <2>. QED BY <2>1, <1>2
<1>. QED BY <1>3, <1>4, <1>5, <1>6, <1>7, <1>8, <1>9 DEF Next, Arrival

LEMMA AgeSilent == PeersInv /\ AgeInv => SilentEvicted
  BY DEF AgeInv, SilentEvicted

\* On a runtime that takes every step that is due before time goes on, no peer
\* stays listed for longer than the expiry and one interval after its last
\* heartbeat, for any expiry above the interval and any number of nodes.
THEOREM SilentPeersGo == ASSUME Prompt PROVE Spec => []SilentEvicted
<1>1. Init => PeersInv /\ AgeInv
  BY PeersStart, AgeStart
<1>2. (PeersInv /\ AgeInv) /\ [Next]_vars => (PeersInv /\ AgeInv)'
  BY PeersStep, AgeStep
<1>. QED BY <1>1, <1>2, AgeSilent, PTL DEF Spec

-----------------------------------------------------------------------------
(* One lost heartbeat.                                                     *)

\* The peer runs, nothing of it is under way, and no more than one heartbeat
\* was lost: none before a beat that is due, one after it.
Forgiven(p) ==
  /\ up[p] /\ sub = "running" /\ \A i \in 1..Lives : wire[p][i] = <<>>
  /\ missed[p] = 0 \/ (missed[p] = 1 /\ ~due[p])

\* The age such a peer's entry has when its next beat comes.
Allowance(p) == IF due[p] \/ missed[p] = 1 THEN 2 * Interval ELSE Interval

Fresh(p) ==
  Forgiven(p) /\ cache[p].health # "absent" =>
    cache[p].health = "healthy" /\ cache[p].age + beatIn[p] <= Allowance(p)
BeatInv ==
  \A p \in Nodes : /\ up[p] /\ due[p] => beatIn[p] = Interval
                   /\ Fresh(p)

LEMMA BeatStart == Init => BeatInv
  BY DEF Init, BeatInv, Fresh, Forgiven

\* A step that leaves a peer's messages and entry alone keeps its age in
\* bounds.
LEMMA StillFresh ==
  ASSUME BeatInv, NEW p \in Nodes, up'[p] = up[p], due'[p] = due[p], beatIn'[p] = beatIn[p],
         wire'[p] = wire[p], missed'[p] = missed[p], cache'[p] = cache[p],
         sub' = "running" => sub = "running"
  PROVE  (up'[p] /\ due'[p] => beatIn'[p] = Interval) /\ Fresh(p)'
  BY DEF BeatInv, Fresh, Forgiven, Allowance

\* A message sent is under way; one that is lost is counted.
LEMMA SendsFresh ==
  ASSUME PeersInv, NEW p \in Nodes, NEW i \in 1..Lives, NEW l \in BOOLEAN, Sends(p, i, l), UNCHANGED sub
  PROVE  /\ \A q \in Nodes : q # p => wire'[q] = wire[q] /\ missed'[q] = missed[q]
         /\ sub = "running" => \/ wire'[p][i] # <<>>
                               \/ wire'[p] = wire[p] /\ missed'[p] = missed[p] + 1
<1>1. /\ wire \in [Nodes -> [1..Lives -> Seq(Message)]] /\ missed \in [Nodes -> Nat]
      /\ wire[p] \in [1..Lives -> Seq(Message)] /\ wire[p][i] \in Seq(Message)
  BY DEF PeersInv, TypeOK
<1>2. CASE wire' = [wire EXCEPT ![p][i] = Append(@, [leaving |-> l, old |-> OldLife[p][i]])]
           /\ missed' = [missed EXCEPT ![p] = 0]
  <2>1. [leaving |-> l, old |-> OldLife[p][i]] \in Message
    BY PeersAssumption DEF Message
  <2>2. \A m \in Message : Append(wire[p][i], m) # <<>>
    BY <1>1
  <2>3. wire'[p][i] = Append(wire[p][i], [leaving |-> l, old |-> OldLife[p][i]])
    BY <1>1, <1>2
  <2>4. wire'[p][i] # <<>>
    BY <2>1, <2>2, <2>3, Zenon
  <2>. QED BY <1>1, <1>2, <2>4
<1>3. CASE sub # "running" /\ UNCHANGED <<wire, missed>>
  BY <1>3
<1>4. CASE missed' = [missed EXCEPT ![p] = @ + 1] /\ UNCHANGED wire
  BY <1>1, <1>4
<1>. QED BY <1>2, <1>3, <1>4 DEF Sends

LEMMA NodeBeat ==
  ASSUME PeersInv, BeatInv, NEW p \in Nodes, NodeStep(p)
  PROVE  BeatInv'
<1>1. /\ up \in [Nodes -> BOOLEAN] /\ due \in [Nodes -> BOOLEAN] /\ beatIn \in [Nodes -> 1..Interval]
      /\ life \in [Nodes -> 0..Lives] /\ missed \in [Nodes -> Nat] /\ missed[p] \in Nat
      /\ wire \in [Nodes -> [1..Lives -> Seq(Message)]] /\ cache \in [Nodes -> Entry]
  BY DEF PeersInv, TypeOK
<1>2. UNCHANGED <<sub, cache>>
  BY DEF NodeStep, Start, Beat, Leave, Die, taskVars
<1>3. \A q \in Nodes : q # p => /\ up'[q] = up[q] /\ due'[q] = due[q] /\ beatIn'[q] = beatIn[q]
  BY <1>1 DEF NodeStep, Start, Beat, Leave, Die, Stops
<1>4. CASE Start(p)
  <2>1. life[p] + 1 \in 1..Lives
    BY <1>1, <1>4, PeersAssumption DEF Start
  <2>2. /\ \A q \in Nodes : q # p => wire'[q] = wire[q] /\ missed'[q] = missed[q]
        /\ sub = "running" => \/ wire'[p][life[p] + 1] # <<>>
                              \/ wire'[p] = wire[p] /\ missed'[p] = missed[p] + 1
    BY <1>2, <1>4, <2>1, SendsFresh DEF Start
  <2>3. due'[p] = TRUE /\ beatIn'[p] = Interval
    BY <1>1, <1>4 DEF Start
  <2>4. missed[p] + 1 # 0
    BY <1>1
  <2>5. ~Forgiven(p)'
    BY <1>2, <2>1, <2>2, <2>3, <2>4 DEF Forgiven
  <2>6. \A q \in Nodes : q # p => (up'[q] /\ due'[q] => beatIn'[q] = Interval) /\ Fresh(q)'
    BY <1>2, <1>3, <2>2, StillFresh
  <2>. QED BY <2>3, <2>5, <2>6 DEF BeatInv, Fresh
<1>5. CASE Beat(p)
  <2>1. life[p] \in 1..Lives /\ up[p] /\ due[p]
    BY <1>1, <1>5 DEF Beat, PeersInv
  <2>2. /\ \A q \in Nodes : q # p => wire'[q] = wire[q] /\ missed'[q] = missed[q]
        /\ sub = "running" => \/ wire'[p][life[p]] # <<>>
                              \/ wire'[p] = wire[p] /\ missed'[p] = missed[p] + 1
    BY <1>2, <1>5, <2>1, SendsFresh DEF Beat
  <2>3. due'[p] = FALSE /\ beatIn'[p] = beatIn[p] /\ up'[p] = up[p]
    BY <1>1, <1>5 DEF Beat
  <2>4. ASSUME Forgiven(p)', cache'[p].health # "absent"
        PROVE  cache'[p].health = "healthy" /\ cache'[p].age + beatIn'[p] <= Allowance(p)'
    <3>1. sub = "running" /\ wire'[p] = wire[p] /\ missed'[p] = missed[p] + 1
      BY <1>2, <2>1, <2>2, <2>4 DEF Forgiven
    <3>2. missed[p] = 0 /\ missed'[p] = 1
      BY <1>1, <2>4, <3>1 DEF Forgiven
    <3>3. Forgiven(p)
      BY <2>1, <2>4, <3>1, <3>2 DEF Forgiven
    <3>4. cache[p].health = "healthy" /\ cache[p].age + beatIn[p] <= 2 * Interval
      BY <1>2, <2>1, <2>4, <3>3 DEF BeatInv, Fresh, Allowance
    <3>. QED BY <1>2, <2>3, <3>2, <3>4 DEF Allowance
  <2>5. \A q \in Nodes : q # p => (up'[q] /\ due'[q] => beatIn'[q] = Interval) /\ Fresh(q)'
    BY <1>2, <1>3, <2>2, StillFresh
  <2>. QED BY <2>3, <2>4, <2>5 DEF BeatInv, Fresh
<1>6. CASE Leave(p) \/ Die(p)
  <2>1. up'[p] = FALSE
    BY <1>1, <1>6 DEF Leave, Die, Stops
  <2>2. \A q \in Nodes : q # p => wire'[q] = wire[q] /\ missed'[q] = missed[q]
    <3>1. CASE Leave(p)
      <4>1. life[p] \in 1..Lives
        BY <1>1, <3>1 DEF Leave, PeersInv
      <4>. QED BY <1>2, <3>1, <4>1, SendsFresh DEF Leave
    <3>2. CASE Die(p)
      BY <1>1, <3>2 DEF Die
    <3>. QED BY <1>6, <3>1, <3>2
  <2>3. \A q \in Nodes : q # p => (up'[q] /\ due'[q] => beatIn'[q] = Interval) /\ Fresh(q)'
    BY <1>2, <1>3, <2>2, StillFresh
  <2>. QED BY <2>1, <2>3 DEF BeatInv, Fresh, Forgiven
<1>. QED BY <1>4, <1>5, <1>6 DEF NodeStep

LEMMA ArrivalBeat ==
  ASSUME PeersInv, BeatInv, NEW p \in Nodes, NEW i \in 1..Lives, Receive(p, i)
  PROVE  BeatInv'
<1>1. /\ cache \in [Nodes -> Entry] /\ wire \in [Nodes -> [1..Lives -> Seq(Message)]]
      /\ beatIn[p] \in 1..Interval
      /\ UNCHANGED <<up, due, beatIn, missed, sub>>
  BY DEF PeersInv, TypeOK, Receive
<1>2. \A q \in Nodes : q # p => cache'[q] = cache[q] /\ wire'[q] = wire[q]
  BY <1>1 DEF Receive, Fold
<1>3. \A q \in Nodes : q # p => (up'[q] /\ due'[q] => beatIn'[q] = Interval) /\ Fresh(q)'
  BY <1>1, <1>2, StillFresh
<1>4. cache'[p].health = "absent" \/ (cache'[p].health = "healthy" /\ cache'[p].age = 0)
  BY <1>1 DEF Receive, Fold, NoEntry
<1>5. 0 + beatIn'[p] <= Allowance(p)'
  BY <1>1, PeersAssumption DEF Allowance
<1>6. Fresh(p)'
  BY <1>4, <1>5 DEF Fresh
<1>. QED BY <1>1, <1>3, <1>6 DEF BeatInv

LEMMA SweepBeat ==
  ASSUME PeersInv, BeatInv, Sweep
  PROVE  BeatInv'
<1>1. cache \in [Nodes -> Entry] /\ beatIn \in [Nodes -> 1..Interval] /\ UNCHANGED <<nodeVars, sub>>
  BY DEF PeersInv, TypeOK, Sweep
<1>2. UNCHANGED <<up, due, beatIn, missed, wire>>
  BY <1>1 DEF nodeVars
<1>3. ASSUME NEW p \in Nodes, Forgiven(p)', cache'[p].health # "absent"
      PROVE  cache'[p].health = "healthy" /\ cache'[p].age + beatIn'[p] <= Allowance(p)'
  <2>1. cache[p] \in Entry /\ Judge(cache[p]) \in {"absent", "healthy", "degraded"}
        /\ (Judge(cache[p]) # "absent" => cache[p].health # "absent")
    BY <1>1, JudgeKind
  <2>2. cache'[p] = IF Judge(cache[p]) = "absent" THEN NoEntry
                    ELSE [cache[p] EXCEPT !.health = Judge(cache[p])]
    BY DEF Sweep
  <2>3. Judge(cache[p]) # "absent"
    BY <1>3, <2>2 DEF NoEntry
  <2>4. cache'[p].health = Judge(cache[p]) /\ cache'[p].age = cache[p].age
    BY <2>1, <2>2, <2>3 DEF Entry
  <2>5. Forgiven(p)
    BY <1>1, <1>2, <1>3 DEF Forgiven
  <2>6. cache[p].health = "healthy" /\ cache[p].age + beatIn[p] <= Allowance(p)
    BY <2>1, <2>3, <2>5 DEF BeatInv, Fresh
  <2>7. cache[p].age <= 2 * Interval
    <3>1. cache[p].age \in Nat /\ beatIn[p] \in Nat /\ Allowance(p) \in Nat /\ Allowance(p) <= 2 * Interval
      BY <1>1, <2>1, PeersAssumption DEF Entry, Allowance
    <3>. QED BY <2>6, <3>1, PeersAssumption
  <2>8. Judge(cache[p]) # "degraded"
    <3>1. cache[p].age \in Nat /\ 2 * Interval \in Nat
      BY <2>1, PeersAssumption DEF Entry
    <3>2. ~(cache[p].age > DegradedAfter)
      BY <2>7, <3>1 DEF DegradedAfter
    <3>. QED BY <3>2 DEF Judge
  <2>. QED BY <1>2, <2>1, <2>3, <2>4, <2>6, <2>8 DEF Allowance
<1>. QED BY <1>2, <1>3 DEF BeatInv, Fresh

LEMMA TickBeat ==
  ASSUME Prompt, PeersInv, BeatInv, Tick
  PROVE  BeatInv'
<1>1. /\ cache \in [Nodes -> Entry] /\ beatIn \in [Nodes -> 1..Interval] /\ due \in [Nodes -> BOOLEAN]
      /\ UNCHANGED <<up, wire, missed, sub>>
  BY DEF PeersInv, TypeOK, Tick
<1>2. ASSUME NEW p \in Nodes, up[p]
      PROVE  /\ ~due[p] /\ beatIn'[p] = Down(beatIn[p]) /\ (due'[p] <=> beatIn[p] = 1)
             /\ beatIn[p] \in Nat /\ beatIn[p] >= 1
  <2>1. ~due[p]
    BY <1>2 DEF Tick, Idle
  <2>2. beatIn'[p] = Down(beatIn[p]) /\ due'[p] = (due[p] \/ (up[p] /\ beatIn[p] = 1))
    BY <1>2 DEF Tick
  <2>3. due'[p] <=> beatIn[p] = 1
    BY <1>2, <2>1, <2>2, Zenon
  <2>4. beatIn[p] \in Nat /\ beatIn[p] >= 1
    BY <1>1, PeersAssumption
  <2>. QED BY <2>1, <2>2, <2>3, <2>4
<1>3. ASSUME NEW p \in Nodes, up'[p], due'[p] PROVE beatIn'[p] = Interval
  BY <1>1, <1>2, <1>3 DEF Down
<1>4. ASSUME NEW p \in Nodes, Forgiven(p)', cache'[p].health # "absent"
      PROVE  cache'[p].health = "healthy" /\ cache'[p].age + beatIn'[p] <= Allowance(p)'
  <2>1. up[p] /\ ~due[p] /\ Forgiven(p)
    BY <1>1, <1>2, <1>4 DEF Forgiven
  <2>2. cache[p] \in Entry /\ cache[p].age \in Nat
    BY <1>1 DEF Entry
  <2>3. /\ cache'[p].health = cache[p].health
        /\ cache'[p].age = cache[p].age \/ cache'[p].age = cache[p].age + 1
    BY <2>2 DEF Tick, Entry
  <2>4. cache[p].health = "healthy" /\ cache[p].age + beatIn[p] <= Allowance(p)
    BY <1>4, <2>1, <2>3 DEF BeatInv, Fresh
  <2>5. cache'[p].age + beatIn'[p] <= Allowance(p)'
    <3>1. cache'[p].age \in Nat /\ cache'[p].age <= cache[p].age + 1
      BY <2>2, <2>3
    <3>2. CASE beatIn[p] = 1
      <4>1. missed[p] = 0 /\ due'[p] /\ beatIn'[p] = Interval
        BY <1>1, <1>2, <1>4, <2>1, <3>2 DEF Forgiven, Down
      <4>2. Allowance(p) = Interval /\ Allowance(p)' = 2 * Interval
        BY <1>1, <2>1, <4>1 DEF Allowance
      <4>3. cache[p].age + 1 <= Interval
        BY <2>4, <3>2, <4>2
      <4>. QED BY <2>2, <3>1, <4>1, <4>2, <4>3, PeersAssumption
    <3>3. CASE beatIn[p] # 1
      <4>1. beatIn'[p] = beatIn[p] - 1 /\ ~due'[p]
        BY <1>2, <2>1, <3>3 DEF Down
      <4>2. Allowance(p)' = Allowance(p) /\ Allowance(p) \in Nat
        BY <1>1, <2>1, <4>1, PeersAssumption DEF Allowance
      <4>3. cache'[p].age + (beatIn[p] - 1) <= cache[p].age + beatIn[p]
        BY <1>2, <2>1, <2>2, <3>1
      <4>. QED BY <1>2, <2>1, <2>2, <2>4, <3>1, <4>1, <4>2, <4>3
    <3>. QED BY <3>2, <3>3
  <2>. QED BY <2>3, <2>4, <2>5
<1>. QED BY <1>3, <1>4 DEF BeatInv, Fresh

LEMMA BeatStep ==
  ASSUME Prompt, PeersInv, BeatInv, [Next]_vars
  PROVE  BeatInv'
<1>1. CASE Connect
  <2>1. UNCHANGED <<cache, up, due, beatIn>> /\ \A p \in Nodes : cache[p].health = "absent"
    BY <1>1 DEF Connect, PeersInv, NoEntry, nodeVars
  <2>. QED BY <2>1 DEF BeatInv, Fresh
<1>2. CASE SubscriptionEnds \/ HostStep \/ EmitEvent \/ StreamStep \/ (\E p \in Nodes : SendEvent(p))
           \/ UNCHANGED vars
  <2>1. UNCHANGED <<up, due, beatIn, wire, missed, cache>> /\ (sub' = "running" => sub = "running")
    BY <1>2 DEF SubscriptionEnds, HostStep, WatchPeers, SpawnWatch, ListPeers, EmitEvent, StreamStep, SendEvent,
       vars, nodeVars, taskVars
  <2>. QED BY <2>1, StillFresh DEF BeatInv
<1>. QED BY <1>1, <1>2, NodeBeat, ArrivalBeat, SweepBeat, TickBeat DEF Next, Arrival

LEMMA BeatForgives == PeersInv /\ BeatInv => OneLossForgiven
<1>. SUFFICES ASSUME PeersInv, BeatInv, NEW p \in Nodes,
                     up[p], ~due[p], missed[p] <= 1, sub = "running", \A i \in 1..Lives : wire[p][i] = <<>>
              PROVE  cache[p].health # "degraded"
  BY DEF OneLossForgiven
<1>1. missed[p] = 0 \/ missed[p] = 1
  BY DEF PeersInv, TypeOK
<1>. QED BY <1>1 DEF BeatInv, Fresh, Forgiven

\* For any interval and expiry, and however the sweep falls between the beats,
\* a peer that has lost a single heartbeat is never marked degraded: its entry
\* cannot be older than the two intervals the sweep allows.
THEOREM OneLossIsForgiven == ASSUME Prompt PROVE Spec => []OneLossForgiven
<1>1. Init => PeersInv /\ BeatInv
  BY PeersStart, BeatStart
<1>2. (PeersInv /\ BeatInv) /\ [Next]_vars => (PeersInv /\ BeatInv)'
  BY PeersStep, BeatStep
<1>. QED BY <1>1, <1>2, BeatForgives, PTL DEF Spec

-----------------------------------------------------------------------------
(* What a watcher will know.                                               *)

\* An event to be sent tells the cache as it is.
EventInv == \A p \in Nodes : out[p] # "none" => Effect(out[p]) = cache[p].health

\* So does the last unread event of a peer, once no other is to be sent.
LastTells(p) ==
  \A i \in 1..Len(inbox) : Latest(p, i) => Effect(inbox[i].kind) = cache[p].health
InboxInv == Receiving => \A p \in Nodes : out[p] = "none" => LastTells(p)

\* And so does the host's view, once it has read them all.
ViewInv ==
  Watching /\ synced => \A p \in Nodes : out[p] = "none" /\ Unread(p) = {} => view[p] = cache[p].health

WatchInv == EventInv /\ InboxInv /\ ViewInv

LEMMA WatchSees == WatchInv => WatcherSeesCache
  BY DEF WatchInv, EventInv, InboxInv, ViewInv, WatcherSeesCache, LastTells, Watching, Receiving

\* Reading the oldest item keeps which unread event of a peer is its last.
LEMMA TailUnread ==
  ASSUME StreamInv, inbox # <<>>, inbox' = Tail(inbox), NEW p \in Nodes
  PROVE  /\ \A i \in 1..Len(inbox') : i + 1 \in 1..Len(inbox) /\ inbox'[i] = inbox[i + 1]
         /\ \A i \in 1..Len(inbox') : Latest(p, i)' => Latest(p, i + 1)
         /\ Unread(p)' = {} => \A i \in Unread(p) : i = 1
<1>1. /\ inbox \in Seq(Items) /\ Len(inbox) \in Nat /\ Len(inbox') = Len(inbox) - 1
      /\ \A i \in 1..Len(inbox') : inbox'[i] = inbox[i + 1]
  BY SeqFacts DEF StreamInv, StreamTypeOK
<1>2. \A i \in 1..Len(inbox') : i + 1 \in 1..Len(inbox) /\ inbox'[i] = inbox[i + 1]
  BY <1>1
<1>3. \A j \in Unread(p) : j \in 1..Len(inbox) /\ (j = 1 \/ j - 1 \in Unread(p)')
  BY <1>1 DEF Unread
<1>4. \A i \in 1..Len(inbox') : Latest(p, i)' => Latest(p, i + 1)
  BY <1>1, <1>2, <1>3 DEF Latest, Unread
<1>. QED BY <1>2, <1>3, <1>4

\* An item sent is the last unread one of its peer, and changes no other's.
LEMMA AppendUnread ==
  ASSUME StreamInv, NEW e \in Items, inbox' = Append(inbox, e), NEW p \in Nodes
  PROVE  /\ e.node # p => /\ Unread(p)' = Unread(p)
                          /\ \A i \in 1..Len(inbox') : Latest(p, i)' => Latest(p, i) /\ inbox'[i] = inbox[i]
         /\ e.node = p => /\ Unread(p)' # {}
                          /\ \A i \in 1..Len(inbox') : Latest(p, i)' => inbox'[i] = e
<1>1. /\ inbox \in Seq(Items) /\ Len(inbox) \in Nat /\ Len(inbox') = Len(inbox) + 1
      /\ inbox'[Len(inbox) + 1] = e /\ \A i \in 1..Len(inbox) : inbox'[i] = inbox[i]
  BY SeqFacts DEF StreamInv, StreamTypeOK
<1>2. CASE e.node # p
  <2>1. Unread(p)' = Unread(p)
    BY <1>1, <1>2 DEF Unread
  <2>. QED BY <1>1, <1>2, <2>1 DEF Latest, Unread
<1>3. CASE e.node = p
  <2>1. Len(inbox) + 1 \in Unread(p)'
    BY <1>1, <1>3 DEF Unread
  <2>2. \A i \in 1..Len(inbox') : Latest(p, i)' => i = Len(inbox) + 1
    BY <1>1, <2>1 DEF Latest, Unread
  <2>. QED BY <1>1, <1>3, <2>1, <2>2
<1>. QED BY <1>2, <1>3

\* A step that leaves the events, the healths and the stream alone.
LEMMA StillWatch ==
  ASSUME WatchInv, UNCHANGED <<out, inbox, view, synced, handle, task>>,
         \A p \in Nodes : cache'[p].health = cache[p].health
  PROVE  WatchInv'
<1>1. \A p \in Nodes : Unread(p)' = Unread(p) /\ \A i : Latest(p, i)' <=> Latest(p, i)
  BY DEF Unread, Latest
<1>2. EventInv'
  BY DEF WatchInv, EventInv, Effect
<1>3. InboxInv'
  BY <1>1 DEF WatchInv, InboxInv, LastTells, Receiving, Effect
<1>4. ViewInv'
  BY <1>1 DEF WatchInv, ViewInv, Watching
<1>. QED BY <1>2, <1>3, <1>4 DEF WatchInv

\* A change of the cache: the events it computes tell what changed.
LEMMA ChangeWatch ==
  ASSUME WatchInv, UNCHANGED <<hostVars, streamVars>>, out = Silent,
         \A p \in Nodes : out'[p] # "none" => Effect(out'[p]) = cache'[p].health,
         \A p \in Nodes : out'[p] = "none" => cache'[p].health = cache[p].health
  PROVE  WatchInv'
<1>1. \A p \in Nodes : Unread(p)' = Unread(p) /\ \A i : Latest(p, i)' <=> Latest(p, i)
  BY DEF Unread, Latest, streamVars
<1>2. EventInv'
  BY DEF EventInv, Effect
<1>3. UNCHANGED <<inbox, view, synced, handle, task>> /\ \A p \in Nodes : out[p] = "none"
  BY DEF hostVars, streamVars, Silent
<1>4. InboxInv'
  BY <1>1, <1>3 DEF WatchInv, InboxInv, LastTells, Receiving, Effect
<1>5. ViewInv'
  BY <1>1, <1>3 DEF WatchInv, ViewInv, Watching
<1>. QED BY <1>2, <1>4, <1>5 DEF WatchInv

LEMMA ReceiveWatch ==
  ASSUME PeersInv, WatchInv, NEW p \in Nodes, NEW i \in 1..Lives, Receive(p, i)
  PROVE  WatchInv'
<1>1. /\ cache \in [Nodes -> Entry] /\ out \in [Nodes -> Kinds \cup {"none"}]
      /\ out = Silent /\ UNCHANGED <<hostVars, streamVars>>
  BY DEF PeersInv, TypeOK, Receive
<1>. DEFINE m == Head(wire[p][i])
<1>2. Fold(p, m) /\ cache[p] \in Entry /\ \A q \in Nodes : out[q] = "none"
  BY <1>1 DEF Receive, Silent
<1>. HIDE DEF m
<1>3. \A q \in Nodes : q # p => cache'[q] = cache[q] /\ out'[q] = "none"
  BY <1>1, <1>2 DEF Fold
<1>4. /\ out'[p] # "none" => Effect(out'[p]) = cache'[p].health
      /\ out'[p] = "none" => cache'[p].health = cache[p].health
  <2>1. CASE m.leaving /\ cache' = [cache EXCEPT ![p] = NoEntry]
             /\ out' = [out EXCEPT ![p] = IF cache[p].health = "absent" THEN "none" ELSE "left"]
    BY <1>1, <2>1 DEF Effect, NoEntry
  <2>2. CASE ~m.leaving
    <3>1. cache'[p].health = "healthy"
      BY <1>1, <1>2, <2>2 DEF Fold
    <3>2. out'[p] = CASE cache[p].health = "absent" -> "joined"
                      [] cache[p].health = "degraded" -> "healthy"
                      [] OTHER -> "none"
      BY <1>1, <1>2, <2>2 DEF Fold
    <3>3. cache[p].health \in {"absent", "healthy", "degraded"}
      BY <1>2 DEF Entry
    <3>. QED BY <3>1, <3>2, <3>3 DEF Effect
  <2>. QED BY <1>2, <2>1, <2>2 DEF Fold
<1>. QED BY <1>1, <1>3, <1>4, ChangeWatch

LEMMA SweepWatch ==
  ASSUME PeersInv, WatchInv, Sweep
  PROVE  WatchInv'
<1>1. cache \in [Nodes -> Entry] /\ out = Silent /\ UNCHANGED <<hostVars, streamVars>>
  BY DEF PeersInv, TypeOK, Sweep
<1>2. ASSUME NEW p \in Nodes
      PROVE  /\ out'[p] # "none" => Effect(out'[p]) = cache'[p].health
             /\ out'[p] = "none" => cache'[p].health = cache[p].health
  <2>1. cache[p] \in Entry /\ Judge(cache[p]) \in {"absent", "healthy", "degraded"}
    BY <1>1, JudgeKind
  <2>2. cache'[p].health = Judge(cache[p])
    BY <2>1 DEF Sweep, NoEntry, Entry
  <2>3. out'[p] = CASE Judge(cache[p]) = cache[p].health -> "none"
                    [] Judge(cache[p]) # cache[p].health /\ Judge(cache[p]) = "absent" -> "left"
                    [] OTHER -> Judge(cache[p])
    BY DEF Sweep
  <2>. HIDE DEF Judge
  <2>. QED BY <2>1, <2>2, <2>3 DEF Effect
<1>. QED BY <1>1, <1>2, ChangeWatch

LEMMA SendEventWatch ==
  ASSUME PeersInv, WatchInv, NEW p \in Nodes, SendEvent(p)
  PROVE  WatchInv'
<1>. DEFINE e == [node |-> p, kind |-> out[p]]
<1>1. /\ StreamInv /\ out \in [Nodes -> Kinds \cup {"none"}]
      /\ UNCHANGED <<cache, view, handle, task>>
  BY DEF PeersInv, TypeOK, SendEvent
<1>2. /\ out[p] \in Kinds /\ out'[p] = "none" /\ \A q \in Nodes : q # p => out'[q] = out[q]
      /\ Effect(out[p]) = cache[p].health
  BY <1>1 DEF SendEvent, WatchInv, EventInv
<1>3. e \in Items /\ e.node = p /\ e.kind = out[p] /\ Post(e) /\ (synced' <=> synced /\ ~Overflows)
  BY <1>2, PeersAssumption DEF Kinds, SendEvent
<1>. HIDE DEF e
<1>4. EventInv'
  BY <1>1, <1>2 DEF WatchInv, EventInv, Effect
<1>5. CASE ~Receiving
  <2>1. ~Receiving' /\ ~Watching'
    BY <1>1, <1>5 DEF Receiving, Watching
  <2>. QED BY <1>4, <2>1 DEF WatchInv, InboxInv, ViewInv
<1>6. CASE Receiving /\ ~Overflows /\ inbox' = Append(inbox, e)
  <2>1. \A q \in Nodes :
          /\ q # p => /\ Unread(q)' = Unread(q)
                      /\ \A i \in 1..Len(inbox') : Latest(q, i)' => Latest(q, i) /\ inbox'[i] = inbox[i]
          /\ q = p => /\ Unread(q)' # {}
                      /\ \A i \in 1..Len(inbox') : Latest(q, i)' => inbox'[i] = e
    BY <1>1, <1>3, <1>6, AppendUnread
  <2>2. ASSUME NEW q \in Nodes, out'[q] = "none" PROVE LastTells(q)'
    <3>1. CASE q = p
      BY <1>1, <1>2, <1>3, <2>1, <3>1 DEF LastTells, Effect
    <3>2. CASE q # p
      <4>1. LastTells(q)
        BY <1>2, <1>6, <2>2, <3>2 DEF WatchInv, InboxInv
      <4>2. \A i \in 1..Len(inbox') : Latest(q, i)' => i \in 1..Len(inbox)
        BY <2>1, <3>2 DEF Latest, Unread
      <4>. QED BY <1>1, <2>1, <3>2, <4>1, <4>2 DEF LastTells, Effect
    <3>. QED BY <3>1, <3>2
  <2>3. ViewInv'
    BY <1>1, <1>2, <1>3, <2>1 DEF WatchInv, ViewInv, Watching
  <2>. QED BY <1>4, <2>2, <2>3 DEF WatchInv, InboxInv
<1>7. CASE Overflows /\ inbox' = Append(Tail(inbox), e)
  <2>1. ~synced'
    BY <1>3, <1>7
  <2>2. inbox \in Seq(Items) /\ Len(inbox) \in Nat /\ inbox # <<>>
    BY <1>1, <1>7, SeqFacts, CapacityAssumption DEF Overflows, StreamInv, StreamTypeOK
  <2>3. /\ Tail(inbox) \in Seq(Items) /\ Len(Tail(inbox)) = Len(inbox) - 1
        /\ \A i \in 1..Len(Tail(inbox)) : Tail(inbox)[i] = inbox[i + 1]
    BY <2>2, SeqFacts
  <2>4. /\ Len(inbox') = Len(inbox) /\ inbox'[Len(inbox)] = e
        /\ \A i \in 1..Len(inbox) : i # Len(inbox) => inbox'[i] = inbox[i + 1]
    <3>1. /\ Len(inbox') = Len(Tail(inbox)) + 1 /\ inbox'[Len(Tail(inbox)) + 1] = e
          /\ \A i \in 1..Len(Tail(inbox)) : inbox'[i] = Tail(inbox)[i]
      BY <1>3, <1>7, <2>3, SeqFacts
    <3>2. Len(Tail(inbox)) + 1 = Len(inbox)
      BY <2>2, <2>3
    <3>3. \A i \in 1..Len(inbox) : i # Len(inbox) => i \in 1..Len(Tail(inbox))
      <4>1. \A n \in Nat : \A i \in 1..n : i # n => i \in 1..(n - 1)
        OBVIOUS
      <4>. QED BY <2>2, <2>3, <4>1, Zenon
    <3>4. Len(inbox') = Len(inbox) /\ inbox'[Len(inbox)] = e
      BY <3>1, <3>2, Zenon
    <3>5. \A i \in 1..Len(inbox) : i # Len(inbox) => inbox'[i] = inbox[i + 1]
      BY <2>3, <3>1, <3>3, Zenon
    <3>. QED BY <3>4, <3>5
  <2>5. Len(inbox) >= 1
    BY <2>2
  <2>6. ASSUME NEW q \in Nodes, out'[q] = "none" PROVE LastTells(q)'
    <3>1. CASE q = p
      <4>1. Len(inbox) \in Unread(q)'
        BY <1>3, <2>2, <2>4, <2>5, <3>1 DEF Unread
      <4>2. \A i \in 1..Len(inbox') : Latest(q, i)' => inbox'[i] = e
        BY <2>2, <2>4, <4>1 DEF Latest, Unread
      <4>. QED BY <1>1, <1>2, <1>3, <3>1, <4>2 DEF LastTells, Effect
    <3>2. CASE q # p
      <4>1. LastTells(q)
        BY <1>2, <1>7, <2>6, <3>2 DEF WatchInv, InboxInv, Overflows
      <4>2. ASSUME NEW i \in 1..Len(inbox'), Latest(q, i)'
            PROVE  i + 1 \in 1..Len(inbox) /\ inbox'[i] = inbox[i + 1] /\ Latest(q, i + 1)
        <5>1. i # Len(inbox) /\ inbox'[i].node = q
          BY <1>3, <2>4, <3>2, <4>2 DEF Latest, Unread
        <5>2. i + 1 \in 1..Len(inbox) /\ inbox'[i] = inbox[i + 1]
          BY <2>2, <2>4, <5>1
        <5>3. \A j \in Unread(q) : j \in 1..Len(inbox) /\ (j = 1 \/ j - 1 \in Unread(q)')
          BY <2>2, <2>4 DEF Unread
        <5>. QED BY <2>2, <2>4, <4>2, <5>1, <5>2, <5>3 DEF Latest, Unread
      <4>. QED BY <1>1, <4>1, <4>2 DEF LastTells, Effect
    <3>. QED BY <3>1, <3>2
  <2>. QED BY <1>4, <2>1, <2>6 DEF WatchInv, InboxInv, ViewInv
<1>. QED BY <1>3, <1>5, <1>6, <1>7 DEF Post

LEMMA EmitEventWatch ==
  ASSUME PeersInv, WatchInv, EmitEvent
  PROVE  WatchInv'
<1>1. /\ StreamInv /\ view \in [Nodes -> {"absent", "healthy", "degraded"}]
      /\ inbox # <<>> /\ inbox' = Tail(inbox) /\ UNCHANGED <<cache, out, handle, synced>>
      /\ task = "waiting" /\ task' = "emitting"
      /\ view' = [view EXCEPT ![Head(inbox).node] = Effect(Head(inbox).kind)]
  BY DEF PeersInv, TypeOK, EmitEvent, Emit, taskVars
<1>2. \A q \in Nodes :
        /\ \A i \in 1..Len(inbox') : i + 1 \in 1..Len(inbox) /\ inbox'[i] = inbox[i + 1]
        /\ \A i \in 1..Len(inbox') : Latest(q, i)' => Latest(q, i + 1)
        /\ Unread(q)' = {} => \A i \in Unread(q) : i = 1
  BY <1>1, TailUnread
<1>3. EventInv'
  BY <1>1 DEF WatchInv, EventInv, Effect
<1>4. InboxInv'
  BY <1>1, <1>2 DEF WatchInv, InboxInv, LastTells, Receiving, Effect
<1>5. ViewInv'
  <2>1. SUFFICES ASSUME Watching', synced', NEW q \in Nodes, out'[q] = "none", Unread(q)' = {}
                 PROVE  view'[q] = cache'[q].health
    BY DEF ViewInv
  <2>2. Watching /\ synced /\ Receiving /\ out[q] = "none" /\ LastTells(q)
    BY <1>1, <2>1 DEF Watching, Receiving, WatchInv, InboxInv
  <2>3. Head(inbox) = inbox[1] /\ Len(inbox) >= 1 /\ Len(inbox) \in Nat
    BY <1>1, SeqFacts DEF StreamInv, StreamTypeOK
  <2>4. CASE inbox[1].node = q
    <3>1. Latest(q, 1) /\ 1 \in 1..Len(inbox)
      BY <1>2, <2>1, <2>3, <2>4 DEF Latest, Unread
    <3>2. Effect(inbox[1].kind) = cache[q].health
      BY <2>2, <3>1 DEF LastTells
    <3>3. view'[q] = Effect(inbox[1].kind)
      BY <1>1, <2>3, <2>4
    <3>. QED BY <1>1, <3>2, <3>3
  <2>5. CASE inbox[1].node # q
    <3>1. Unread(q) = {}
      BY <1>2, <2>1, <2>5 DEF Unread
    <3>2. view[q] = cache[q].health
      BY <2>2, <3>1 DEF WatchInv, ViewInv
    <3>3. view'[q] = view[q]
      BY <1>1, <2>3, <2>5
    <3>. QED BY <1>1, <3>2, <3>3
  <2>. QED BY <2>4, <2>5
<1>. QED BY <1>3, <1>4, <1>5 DEF WatchInv

LEMMA HostWatch ==
  ASSUME PeersInv, WatchInv, HostStep
  PROVE  WatchInv'
<1>1. StreamInv /\ UNCHANGED <<cache, out, inbox>>
  BY DEF PeersInv, HostStep, WatchPeers, OpenReceiver, SpawnWatch, Spawn, ListPeers, taskVars, streamVars
<1>2. \A p \in Nodes : Unread(p)' = Unread(p) /\ \A i : Latest(p, i)' <=> Latest(p, i)
  BY <1>1 DEF Unread, Latest
<1>3. EventInv'
  BY <1>1 DEF WatchInv, EventInv, Effect
<1>4. CASE WatchPeers
  <2>1. inbox = <<>> /\ view = Nobody /\ view' = view /\ (synced' <=> sub = "off")
    BY <1>4 DEF WatchPeers, OpenReceiver, PeersInv, StreamInv
  <2>2. InboxInv'
    BY <1>1, <2>1 DEF InboxInv, LastTells
  <2>3. ViewInv'
    BY <1>1, <2>1 DEF ViewInv, PeersInv, Nobody, NoEntry
  <2>. QED BY <1>3, <2>2, <2>3 DEF WatchInv
<1>5. CASE SpawnWatch
  <2>1. /\ handle = "opening" /\ task = "none" /\ handle' = "open" /\ task' = "spawned"
        /\ UNCHANGED <<view, synced>>
    BY <1>1, <1>5 DEF SpawnWatch, Spawn, StreamInv, hostVars
  <2>2. Receiving /\ Watching
    BY <2>1 DEF Receiving, Watching
  <2>3. InboxInv'
    BY <1>1, <1>2, <2>2 DEF WatchInv, InboxInv, LastTells, Effect
  <2>4. ViewInv'
    BY <1>1, <1>2, <2>1, <2>2 DEF WatchInv, ViewInv
  <2>. QED BY <1>3, <2>3, <2>4 DEF WatchInv
<1>6. CASE ListPeers
  <2>1. UNCHANGED <<handle, task>> /\ view' = Health
    BY <1>6 DEF ListPeers, streamVars
  <2>2. InboxInv'
    BY <1>1, <1>2, <2>1 DEF WatchInv, InboxInv, LastTells, Receiving, Effect
  <2>3. ViewInv'
    BY <1>1, <2>1 DEF ViewInv, Health
  <2>. QED BY <1>3, <2>2, <2>3 DEF WatchInv
<1>. QED BY <1>4, <1>5, <1>6 DEF HostStep

\* No step of the stream but a spawn or an open makes a host watch.
LEMMA StreamWatch ==
  ASSUME PeersInv, WatchInv, StreamStep
  PROVE  WatchInv'
<1>1. StreamInv /\ UNCHANGED <<cache, out, inbox, view, synced>>
  BY DEF PeersInv, StreamStep, FirstPoll, EmitReturns, DropFuture, Cancel, CancelReturns, CancelGivesUp,
     SourceEnds, taskVars, hostVars
<1>2. (Receiving' => Receiving) /\ (Watching' => Watching)
  BY <1>1 DEF StreamStep, FirstPoll, EmitReturns, DropFuture, Finish, Cancel, CancelReturns, CancelGivesUp,
     SourceEnds, Receiving, Watching, StreamInv
<1>3. \A p \in Nodes : Unread(p)' = Unread(p) /\ \A i : Latest(p, i)' <=> Latest(p, i)
  BY <1>1 DEF Unread, Latest
<1>4. EventInv'
  BY <1>1 DEF WatchInv, EventInv, Effect
<1>5. InboxInv'
  BY <1>1, <1>2, <1>3 DEF WatchInv, InboxInv, LastTells, Effect
<1>6. ViewInv'
  BY <1>1, <1>2, <1>3 DEF WatchInv, ViewInv
<1>. QED BY <1>4, <1>5, <1>6 DEF WatchInv

LEMMA WatchStart == Init => WatchInv
  BY DEF Init, StreamInit, WatchInv, EventInv, InboxInv, ViewInv, Silent, Receiving, Watching

LEMMA WatchStep ==
  ASSUME PeersInv, WatchInv, [Next]_vars
  PROVE  WatchInv'
<1>1. CASE \E p \in Nodes : NodeStep(p)
  <2>1. UNCHANGED <<out, inbox, view, synced, handle, task, cache>>
    BY <1>1 DEF NodeStep, Start, Beat, Leave, Die, taskVars, hostVars, streamVars
  <2>. QED BY <2>1, StillWatch
<1>2. CASE Connect \/ SubscriptionEnds \/ UNCHANGED vars
  <2>1. UNCHANGED <<out, inbox, view, synced, handle, task, cache>>
    BY <1>2 DEF Connect, SubscriptionEnds, vars, taskVars, hostVars, streamVars
  <2>. QED BY <2>1, StillWatch
<1>3. CASE Tick
  <2>1. UNCHANGED <<out, inbox, view, synced, handle, task>>
    BY <1>3 DEF Tick, hostVars, streamVars
  <2>2. ASSUME NEW p \in Nodes PROVE cache'[p].health = cache[p].health
    <3>1. cache[p] \in Entry
      BY DEF PeersInv, TypeOK
    <3>. QED BY <1>3, <3>1 DEF Tick, Entry
  <2>. QED BY <2>1, <2>2, StillWatch
<1>. QED BY <1>1, <1>2, <1>3, ReceiveWatch, SweepWatch, SendEventWatch, EmitEventWatch, HostWatch, StreamWatch
         DEF Next, Arrival

\* For any nodes, lives, capacity and timing, a host that watches from the
\* start, or lists once it watches, and loses no event, will know every peer
\* as the cache does once it has read what is sent: the order of change, lock
\* release, send and listing cannot leave it with a stale peer.
THEOREM WatcherConverges == Spec => []WatcherSeesCache
<1>1. Init => PeersInv /\ WatchInv
  BY PeersStart, WatchStart
<1>2. (PeersInv /\ WatchInv) /\ [Next]_vars => (PeersInv /\ WatchInv)'
  BY PeersStep, WatchStep
<1>. QED BY <1>1, <1>2, WatchSees, PTL DEF Spec

-----------------------------------------------------------------------------
(* Events that make sense.                                                 *)

\* An event of this kind, to a host that knows its peer like this.
Sensible(kind, known) ==
  /\ kind = "joined" <=> known = "absent"
  /\ kind # "joined" => known # Effect(kind)

\* An event about p makes sense as item i: after the last item before it that
\* is about p or, if there is none, after what the host knows already.
Follows(p, i, kind) ==
  /\ (\A j \in Unread(p) : j >= i) => Sensible(kind, view[p])
  /\ \A j \in Unread(p) :
       j < i /\ (\A k \in Unread(p) : k < i => k <= j) => Sensible(kind, Effect(inbox[j].kind))

\* While a host knows the peers from events alone: every unread event and
\* every event to be sent makes sense where it stands, and without either the
\* host knows the cache.
SenseInv ==
  exact /\ Receiving =>
    /\ \A i \in 1..Len(inbox) : Follows(inbox[i].node, i, inbox[i].kind)
    /\ \A p \in Nodes : out[p] # "none" => Follows(p, Len(inbox) + 1, out[p])
    /\ \A p \in Nodes : out[p] = "none" /\ Unread(p) = {} => view[p] = cache[p].health

LEMMA SenseStart == Init => SenseInv
  BY DEF Init, SenseInv

\* A step that leaves the events, the view and the healths alone.
LEMMA StillSense ==
  ASSUME SenseInv, UNCHANGED <<out, inbox, view>>, exact' => exact, Receiving' => Receiving,
         \A p \in Nodes : cache'[p].health = cache[p].health
  PROVE  SenseInv'
<1>1. \A p : Unread(p)' = Unread(p)
  BY DEF Unread
<1>2. \A p, i, kind : Follows(p, i, kind) => Follows(p, i, kind)'
  BY <1>1 DEF Follows, Sensible, Effect
<1>3. SUFFICES ASSUME exact', Receiving'
               PROVE  /\ \A i \in 1..Len(inbox) : Follows(inbox[i].node, i, inbox[i].kind)'
                      /\ \A p \in Nodes : out[p] # "none" => Follows(p, Len(inbox) + 1, out[p])'
                      /\ \A p \in Nodes : out[p] = "none" /\ Unread(p) = {} => view[p] = cache[p].health
  BY <1>1 DEF SenseInv
<1>. QED BY <1>2, <1>3 DEF SenseInv

\* A change of the cache makes events that make sense to who knows it as it
\* was.
LEMMA ChangeSense ==
  ASSUME PeersInv, WatchInv, SenseInv, UNCHANGED <<hostVars, streamVars>>, out = Silent,
         \A p \in Nodes : out'[p] # "none" => Sensible(out'[p], cache[p].health),
         \A p \in Nodes : out'[p] = "none" => cache'[p].health = cache[p].health
  PROVE  SenseInv'
<1>1. UNCHANGED <<inbox, view, exact>> /\ (Receiving' <=> Receiving) /\ \A p \in Nodes : out[p] = "none"
  BY DEF hostVars, streamVars, Silent, Receiving
<1>2. \A p : Unread(p)' = Unread(p)
  BY <1>1 DEF Unread
<1>3. SUFFICES ASSUME exact, Receiving PROVE SenseInv'
  BY <1>1 DEF SenseInv
<1>4. ASSUME NEW p \in Nodes, out'[p] # "none" PROVE Follows(p, Len(inbox) + 1, out'[p])
  <2>1. Len(inbox) \in Nat /\ \A j \in Unread(p) : j \in 1..Len(inbox)
    BY SeqFacts DEF PeersInv, StreamInv, StreamTypeOK, Unread
  <2>2. (\A j \in Unread(p) : j >= Len(inbox) + 1) => Unread(p) = {}
    BY <2>1
  <2>3. Unread(p) = {} => view[p] = cache[p].health
    BY <1>1, <1>3 DEF SenseInv
  <2>4. ASSUME NEW j \in Unread(p), \A k \in Unread(p) : k < Len(inbox) + 1 => k <= j
        PROVE  Effect(inbox[j].kind) = cache[p].health
    <3>1. Latest(p, j)
      BY <2>1, <2>4 DEF Latest
    <3>. QED BY <1>1, <1>3, <2>1, <3>1 DEF WatchInv, InboxInv, LastTells
  <2>. QED BY <1>4, <2>2, <2>3, <2>4 DEF Follows
<1>5. ASSUME NEW p \in Nodes, out'[p] # "none" PROVE Follows(p, Len(inbox) + 1, out[p])'
  BY <1>1, <1>2, <1>4, <1>5 DEF Follows, Sensible, Effect
<1>6. ASSUME NEW i \in 1..Len(inbox) PROVE Follows(inbox[i].node, i, inbox[i].kind)'
  <2>1. Follows(inbox[i].node, i, inbox[i].kind)
    BY <1>3 DEF SenseInv
  <2>. QED BY <1>1, <1>2, <2>1 DEF Follows, Sensible, Effect
<1>7. ASSUME NEW p \in Nodes, out'[p] = "none", Unread(p)' = {} PROVE view'[p] = cache'[p].health
  BY <1>1, <1>2, <1>3, <1>7 DEF SenseInv
<1>. QED BY <1>1, <1>5, <1>6, <1>7 DEF SenseInv

LEMMA ReceiveSense ==
  ASSUME PeersInv, WatchInv, SenseInv, NEW p \in Nodes, NEW i \in 1..Lives, Receive(p, i)
  PROVE  SenseInv'
<1>1. /\ cache \in [Nodes -> Entry] /\ out \in [Nodes -> Kinds \cup {"none"}]
      /\ out = Silent /\ UNCHANGED <<hostVars, streamVars>>
  BY DEF PeersInv, TypeOK, Receive
<1>. DEFINE m == Head(wire[p][i])
<1>2. Fold(p, m) /\ cache[p] \in Entry /\ \A q \in Nodes : out[q] = "none"
  BY <1>1 DEF Receive, Silent
<1>. HIDE DEF m
<1>3. \A q \in Nodes : q # p => cache'[q] = cache[q] /\ out'[q] = "none"
  BY <1>1, <1>2 DEF Fold
<1>4. cache[p].health \in {"absent", "healthy", "degraded"}
  BY <1>2 DEF Entry
<1>5. /\ out'[p] # "none" => Sensible(out'[p], cache[p].health)
      /\ out'[p] = "none" => cache'[p].health = cache[p].health
  <2>1. CASE m.leaving /\ cache' = [cache EXCEPT ![p] = NoEntry]
             /\ out' = [out EXCEPT ![p] = IF cache[p].health = "absent" THEN "none" ELSE "left"]
    BY <1>1, <2>1 DEF Sensible, Effect, NoEntry
  <2>2. CASE ~m.leaving
    <3>1. cache'[p].health = "healthy"
      BY <1>1, <1>2, <2>2 DEF Fold
    <3>2. out'[p] = CASE cache[p].health = "absent" -> "joined"
                      [] cache[p].health = "degraded" -> "healthy"
                      [] OTHER -> "none"
      BY <1>1, <1>2, <2>2 DEF Fold
    <3>. QED BY <1>4, <3>1, <3>2 DEF Sensible, Effect
  <2>. QED BY <1>2, <2>1, <2>2 DEF Fold
<1>. QED BY <1>1, <1>3, <1>5, ChangeSense

LEMMA SweepSense ==
  ASSUME PeersInv, WatchInv, SenseInv, Sweep
  PROVE  SenseInv'
<1>1. cache \in [Nodes -> Entry] /\ out = Silent /\ UNCHANGED <<hostVars, streamVars>>
  BY DEF PeersInv, TypeOK, Sweep
<1>2. ASSUME NEW p \in Nodes
      PROVE  /\ out'[p] # "none" => Sensible(out'[p], cache[p].health)
             /\ out'[p] = "none" => cache'[p].health = cache[p].health
  <2>1. /\ cache[p] \in Entry /\ Judge(cache[p]) \in {"absent", "healthy", "degraded"}
        /\ Judge(cache[p]) # "absent" => cache[p].health # "absent"
    BY <1>1, JudgeKind
  <2>2. cache'[p].health = Judge(cache[p])
    BY <2>1 DEF Sweep, NoEntry, Entry
  <2>3. out'[p] = CASE Judge(cache[p]) = cache[p].health -> "none"
                    [] Judge(cache[p]) # cache[p].health /\ Judge(cache[p]) = "absent" -> "left"
                    [] OTHER -> Judge(cache[p])
    BY DEF Sweep
  <2>. HIDE DEF Judge
  <2>. QED BY <2>1, <2>2, <2>3 DEF Sensible, Effect
<1>. QED BY <1>1, <1>2, ChangeSense

\* An item sent comes after all others.
LEMMA SendEventSense ==
  ASSUME PeersInv, WatchInv, SenseInv, NEW p \in Nodes, SendEvent(p)
  PROVE  SenseInv'
<1>. DEFINE e == [node |-> p, kind |-> out[p]]
<1>1. /\ StreamInv /\ out \in [Nodes -> Kinds \cup {"none"}]
      /\ UNCHANGED <<cache, view, handle, task>>
  BY DEF PeersInv, TypeOK, SendEvent
<1>2. /\ out[p] \in Kinds /\ out'[p] = "none" /\ \A q \in Nodes : q # p => out'[q] = out[q]
  BY <1>1 DEF SendEvent
<1>3. e \in Items /\ e.node = p /\ e.kind = out[p] /\ Post(e) /\ (exact' => exact /\ ~Overflows)
  BY <1>2, PeersAssumption DEF Kinds, SendEvent
<1>. HIDE DEF e
<1>4. SUFFICES ASSUME exact', Receiving' PROVE SenseInv'
  BY DEF SenseInv
<1>5. exact /\ Receiving /\ ~Overflows /\ inbox' = Append(inbox, e)
  BY <1>1, <1>3, <1>4 DEF Receiving, Post
<1>6. /\ inbox \in Seq(Items) /\ Len(inbox) \in Nat /\ Len(inbox') = Len(inbox) + 1
      /\ inbox'[Len(inbox) + 1] = e /\ \A i \in 1..Len(inbox) : inbox'[i] = inbox[i]
  BY <1>1, <1>3, <1>5, SeqFacts DEF StreamInv, StreamTypeOK
<1>7. ASSUME NEW q
      PROVE  /\ \A j : j \in Unread(q)' <=> j \in Unread(q) \/ (q = p /\ j = Len(inbox) + 1)
             /\ \A j \in Unread(q) : j \in 1..Len(inbox)
  BY <1>3, <1>6 DEF Unread
<1>8. ASSUME NEW q, NEW i \in 1..(Len(inbox) + 1), NEW kind, Follows(q, i, kind)
      PROVE  Follows(q, i, kind)'
  <2>1. \A j \in Unread(q)' : j < i => j \in Unread(q) /\ inbox'[j] = inbox[j]
    BY <1>6, <1>7
  <2>2. \A j \in Unread(q) : j \in Unread(q)'
    BY <1>7
  <2>. QED BY <1>1, <1>8, <2>1, <2>2 DEF Follows, Sensible, Effect
<1>9. \A i \in 1..Len(inbox') : Follows(inbox[i].node, i, inbox[i].kind)'
  <2>1. ASSUME NEW i \in 1..Len(inbox') PROVE Follows(inbox'[i].node, i, inbox'[i].kind)
    <3>1. CASE i = Len(inbox) + 1
      BY <1>2, <1>3, <1>5, <1>6, <3>1 DEF SenseInv, Kinds
    <3>2. CASE i \in 1..Len(inbox)
      BY <1>5, <1>6, <3>2 DEF SenseInv
    <3>. QED BY <1>6, <2>1, <3>1, <3>2
  <2>2. ASSUME NEW i \in 1..Len(inbox'), NEW q, NEW kind, q = inbox'[i].node, kind = inbox'[i].kind
        PROVE  Follows(inbox[i].node, i, inbox[i].kind)'
    <3>1. Follows(q, i, kind)
      BY <2>1, <2>2
    <3>2. Follows(q, i, kind)'
      BY <1>6, <1>8, <3>1
    <3>. QED BY <2>2, <3>2 DEF Follows, Unread
  <2>. QED BY <2>2
<1>10. ASSUME NEW q \in Nodes, out'[q] # "none" PROVE Follows(q, Len(inbox) + 1, out[q])'
  <2>1. q # p /\ Follows(q, Len(inbox) + 1, out[q]) /\ out'[q] = out[q]
    BY <1>2, <1>5, <1>10 DEF SenseInv
  <2>2. \A j : j \in Unread(q)' <=> j \in Unread(q)
    BY <1>7, <2>1
  <2>3. \A j \in Unread(q) : j < Len(inbox) + 1 /\ j < Len(inbox') + 1 /\ inbox'[j] = inbox[j]
                             /\ ~(j >= Len(inbox) + 1) /\ ~(j >= Len(inbox') + 1)
    BY <1>6, <1>7
  <2>. QED BY <1>1, <2>1, <2>2, <2>3 DEF Follows, Sensible, Effect
<1>11. ASSUME NEW q \in Nodes, out'[q] = "none", Unread(q)' = {} PROVE view'[q] = cache'[q].health
  <2>1. q # p /\ Unread(q) = {} /\ out[q] = "none"
    BY <1>2, <1>7, <1>11
  <2>. QED BY <1>1, <1>5, <2>1 DEF SenseInv
<1>. QED BY <1>9, <1>10, <1>11 DEF SenseInv

\* Reading an item is what the next one about its peer follows.
LEMMA EmitEventSense ==
  ASSUME PeersInv, WatchInv, SenseInv, EmitEvent
  PROVE  SenseInv'
<1>1. /\ StreamInv /\ view \in [Nodes -> {"absent", "healthy", "degraded"}]
      /\ inbox # <<>> /\ inbox' = Tail(inbox) /\ UNCHANGED <<cache, out, handle, exact>>
      /\ task = "waiting" /\ task' = "emitting"
      /\ view' = [view EXCEPT ![Head(inbox).node] = Effect(Head(inbox).kind)]
  BY DEF PeersInv, TypeOK, EmitEvent, Emit, taskVars
<1>2. /\ inbox \in Seq(Items) /\ Len(inbox) \in Nat /\ Len(inbox) >= 1 /\ Len(inbox') = Len(inbox) - 1
      /\ Head(inbox) = inbox[1] /\ \A i \in 1..Len(inbox') : inbox'[i] = inbox[i + 1]
  BY <1>1, SeqFacts DEF StreamInv, StreamTypeOK
<1>3. SUFFICES ASSUME exact', Receiving' PROVE SenseInv'
  BY DEF SenseInv
<1>4. exact /\ Receiving
  BY <1>1, <1>3 DEF Receiving
<1>5. ASSUME NEW q
      PROVE  /\ \A j \in Unread(q)' : j \in Nat /\ j >= 1 /\ j + 1 \in Unread(q) /\ inbox'[j] = inbox[j + 1]
             /\ \A j \in Unread(q) : j \in Nat /\ j >= 1 /\ (j = 1 \/ j - 1 \in Unread(q)')
             /\ 1 \in Unread(q) <=> inbox[1].node = q
  BY <1>2 DEF Unread
<1>6. ASSUME NEW q \in Nodes
      PROVE  /\ 1 \in Unread(q) => view'[q] = Effect(inbox[1].kind)
             /\ 1 \notin Unread(q) => view'[q] = view[q]
  <2>1. view' = [view EXCEPT ![inbox[1].node] = Effect(inbox[1].kind)]
    BY <1>1, <1>2
  <2>. QED BY <1>1, <1>5, <2>1
<1>7. ASSUME NEW q \in Nodes, NEW i \in Nat, i >= 1, NEW kind, Follows(q, i + 1, kind)
      PROVE  Follows(q, i, kind)'
  <2>1. ASSUME \A j \in Unread(q)' : j >= i PROVE Sensible(kind, view'[q])
    <3>1. CASE 1 \in Unread(q)
      <4>1. \A k \in Unread(q) : k < i + 1 => k <= 1
        BY <1>5, <1>7, <2>1
      <4>2. 1 < i + 1
        BY <1>7
      <4>3. Sensible(kind, Effect(inbox[1].kind))
        BY <1>7, <3>1, <4>1, <4>2 DEF Follows
      <4>. QED BY <1>6, <3>1, <4>3
    <3>2. CASE 1 \notin Unread(q)
      <4>1. \A j \in Unread(q) : j >= i + 1
        BY <1>5, <1>7, <2>1, <3>2
      <4>. QED BY <1>6, <1>7, <3>2, <4>1 DEF Follows
    <3>. QED BY <3>1, <3>2
  <2>2. ASSUME NEW j \in Unread(q)', j < i, \A k \in Unread(q)' : k < i => k <= j
        PROVE  Sensible(kind, Effect(inbox'[j].kind))
    <3>1. j + 1 \in Unread(q) /\ j + 1 < i + 1 /\ inbox'[j] = inbox[j + 1]
      BY <1>5, <2>2
    <3>2. \A k \in Unread(q) : k < i + 1 => k <= j + 1
      BY <1>5, <2>2
    <3>. QED BY <1>7, <3>1, <3>2 DEF Follows
  <2>. QED BY <2>1, <2>2 DEF Follows, Sensible, Effect
<1>8. ASSUME NEW i \in 1..Len(inbox') PROVE Follows(inbox[i].node, i, inbox[i].kind)'
  <2>1. PICK q \in Nodes, kind \in Kinds : q = inbox'[i].node /\ kind = inbox'[i].kind
    <3>1. inbox'[i] \in Items
      BY <1>2
    <3>. QED BY <3>1, PeersAssumption DEF Kinds
  <2>2. i + 1 \in 1..Len(inbox) /\ inbox'[i] = inbox[i + 1] /\ i \in Nat /\ i >= 1
    BY <1>2
  <2>3. Follows(q, i + 1, kind)
    BY <1>4, <2>1, <2>2 DEF SenseInv
  <2>4. Follows(q, i, kind)'
    BY <1>7, <2>2, <2>3
  <2>. QED BY <2>1, <2>4 DEF Follows, Unread
<1>9. ASSUME NEW q \in Nodes, out'[q] # "none" PROVE Follows(q, Len(inbox) + 1, out[q])'
  <2>1. PICK kind \in {out[q]}, n \in {Len(inbox)} : kind = out[q] /\ n = Len(inbox) /\ n \in Nat
    BY <1>2
  <2>2. Follows(q, n + 1, kind)
    BY <1>1, <1>4, <1>9, <2>1 DEF SenseInv
  <2>3. Follows(q, n, kind)'
    BY <1>2, <1>7, <2>1, <2>2
  <2>4. Len(inbox') + 1 = n /\ out'[q] = kind
    BY <1>1, <1>2, <2>1
  <2>. QED BY <2>3, <2>4 DEF Follows
<1>10. ASSUME NEW q \in Nodes, out'[q] = "none", Unread(q)' = {} PROVE view'[q] = cache'[q].health
  <2>1. \A j \in Unread(q) : j = 1
    BY <1>5, <1>10
  <2>2. CASE 1 \in Unread(q)
    <3>1. Latest(q, 1) /\ 1 \in 1..Len(inbox)
      BY <1>2, <2>1, <2>2 DEF Latest
    <3>2. Effect(inbox[1].kind) = cache[q].health
      BY <1>1, <1>4, <1>10, <3>1 DEF WatchInv, InboxInv, LastTells
    <3>. QED BY <1>1, <1>6, <2>2, <3>2
  <2>3. CASE 1 \notin Unread(q)
    <3>1. Unread(q) = {}
      BY <2>1, <2>3
    <3>. QED BY <1>1, <1>4, <1>6, <1>10, <2>3, <3>1 DEF SenseInv
  <2>. QED BY <2>2, <2>3
<1>. QED BY <1>8, <1>9, <1>10 DEF SenseInv

\* A host that watches before the connection starts with nothing, like the
\* cache.
LEMMA HostSense ==
  ASSUME PeersInv, SenseInv, HostStep
  PROVE  SenseInv'
<1>1. StreamInv /\ UNCHANGED <<cache, out, inbox>>
  BY DEF PeersInv, HostStep, WatchPeers, OpenReceiver, SpawnWatch, Spawn, ListPeers, taskVars, streamVars
<1>2. CASE WatchPeers
  <2>1. inbox' = <<>> /\ view' = Nobody /\ (exact' <=> sub = "off")
    BY <1>2 DEF WatchPeers, OpenReceiver, PeersInv, StreamInv
  <2>2. sub = "off" => \A p \in Nodes : out'[p] = "none" /\ cache'[p].health = "absent" /\ view'[p] = "absent"
    BY <1>1, <2>1 DEF PeersInv, Silent, NoEntry, Nobody
  <2>3. \A i : i \notin 1..Len(inbox')
    BY <2>1
  <2>. QED BY <2>1, <2>2, <2>3 DEF SenseInv
<1>3. CASE SpawnWatch
  <2>1. UNCHANGED <<view, exact>> /\ handle = "opening" /\ task = "none"
    BY <1>1, <1>3 DEF SpawnWatch, Spawn, StreamInv, hostVars
  <2>2. Receiving
    BY <2>1 DEF Receiving
  <2>. QED BY <1>1, <2>1, <2>2, StillSense
<1>4. CASE ListPeers
  BY <1>4 DEF ListPeers, SenseInv
<1>. QED BY <1>2, <1>3, <1>4 DEF HostStep

LEMMA StreamSense ==
  ASSUME PeersInv, SenseInv, StreamStep
  PROVE  SenseInv'
<1>1. StreamInv /\ UNCHANGED <<cache, out, inbox, view, exact>>
  BY DEF PeersInv, StreamStep, FirstPoll, EmitReturns, DropFuture, Cancel, CancelReturns, CancelGivesUp,
     SourceEnds, taskVars, hostVars
<1>2. Receiving' => Receiving
  BY <1>1 DEF StreamStep, FirstPoll, EmitReturns, DropFuture, Finish, Cancel, CancelReturns, CancelGivesUp,
     SourceEnds, Receiving, StreamInv
<1>. QED BY <1>1, <1>2, StillSense

LEMMA SenseStep ==
  ASSUME PeersInv, WatchInv, SenseInv, [Next]_vars
  PROVE  SenseInv'
<1>1. CASE (\E p \in Nodes : NodeStep(p)) \/ Connect \/ SubscriptionEnds \/ UNCHANGED vars
  <2>1. UNCHANGED <<out, inbox, view, exact, handle, task, cache>>
    BY <1>1 DEF NodeStep, Start, Beat, Leave, Die, Connect, SubscriptionEnds, vars, taskVars, hostVars, streamVars
  <2>2. Receiving' => Receiving
    BY <2>1 DEF Receiving
  <2>. QED BY <2>1, <2>2, StillSense
<1>2. CASE Tick
  <2>1. UNCHANGED <<out, inbox, view, exact, handle, task>>
    BY <1>2 DEF Tick, hostVars, streamVars
  <2>2. ASSUME NEW p \in Nodes PROVE cache'[p].health = cache[p].health
    <3>1. cache[p] \in Entry
      BY DEF PeersInv, TypeOK
    <3>. QED BY <1>2, <3>1 DEF Tick, Entry
  <2>3. Receiving' => Receiving
    BY <2>1 DEF Receiving
  <2>. QED BY <2>1, <2>2, <2>3, StillSense
<1>. QED BY <1>1, <1>2, ReceiveSense, SweepSense, SendEventSense, EmitEventSense, HostSense, StreamSense
         DEF Next, Arrival

LEMMA HeadMakesSense ==
  ASSUME PeersInv, SenseInv, EmitEvent, exact
  PROVE  Sensible(Head(inbox).kind, view[Head(inbox).node])
<1>1. inbox # <<>> /\ inbox \in Seq(Items) /\ Receiving
  BY DEF EmitEvent, Emit, PeersInv, StreamInv, StreamTypeOK, Receiving
<1>2. Head(inbox) = inbox[1] /\ Len(inbox) >= 1 /\ Len(inbox) \in Nat
  BY <1>1, SeqFacts
<1>3. Follows(inbox[1].node, 1, inbox[1].kind)
  BY <1>1, <1>2 DEF SenseInv
<1>4. \A p : \A j \in Unread(p) : j >= 1
  BY <1>2 DEF Unread
<1>. QED BY <1>2, <1>3, <1>4 DEF Follows

\* For any nodes, lives, capacity and timing, a host that knows the peers from
\* events alone is never told what it knows already: whatever lies between the
\* change, the send and the read, the events about a peer reach it as a join,
\* changes of health and a leave, in that order.
THEOREM EventsAlwaysMakeSense == Spec => EventsMakeSense
<1>. DEFINE IInv == PeersInv /\ WatchInv /\ SenseInv
<1>1. Init => IInv
  BY PeersStart, WatchStart, SenseStart
<1>2. IInv /\ [Next]_vars => IInv'
  BY PeersStep, WatchStep, SenseStep
<1>3. IInv => [EmitEvent /\ exact =>
                 LET e == Head(inbox)
                 IN /\ e.kind = "joined" <=> view[e.node] = "absent"
                    /\ e.kind # "joined" => view[e.node] # Effect(e.kind)]_vars
  BY HeadMakesSense DEF Sensible
<1>. QED BY <1>1, <1>2, <1>3, PTL DEF Spec, EventsMakeSense
=============================================================================
