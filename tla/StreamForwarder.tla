-------------------------- MODULE StreamForwarder ---------------------------
(***************************************************************************)
(* One stream handed to the host (pubsub.rs): the forwarder task that      *)
(* calls the host's emit_event for each item, and the handle whose drop    *)
(* aborts the task and waits, at most five seconds, until its future is    *)
(* gone.  The host frees what emit_event refers to as soon as the drop     *)
(* returns.                                                                *)
(*                                                                         *)
(* The tokio runtime is external.  An abort drops a future that waits at   *)
(* an await or was never polled; it does not interrupt a poll, so the      *)
(* callback under way returns first, and a task that finds its next item   *)
(* ready calls back again.  The items are broadcast: a receiver too far    *)
(* behind loses the oldest.                                                *)
(***************************************************************************)
EXTENDS Naturals, Sequences

CONSTANTS
  Items,     \* what is sent to the stream
  Capacity   \* of the channel (64 in the code)

ASSUME CapacityAssumption == Capacity \in Nat \ {0}

VARIABLES
  handle,   \* the host's handle; freed with its callback when "closed"
  task,     \* the forwarder's future
  aborted,  \* the task was told to stop
  signal,   \* what the handle hears: nothing, done, or a sender gone unused
  gaveUp,   \* the drop returned on its timeout
  inbox     \* items the receiver has not read

streamVars == <<handle, task, aborted, signal, gaveUp, inbox>>

StreamInit ==
  /\ handle = "none" /\ task = "none" /\ aborted = FALSE /\ signal = "none"
  /\ gaveUp = FALSE /\ inbox = <<>>

-----------------------------------------------------------------------------
(* The channel.                                                            *)

Receiving == handle # "none" /\ task # "ended"

\* The next item pushes out the oldest, which the receiver never sees.
Overflows == Receiving /\ Len(inbox) = Capacity

\* Faulty variant: the channel has no capacity.
PostUnbounded(e) ==
  \/ ~Receiving /\ UNCHANGED inbox
  \/ Receiving /\ inbox' = Append(inbox, e)
\* A send; without a receiver nothing is kept.
Post(e) ==
  \/ ~Receiving /\ UNCHANGED inbox
  \/ Receiving /\ ~Overflows /\ inbox' = Append(inbox, e)
  \/ Overflows /\ inbox' = Append(Tail(inbox), e)

-----------------------------------------------------------------------------
(* The forwarder.                                                          *)

\* The receiver is there before the connection is.
OpenReceiver ==
  /\ handle = "none" /\ handle' = "opening"
  /\ UNCHANGED <<task, aborted, signal, gaveUp, inbox>>

Spawn ==
  /\ handle = "opening" /\ handle' = "open" /\ task' = "spawned"
  /\ UNCHANGED <<aborted, signal, gaveUp, inbox>>

\* The future ends; its ForwarderDoneSignal is dropped with it.
Finish(sig) == task' = "ended" /\ signal' = sig

FirstPoll ==
  /\ task = "spawned" /\ task' = "waiting"
  /\ UNCHANGED <<handle, aborted, signal, gaveUp, inbox>>

\* The item is read and emit_event called with it; a lag is skipped over.
Emit ==
  /\ task = "waiting" /\ inbox # <<>>
  /\ task' = "emitting" /\ inbox' = Tail(inbox)
  /\ UNCHANGED <<handle, aborted, signal, gaveUp>>

EmitReturns ==
  /\ task = "emitting" /\ task' = "waiting"
  /\ UNCHANGED <<handle, aborted, signal, gaveUp, inbox>>

\* The channel is closed or, of a subscription, the stream has ended or never
\* began.
SourceEnds ==
  /\ task = "waiting" /\ inbox = <<>> /\ Finish("sent")
  /\ UNCHANGED <<handle, aborted, gaveUp, inbox>>

\* Faulty variant: the abort drops the future in the middle of a callback.
DropFutureAnywhere ==
  /\ aborted /\ task \in {"spawned", "waiting", "emitting"}
  /\ signal' = "sent" /\ task' = IF task = "emitting" THEN task ELSE "ended"
  /\ UNCHANGED <<handle, aborted, gaveUp, inbox>>
\* The runtime drops the aborted future between two polls.  One that was never
\* polled has no done signal yet: its sender just goes away.
DropFuture ==
  /\ aborted
  /\ \/ task = "spawned" /\ Finish("hungup")
     \/ task = "waiting" /\ Finish("sent")
  /\ UNCHANGED <<handle, aborted, gaveUp, inbox>>

-----------------------------------------------------------------------------
(* cancel_stream: StreamState::drop.                                       *)

Cancel ==
  /\ handle = "open" /\ handle' = "cancelling" /\ aborted' = TRUE
  /\ UNCHANGED <<task, signal, gaveUp, inbox>>

CancelReturns ==
  /\ handle = "cancelling" /\ signal # "none" /\ handle' = "closed"
  /\ UNCHANGED <<task, aborted, signal, gaveUp, inbox>>

\* Faulty variant: the wait has no timeout while a callback runs.
CancelGivesUpIdle ==
  /\ handle = "cancelling" /\ signal = "none" /\ task # "emitting"
  /\ handle' = "closed" /\ gaveUp' = TRUE
  /\ UNCHANGED <<task, aborted, signal, inbox>>
\* recv_timeout: five seconds without a word.
CancelGivesUp ==
  /\ handle = "cancelling" /\ signal = "none"
  /\ handle' = "closed" /\ gaveUp' = TRUE
  /\ UNCHANGED <<task, aborted, signal, inbox>>

TaskStep == FirstPoll \/ Emit \/ EmitReturns \/ SourceEnds \/ DropFuture
HandleStep == CancelReturns \/ CancelGivesUp
StreamNext ==
  \/ OpenReceiver \/ Spawn \/ Cancel \/ TaskStep \/ HandleStep
  \/ \E e \in Items : Post(e) /\ UNCHANGED <<handle, task, aborted, signal, gaveUp>>

StreamSpec == StreamInit /\ [][StreamNext]_streamVars

-----------------------------------------------------------------------------
StreamTypeOK ==
  /\ handle \in {"none", "opening", "open", "cancelling", "closed"}
  /\ task \in {"none", "spawned", "waiting", "emitting", "ended"}
  /\ aborted \in BOOLEAN /\ signal \in {"none", "sent", "hungup"}
  /\ gaveUp \in BOOLEAN /\ inbox \in Seq(Items) /\ Len(inbox) <= Capacity

\* When cancel_stream has returned without giving up, the forwarder is gone:
\* no emit_event is under way and none can follow, so the host may free what
\* it points to ("an in-flight emit_event cannot touch the host's freed
\* StreamBridge").
NoCallbackAfterCancel == handle = "closed" /\ ~gaveUp => task = "ended"

\* cancel_stream returns, also when a callback never does ("a wedged task
\* can't hang teardown").
CancelEnds == handle = "cancelling" ~> handle = "closed"
=============================================================================
