------------------------------- MODULE KvCell -------------------------------
(***************************************************************************)
(* What one key of the KV store promises, whatever its callers do: a claim *)
(* takes the key only while it holds nothing live; a count is added to the *)
(* count the key holds, or starts from zero on a key that holds nothing    *)
(* live; a change of TTL keeps the value; and the sweep removes only what  *)
(* is dead.  The KeyValueStore trait's contract, with no reads, no         *)
(* revisions, no retries and no lost messages in it.                       *)
(***************************************************************************)
EXTENDS Integers

CONSTANTS Deltas, Blob

VARIABLES
  now,     \* time, in seconds
  cell,    \* the key's record
  wrote    \* the operation that wrote or removed it

vars == <<now, cell, wrote>>

Live == cell.op = "Put" /\ (cell.exp = 0 \/ cell.exp > now)

Writes(op, kind) ==
  /\ wrote' = kind /\ cell'.op = op
  /\ cell'.rev > cell.rev
  /\ now' = now

Put == Writes("Put", "put")

Claim == ~Live /\ Writes("Put", "claim")

Delete == Writes("Del", "delete")

Touch == cell.op = "Put" /\ Writes("Put", "expire") /\ cell'.val = cell.val

Count ==
  /\ Writes("Put", "incr")
  /\ \E d \in Deltas :
       \/ ~Live /\ cell'.val = d
       \/ cell.op = "Put" /\ cell.val # Blob /\ cell'.val = cell.val + d

Upgrade ==
  /\ cell.op = "Put" /\ Writes("Put", "sweep")
  /\ cell'.val = cell.val /\ cell'.exp = cell.exp

Remove == ~Live /\ wrote' = "purge" /\ cell'.op = "None" /\ now' = now

Advance == now' > now /\ UNCHANGED <<cell, wrote>>

Init == wrote = "none"

Next == Put \/ Claim \/ Delete \/ Touch \/ Count \/ Upgrade \/ Remove \/ Advance

Spec == Init /\ [][Next]_vars
=============================================================================
