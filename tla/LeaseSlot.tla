----------------------------- MODULE LeaseSlot -----------------------------
(***************************************************************************)
(* What a lease key promises, whatever its sessions do: the slot is taken  *)
(* only when it is free or its record has lapsed on the taker's clock, by  *)
(* a token that never held it before; a record is renewed only in its own  *)
(* name and never to an earlier expiry; and it is given up only for a      *)
(* holder that asked for it.  The trait's contract, with no reads, no      *)
(* revisions, no retries and no lost messages in it.                       *)
(***************************************************************************)
EXTENDS Integers

CONSTANTS Nodes, Sec, Skew

VARIABLES
  now,      \* time, in ticks
  slot,     \* the key's last record
  used,     \* tokens that have held the slot
  askers    \* tokens whose holder has asked for a release

vars == <<now, slot, used, askers>>

Lapsed(n) == slot.exp # 0 /\ slot.exp <= (now + Skew[n]) \div Sec

Take ==
  /\ slot.op # "Put" \/ \E n \in Nodes : n = slot'.node /\ Lapsed(n)
  /\ slot'.op = "Put" /\ slot'.node \in Nodes
  /\ slot'.token \notin used
  /\ used' = used \cup {slot'.token}
  /\ UNCHANGED <<now, askers>>

Renew ==
  /\ slot.op = "Put" /\ slot'.op = "Put"
  /\ slot'.node = slot.node /\ slot'.token = slot.token
  /\ slot'.exp >= slot.exp /\ slot'.shown >= slot.shown
  /\ UNCHANGED <<now, used, askers>>

Release ==
  /\ slot.op = "Put" /\ slot.token \in askers
  /\ slot'.op = "Del"
  /\ UNCHANGED <<now, used, askers>>

Ask == askers \subseteq askers' /\ UNCHANGED <<now, slot, used>>

Advance == now' > now /\ UNCHANGED <<slot, used, askers>>

Init == used = (IF slot.op = "Put" THEN {slot.token} ELSE {}) /\ askers = {}

Next == Take \/ Renew \/ Release \/ Ask \/ Advance

Spec == Init /\ [][Next]_vars
=============================================================================
