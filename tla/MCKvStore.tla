----------------------------- MODULE MCKvStore -----------------------------
(* Constants of the runs of KvStore: what the key starts with.             *)
EXTENDS KvStore, TLC

CONSTANTS c1, c2, c3

Symmetric == Permutations(Procs)

Start(op, val, exp, legacy) ==
  [data |-> [rev |-> 1, op |-> op, val |-> val, exp |-> exp, at |-> 1, legacy |-> legacy],
   index |-> TRUE]

\* Nothing; a value about to lapse, of this build or an older one; a marker.
Empty == {[data |-> NoData, index |-> FALSE]}
Lapsing == {Start("Put", 0, 2, FALSE)}
OldOrNew == Lapsing \cup {Start("Put", 0, 2, TRUE)}
Deleted == {Start("Del", 0, 0, FALSE)}
=============================================================================
