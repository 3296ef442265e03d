------------------------------ MODULE MCLease ------------------------------
(* Constants of the runs of Lease.  With both sessions on n1, a restarted or *)
(* second session of a node meets its own earlier records.                   *)
EXTENDS Lease

CONSTANTS n1, n2, s1, s2

Nodes2 == {n1, n2}
NodeOf2 == [s \in {s1, s2} |-> IF s = s1 THEN n1 ELSE n2]
NodeOfSame == [s \in {s1, s2} |-> n1]

NoSkew == [n \in Nodes2 |-> 0]
OneTickSkew == [n \in Nodes2 |-> IF n = n2 THEN 1 ELSE 0]
=============================================================================
