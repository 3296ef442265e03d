---------------------------- MODULE MCIndexGate -----------------------------
(* Constants of the runs of IndexGate.                                       *)
EXTENDS IndexGate

CONSTANTS r1, r2, o1, k1

EmptyOrOld == {{}, {k1}}
=============================================================================
