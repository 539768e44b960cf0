----------------------------- MODULE MCOffload -----------------------------
EXTENDS Offload

CONSTANTS a, b, s1, s2, t1, t2, t3

(* Two nodes, a submission to each, and work that crosses over. *)
HomeDef == [s \in Subs |-> IF s = s1 THEN a ELSE b]
SubOfDef == [t \in Tasks |-> IF t = t2 THEN s2 ELSE s1]
=============================================================================
