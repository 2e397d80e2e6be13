----------------------------- MODULE MCThreadIds -----------------------------
(* ThreadIds for TLC: more threads than ids, and objects of several.        *)
EXTENDS ThreadIds, TLC

CONSTANTS t1, t2, t3, x1, x2

MCThread == {t1, t2, t3}
MCObject == {x1, x2}

Symmetry == Permutations(MCThread) \cup Permutations(MCObject)
=============================================================================
