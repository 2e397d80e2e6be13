-------------------------- MODULE MCThreadRuntime --------------------------
(* ThreadRuntime for TLC: an owner, other threads, and a few objects.       *)
EXTENDS ThreadRuntime, TLC

CONSTANTS o, t1, t2, x1, x2, x3

MCThread == {o, t1, t2}
MCObject == {x1, x2, x3}
MCObject2 == {x1, x2}

Symmetry == Permutations({t1, t2}) \cup Permutations(MCObject)
=============================================================================
