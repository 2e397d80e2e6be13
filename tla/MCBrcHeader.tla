---------------------------- MODULE MCBrcHeader ----------------------------
(* BrcHeader for TLC: the owner, a thread with an id and one without.       *)
EXTENDS BrcHeader, TLC

CONSTANTS o, t1, t2, r1, r2, r3

MCThread == {o, t1, t2}
MCRef == {r1, r2, r3}
MCAnonymous == {t2}

Symmetry == Permutations(MCRef)
=============================================================================
