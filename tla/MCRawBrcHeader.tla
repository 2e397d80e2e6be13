--------------------------- MODULE MCRawBrcHeader ---------------------------
(* RawBrcHeader for TLC: the owner, two more threads, and a few references. *)
EXTENDS RawBrcHeader

CONSTANTS o, t1, t2, r1, r2, r3, r4, r5, r6

MCThread == {o, t1, t2}
MCRef3 == {r1, r2, r3}
MCRef6 == {r1, r2, r3, r4, r5, r6}

(* The discipline but for one thing: an unmerged -1 is incremented, by     *)
(* clone only, or by upgrade only.                                         *)
CloningSpec ==
    Init /\ [][Next /\ ~UpgradesAtMinusOne /\ ~UpgradesNearMax]_vars
UpgradingSpec ==
    Init /\ [][Next /\ ~ClonesAtMinusOne /\ ~UpgradesNearMax]_vars
=============================================================================
