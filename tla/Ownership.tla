------------------------------ MODULE Ownership ------------------------------
(***************************************************************************)
(* What RawBrcHeader relies on from thread ids.  A header names its owner  *)
(* by an id, and a thread that finds its own id there takes itself for the *)
(* owner.  So only the thread that made an object may ever find itself     *)
(* there, and once it cannot, it never can again: no id has two lives.     *)
(***************************************************************************)
CONSTANTS
    Thread,  \* the threads
    Object   \* the objects

VARIABLES
    made,    \* the objects whose header exists
    passes   \* for each object, the threads that find their id in its header

vars == <<made, passes>>

Init ==
    /\ made = {}
    /\ passes = [x \in Object |-> {}]

(* A header is initialised, biased to the caller or to nobody.             *)
Make(t, x) ==
    /\ x \notin made
    /\ made' = made \cup {x}
    /\ \E owners \in {{}, {t}} : passes' = [passes EXCEPT ![x] = owners]

(* A merge clears the owner.                                               *)
Unbias(x) ==
    /\ passes' = [passes EXCEPT ![x] = {}]
    /\ UNCHANGED made

(* A thread gives up its id.                                               *)
Retire(t) ==
    /\ passes' = [x \in Object |-> passes[x] \ {t}]
    /\ UNCHANGED made

Next ==
    \/ \E t \in Thread, x \in Object : Make(t, x)
    \/ \E x \in Object : Unbias(x)
    \/ \E t \in Thread : Retire(t)

Spec == Init /\ [][Next]_vars
=============================================================================
