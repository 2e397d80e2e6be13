---------------------------- MODULE SharedValue ----------------------------
(***************************************************************************)
(* What a reference-counted pointer promises, with no word of how: a value *)
(* is held through references, is destroyed at most once, only when no     *)
(* reference is left, and no reference is obtained after that.             *)
(***************************************************************************)
CONSTANTS
    Thread,  \* the threads
    Ref,     \* the references that may exist at one time
    None     \* the holder of a reference that does not exist

VARIABLES
    holder,  \* the thread holding each reference, or None
    value    \* "live" or "dropped"

vars == <<holder, value>>

Live == {r \in Ref : holder[r] # None}

Init ==
    /\ \E t \in Thread, r \in Ref :
         holder = [s \in Ref |-> IF s = r THEN t ELSE None]
    /\ value = "live"

(* Brc::clone, or Weak::upgrade: the value is still there.                 *)
Acquire(t, r) ==
    /\ value = "live"
    /\ holder[r] = None
    /\ holder' = [holder EXCEPT ![r] = t]
    /\ UNCHANGED value

(* A reference is sent to another thread.                                  *)
Transfer(t, r, u) ==
    /\ holder[r] = t
    /\ holder' = [holder EXCEPT ![r] = u]
    /\ UNCHANGED value

(* Brc::drop.                                                              *)
Release(t, r) ==
    /\ holder[r] = t
    /\ holder' = [holder EXCEPT ![r] = None]
    /\ UNCHANGED value

(* The destructor of the value runs.                                       *)
Destroy ==
    /\ value = "live"
    /\ Live = {}
    /\ value' = "dropped"
    /\ UNCHANGED holder

Next ==
    \/ \E t \in Thread, r \in Ref : Acquire(t, r) \/ Release(t, r)
    \/ \E t, u \in Thread, r \in Ref : Transfer(t, r, u)
    \/ Destroy

Spec == Init /\ [][Next]_vars
=============================================================================
