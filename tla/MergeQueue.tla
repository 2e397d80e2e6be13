----------------------------- MODULE MergeQueue -----------------------------
(***************************************************************************)
(* What RawBrcHeader relies on from the thread runtime: an object handed   *)
(* over for its merge is merged once, by its owner as long as there is     *)
(* one, and by somebody else only when the owner's queue is closed.  Both  *)
(* sides implement it: RawBrcHeader, which asks and merges, for one object *)
(* and ThreadRuntime, which queues, for all objects of an owner.           *)
(***************************************************************************)
EXTENDS Naturals

CONSTANTS
    Thread,  \* the threads
    Owner,   \* the thread whose queue this is
    Object   \* the objects biased to it

VARIABLES
    ownerState,  \* "active", "dying", "closed"
    stage,       \* where each object is on its way to the merge
    hand         \* the objects each thread has in its hands

vars == <<ownerState, stage, hand>>

(* Objects that were never biased to anybody have no merge before them.    *)
Init ==
    /\ \/ ownerState = "active" /\ stage = [x \in Object |-> "biased"]
       \/ ownerState = "closed" /\ stage = [x \in Object |-> "merged"]
    /\ hand = [t \in Thread |-> {}]

Advance(x, next) == stage' = [stage EXCEPT ![x] = next]
TakeUp(t, x) == hand' = [hand EXCEPT ![t] = @ \cup {x}]
PutDown(t, x) == hand' = [hand EXCEPT ![t] = @ \ {x}]

(* A thread wins the right to queue the object.                            *)
Ask(t, x) ==
    /\ stage[x] = "biased"
    /\ t = Owner => ownerState # "active"
    /\ Advance(x, "asked")
    /\ TakeUp(t, x)
    /\ UNCHANGED ownerState

Enqueue(t, x) ==
    /\ x \in hand[t]
    /\ stage[x] = "asked"
    /\ ownerState # "closed"
    /\ Advance(x, "queued")
    /\ PutDown(t, x)
    /\ UNCHANGED ownerState

(* The object comes out of the queue.                                      *)
Take(t, x) ==
    /\ stage[x] = "queued"
    /\ (t = Owner /\ ownerState = "active") \/ ownerState = "closed"
    /\ Advance(x, "merging")
    /\ TakeUp(t, x)
    /\ UNCHANGED ownerState

(* There is no queue any more: the thread that asked is to merge.          *)
Keep(t, x) ==
    /\ x \in hand[t]
    /\ stage[x] = "asked"
    /\ ownerState = "closed"
    /\ Advance(x, "merging")
    /\ UNCHANGED <<ownerState, hand>>

Merge(t, x) ==
    /\ x \in hand[t]
    /\ stage[x] = "merging"
    /\ Advance(x, "merged")
    /\ PutDown(t, x)
    /\ UNCHANGED ownerState

(* The owner merges implicitly, at the last of its own references.         *)
MergeOwn(x) ==
    /\ stage[x] = "biased"
    /\ ownerState = "active"
    /\ Advance(x, "merged")
    /\ UNCHANGED <<ownerState, hand>>

OwnerDies ==
    /\ ownerState = "active"
    /\ hand[Owner] = {}
    /\ ownerState' = "dying"
    /\ UNCHANGED <<stage, hand>>

CloseQueue ==
    /\ ownerState = "dying"
    /\ ownerState' = "closed"
    /\ UNCHANGED <<stage, hand>>

Next ==
    \/ \E t \in Thread, x \in Object :
         Ask(t, x) \/ Enqueue(t, x) \/ Take(t, x) \/ Keep(t, x) \/ Merge(t, x)
    \/ \E x \in Object : MergeOwn(x)
    \/ OwnerDies
    \/ CloseQueue

Spec == Init /\ [][Next]_vars
=============================================================================
