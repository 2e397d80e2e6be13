------------------------------ MODULE Handover ------------------------------
(***************************************************************************)
(* Which programs keep the counter's discipline.  Nothing in the code says *)
(* that a client must not increment an unmerged count of -1; a client that *)
(* hands references over to other threads by clone_shared (src/src/strong. *)
(* rs) instead of sending the ones it has counted in the biased word never *)
(* comes across one, so that its increments are those of the code, with    *)
(* nothing asked of them.                                                  *)
(*                                                                         *)
(* The two variables observe BrcHeader and do not restrict it: `own' are   *)
(* the references that the biased word was incremented for, as long as the *)
(* words are not merged; `kept' says that the owner has kept them: none    *)
(* was sent to another thread, or dropped when its thread-local state was  *)
(* gone already, so that the drop went to the shared word; and nobody has  *)
(* upgraded the shared count past what it has room for.                    *)
(***************************************************************************)
EXTENDS BrcHeader

VARIABLES own, kept

observed == <<own, kept>>
handoverVars == <<brcVars, observed>>

-----------------------------------------------------------------------------
(* init counts its reference in the biased word, if it biases at all.      *)
HandoverInit ==
    /\ BrcInit
    /\ own = IF shared.merged THEN {} ELSE Live
    /\ kept = TRUE

(* attempt_biased_increment has counted r.                                 *)
CountedBiased(r) ==
    holder[r] = None /\ biased'.biased_count > biased.biased_count

(* What the owner does with its own references: it holds on to them, and   *)
(* drops them, if it does, while it is active.                             *)
KeepsOwn ==
    \A r \in own : \/ holder'[r] = Owner
                   \/ holder'[r] = None /\ ownerState = "active"

Observe ==
    /\ kept' = (kept /\ KeepsOwn /\ ~UpgradesNearMax)
    /\ own' = IF kept' /\ ~shared'.merged
              THEN {r \in Ref : holder'[r] = Owner /\ (r \in own \/ CountedBiased(r))}
              ELSE {}

(* The whole program, which may do anything, and one that does it within   *)
(* the discipline as well.                                                 *)
HandoverSpec == HandoverInit /\ [][BrcNext /\ Observe]_handoverVars
DisciplinedHandoverSpec ==
    HandoverInit /\ [][BrcNext /\ Disciplined /\ Observe]_handoverVars

-----------------------------------------------------------------------------
(* The shared word alone accounts for every reference that is not one of   *)
(* the owner's own, wherever it is and however it came to be, if the owner *)
(* has kept those: received references that the owner drops in the biased  *)
(* word, and own ones counted in the shared word when the biased one was   *)
(* full, make the shared count larger, never smaller.                      *)
SharedCovers ==
    kept /\ Running /\ ~shared.merged =>
        shared.shared_count >= Cardinality(Live \ own)

(* So there is nothing to ask the owner for: no object is queued or merged *)
(* explicitly (decrement_shared), and none waits for a collection.         *)
QueuesNothing ==
    kept /\ Running => ~queued /\ \A t \in Thread : ~Holds(t)

(* What is inductive, besides the invariants of BrcHeader: the biased word *)
(* counts no reference that is not one of the owner's own.                 *)
OwnAgrees ==
    /\ kept \in BOOLEAN
    /\ own \subseteq {r \in Ref : holder[r] = Owner}
    /\ kept /\ Running /\ ~shared.merged =>
           biased.biased_count =< Cardinality(own)
=============================================================================
