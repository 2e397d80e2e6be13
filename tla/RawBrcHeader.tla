---------------------------- MODULE RawBrcHeader ----------------------------
(***************************************************************************)
(* The biased reference counter of one object (src/src/runtime.rs,         *)
(* RawBrcHeader), as the threads that clone, send, upgrade and drop its    *)
(* references see it: one step per atomic access to the shared word, and   *)
(* one per access to the biased word that another thread can race with.    *)
(*                                                                         *)
(* A reference (Ref) is one outstanding Brc; `holder' says which thread    *)
(* has it.  `pc' is what a thread is in the middle of, for this object.    *)
(* Memory is sequentially consistent.  A build without debug assertions is *)
(* modelled: the aborts that remain in one are values of `fault'.          *)
(***************************************************************************)
EXTENDS Words, FiniteSets

CONSTANTS
    Thread,     \* the threads
    Owner,      \* the thread that runs init
    Ref         \* the references that may exist at one time

ASSUME HeaderAssumption ==
    /\ Owner \in Thread
    /\ None \notin Thread
    /\ IsFiniteSet(Ref)
    /\ IsFiniteSet(Thread)

(* There are fewer threads than half the largest shared count, the half    *)
(* that lies above the threshold ("it would take over 100 million threads",*)
(* SharedWord::OVERFLOW_THRESHOLD), and than a biased count is short of it.*)
ASSUME RoomAssumption ==
    /\ 2 * Cardinality(Thread) < SharedMax
    /\ BiasedMax + Cardinality(Thread) =< SharedMax + 1

VARIABLES
    shared,     \* the shared word
    biased,     \* the biased word
    ownerState, \* the owner as a participant: "active" while its short id
                \* exists, "dying" until its queue is dropped, "closed"
    holder,     \* the thread holding each reference, or None
    queued,     \* the object is in the owner's queue
    pc,         \* what each thread is in the middle of
    saw,        \* the biased count each explicit merge has read
    after,      \* what each merge found, to act on when it is done
    value,      \* "live" or "dropped"
    mem,        \* "strong": the references' common weak count is held;
                \* "weak": only Weak pointers remain; "freed"
    fault       \* the abort that stopped the process, or "none"

counter == <<shared, biased>>
merging == <<pc, saw, after>>
life == <<value, mem>>
vars == <<counter, ownerState, holder, queued, merging, life, fault>>

-----------------------------------------------------------------------------
BiasedWord == [owner_id : {Owner, None}, biased_count : 0..BiasedMax]

PC == {"idle", "overflow", "enqueue", "queue_object", "merge_load", "merge_cas",
       "unown", "drop_value", "drop_weak"}

(* The abort that ends a program which has too many references.            *)
Overflow == {"shared_refcnt_overflow"}

(* The aborts that mean the counters are corrupt: the module               *)
(* undefined_behavior, the assertion of explicit_merge, and the bounds a   *)
(* decrement and a merge cannot reach as long as the counts are exact.     *)
Corruption == {"shared_refcnt_underflow", "merged_refcnt_overflow",
               "negative_refcnt_no_owner", "explicit_merge_bad_id",
               "assert_not_merged", "negative_refcnt_merge"}

Live == {r \in Ref : holder[r] # None}

Running == fault = "none"
Idle(t) == Running /\ pc[t] = "idle"

(* Mutants of CanUseBias: the id of a dying thread still counts; any thread *)
(* with an id counts in any word; anybody counts in a word with an owner.  *)
CanUseBiasDying(t) == t = Owner /\ biased.owner_id = Owner
CanUseBiasUnowned(t) == t = Owner /\ ownerState = "active"
CanUseBiasAnybody(t) == ownerState = "active" /\ biased.owner_id = Owner

(* existing_short_id() is the owner id of the word.                        *)
CanUseBias(t) == t = Owner /\ ownerState = "active" /\ biased.owner_id = Owner

Goto(t, next) == pc' = [pc EXCEPT ![t] = next]

-----------------------------------------------------------------------------
(* init: biased to the calling thread, or merged from the start if that    *)
(* thread has no short id.                                                 *)
InitBiased ==
    /\ shared = [shared_count |-> 0, merged |-> FALSE, queued |-> FALSE]
    /\ biased = [owner_id |-> Owner, biased_count |-> 1]
    /\ ownerState = "active"

InitUnowned ==
    /\ shared = [shared_count |-> 1, merged |-> TRUE, queued |-> FALSE]
    /\ biased = UNOWNED
    /\ ownerState = "closed"

Init ==
    /\ InitBiased \/ InitUnowned
    /\ \E r \in Ref : holder = [s \in Ref |-> IF s = r THEN Owner ELSE None]
    /\ queued = FALSE
    /\ pc = [t \in Thread |-> "idle"]
    /\ saw = [t \in Thread |-> 0]
    /\ after = [t \in Thread |-> "keep"]
    /\ value = "live"
    /\ mem = "strong"
    /\ fault = "none"

-----------------------------------------------------------------------------
(* attempt_biased_increment: only the owner writes the biased word while   *)
(* it is active, so the load and the store are one step.                   *)
IncrementBiased(t, r) ==
    /\ Idle(t)
    /\ CanUseBias(t)
    /\ biased.biased_count < BiasedMax
    /\ holder[r] = None
    /\ biased' = [biased EXCEPT !.biased_count = @ + 1]
    /\ holder' = [holder EXCEPT ![r] = t]
    /\ UNCHANGED <<shared, ownerState, queued, merging, life, fault>>

(* clone, through a reference borrowed from whichever thread holds it.     *)
CloneBiased(t, r) == Live # {} /\ IncrementBiased(t, r)

(* increment_strong_shared, from clone when the bias cannot be used and    *)
(* from clone_shared always: fetch_add, whatever the count is.  The old    *)
(* count is compared with the threshold when the new one is there for      *)
(* everybody to see.                                                       *)
CloneShared(t, r) ==
    /\ Idle(t)
    /\ Live # {}
    /\ holder[r] = None
    /\ shared' = FetchAddOne(shared)
    /\ holder' = [holder EXCEPT ![r] = t]
    /\ IF shared.shared_count > OVERFLOW_THRESHOLD
       THEN Goto(t, "overflow") ELSE UNCHANGED pc
    /\ UNCHANGED <<biased, ownerState, queued, saw, after, life, fault>>

AbortOverflow(t) ==
    /\ Running
    /\ pc[t] = "overflow"
    /\ fault' = "shared_refcnt_overflow"
    /\ UNCHANGED <<counter, ownerState, holder, queued, merging, life>>

(* Weak::upgrade, increment_strong_unless_zero.  Somebody has a Weak, so   *)
(* the memory is there; it may be that no reference is.                    *)
UpgradeBiased(t, r) == mem # "freed" /\ IncrementBiased(t, r)

(* A mutant of IsDead: upgrade does not look.                              *)
IsNeverDead == FALSE

(* increment_strong_unless_zero gives None.                                *)
IsDead == shared.merged /\ shared.shared_count = 0

UpgradeShared(t, r) ==
    /\ Idle(t)
    /\ mem # "freed"
    /\ ~(CanUseBias(t) /\ biased.biased_count < BiasedMax)
    /\ ~IsDead
    /\ holder[r] = None
    /\ IF FitsShared(shared.shared_count + 1)
       THEN /\ shared' = [shared EXCEPT !.shared_count = @ + 1]
            /\ holder' = [holder EXCEPT ![r] = t]
            /\ UNCHANGED fault
       ELSE /\ fault' = "shared_refcnt_overflow"
            /\ UNCHANGED <<shared, holder>>
    /\ UNCHANGED <<biased, ownerState, queued, merging, life>>

(* Brc is Send: a reference moves to another thread.                       *)
Transfer(t, r, u) ==
    /\ Running
    /\ pc[t] # "overflow"
    /\ holder[r] = t
    /\ t # u
    /\ holder' = [holder EXCEPT ![r] = u]
    /\ UNCHANGED <<counter, ownerState, queued, merging, life, fault>>

-----------------------------------------------------------------------------
(* decrement_biased, when the count does not reach zero.                   *)
DropBiased(t, r) ==
    /\ Idle(t)
    /\ CanUseBias(t)
    /\ holder[r] = t
    /\ biased.biased_count > 1
    /\ biased' = [biased EXCEPT !.biased_count = @ - 1]
    /\ holder' = [holder EXCEPT ![r] = None]
    /\ UNCHANGED <<shared, ownerState, queued, merging, life, fault>>

(* decrement_biased_slow: the implicit merge publishes the merged flag,    *)
(* and clears the owner in a later step.                                   *)
DropBiasedSlow(t, r) ==
    /\ Idle(t)
    /\ CanUseBias(t)
    /\ holder[r] = t
    /\ biased.biased_count =< 1
    /\ shared' = FetchOrMerged(shared)
    /\ holder' = [holder EXCEPT ![r] = None]
    /\ Goto(t, "unown")
    /\ after' = [after EXCEPT ![t] =
                   IF shared.shared_count = 0 THEN "drop" ELSE "keep"]
    /\ UNCHANGED <<biased, ownerState, queued, saw, life, fault>>

(* The store of UNOWNED that ends an implicit and an explicit merge, and   *)
(* what the merge does next.                                               *)
StoreUnowned(t) ==
    /\ Running
    /\ pc[t] = "unown"
    /\ biased' = UNOWNED
    /\ Goto(t, IF after[t] = "drop" THEN "drop_value" ELSE "idle")
    /\ fault' = IF after[t] = "negative" THEN "negative_refcnt_merge" ELSE "none"
    /\ UNCHANGED <<shared, ownerState, holder, queued, saw, after, life>>

(* Mutants of WinsTicket: every negative count wins; -1 does not.          *)
WinsAgain(count) == count < 0
WinsLate(count) == count < -1 /\ ~shared.queued

(* The decrement that sets the queued flag.                                *)
WinsTicket(count) == count < 0 /\ ~shared.queued

(* A mutant of IsLast: the biased count is forgotten.                      *)
IsLastShared(count) == count = 0

(* The decrement that destroys.                                            *)
IsLast(count) == shared.merged /\ count = 0

(* decrement_shared: the thread that first makes the count negative sets   *)
(* the queued flag in the same exchange, and goes on to queue the object.  *)
DropShared(t, r) ==
    /\ Idle(t)
    /\ ~CanUseBias(t)
    /\ holder[r] = t
    /\ IF FitsShared(shared.shared_count - 1)
       THEN LET count == shared.shared_count - 1
            IN  /\ shared' = [shared EXCEPT !.shared_count = count,
                                            !.queued = @ \/ count < 0]
                /\ holder' = [holder EXCEPT ![r] = None]
                /\ Goto(t, IF WinsTicket(count) THEN "enqueue"
                           ELSE IF IsLast(count) THEN "drop_value" ELSE "idle")
                /\ UNCHANGED fault
       ELSE /\ fault' = "shared_refcnt_underflow"
            /\ UNCHANGED <<shared, holder, pc>>
    /\ UNCHANGED <<biased, ownerState, queued, saw, after, life>>

-----------------------------------------------------------------------------
(* decrement_shared_do_queue: find the owner.                              *)
LoadOwner(t) ==
    /\ Running
    /\ pc[t] = "enqueue"
    /\ IF biased.owner_id = None
       THEN fault' = "negative_refcnt_no_owner" /\ UNCHANGED pc
       ELSE Goto(t, "queue_object") /\ UNCHANGED fault
    /\ UNCHANGED <<counter, ownerState, holder, queued, saw, after, life>>

(* queue_object: push to the owner's queue while it exists, or else merge  *)
(* here.                                                                   *)
QueueObject(t) ==
    /\ Running
    /\ pc[t] = "queue_object"
    /\ \/ /\ ownerState # "closed"
          /\ queued' = TRUE
          /\ Goto(t, "idle")
       \/ /\ ownerState = "closed"
          /\ Goto(t, "merge_load")
          /\ UNCHANGED queued
    /\ UNCHANGED <<counter, ownerState, holder, saw, after, life, fault>>

(* do_process pops the object: the owner, in a collection, or whoever      *)
(* dropped the last handle of a queue whose owner is dead.                 *)
TakeQueued(t) ==
    /\ Idle(t)
    /\ queued
    /\ \/ t = Owner /\ ownerState = "active"
       \/ ownerState = "closed"
    /\ queued' = FALSE
    /\ Goto(t, "merge_load")
    /\ UNCHANGED <<counter, ownerState, holder, saw, after, life, fault>>

(* explicit_merge: the biased word, then the exchange that merges.         *)
MergeLoad(t) ==
    /\ Running
    /\ pc[t] = "merge_load"
    /\ IF biased.owner_id # Owner
       THEN fault' = "explicit_merge_bad_id" /\ UNCHANGED <<pc, saw>>
       ELSE /\ saw' = [saw EXCEPT ![t] = biased.biased_count]
            /\ Goto(t, "merge_cas")
            /\ UNCHANGED fault
    /\ UNCHANGED <<counter, ownerState, holder, queued, after, life>>

(* A mutant of MergeOutcome: a merge that finds nothing left destroys      *)
(* nothing.                                                                *)
MergeKeeps(count) == IF count >= 0 THEN "keep" ELSE "negative"

MergeOutcome(count) ==
    IF count = 0 THEN "drop" ELSE IF count > 0 THEN "keep" ELSE "negative"

MergeCas(t) ==
    /\ Running
    /\ pc[t] = "merge_cas"
    /\ LET count == shared.shared_count + saw[t]
       IN  IF ~shared.merged /\ FitsShared(count)
           THEN /\ shared' = [shared EXCEPT !.shared_count = count, !.merged = TRUE]
                /\ after' = [after EXCEPT ![t] = MergeOutcome(count)]
                /\ Goto(t, "unown")
                /\ UNCHANGED fault
           ELSE /\ fault' = IF shared.merged THEN "assert_not_merged"
                            ELSE "merged_refcnt_overflow"
                /\ UNCHANGED <<shared, after, pc>>
    /\ UNCHANGED <<biased, ownerState, holder, queued, saw, life>>

-----------------------------------------------------------------------------
(* erased_dealloc: the destructor of the value, then the weak count the    *)
(* references shared.                                                      *)
DropValue(t) ==
    /\ Running
    /\ pc[t] = "drop_value"
    /\ value' = "dropped"
    /\ Goto(t, "drop_weak")
    /\ UNCHANGED <<counter, ownerState, holder, queued, saw, after, mem, fault>>

DropWeak(t) ==
    /\ Running
    /\ pc[t] = "drop_weak"
    /\ mem' \in {"weak", "freed"}
    /\ Goto(t, "idle")
    /\ UNCHANGED <<counter, ownerState, holder, queued, saw, after, value, fault>>

(* The last Weak is dropped after the value was.                           *)
LastWeakDropped ==
    /\ Running
    /\ mem = "weak"
    /\ mem' = "freed"
    /\ UNCHANGED <<counter, ownerState, holder, queued, merging, value, fault>>

(* LocalThreadState::drop: the owner stops being one, then its handle of   *)
(* the queue goes, and the queue with the last handle.                     *)
OwnerDies ==
    /\ Idle(Owner)
    /\ ownerState = "active"
    /\ ownerState' = "dying"
    /\ UNCHANGED <<counter, holder, queued, merging, life, fault>>

CloseQueue ==
    /\ Running
    /\ ownerState = "dying"
    /\ ownerState' = "closed"
    /\ UNCHANGED <<counter, holder, queued, merging, life, fault>>

-----------------------------------------------------------------------------
Clone(t, r) == CloneBiased(t, r) \/ CloneShared(t, r)
Upgrade(t, r) == UpgradeBiased(t, r) \/ UpgradeShared(t, r)
Drop(t, r) == DropBiased(t, r) \/ DropBiasedSlow(t, r) \/ DropShared(t, r)

(* The steps that carry on with something already begun.                   *)
Continue(t) ==
    \/ AbortOverflow(t)
    \/ LoadOwner(t) \/ QueueObject(t)
    \/ MergeLoad(t) \/ MergeCas(t) \/ StoreUnowned(t)
    \/ DropValue(t) \/ DropWeak(t)

Next ==
    \/ \E t \in Thread, r \in Ref : Clone(t, r) \/ Upgrade(t, r) \/ Drop(t, r)
    \/ \E t, u \in Thread, r \in Ref : Transfer(t, r, u)
    \/ \E t \in Thread : TakeQueued(t) \/ Continue(t)
    \/ LastWeakDropped
    \/ OwnerDies
    \/ CloseQueue

Spec == Init /\ [][Next]_vars

-----------------------------------------------------------------------------
(* The discipline: what the code leaves to its clients.  An unmerged count *)
(* of -1 is not incremented, by clone or by upgrade; and upgrade, which    *)
(* looks at the width of the count but not at the threshold, is not used   *)
(* to take the room that the threshold keeps for the increments under way. *)
AtMinusOne == ~shared.merged /\ shared.shared_count = -1

ClonesAtMinusOne == AtMinusOne /\ \E t \in Thread, r \in Ref : CloneShared(t, r)
UpgradesAtMinusOne == AtMinusOne /\ \E t \in Thread, r \in Ref : UpgradeShared(t, r)

UpgradesNearMax ==
    /\ shared.shared_count + 1 + Cardinality(Thread) > SharedMax
    /\ \E t \in Thread, r \in Ref : UpgradeShared(t, r)

Disciplined == ~ClonesAtMinusOne /\ ~UpgradesAtMinusOne /\ ~UpgradesNearMax

DisciplinedSpec == Init /\ [][Next /\ Disciplined]_vars

(* A thread finishes what it is doing; the owner, as long as it is active, *)
(* sooner or later collects; a dead thread's queue is emptied.             *)
Fairness ==
    /\ \A t \in Thread : WF_vars(Continue(t))
    /\ WF_vars(\E t \in Thread : TakeQueued(t))
    /\ WF_vars(CloseQueue)

FairSpec == DisciplinedSpec /\ Fairness

-----------------------------------------------------------------------------
(* What a correct counter satisfies.                                       *)

(* Every variable has its type: in particular the counts stay within the   *)
(* widths of their fields (BiasedCount, SharedCount).                      *)
TypeOK ==
    /\ shared \in SharedWord
    /\ biased \in BiasedWord
    /\ ownerState \in {"active", "dying", "closed"}
    /\ holder \in [Ref -> Thread \cup {None}]
    /\ queued \in BOOLEAN
    /\ pc \in [Thread -> PC]
    /\ saw \in [Thread -> 0..BiasedMax]
    /\ after \in [Thread -> {"keep", "drop", "negative"}]
    /\ value \in {"live", "dropped"}
    /\ mem \in {"strong", "weak", "freed"}
    /\ fault \in {"none"} \cup Overflow \cup Corruption

(* The counts of the two words together are the number of references that  *)
(* exist, whichever of them each increment and decrement went to and       *)
(* however far a merge has come (strong_count's sum, explicit_merge).      *)
CountExact ==
    Running => Cardinality(Live) = shared.shared_count
                 + (IF shared.merged THEN 0 ELSE biased.biased_count)

(* However many threads are past the threshold and have not aborted yet,   *)
(* and whatever the others do to the count meanwhile, it has room for an   *)
(* increment by every thread that may still make one: fetch_add does not   *)
(* wrap around ("the counter could silently wrap around").                 *)
Incrementing == {t \in Thread : pc[t] # "overflow"}
OverflowRoom ==
    Running => shared.shared_count + Cardinality(Incrementing) =< SharedMax

(* No abort that signals corrupt counters is ever reached: no underflow,   *)
(* no queueing without an owner, no merge by the wrong thread, of a merged *)
(* word, past the largest count or to a negative one.                      *)
NoCorruption == fault \notin Corruption

(* A value that any reference can still reach has not been destroyed.      *)
ValueSafe == Live # {} => value = "live"

(* A thread about to run the destructor is alone in doing so, the value is *)
(* whole, and no reference is left to it: destroyed once, and never early. *)
DestroyedOnce ==
    \A t \in Thread : pc[t] = "drop_value" =>
        /\ value = "live"
        /\ Live = {}
        /\ \A u \in Thread \ {t} : pc[u] \notin {"drop_value", "drop_weak"}

Queueing == {"enqueue", "queue_object", "merge_load", "merge_cas"}

(* The right to merge explicitly is unique from the exchange that sets the *)
(* queued flag to the one that sets the merged flag: the object is in one  *)
(* queue, once, or in the hands of one thread (queue_object's safety       *)
(* condition, "at most once per object").                                  *)
OneTicket ==
    /\ \A t, u \in Thread : {pc[t], pc[u]} \subseteq Queueing => t = u
    /\ queued => \A t \in Thread : pc[t] \notin Queueing

(* While an object waits for its merge, in a queue or in a thread's hands, *)
(* its header is allocated ("the refcnt guarantees the header will not be  *)
(* dropped", decrement_shared_do_queue).                                   *)
HeaderValid ==
    queued \/ (\E t \in Thread : pc[t] \in Queueing) => mem # "freed"

(* A value with no reference left is never forgotten: the object is        *)
(* queued, or some thread is on its way to merging or destroying it.       *)
NeverForgotten ==
    Running /\ Live = {} /\ value = "live" =>
        queued \/ \E t \in Thread : pc[t] # "idle"

(* The owner merges implicitly, at the last of its own references, only    *)
(* words nobody has merged or asked it to merge (the two debug assertions  *)
(* of decrement_biased_slow).                                              *)
ImplicitMergeClean ==
    Idle(Owner) /\ CanUseBias(Owner) /\ biased.biased_count = 1
      /\ (\E r \in Ref : holder[r] = Owner)
    => ~shared.merged /\ shared.shared_count >= 0

(* The merged flag is set by a merge, and only by a merge ("set by the     *)
(* owner thread when it has merged", SharedWord::merged).                  *)
MergedByMergeStep ==
    ~shared.merged /\ shared'.merged =>
        \E t \in Thread : pc[t] # "unown" /\ pc'[t] = "unown"
MergedByMerge == [][MergedByMergeStep]_vars

(* Once merged, a count is never biased again: the flag stays, nobody      *)
(* counts in the biased word any more, and its owner does not come back.   *)
NeverRebiasedStep ==
    shared.merged =>
        /\ shared'.merged
        /\ biased' \in {biased, UNOWNED}
NeverRebiased == [][NeverRebiasedStep]_vars

(* The store that ends a merge is made to a header that still exists       *)
(* ("once a header is destroyed, it should never be used again").          *)
UnownValid == \A t \in Thread : pc[t] = "unown" => mem # "freed"

(* The counter is a counter: seen through its references and its value it  *)
(* does only what SharedValue allows.                                      *)
Promise == INSTANCE SharedValue
RefinesSharedValue == Promise!Spec

(* The counter keeps its side of the contract with the runtime: it asks    *)
(* for an object's merge at most once, and merges what it has taken up,    *)
(* the owner if there is one (queue_object's and explicit_merge's safety   *)
(* conditions).                                                            *)
Ticket == "ticket"
Holds(t) == pc[t] \in Queueing
TicketStage ==
    IF shared.merged THEN "merged"
    ELSE IF queued THEN "queued"
    ELSE IF \E t \in Thread : pc[t] \in {"merge_load", "merge_cas"} THEN "merging"
    ELSE IF \E t \in Thread : Holds(t) THEN "asked"
    ELSE "biased"
Contract == INSTANCE MergeQueue
                WITH Object <- {Ticket},
                     stage <- [x \in {Ticket} |-> TicketStage],
                     hand <- [t \in Thread |-> IF Holds(t) THEN {Ticket} ELSE {}]
RefinesMergeQueue == Contract!Spec

(* A value whose references are all gone is destroyed, unless a Weak       *)
(* brings it back or a counter overflows first.                            *)
Reclaimed ==
    (Live = {} /\ value = "live") ~> (value = "dropped" \/ Live # {} \/ ~Running)

(* An object whose merge was asked for is merged: it does not sit in a     *)
(* queue that nobody empties.                                              *)
EventuallyMerged == shared.queued ~> (shared.merged \/ ~Running)

-----------------------------------------------------------------------------
(* The invariant that is inductive, in parts.                              *)

(* Until the merge the owner owns at least one reference in its count, and *)
(* the count of the others is negative exactly when the merge is asked     *)
(* for; afterwards it is a plain count.                                    *)
WordsAgree ==
    /\ ~shared.merged => /\ biased.owner_id = Owner
                         /\ biased.biased_count >= 1
                         /\ shared.queued <=> shared.shared_count < 0
    /\ shared.merged => shared.shared_count >= 0
    /\ biased.owner_id = None => shared.merged

(* The queued flag of an unmerged word is the ticket, held somewhere.      *)
TicketHeld ==
    LET held == queued \/ \E t \in Thread : pc[t] \in Queueing
    IN  held <=> shared.queued /\ ~shared.merged

(* Only the owner, or anybody when there is no owner any more, merges; the *)
(* biased count it has read is still the count.                            *)
MergerAlone ==
    \A t \in Thread :
        /\ pc[t] \in {"merge_load", "merge_cas"} =>
             t = Owner \/ ownerState = "closed"
        /\ pc[t] = "merge_cas" => saw[t] = biased.biased_count

(* Between the two halves of a merge the flag says merged while the biased *)
(* word still names an owner: an active owner is then itself the merger.   *)
MergeHalves ==
    /\ \A t \in Thread : pc[t] = "unown" =>
           /\ shared.merged
           /\ after[t] # "negative"
    /\ shared.merged /\ biased.owner_id = Owner /\ ownerState = "active" =>
           pc[Owner] = "unown"

Destroying(t) == pc[t] = "drop_value" \/ (pc[t] = "unown" /\ after[t] = "drop")

(* A merged count of zero with the value whole has one destroyer.          *)
OneDestroyer ==
    /\ \A t \in Thread : Destroying(t) =>
           /\ shared.merged
           /\ shared.shared_count = 0
           /\ value = "live"
           /\ \A u \in Thread : Destroying(u) => u = t
    /\ shared.merged /\ shared.shared_count = 0 /\ value = "live" =>
           \E t \in Thread : Destroying(t)

(* What is left of the object after its value.                             *)
Remains ==
    /\ value = "dropped" => shared.merged /\ shared.shared_count = 0
    /\ mem # "strong" => value = "dropped"
    /\ \A t \in Thread : pc[t] = "drop_weak" =>
           /\ value = "dropped"
           /\ mem = "strong"
           /\ \A u \in Thread : pc[u] = "drop_weak" => u = t

(* The inductive invariant: until an overflow ends the program, all of it. *)
IInv ==
    /\ TypeOK
    /\ fault \in {"none"} \cup Overflow
    /\ Running =>
         /\ CountExact
         /\ OverflowRoom
         /\ WordsAgree
         /\ OneTicket
         /\ TicketHeld
         /\ MergerAlone
         /\ MergeHalves
         /\ OneDestroyer
         /\ Remains
=============================================================================
