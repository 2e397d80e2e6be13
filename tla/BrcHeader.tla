------------------------------ MODULE BrcHeader ------------------------------
(***************************************************************************)
(* The whole header of an object (src/src/layout.rs, BrcHeader): its       *)
(* strong counter, RawBrcHeader, with the weak count beside it, and the    *)
(* operations that use both.  Weak pointers are counted (`weaks'), and     *)
(* the references' common weak count is dropped by the thread that         *)
(* destroys the value.  `call' is a thread's is_unique or strong_count in  *)
(* progress, which read the words of the counter one after the other, or   *)
(* its Weak::clone that has counted one too many and has yet to abort.     *)
(***************************************************************************)
EXTENDS RawBrcHeader

CONSTANTS
    WeakMax,        \* u32::MAX
    Anonymous,      \* the threads that have no short id, besides a dead owner
    AnonymousReads  \* whether threads without an id call strong_count

WEAK_LOCKED_COUNT == WeakMax
WEAK_OVERFLOW_THRESHOLD == WeakMax \div 2

(* There are fewer threads than the room between the threshold and the     *)
(* value that means locked.                                                *)
ASSUME BrcAssumption ==
    /\ WeakMax \in Nat
    /\ WEAK_OVERFLOW_THRESHOLD + 1 + Cardinality(Thread) < WeakMax
    /\ Anonymous \subseteq Thread \ {Owner}
    /\ AnonymousReads \in BOOLEAN

VARIABLES
    weak_count,  \* BrcHeader::weak_count
    weaks,       \* the number of Weak pointers
    call,        \* what each thread is in the middle of, outside RawBrcHeader
    unwrapped,   \* the reference whose value try_unwrap has moved out, or None
    aborted      \* weak_refcnt_overflow stopped the process

weakVars == <<weak_count, weaks, aborted>>
brcVars == <<vars, weakVars, call, unwrapped>>

-----------------------------------------------------------------------------
(* A call: which function it is of, the reference it is made with (None    *)
(* for a Weak), where it is, the shared word it has read, and how many     *)
(* references there were when it did.                                      *)
CallAt == {"none", "lock", "load_shared", "load_biased", "unlock", "mutate", "overflow"}
NoCall == [op |-> "none", ref |-> None, at |-> "none",
           word |-> [shared_count |-> 0, merged |-> FALSE, queued |-> FALSE],
           actual |-> 0, unique |-> FALSE]

Enter(t, op, r, at) ==
    call' = [call EXCEPT ![t] = [NoCall EXCEPT !.op = op, !.ref = r, !.at = at]]
Proceed(t, at) == call' = [call EXCEPT ![t].at = at]
Return(t) == call' = [call EXCEPT ![t] = NoCall]

Free(t) == ~aborted /\ call[t].at = "none"
At(t, at) == Running /\ ~aborted /\ call[t].at = at

(* get_mut, make_mut and try_unwrap borrow their reference exclusively, as *)
(* long as the mutable reference they return lives.                        *)
Exclusive == {call[t].ref : t \in {u \in Thread : call[u].op = "is_unique"}}
InCalls == {call[t].ref : t \in Thread} \cup {unwrapped}
Lendable == Live \ (Exclusive \cup {unwrapped})

(* existing_short_id().ok(); what matters of a thread's id is whose it is. *)
ThisId(t) ==
    IF t = Owner /\ ownerState = "active" THEN Owner
    ELSE IF t = Owner \/ t \in Anonymous THEN None ELSE t

-----------------------------------------------------------------------------
BrcInit ==
    /\ Init
    /\ weak_count = 1
    /\ weaks = 0
    /\ call = [t \in Thread |-> NoCall]
    /\ unwrapped = None
    /\ aborted = FALSE

(* The operations on references alone.                                     *)
StrongOperation(t, r) ==
    /\ Free(t)
    /\ \/ Lendable # {} /\ Clone(t, r)
       \/ weaks > 0 /\ Upgrade(t, r)
       \/ r \notin InCalls /\ Drop(t, r)
    /\ UNCHANGED <<weakVars, call, unwrapped>>

Send(t, r, u) ==
    /\ ~aborted
    /\ r \notin InCalls
    /\ Transfer(t, r, u)
    /\ UNCHANGED <<weakVars, call, unwrapped>>

(* What a thread is in the middle of; the value's destructor is followed   *)
(* by drop_weak, which frees the memory if it takes the last weak count.   *)
Proceeds(t) ==
    /\ Free(t)
    /\ TakeQueued(t) \/ Continue(t)
    /\ IF pc[t] = "drop_weak"
       THEN /\ weak_count' = weak_count - 1
            /\ mem' = IF weak_count = 1 THEN "freed" ELSE "weak"
       ELSE UNCHANGED weak_count
    /\ UNCHANGED <<weaks, aborted, call, unwrapped>>

Death ==
    /\ Free(Owner)
    /\ OwnerDies \/ CloseQueue
    /\ UNCHANGED <<weakVars, call, unwrapped>>

-----------------------------------------------------------------------------
(* downgrade: spins while the count is locked.                             *)
Downgrade(t) ==
    /\ Free(t) /\ Idle(t)
    /\ Lendable # {}
    /\ weak_count # WEAK_LOCKED_COUNT
    /\ IF weak_count > WEAK_OVERFLOW_THRESHOLD
       THEN aborted' = TRUE /\ UNCHANGED <<weak_count, weaks>>
       ELSE /\ weak_count' = weak_count + 1
            /\ weaks' = weaks + 1
            /\ UNCHANGED aborted
    /\ UNCHANGED <<vars, call, unwrapped>>

(* A mutant of CloneWeak: the count is compared with its largest value.    *)
CloneWeakToMax(t) ==
    /\ Free(t) /\ Idle(t)
    /\ weaks > 0
    /\ weak_count' = IF weak_count = WeakMax THEN 0 ELSE weak_count + 1
    /\ weaks' = weaks + 1
    /\ IF weak_count = WeakMax THEN Enter(t, "clone_weak", None, "overflow") ELSE UNCHANGED call
    /\ UNCHANGED <<vars, aborted, unwrapped>>

(* Weak::clone: adds, without regard to the lock, and then looks whether   *)
(* it was one too many; everybody else sees the count meanwhile.           *)
CloneWeak(t) ==
    /\ Free(t) /\ Idle(t)
    /\ weaks > 0
    /\ weak_count' = IF weak_count = WeakMax THEN 0 ELSE weak_count + 1
    /\ weaks' = weaks + 1
    /\ IF weak_count > WEAK_OVERFLOW_THRESHOLD
       THEN Enter(t, "clone_weak", None, "overflow") ELSE UNCHANGED call
    /\ UNCHANGED <<vars, aborted, unwrapped>>

AbortWeak(t) ==
    /\ At(t, "overflow")
    /\ aborted' = TRUE
    /\ UNCHANGED <<vars, weak_count, weaks, call, unwrapped>>

(* A mutant of DropWeakPointer: the last but one frees the memory.         *)
DropWeakPointerEarly(t) ==
    /\ Free(t) /\ Idle(t)
    /\ weaks > 0
    /\ weak_count' = weak_count - 1
    /\ weaks' = weaks - 1
    /\ mem' = IF weak_count =< 2 THEN "freed" ELSE mem
    /\ UNCHANGED <<counter, ownerState, holder, queued, merging, value, fault>>
    /\ UNCHANGED <<aborted, call, unwrapped>>

(* Weak::drop, drop_weak.                                                  *)
DropWeakPointer(t) ==
    /\ Free(t) /\ Idle(t)
    /\ weaks > 0
    /\ weak_count' = weak_count - 1
    /\ weaks' = weaks - 1
    /\ mem' = IF weak_count = 1 THEN "freed" ELSE mem
    /\ UNCHANGED <<counter, ownerState, holder, queued, merging, value, fault>>
    /\ UNCHANGED <<aborted, call, unwrapped>>

-----------------------------------------------------------------------------
(* is_unique for a mutable borrow.  It has answered already when the       *)
(* object is biased to another thread.                                     *)
IsUnique(t, r) ==
    /\ Free(t) /\ Idle(t)
    /\ holder[r] = t
    /\ r \notin InCalls
    /\ biased.owner_id \in {None, ThisId(t)}
    /\ Enter(t, "is_unique", r, "lock")
    /\ UNCHANGED <<vars, weakVars, unwrapped>>

(* A mutant of Lock: the weak count is only looked at.                     *)
LockLooks(t) ==
    /\ At(t, "lock")
    /\ IF weak_count = 1 THEN Proceed(t, "load_shared") ELSE Return(t)
    /\ UNCHANGED <<vars, weakVars, unwrapped>>

(* compare_exchange(1, WEAK_LOCKED_COUNT): false if there are Weaks.       *)
Lock(t) ==
    /\ At(t, "lock")
    /\ IF weak_count = 1
       THEN weak_count' = WEAK_LOCKED_COUNT /\ Proceed(t, "load_shared")
       ELSE Return(t) /\ UNCHANGED weak_count
    /\ UNCHANGED <<vars, weaks, aborted, unwrapped>>

(* strong_count, also called with a Weak.                                  *)
StrongCount(t, r) ==
    /\ Free(t) /\ Idle(t)
    /\ \/ r \in Ref /\ holder[r] = t /\ r \notin InCalls
       \/ r = None /\ weaks > 0
    /\ ThisId(t) # None \/ AnonymousReads
    /\ Enter(t, "strong_count", r, "load_shared")
    /\ UNCHANGED <<vars, weakVars, unwrapped>>

LoadShared(t) ==
    /\ At(t, "load_shared")
    /\ call' = [call EXCEPT ![t] = [call[t] EXCEPT !.at = "load_biased", !.word = shared,
                                                   !.actual = Cardinality(Live)]]
    /\ UNCHANGED <<vars, weakVars, unwrapped>>

(* A mutant of Precise: whoever the owner is.                              *)
PreciseAnyway(t) == TRUE

(* What strong_count returns if the biased word is loaded now.             *)
Precise(t) == call[t].word.merged \/ biased.owner_id = ThisId(t)
Count(t) ==
    IF call[t].word.merged THEN call[t].word.shared_count
    ELSE biased.biased_count + call[t].word.shared_count
LowerBound(t) == IF call[t].word.shared_count > 0 THEN call[t].word.shared_count ELSE 0

LoadBiased(t) ==
    /\ At(t, "load_biased")
    /\ IF call[t].op = "strong_count" THEN Return(t)
       ELSE call' = [call EXCEPT ![t] = [call[t] EXCEPT
                                            !.at = "unlock",
                                            !.unique = Precise(t) /\ Count(t) = 1]]
    /\ UNCHANGED <<vars, weakVars, unwrapped>>

(* A mutant of Unlock: the count that was locked is forgotten.             *)
UnlockZero(t) ==
    /\ At(t, "unlock")
    /\ weak_count' = 0
    /\ IF call[t].unique THEN Proceed(t, "mutate") ELSE Return(t)
    /\ UNCHANGED <<vars, weaks, aborted, unwrapped>>

Unlock(t) ==
    /\ At(t, "unlock")
    /\ weak_count' = 1
    /\ IF call[t].unique THEN Proceed(t, "mutate") ELSE Return(t)
    /\ UNCHANGED <<vars, weaks, aborted, unwrapped>>

(* The mutable reference of get_mut or make_mut ends.                      *)
EndBorrow(t) ==
    /\ At(t, "mutate")
    /\ Return(t)
    /\ UNCHANGED <<vars, weakVars, unwrapped>>

(* try_unwrap moves the value out, and leaves its reference behind: it is  *)
(* never dropped.                                                          *)
Unwrap(t) ==
    /\ At(t, "mutate")
    /\ unwrapped' = call[t].ref
    /\ Return(t)
    /\ UNCHANGED <<vars, weakVars>>

-----------------------------------------------------------------------------
InCall(t) ==
    Lock(t) \/ LoadShared(t) \/ LoadBiased(t) \/ Unlock(t) \/ AbortWeak(t)

BrcNext ==
    \/ \E t \in Thread, r \in Ref : StrongOperation(t, r) \/ IsUnique(t, r)
    \/ \E t, u \in Thread, r \in Ref : Send(t, r, u)
    \/ \E t \in Thread, r \in Ref \cup {None} : StrongCount(t, r)
    \/ \E t \in Thread :
         \/ Proceeds(t)
         \/ Downgrade(t) \/ CloneWeak(t) \/ DropWeakPointer(t)
         \/ InCall(t) \/ EndBorrow(t) \/ Unwrap(t)
    \/ Death

BrcSpec == BrcInit /\ [][BrcNext]_brcVars
DisciplinedBrcSpec == BrcInit /\ [][BrcNext /\ Disciplined]_brcVars

-----------------------------------------------------------------------------
(* What a correct header satisfies, besides what RawBrcHeader does:        *)
(* DisciplinedSpec, its specification, is a property of DisciplinedBrcSpec.*)

(* Every variable has its type: the weak count stays within 32 bits.       *)
BrcTypeOK ==
    /\ TypeOK
    /\ weak_count \in 0..WeakMax
    /\ weaks \in Nat
    /\ call \in [Thread -> [op : {"none", "is_unique", "strong_count", "clone_weak"},
                            ref : Ref \cup {None}, at : CallAt, word : SharedWord,
                            actual : Nat, unique : BOOLEAN]]
    /\ unwrapped \in Ref \cup {None}
    /\ aborted \in BOOLEAN

(* The weak count is the number of Weak pointers, and one more as long as  *)
(* the value is not destroyed; it can only be locked in a call of          *)
(* is_unique, when there is no Weak pointer at all.                        *)
Locking(t) == call[t].op = "is_unique" /\ call[t].at \in {"load_shared", "load_biased", "unlock"}
WeakExact ==
    IF \E t \in Thread : Locking(t)
    THEN weak_count = WEAK_LOCKED_COUNT /\ weaks = 0 /\ mem = "strong"
    ELSE weak_count = weaks + (IF mem = "strong" THEN 1 ELSE 0)

(* Whoever holds the mutable reference that get_mut or make_mut returned,  *)
(* or the value that try_unwrap moved out, is alone: no other reference    *)
(* exists, and no Weak pointer to make one ("never false positives",       *)
(* is_unique).                                                             *)
ExclusiveAccess ==
    Running /\ ~aborted =>
        \A r \in {call[t].ref : t \in {u \in Thread : call[u].at = "mutate"}}
                   \cup ({unwrapped} \ {None}) :
            Live = {r} /\ weaks = 0 /\ value = "live"

(* A count that strong_count returns as exact was the number of references *)
(* when it read the shared word; the bound it returns otherwise was one    *)
(* ("returning an error if it cannot be precisely determined").            *)
StrongCountExact ==
    \A t \in Thread : At(t, "load_biased") =>
        IF Precise(t) THEN Count(t) = call[t].actual ELSE LowerBound(t) =< call[t].actual

(* An exact count is never less than the caller's own reference.  Not so   *)
(* for a thread without an id: a biased word that has no owner any more    *)
(* compares equal to its own missing id, although the shared word it has   *)
(* read is from before the merge.                                          *)
OwnReferenceCounted ==
    \A t \in Thread : At(t, "load_biased") /\ call[t].ref # None /\ Precise(t) =>
        Count(t) >= 1

-----------------------------------------------------------------------------
(* The invariant that is inductive, in parts.                              *)

(* One thread at a time has the weak count locked; unlocked it is past the *)
(* threshold by no more than the threads that are about to abort for it,   *)
(* and so never the value that means locked; and the memory is freed with  *)
(* the last of it.                                                         *)
Excessive == {t \in Thread : call[t].at = "overflow"}
WeakAgrees ==
    /\ \A t, u \in Thread : Locking(t) /\ Locking(u) => t = u
    /\ \/ \E t \in Thread : Locking(t)
       \/ weak_count =< WEAK_OVERFLOW_THRESHOLD + 1 + Cardinality(Excessive)
    /\ mem = "freed" <=> weak_count = 0

(* A call is one of is_unique, with a reference that it keeps, of          *)
(* strong_count, or of Weak::clone.                                        *)
CallAgrees ==
    \A t \in Thread :
        /\ call[t].op = "none" <=> call[t].at = "none"
        /\ call[t].op = "is_unique" => call[t].ref \in Ref /\ holder[call[t].ref] # None
        /\ call[t].op = "clone_weak" <=> call[t].at = "overflow"
        /\ call[t].op = "strong_count" =>
               /\ call[t].at \in {"load_shared", "load_biased"}
               /\ ThisId(t) # None \/ AnonymousReads

(* Whom is_unique finds biased to nobody is biased to nobody still; else   *)
(* the caller is the owner.                                                *)
BiasAgrees ==
    \A t \in Thread : call[t].op = "is_unique" =>
        \/ t = Owner /\ ownerState = "active"
        \/ IF call[t].at = "load_biased" THEN call[t].word.merged
           ELSE call[t].at \in {"lock", "load_shared"} => biased.owner_id = None

(* What a call has read of the shared word goes with the biased word that  *)
(* it is going to read.                                                    *)
ReadAgrees ==
    \A t \in Thread : call[t].at = "load_biased" =>
        LET read == call[t]
        IN  /\ read.word.merged => read.word.shared_count = read.actual
            /\ ~read.word.merged => read.word.shared_count =< read.actual
            /\ ~read.word.merged /\ ThisId(t) = Owner /\ biased.owner_id = Owner =>
                   biased.biased_count + read.word.shared_count = read.actual

(* Whoever has been found unique is alone.                                 *)
Alone(r) == Live = {r}
UniqueAgrees ==
    /\ \A t \in Thread : call[t].op = "is_unique" =>
           /\ call[t].at = "load_biased" /\ call[t].actual = 1 => Alone(call[t].ref)
           /\ call[t].at = "unlock" /\ call[t].unique => Alone(call[t].ref)
           /\ call[t].at = "mutate" => Alone(call[t].ref) /\ weaks = 0
    /\ unwrapped # None => Alone(unwrapped) /\ weaks = 0

BrcInv ==
    /\ BrcTypeOK
    /\ WeakExact
    /\ WeakAgrees
    /\ CallAgrees
    /\ BiasAgrees
    /\ ReadAgrees
    /\ UniqueAgrees
=============================================================================
