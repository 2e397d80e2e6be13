--------------------------- MODULE BrcHeaderProofs ---------------------------
(***************************************************************************)
(* Proofs about BrcHeader, for any threads, references and widths: the     *)
(* whole header still does what RawBrcHeader says, its weak count is       *)
(* exact, mutable borrows are exclusive, and exact counts are exact.  All  *)
(* under the discipline of RawBrcHeader (DisciplinedBrcSpec), on whose     *)
(* invariant these proofs build.                                           *)
(***************************************************************************)
EXTENDS BrcHeader, RawBrcHeaderProofs

(* The invariant of the whole header.                                      *)
HeaderInv == IInv /\ Safe /\ BrcInv

-----------------------------------------------------------------------------
(* The weak count against the life of the object.                          *)

(* Any threads may have incremented once more past the threshold, and the  *)
(* count is still less than the value that means locked.                   *)
LEMMA Room ==
    /\ WEAK_OVERFLOW_THRESHOLD \in Nat
    /\ WeakMax \in Nat /\ WeakMax > 1
    /\ \A S \in SUBSET Thread :
          /\ IsFiniteSet(S) /\ Cardinality(S) \in Nat
          /\ WEAK_OVERFLOW_THRESHOLD + 1 + Cardinality(S) < WeakMax
<1>1. WEAK_OVERFLOW_THRESHOLD \in Nat /\ WeakMax \in Nat
  BY BrcAssumption DEF WEAK_OVERFLOW_THRESHOLD
<1>2. ASSUME NEW S \in SUBSET Thread
      PROVE  /\ IsFiniteSet(S) /\ Cardinality(S) \in Nat /\ Cardinality(Thread) \in Nat
             /\ Cardinality(S) =< Cardinality(Thread)
  BY HeaderAssumption, FS_Subset, FS_CardinalityType
<1>3. WeakMax > 1
  BY <1>1, BrcAssumption, HeaderAssumption, FS_CardinalityType
<1> QED BY <1>1, <1>2, <1>3, BrcAssumption

(* As long as there are references the value is whole and they hold their  *)
(* common weak count.                                                      *)
LEMMA LiveHolds ==
    ASSUME HeaderInv, Running, Live # {}
    PROVE  value = "live" /\ mem = "strong"
  BY DEF HeaderInv, Safe, ValueSafe, IInv, Remains

(* A count that nobody has locked is the number of Weak pointers, and one  *)
(* more for the references.                                                *)
LEMMA Unlocked ==
    ASSUME HeaderInv, weaks > 0 \/ mem # "strong" \/ weak_count = 1
    PROVE  /\ \A t \in Thread : ~Locking(t)
           /\ weak_count = weaks + (IF mem = "strong" THEN 1 ELSE 0)
<1>1. weak_count = WEAK_LOCKED_COUNT => weak_count # 1
  BY Room DEF WEAK_LOCKED_COUNT
<1> QED BY <1>1 DEF HeaderInv, BrcInv, BrcTypeOK, WeakExact

(* A thread more has incremented past the threshold.                       *)
LEMMA ExcessiveAdded ==
    ASSUME NEW t \in Thread, call[t].at # "overflow", call'[t].at = "overflow",
           \A u \in Thread \ {t} : call'[u] = call[u]
    PROVE  Cardinality(Excessive') = Cardinality(Excessive) + 1
<1>1. Excessive' = Excessive \cup {t} /\ t \notin Excessive
  BY DEF Excessive
<1>2. IsFiniteSet(Excessive)
  BY Room DEF Excessive
<1> QED BY <1>1, <1>2, FS_AddElement

(* A reference counted alone is alone.                                     *)
LEMMA AloneIfOne ==
    ASSUME NEW r \in Live, Cardinality(Live) = 1
    PROVE  Alone(r)
<1>1. IsFiniteSet(Live \ {r}) /\ Cardinality(Live \ {r}) = 0
  BY LiveFinite, FS_RemoveElement
<1>2. Live \ {r} = {}
  BY <1>1, FS_EmptySet
<1> QED BY <1>2 DEF Alone

-----------------------------------------------------------------------------
(* Every step is one of RawBrcHeader, or none.                             *)
LEMMA StepImplements == ASSUME HeaderInv, BrcNext PROVE [Next]_vars
<1>1. ASSUME NEW t \in Thread, NEW r \in Ref, StrongOperation(t, r) PROVE [Next]_vars
  BY <1>1 DEF StrongOperation, Next
<1>2. ASSUME NEW t \in Thread, NEW u \in Thread, NEW r \in Ref, Send(t, r, u)
      PROVE  [Next]_vars
  BY <1>2 DEF Send, Next
<1>3. ASSUME NEW t \in Thread, Proceeds(t) PROVE [Next]_vars
  BY <1>3 DEF Proceeds, Next
<1>4. ASSUME Death PROVE [Next]_vars
  BY <1>4 DEF Death, Next
<1>5. ASSUME NEW t \in Thread, DropWeakPointer(t) PROVE [Next]_vars
  <2>1. weak_count = weaks + (IF mem = "strong" THEN 1 ELSE 0) /\ weaks \in Nat /\ weaks > 0
    BY <1>5, Unlocked DEF DropWeakPointer, HeaderInv, BrcInv, BrcTypeOK
  <2>2. CASE weak_count = 1
    <3>1. mem = "weak"
      BY <2>1, <2>2 DEF HeaderInv, IInv, TypeOK, BrcInv, WeakAgrees
    <3> QED BY <1>5, <2>2, <3>1 DEF DropWeakPointer, Idle, LastWeakDropped, Next
  <2>3. CASE weak_count # 1
    BY <1>5, <2>3 DEF DropWeakPointer, vars, life
  <2> QED BY <2>2, <2>3
<1> QED
  BY <1>1, <1>2, <1>3, <1>4, <1>5
  DEF BrcNext, Downgrade, CloneWeak, IsUnique, StrongCount, InCall, Lock,
      LoadShared, LoadBiased, Unlock, AbortWeak, EndBorrow, Unwrap

(* A step within the discipline is one of RawBrcHeader within it.          *)
LEMMA DisciplinedStepImplements ==
    HeaderInv /\ [BrcNext /\ Disciplined]_brcVars => [Next /\ Disciplined]_vars
  BY StepImplements DEF brcVars

-----------------------------------------------------------------------------
(* The steps of the counter.                                               *)
CounterStep ==
    \/ \E t \in Thread, r \in Ref : StrongOperation(t, r)
    \/ \E t, u \in Thread, r \in Ref : Send(t, r, u)
    \/ \E t \in Thread : Proceeds(t)
    \/ Death

(* Whoever is in a call keeps its reference, ...                           *)
LEMMA CallerKeepsReference ==
    ASSUME HeaderInv, CounterStep, NEW s \in Ref \cap InCalls, holder[s] # None
    PROVE  holder'[s] # None
<1>1. ASSUME NEW t \in Thread, NEW r \in Ref, StrongOperation(t, r) PROVE holder'[s] # None
  BY <1>1, HeaderAssumption
  DEF StrongOperation, Clone, CloneBiased, CloneShared, Upgrade, UpgradeBiased,
      UpgradeShared, IncrementBiased, Drop, DropBiased, DropBiasedSlow, DropShared,
      HeaderInv, IInv, TypeOK
<1>2. ASSUME NEW t \in Thread, NEW u \in Thread, NEW r \in Ref, Send(t, r, u)
      PROVE  holder'[s] # None
  BY <1>2 DEF Send, Transfer, HeaderInv, IInv, TypeOK
<1>3. ASSUME NEW t \in Thread, Proceeds(t) PROVE holder'[s] # None
  BY <1>3
  DEF Proceeds, TakeQueued, Continue, AbortOverflow, LoadOwner, QueueObject, MergeLoad, MergeCas,
      StoreUnowned, DropValue, DropWeak
<1>4. CASE Death
  BY <1>4 DEF Death, OwnerDies, CloseQueue
<1> QED BY <1>1, <1>2, <1>3, <1>4 DEF CounterStep

(* ... and while the owner is in one its id stays valid, and the biased    *)
(* word as it is until nobody owns it.                                     *)
LEMMA CallerKeepsBias ==
    ASSUME HeaderInv, CounterStep
    PROVE  /\ biased.owner_id = None => biased'.owner_id = None
           /\ call[Owner].at # "none" =>
                  /\ ownerState' = ownerState
                  /\ biased' = biased \/ biased'.owner_id = None
<1> DEFINE Goal == /\ biased.owner_id = None => biased'.owner_id = None
                   /\ call[Owner].at # "none" =>
                         /\ ownerState' = ownerState
                         /\ biased' = biased \/ biased'.owner_id = None
<1>1. ASSUME NEW t \in Thread, NEW r \in Ref, StrongOperation(t, r) PROVE Goal
  BY <1>1
  DEF StrongOperation, Clone, CloneBiased, CloneShared, Upgrade, UpgradeBiased,
      UpgradeShared, IncrementBiased, Drop, DropBiased, DropBiasedSlow, DropShared,
      CanUseBias, Free, HeaderInv, IInv, TypeOK, BiasedWord
<1>2. ASSUME NEW t \in Thread, NEW u \in Thread, NEW r \in Ref, Send(t, r, u)
      PROVE  Goal
  BY <1>2 DEF Send, Transfer, counter
<1>3. ASSUME NEW t \in Thread, Proceeds(t) PROVE Goal
  BY <1>3
  DEF Proceeds, TakeQueued, Continue, AbortOverflow, LoadOwner, QueueObject, MergeLoad, MergeCas,
      StoreUnowned, DropValue, DropWeak, UNOWNED, counter
<1>4. CASE Death
  BY <1>4 DEF Death, OwnerDies, CloseQueue, Free, counter
<1> QED BY <1>1, <1>2, <1>3, <1>4 DEF CounterStep

(* A reference that is alone, lent to nobody and without a Weak stays so.  *)
LEMMA SoleStays ==
    ASSUME HeaderInv, CounterStep, weaks = 0, NEW s \in Exclusive \cup {unwrapped}, Alone(s)
    PROVE  Alone(s)'
<1>1. Lendable = {} /\ s \in InCalls
  BY DEF Lendable, Alone, Exclusive, InCalls
<1>2. ASSUME NEW t \in Thread, NEW r \in Ref, StrongOperation(t, r) PROVE FALSE
  BY <1>1, <1>2, HeaderAssumption
  DEF StrongOperation, Drop, DropBiased, DropBiasedSlow, DropShared, Alone, Live
<1>3. ASSUME NEW t \in Thread, NEW u \in Thread, NEW r \in Ref, Send(t, r, u)
      PROVE  FALSE
  BY <1>1, <1>3, HeaderAssumption DEF Send, Transfer, Alone, Live
<1>4. ASSUME NEW t \in Thread, Proceeds(t) PROVE holder' = holder
  BY <1>4
  DEF Proceeds, TakeQueued, Continue, AbortOverflow, LoadOwner, QueueObject, MergeLoad, MergeCas,
      StoreUnowned, DropValue, DropWeak
<1>5. CASE Death
  BY <1>5 DEF Death, OwnerDies, CloseQueue, Alone, Live
<1> QED BY <1>2, <1>3, <1>4, <1>5 DEF CounterStep, Alone, Live

(* The weak count changes with the value's destruction only.               *)
LEMMA CounterStepOnWeak ==
    ASSUME HeaderInv, CounterStep
    PROVE  \/ UNCHANGED <<weak_count, mem>>
           \/ /\ mem = "strong" /\ (\A t \in Thread : ~Locking(t))
              /\ weak_count' = weak_count - 1
              /\ mem' = IF weak_count = 1 THEN "freed" ELSE "weak"
<1> DEFINE Goal == \/ UNCHANGED <<weak_count, mem>>
                   \/ /\ mem = "strong" /\ (\A t \in Thread : ~Locking(t))
                      /\ weak_count' = weak_count - 1
                      /\ mem' = IF weak_count = 1 THEN "freed" ELSE "weak"
<1>1. ASSUME NEW t \in Thread, NEW r \in Ref, StrongOperation(t, r) PROVE Goal
  BY <1>1
  DEF StrongOperation, Clone, CloneBiased, CloneShared, Upgrade, UpgradeBiased,
      UpgradeShared, IncrementBiased, Drop, DropBiased, DropBiasedSlow, DropShared,
      weakVars, life
<1>2. ASSUME NEW t \in Thread, NEW u \in Thread, NEW r \in Ref, Send(t, r, u)
      PROVE  Goal
  BY <1>2 DEF Send, Transfer, weakVars, life
<1>3. ASSUME NEW t \in Thread, Proceeds(t) PROVE Goal
  <2>1. CASE pc[t] = "drop_weak"
    <3>1. mem = "strong" /\ value = "dropped"
      BY <1>3, <2>1
      DEF Proceeds, TakeQueued, Continue, AbortOverflow, LoadOwner, QueueObject, MergeLoad, MergeCas,
          StoreUnowned, DropValue, DropWeak, Idle, HeaderInv, IInv, Remains
    <3>2. Live = {}
      BY <3>1 DEF HeaderInv, Safe, ValueSafe
    <3>3. \A u \in Thread : ~Locking(u)
      BY <3>2 DEF Live, Locking, HeaderInv, BrcInv, CallAgrees
    <3> QED BY <1>3, <2>1, <3>1, <3>3 DEF Proceeds
  <2>2. CASE pc[t] # "drop_weak"
    BY <1>3, <2>2
    DEF Proceeds, TakeQueued, Continue, AbortOverflow, LoadOwner, QueueObject, MergeLoad, MergeCas,
        StoreUnowned, DropValue, DropWeak, life
  <2> QED BY <2>1, <2>2
<1>4. CASE Death
  BY <1>4 DEF Death, OwnerDies, CloseQueue, weakVars, life
<1> QED BY <1>1, <1>2, <1>3, <1>4 DEF CounterStep

(* What the counter does leaves the weak count exact, and the calls right. *)
LEMMA CounterStepKeeps ==
    ASSUME Disciplined, HeaderInv, CounterStep
    PROVE  BrcInv'
<1>1. UNCHANGED <<weaks, aborted, call, unwrapped>>
  BY DEF CounterStep, StrongOperation, Send, Proceeds, Death, weakVars
<1>2. IInv'
  BY StepImplements, NextKeeps DEF CounterStep, BrcNext, HeaderInv
<1>3. \A t \in Thread : Locking(t)' <=> Locking(t)
  BY <1>1 DEF Locking
<1>4. \A t \in Thread : call[t].at # "none" => ThisId(t)' = ThisId(t)
  BY CallerKeepsBias DEF ThisId
<1>5. BrcTypeOK'
  <2>1. weak_count' \in 0..WeakMax
    <3>1. CASE UNCHANGED weak_count
      BY <3>1 DEF BrcTypeOK, HeaderInv, BrcInv
    <3>2. CASE /\ mem = "strong" /\ (\A t \in Thread : ~Locking(t))
               /\ weak_count' = weak_count - 1
      <4>1. weak_count = weaks + 1
        BY <3>2 DEF HeaderInv, BrcInv, WeakExact
      <4> QED BY <3>2, <4>1, BrcAssumption DEF BrcTypeOK, HeaderInv, BrcInv
    <3> QED BY <3>1, <3>2, CounterStepOnWeak
  <2>2. TypeOK'
    BY <1>2 DEF IInv
  <2> QED BY <1>1, <2>1, <2>2 DEF BrcTypeOK, HeaderInv, BrcInv
<1>6. WeakExact'
  BY <1>1, <1>3, CounterStepOnWeak, BrcAssumption
  DEF WeakExact, HeaderInv, BrcInv, BrcTypeOK, WEAK_LOCKED_COUNT
<1>7. WeakAgrees'
  <2>1. Excessive' = Excessive
    BY <1>1 DEF Excessive
  <2>2. Cardinality(Excessive) \in Nat
    BY Room DEF Excessive
  <2> QED
    BY <1>1, <1>3, <2>1, <2>2, CounterStepOnWeak, Room
    DEF WeakAgrees, WeakExact, HeaderInv, BrcInv, BrcTypeOK
<1>8. CallAgrees'
  BY <1>1, <1>4, CallerKeepsReference DEF CallAgrees, HeaderInv, BrcInv, InCalls
<1>9. BiasAgrees'
  BY <1>1, CallerKeepsBias DEF BiasAgrees, CallAgrees, HeaderInv, BrcInv
<1>10. ReadAgrees'
  BY <1>1, <1>4, CallerKeepsBias, HeaderAssumption
  DEF ReadAgrees, ThisId, HeaderInv, BrcInv
<1>11. UniqueAgrees'
  BY <1>1, SoleStays
  DEF UniqueAgrees, Exclusive, Locking, WeakExact, HeaderInv, BrcInv
<1> QED BY <1>5, <1>6, <1>7, <1>8, <1>9, <1>10, <1>11 DEF BrcInv

-----------------------------------------------------------------------------
(* The steps of the Weak pointers.                                         *)
CloneWeakBelow(t) == CloneWeak(t) /\ ~(weak_count > WEAK_OVERFLOW_THRESHOLD)
WeakStep ==
    \E t \in Thread : Downgrade(t) \/ CloneWeakBelow(t) \/ DropWeakPointer(t)

(* None of them happens while the count is locked or a reference that has  *)
(* been found alone is borrowed or unwrapped; the count stays exact.       *)
LEMMA WeakStepOnCount ==
    ASSUME HeaderInv, WeakStep
    PROVE  /\ UNCHANGED <<holder, ownerState, biased, call, unwrapped>>
           /\ \A t \in Thread : ~Locking(t)
           /\ \A s \in Exclusive \cup ({unwrapped} \ {None}) : ~(Alone(s) /\ weaks = 0)
           /\ weaks' \in Nat
           /\ weak_count' = weaks' + (IF mem' = "strong" THEN 1 ELSE 0)
           /\ weak_count' =< WEAK_OVERFLOW_THRESHOLD + 1 + Cardinality(Excessive)
           /\ mem' = "freed" <=> weak_count' = 0
           /\ aborted' \in BOOLEAN
<1> USE DEF HeaderInv, BrcInv, BrcTypeOK
<1>1. PICK t \in Thread : Downgrade(t) \/ CloneWeakBelow(t) \/ DropWeakPointer(t)
  BY DEF WeakStep
<1>2. ~aborted /\ UNCHANGED <<holder, ownerState, biased, call, unwrapped>>
  BY <1>1 DEF Downgrade, CloneWeakBelow, CloneWeak, DropWeakPointer, Free, vars, counter
<1>3. \A u \in Thread : ~Locking(u)
  <2>1. CASE Downgrade(t)
    BY <2>1 DEF Downgrade, WeakExact
  <2>2. CASE CloneWeakBelow(t) \/ DropWeakPointer(t)
    BY <2>2, Unlocked DEF CloneWeakBelow, CloneWeak, DropWeakPointer
  <2> QED BY <1>1, <2>1, <2>2
<1>4. /\ weak_count = weaks + (IF mem = "strong" THEN 1 ELSE 0)
      /\ weak_count =< WEAK_OVERFLOW_THRESHOLD + 1 + Cardinality(Excessive)
      /\ Cardinality(Excessive) \in Nat
      /\ mem = "freed" <=> weak_count = 0
  BY <1>2, <1>3, Room DEF WeakExact, WeakAgrees, Excessive
<1>5. ASSUME NEW s \in Exclusive \cup ({unwrapped} \ {None}), Alone(s), weaks = 0
      PROVE  FALSE
  <2>1. Lendable = {}
    BY <1>5 DEF Lendable, Alone
  <2> QED BY <1>1, <1>5, <2>1 DEF Downgrade, CloneWeakBelow, CloneWeak, DropWeakPointer
<1> DEFINE Counted == /\ weaks' \in Nat
                      /\ weak_count' = weaks' + (IF mem' = "strong" THEN 1 ELSE 0)
                      /\ weak_count' =< WEAK_OVERFLOW_THRESHOLD + 1
                                          + Cardinality(Excessive)
                      /\ mem' = "freed" <=> weak_count' = 0
                      /\ aborted' \in BOOLEAN
<1>6. ASSUME Downgrade(t) PROVE Counted
  <2>1. mem' = "strong" /\ mem = "strong"
    BY <1>6, LiveHolds DEF Downgrade, Idle, Lendable, vars, life
  <2>2. CASE weak_count > WEAK_OVERFLOW_THRESHOLD
    BY <1>4, <1>6, <2>1, <2>2, Room DEF Downgrade
  <2>3. CASE ~(weak_count > WEAK_OVERFLOW_THRESHOLD)
    BY <1>2, <1>4, <1>6, <2>1, <2>3, Room DEF Downgrade
  <2> QED BY <2>2, <2>3
<1>7. ASSUME CloneWeakBelow(t) PROVE Counted
  <2>1. mem' = mem /\ weak_count # WeakMax /\ weak_count > 0 /\ weaks \in Nat
    BY <1>4, <1>7, Room DEF CloneWeakBelow, CloneWeak, vars, life
  <2>2. weak_count' = weak_count + 1 /\ weaks' = weaks + 1 /\ aborted' = aborted
    BY <1>7, <2>1 DEF CloneWeakBelow, CloneWeak
  <2>3. weak_count =< WEAK_OVERFLOW_THRESHOLD
    BY <1>7, Room DEF CloneWeakBelow
  <2> QED BY <1>2, <1>4, <2>1, <2>2, <2>3, Room
<1>8. ASSUME DropWeakPointer(t) PROVE Counted
  <2>1. weak_count' = weak_count - 1 /\ weaks' = weaks - 1 /\ weaks > 0
        /\ mem' = IF weak_count = 1 THEN "freed" ELSE mem
    BY <1>8 DEF DropWeakPointer
  <2>2. weak_count = 1 => mem # "strong"
    BY <1>4, <2>1
  <2>3. aborted' = aborted
    BY <1>8 DEF DropWeakPointer
  <2> QED BY <1>2, <1>4, <2>1, <2>2, <2>3, Room
<1>9. Counted
  BY <1>1, <1>6, <1>7, <1>8
<1> QED BY <1>2, <1>3, <1>5, <1>9

(* So does what the Weak pointers do.                                      *)
LEMMA WeakStepKeeps == ASSUME Disciplined, HeaderInv, WeakStep PROVE BrcInv'
<1>1. UNCHANGED <<holder, ownerState, biased, call, unwrapped>>
  BY WeakStepOnCount
<1>2. IInv'
  BY StepImplements, NextKeeps DEF WeakStep, CloneWeakBelow, BrcNext, HeaderInv
<1>3. \A t \in Thread : ~Locking(t)'
  BY <1>1, WeakStepOnCount DEF Locking
<1>4. BrcTypeOK'
  <2>1. Excessive \in SUBSET Thread
    BY DEF Excessive
  <2>2. WEAK_OVERFLOW_THRESHOLD + 1 + Cardinality(Excessive) < WeakMax
    BY <2>1, Room
  <2>3. weak_count' \in 0..WeakMax /\ weaks' \in Nat /\ aborted' \in BOOLEAN
    BY <2>1, <2>2, WeakStepOnCount, Room
  <2> QED BY <1>1, <1>2, <2>3 DEF BrcTypeOK, HeaderInv, BrcInv, IInv
<1>5. WeakExact' /\ WeakAgrees'
  <2>1. Excessive' = Excessive
    BY <1>1 DEF Excessive
  <2> QED BY <1>3, <2>1, WeakStepOnCount DEF WeakExact, WeakAgrees
<1>6. CallAgrees' /\ BiasAgrees' /\ ReadAgrees'
  BY <1>1 DEF CallAgrees, BiasAgrees, ReadAgrees, ThisId, HeaderInv, BrcInv
<1>7. UniqueAgrees'
  BY <1>1, WeakStepOnCount
  DEF UniqueAgrees, Alone, Live, Exclusive, HeaderInv, BrcInv
<1> QED BY <1>4, <1>5, <1>6, <1>7 DEF BrcInv

-----------------------------------------------------------------------------
(* The steps of is_unique and strong_count.                                *)

(* What the invariant says of one thread, if c is the call it is in.       *)
Consistent(t, c) ==
    /\ c.op = "none" <=> c.at = "none"
    /\ c.op = "is_unique" =>
           /\ c.ref \in Ref /\ holder[c.ref] # None
           /\ \/ t = Owner /\ ownerState = "active"
              \/ IF c.at = "load_biased" THEN c.word.merged
                 ELSE c.at \in {"lock", "load_shared"} => biased.owner_id = None
           /\ c.at = "load_biased" /\ c.actual = 1 => Alone(c.ref)
           /\ c.at = "unlock" /\ c.unique => Alone(c.ref)
           /\ c.at = "mutate" => Alone(c.ref) /\ weaks = 0
    /\ c.op = "strong_count" =>
           /\ c.at \in {"load_shared", "load_biased"}
           /\ ThisId(t) # None \/ AnonymousReads
    /\ c.op = "clone_weak" <=> c.at = "overflow"
    /\ c.at = "load_biased" =>
           /\ c.word.merged => c.word.shared_count = c.actual
           /\ ~c.word.merged => c.word.shared_count =< c.actual
           /\ ~c.word.merged /\ ThisId(t) = Owner /\ biased.owner_id = Owner =>
                  biased.biased_count + c.word.shared_count = c.actual

CallRecord == [op : {"none", "is_unique", "strong_count", "clone_weak"},
               ref : Ref \cup {None}, at : CallAt, word : SharedWord, actual : Nat, unique : BOOLEAN]

(* The invariant says it of every call.                                    *)
LEMMA CallsConsistent ==
    ASSUME HeaderInv, NEW t \in Thread
    PROVE  call[t] \in CallRecord /\ Consistent(t, call[t])
<1>1. call[t] \in CallRecord
  BY DEF CallRecord, HeaderInv, BrcInv, BrcTypeOK
<1>2. Consistent(t, call[t])
  BY DEF Consistent, HeaderInv, BrcInv, CallAgrees, BiasAgrees, ReadAgrees, UniqueAgrees
<1> QED BY <1>1, <1>2

(* A thread that begins, continues or ends a call disturbs no other.       *)
LEMMA OneCall ==
    ASSUME HeaderInv, UNCHANGED vars,
           NEW t \in Thread, NEW c \in CallRecord, Consistent(t, c),
           call' = [call EXCEPT ![t] = c]
    PROVE  /\ call' \in [Thread -> CallRecord]
           /\ call'[t] = c /\ \A u \in Thread \ {t} : call'[u] = call[u]
           /\ CallAgrees' /\ BiasAgrees' /\ ReadAgrees'
           /\ (unwrapped' = None \/ unwrapped' = unwrapped) /\ (weaks' = weaks \/ weaks > 0)
                  => UniqueAgrees'
<1>1. /\ call' \in [Thread -> CallRecord]
      /\ call'[t] = c /\ \A u \in Thread \ {t} : call'[u] = call[u]
  BY CallsConsistent DEF CallRecord, HeaderInv, BrcInv, BrcTypeOK
<1>2. \A u \in Thread : Consistent(u, call'[u])
  BY <1>1, CallsConsistent
<1>3. UNCHANGED <<shared, biased, ownerState, holder>>
  BY DEF vars, counter
<1>4. CallAgrees' /\ BiasAgrees' /\ ReadAgrees'
  BY <1>2, <1>3 DEF Consistent, CallAgrees, BiasAgrees, ReadAgrees, ThisId
<1>5. (unwrapped' = None \/ unwrapped' = unwrapped) /\ (weaks' = weaks \/ weaks > 0)
          => UniqueAgrees'
  BY <1>2, <1>3
  DEF BrcTypeOK, Consistent, UniqueAgrees, Alone, Live, HeaderInv, BrcInv
<1> QED BY <1>1, <1>4, <1>5

(* Not to be in a call is consistent with everything.                      *)
LEMMA Returning ==
    ASSUME NEW t \in Thread
    PROVE  NoCall \in CallRecord /\ Consistent(t, NoCall)
<1>1. 0 \in SharedMin..SharedMax
  BY WidthAssumption DEF SharedMin, SharedMax
<1> QED BY <1>1 DEF NoCall, CallRecord, Consistent, SharedWord, CallAt

(* A step that leaves the weak count alone, and whether it is locked.      *)
LEMMA WeakUntouched ==
    ASSUME HeaderInv, UNCHANGED <<vars, weakVars>>,
           \A t \in Thread : /\ Locking(t)' <=> Locking(t)
                             /\ call'[t].at = "overflow" <=> call[t].at = "overflow"
    PROVE  WeakExact' /\ WeakAgrees'
<1>1. Excessive' = Excessive
  BY DEF Excessive
<1> QED
  BY <1>1 DEF WeakExact, WeakAgrees, HeaderInv, BrcInv, vars, life, weakVars

(* All of it again, for a step that leaves the weak count alone.           *)
LEMMA CallKeeps ==
    ASSUME HeaderInv, UNCHANGED <<vars, weakVars>>,
           NEW t \in Thread, NEW c \in CallRecord, Consistent(t, c),
           call' = [call EXCEPT ![t] = c],
           (c.op = "is_unique" /\ c.at \in {"load_shared", "load_biased", "unlock"})
               <=> Locking(t),
           c.at # "overflow", call[t].at # "overflow",
           unwrapped' \in Ref \cup {None},
           unwrapped' = unwrapped \/ (Alone(unwrapped') /\ weaks = 0)
    PROVE  BrcInv'
<1>1. /\ UNCHANGED <<weaks, weak_count, aborted>>
      /\ UNCHANGED <<holder, vars>>
  BY DEF weakVars, vars
<1>2. /\ call' \in [Thread -> CallRecord]
      /\ call'[t] = c /\ \A u \in Thread \ {t} : call'[u] = call[u]
      /\ CallAgrees' /\ BiasAgrees' /\ ReadAgrees'
      /\ unwrapped' = None \/ unwrapped' = unwrapped => UniqueAgrees'
  BY <1>1, OneCall
<1>3. \A u \in Thread : /\ Locking(u)' <=> Locking(u)
                        /\ call'[u].at = "overflow" <=> call[u].at = "overflow"
  BY <1>2 DEF Locking
<1>4. WeakExact' /\ WeakAgrees'
  BY <1>3, WeakUntouched
<1>5. BrcTypeOK'
  <2>1. TypeOK'
    BY <1>1, StutterKeeps DEF HeaderInv, IInv
  <2> QED BY <1>1, <1>2, <2>1 DEF BrcTypeOK, CallRecord, HeaderInv, BrcInv
<1>6. UniqueAgrees'
  <2>1. CASE unwrapped' = unwrapped
    BY <1>2, <2>1
  <2>2. CASE Alone(unwrapped') /\ weaks = 0
    <3>1. \A u \in Thread : Consistent(u, call'[u])
      BY <1>2, CallsConsistent
    <3> QED BY <1>1, <2>2, <3>1 DEF Consistent, UniqueAgrees, Alone, Live
  <2> QED BY <2>1, <2>2
<1> QED BY <1>2, <1>4, <1>5, <1>6 DEF BrcInv

(* Weak::clone has counted one too many: nobody has been found alone, since *)
(* there is a Weak pointer.                                                 *)
LEMMA CloneWeakPastKeeps ==
    ASSUME HeaderInv, NEW t \in Thread, CloneWeak(t), weak_count > WEAK_OVERFLOW_THRESHOLD
    PROVE  BrcInv'
<1> DEFINE c == [NoCall EXCEPT !.op = "clone_weak", !.ref = None, !.at = "overflow"]
<1>1. c \in CallRecord /\ c.op = "clone_weak" /\ c.at = "overflow"
  BY Returning DEF NoCall, CallRecord, CallAt
<1>2. Consistent(t, c)
  BY <1>1 DEF Consistent
<1>3. /\ call' = [call EXCEPT ![t] = c] /\ call[t].at # "overflow"
      /\ weaks > 0 /\ weaks' = weaks + 1
      /\ UNCHANGED <<vars, aborted, unwrapped>>
  BY DEF CloneWeak, Enter, Free
<1> HIDE DEF c
<1>4. /\ call' \in [Thread -> CallRecord]
      /\ call'[t] = c /\ \A u \in Thread \ {t} : call'[u] = call[u]
      /\ CallAgrees' /\ BiasAgrees' /\ ReadAgrees' /\ UniqueAgrees'
  BY <1>1, <1>2, <1>3, OneCall
<1>5. /\ \A u \in Thread : ~Locking(u)
      /\ weak_count = weaks + (IF mem = "strong" THEN 1 ELSE 0)
      /\ weaks \in Nat
  BY <1>3, Unlocked DEF HeaderInv, BrcInv, BrcTypeOK
<1>6. Cardinality(Excessive') = Cardinality(Excessive) + 1
  BY <1>1, <1>3, <1>4, ExcessiveAdded
<1>7. /\ Excessive \in SUBSET Thread /\ Excessive' \in SUBSET Thread
      /\ Cardinality(Excessive) \in Nat /\ Cardinality(Excessive') \in Nat
      /\ WEAK_OVERFLOW_THRESHOLD + 1 + Cardinality(Excessive) < WeakMax
      /\ WEAK_OVERFLOW_THRESHOLD + 1 + Cardinality(Excessive') < WeakMax
  <2>1. Excessive \in SUBSET Thread /\ Excessive' \in SUBSET Thread
    BY DEF Excessive
  <2> QED BY <2>1, Room
<1>8. /\ weak_count =< WEAK_OVERFLOW_THRESHOLD + 1 + Cardinality(Excessive)
      /\ weak_count # WeakMax
  BY <1>5, <1>7, Room DEF HeaderInv, BrcInv, WeakAgrees
<1>9. /\ weak_count' = weak_count + 1 /\ mem' = mem
      /\ weak_count' =< WEAK_OVERFLOW_THRESHOLD + 1 + Cardinality(Excessive')
  <2>1. weak_count' = weak_count + 1 /\ mem' = mem
    BY <1>8 DEF CloneWeak, vars, life
  <2> QED BY <1>5, <1>6, <1>7, <1>8, <2>1, Room
<1>10. \A u \in Thread : ~Locking(u)'
  BY <1>1, <1>4, <1>5 DEF Locking
<1>11. WeakExact' /\ WeakAgrees'
  BY <1>3, <1>5, <1>9, <1>10 DEF WeakExact, WeakAgrees, HeaderInv, BrcInv
<1>12. BrcTypeOK'
  <2>1. TypeOK'
    BY <1>3, StutterKeeps DEF HeaderInv, IInv
  <2>2. weak_count' \in 0..WeakMax /\ weaks' \in Nat
    BY <1>3, <1>5, <1>7, <1>9, Room
  <2> QED BY <1>3, <1>4, <2>1, <2>2 DEF BrcTypeOK, CallRecord, HeaderInv, BrcInv
<1> QED BY <1>4, <1>11, <1>12 DEF BrcInv

(* The process is aborted for it.                                          *)
LEMMA AbortWeakKeeps ==
    ASSUME HeaderInv, NEW t \in Thread, AbortWeak(t)
    PROVE  BrcInv'
<1>1. UNCHANGED <<vars, weak_count, weaks, call, unwrapped>> /\ aborted' = TRUE
  BY DEF AbortWeak
<1>2. UNCHANGED <<shared, biased, ownerState, holder, mem>>
  BY <1>1 DEF vars, counter, life
<1>3. BrcTypeOK'
  <2>1. TypeOK'
    BY <1>1, StutterKeeps DEF HeaderInv, IInv
  <2> QED BY <1>1, <2>1 DEF BrcTypeOK, HeaderInv, BrcInv
<1>4. WeakExact' /\ WeakAgrees'
  <2>1. Excessive' = Excessive /\ \A u \in Thread : Locking(u)' <=> Locking(u)
    BY <1>1 DEF Excessive, Locking
  <2> QED BY <1>1, <1>2, <2>1 DEF WeakExact, WeakAgrees, HeaderInv, BrcInv
<1>5. CallAgrees' /\ BiasAgrees' /\ ReadAgrees' /\ UniqueAgrees'
  BY <1>1, <1>2
  DEF CallAgrees, BiasAgrees, ReadAgrees, UniqueAgrees, ThisId, Alone, Live,
      HeaderInv, BrcInv
<1> QED BY <1>3, <1>4, <1>5 DEF BrcInv

(* is_unique is called: the caller has compared the owner with itself.     *)
LEMMA IsUniqueKeeps ==
    ASSUME HeaderInv, NEW t \in Thread, NEW r \in Ref, IsUnique(t, r)
    PROVE  BrcInv'
<1> DEFINE c == [NoCall EXCEPT !.op = "is_unique", !.ref = r, !.at = "lock"]
<1>1. /\ c \in CallRecord
      /\ c.op = "is_unique" /\ c.ref = r /\ c.at = "lock"
  BY Returning DEF NoCall, CallRecord, CallAt
<1>2. (t = Owner /\ ownerState = "active") \/ biased.owner_id = None
  BY HeaderAssumption
  DEF IsUnique, ThisId, HeaderInv, IInv, TypeOK, BiasedWord
<1>3. holder[r] # None
  BY HeaderAssumption DEF IsUnique
<1>4. Consistent(t, c)
  BY <1>1, <1>2, <1>3 DEF Consistent
<1>5. ~Locking(t) /\ call[t].at # "overflow"
  BY DEF IsUnique, Free, Locking
<1>6. call' = [call EXCEPT ![t] = c] /\ UNCHANGED <<vars, weakVars, unwrapped>>
  BY DEF IsUnique, Enter
<1> HIDE DEF c
<1> QED BY <1>1, <1>4, <1>5, <1>6, CallKeeps DEF HeaderInv, BrcInv, BrcTypeOK

(* strong_count is called.                                                 *)
LEMMA StrongCountKeeps ==
    ASSUME HeaderInv, NEW t \in Thread, NEW r \in Ref \cup {None},
           StrongCount(t, r)
    PROVE  BrcInv'
<1> DEFINE c == [NoCall EXCEPT !.op = "strong_count", !.ref = r, !.at = "load_shared"]
<1>1. /\ c \in CallRecord
      /\ c.op = "strong_count" /\ c.ref = r /\ c.at = "load_shared"
  BY Returning DEF NoCall, CallRecord, CallAt
<1>2. Consistent(t, c)
  BY <1>1 DEF Consistent, StrongCount
<1>3. ~Locking(t) /\ call[t].at # "overflow"
  BY DEF StrongCount, Free, Locking
<1>4. call' = [call EXCEPT ![t] = c] /\ UNCHANGED <<vars, weakVars, unwrapped>>
  BY DEF StrongCount, Enter
<1> HIDE DEF c
<1> QED BY <1>1, <1>2, <1>3, <1>4, CallKeeps DEF HeaderInv, BrcInv, BrcTypeOK

(* The load of the shared word: the counts are exact at this moment.       *)
LEMMA LoadSharedKeeps ==
    ASSUME HeaderInv, NEW t \in Thread, LoadShared(t)
    PROVE  BrcInv'
<1> DEFINE c == [call[t] EXCEPT !.at = "load_biased", !.word = shared,
                                !.actual = Cardinality(Live)]
<1>1. call[t] \in CallRecord /\ Consistent(t, call[t]) /\ call[t].at = "load_shared"
  BY CallsConsistent DEF LoadShared, At
<1>2. /\ c \in CallRecord
      /\ c.op = call[t].op /\ c.ref = call[t].ref /\ c.at = "load_biased"
      /\ c.word = shared /\ c.actual = Cardinality(Live)
  BY <1>1, LiveFinite DEF CallRecord, CallAt, HeaderInv, IInv, TypeOK
<1>3. /\ shared.merged => shared.shared_count = Cardinality(Live)
      /\ ~shared.merged => /\ shared.shared_count =< Cardinality(Live)
                           /\ biased.biased_count + shared.shared_count = Cardinality(Live)
      /\ biased.owner_id = None => shared.merged
  BY LiveFinite
  DEF LoadShared, At, HeaderInv, IInv, CountExact, WordsAgree, TypeOK, SharedWord,
      BiasedWord, SharedMin, SharedMax
<1>4. c.op = "is_unique" /\ c.actual = 1 => Alone(c.ref)
  BY <1>1, <1>2, AloneIfOne DEF Consistent, Live
<1>5. Consistent(t, c)
  BY <1>1, <1>2, <1>3, <1>4 DEF Consistent
<1>6. (c.op = "is_unique" /\ c.at \in {"load_shared", "load_biased", "unlock"})
          <=> Locking(t)
  BY <1>1, <1>2 DEF Locking
<1>7. call' = [call EXCEPT ![t] = c] /\ UNCHANGED <<vars, weakVars, unwrapped>>
  BY DEF LoadShared
<1> HIDE DEF c
<1> QED BY <1>1, <1>2, <1>5, <1>6, <1>7, CallKeeps DEF HeaderInv, BrcInv, BrcTypeOK

(* The load of the biased word, which the words read before go with.       *)
LEMMA LoadBiasedKeeps ==
    ASSUME HeaderInv, NEW t \in Thread, LoadBiased(t)
    PROVE  BrcInv'
<1>1. /\ call[t] \in CallRecord /\ Consistent(t, call[t]) /\ call[t].at = "load_biased"
      /\ call[t].op \in {"is_unique", "strong_count"}
  BY CallsConsistent DEF LoadBiased, At, Consistent, CallRecord
<1>2. UNCHANGED <<vars, weakVars, unwrapped>>
  BY DEF LoadBiased
<1>3. CASE call[t].op = "strong_count"
  <2>1. call' = [call EXCEPT ![t] = NoCall]
    BY <1>3 DEF LoadBiased, Return
  <2>2. ~Locking(t) /\ NoCall.op = "none" /\ NoCall.at = "none"
    BY <1>3 DEF Locking, NoCall
  <2> QED BY <1>1, <1>2, <2>1, <2>2, Returning, CallKeeps DEF HeaderInv, BrcInv, BrcTypeOK
<1>4. CASE call[t].op = "is_unique"
  <2> DEFINE c == [call[t] EXCEPT !.at = "unlock",
                                  !.unique = Precise(t) /\ Count(t) = 1]
  <2>1. /\ c \in CallRecord
        /\ c.op = "is_unique" /\ c.ref = call[t].ref /\ c.at = "unlock"
        /\ c.unique => Precise(t) /\ Count(t) = 1
    BY <1>1, <1>4 DEF CallRecord, CallAt
  <2>2. Precise(t) /\ Count(t) = 1 => call[t].actual = 1
    <3>1. CASE call[t].word.merged
      BY <1>1, <3>1 DEF Consistent, Count
    <3>2. CASE ~call[t].word.merged
      <4>1. t = Owner /\ ThisId(t) = Owner
        BY <1>1, <1>4, <3>2 DEF Consistent, ThisId
      <4> QED BY <1>1, <3>2, <4>1 DEF Consistent, Precise, Count
    <3> QED BY <3>1, <3>2
  <2>3. c.unique => Alone(c.ref)
    BY <1>1, <1>4, <2>1, <2>2 DEF Consistent
  <2>4. Consistent(t, c)
    BY <1>1, <1>4, <2>1, <2>3 DEF Consistent
  <2>5. Locking(t)
    BY <1>1, <1>4 DEF Locking
  <2>6. call' = [call EXCEPT ![t] = c]
    BY <1>4 DEF LoadBiased
  <2> HIDE DEF c
  <2> QED
    BY <1>1, <1>2, <2>1, <2>4, <2>5, <2>6, CallKeeps DEF HeaderInv, BrcInv, BrcTypeOK
<1> QED BY <1>1, <1>3, <1>4

(* Whoever may mutate its object ends its borrow, or moves the value out.  *)
LEMMA BorrowEndsKeeps ==
    ASSUME HeaderInv, NEW t \in Thread, EndBorrow(t) \/ Unwrap(t)
    PROVE  BrcInv'
<1>1. /\ Consistent(t, call[t]) /\ call[t].at = "mutate"
      /\ call[t].op \in {"none", "is_unique", "strong_count"}
  BY CallsConsistent DEF EndBorrow, Unwrap, At, CallRecord, Consistent
<1>2. call[t].ref \in Ref /\ Alone(call[t].ref) /\ weaks = 0 /\ ~Locking(t)
  BY <1>1 DEF Consistent, Locking
<1>3. call' = [call EXCEPT ![t] = NoCall] /\ UNCHANGED <<vars, weakVars>>
  BY DEF EndBorrow, Unwrap, Return
<1>4. unwrapped' = unwrapped \/ unwrapped' = call[t].ref
  BY DEF EndBorrow, Unwrap
<1>5. NoCall.op = "none" /\ NoCall.at = "none"
  BY DEF NoCall
<1>6. unwrapped' \in Ref \cup {None} /\ (unwrapped' = unwrapped \/ Alone(unwrapped'))
  BY <1>2, <1>4 DEF HeaderInv, BrcInv, BrcTypeOK
<1> QED BY <1>1, <1>2, <1>3, <1>5, <1>6, Returning, CallKeeps

(* The weak count is locked: the one count there is, is the references'.   *)
LEMMA LockKeeps ==
    ASSUME HeaderInv, NEW t \in Thread, Lock(t)
    PROVE  BrcInv'
<1>1. /\ call[t] \in CallRecord /\ Consistent(t, call[t]) /\ call[t].at = "lock"
      /\ call[t].op = "is_unique" /\ ~Locking(t)
  BY CallsConsistent DEF Lock, At, Consistent, CallRecord, Locking
<1>2. UNCHANGED <<vars, weaks, aborted, unwrapped>>
  BY DEF Lock
<1>3. CASE weak_count # 1
  <2>1. call' = [call EXCEPT ![t] = NoCall] /\ UNCHANGED <<vars, weakVars>>
    BY <1>2, <1>3 DEF Lock, Return, weakVars
  <2>2. NoCall.op = "none" /\ NoCall.at = "none"
    BY DEF NoCall
  <2> QED
    BY <1>1, <1>2, <2>1, <2>2, Returning, CallKeeps DEF HeaderInv, BrcInv, BrcTypeOK
<1>4. CASE weak_count = 1
  <2> DEFINE c == [call[t] EXCEPT !.at = "load_shared"]
  <2>1. /\ c \in CallRecord
        /\ c.op = "is_unique" /\ c.ref = call[t].ref /\ c.at = "load_shared"
    BY <1>1 DEF CallRecord, CallAt
  <2>2. Consistent(t, c)
    BY <1>1, <2>1 DEF Consistent
  <2>3. call' = [call EXCEPT ![t] = c]
    BY <1>4 DEF Lock, Proceed
  <2>4. mem = "strong" /\ weaks = 0 /\ \A u \in Thread : ~Locking(u)
    <3>1. mem = "strong"
      BY <1>1, LiveHolds DEF Lock, At, Consistent, Live
    <3> QED BY <1>4, <3>1, Unlocked DEF HeaderInv, BrcInv, BrcTypeOK
  <2> HIDE DEF c
  <2>5. /\ call' \in [Thread -> CallRecord]
        /\ call'[t] = c /\ \A u \in Thread \ {t} : call'[u] = call[u]
        /\ CallAgrees' /\ BiasAgrees' /\ ReadAgrees' /\ UniqueAgrees'
    BY <1>2, <2>1, <2>2, <2>3, OneCall
  <2>6. Locking(t)' /\ \A u \in Thread \ {t} : ~Locking(u)'
    BY <2>1, <2>4, <2>5 DEF Locking
  <2>7. weak_count' = WeakMax /\ weaks' = 0 /\ mem' = "strong"
    BY <1>2, <1>4, <2>4 DEF Lock, WEAK_LOCKED_COUNT, vars, life
  <2>8. WeakExact' /\ WeakAgrees'
    BY <2>6, <2>7, Room DEF WeakExact, WeakAgrees, WEAK_LOCKED_COUNT
  <2>9. BrcTypeOK'
    <3>1. TypeOK'
      BY <1>2, StutterKeeps DEF HeaderInv, IInv
    <3> QED BY <1>2, <2>5, <2>7, <3>1, BrcAssumption
            DEF BrcTypeOK, CallRecord, HeaderInv, BrcInv
  <2> QED BY <2>5, <2>8, <2>9 DEF BrcInv
<1> QED BY <1>3, <1>4

(* It is unlocked, by the only thread that has it locked.                  *)
LEMMA UnlockKeeps ==
    ASSUME HeaderInv, NEW t \in Thread, Unlock(t)
    PROVE  BrcInv'
<1>1. /\ call[t] \in CallRecord /\ Consistent(t, call[t]) /\ call[t].at = "unlock"
      /\ call[t].op = "is_unique" /\ Locking(t)
  BY CallsConsistent DEF Unlock, At, Consistent, CallRecord, Locking
<1>2. UNCHANGED <<vars, weaks, aborted, unwrapped>> /\ weak_count' = 1
  BY DEF Unlock
<1>3. weaks = 0 /\ mem = "strong" /\ \A u \in Thread \ {t} : ~Locking(u)
  BY <1>1 DEF HeaderInv, BrcInv, WeakExact, WeakAgrees
<1>4. PICK c \in CallRecord :
          /\ Consistent(t, c)
          /\ call' = [call EXCEPT ![t] = c]
          /\ c.at \in {"none", "mutate"}
  <2>1. CASE call[t].unique
    <3> DEFINE d == [call[t] EXCEPT !.at = "mutate"]
    <3>1. /\ d \in CallRecord
          /\ d.op = "is_unique" /\ d.ref = call[t].ref /\ d.at = "mutate"
      BY <1>1 DEF CallRecord, CallAt
    <3>2. Consistent(t, d)
      BY <1>1, <1>3, <2>1, <3>1 DEF Consistent
    <3>3. call' = [call EXCEPT ![t] = d]
      BY <2>1 DEF Unlock, Proceed
    <3> QED BY <3>1, <3>2, <3>3
  <2>2. CASE ~call[t].unique
    BY <2>2, Returning DEF Unlock, Return, NoCall
  <2> QED BY <2>1, <2>2
<1>5. /\ call' \in [Thread -> CallRecord]
      /\ call'[t] = c /\ \A u \in Thread \ {t} : call'[u] = call[u]
      /\ CallAgrees' /\ BiasAgrees' /\ ReadAgrees' /\ UniqueAgrees'
  BY <1>2, <1>4, OneCall
<1>6. \A u \in Thread : ~Locking(u)'
  BY <1>3, <1>4, <1>5 DEF Locking
<1>7. weak_count' = 1 /\ weaks' = 0 /\ mem' = "strong"
  BY <1>2, <1>3 DEF vars, life
<1>8. WeakExact' /\ WeakAgrees'
  <2>1. Excessive' \in SUBSET Thread
    BY DEF Excessive
  <2>2. Cardinality(Excessive') \in Nat
    BY <2>1, Room
  <2> QED BY <1>6, <1>7, <2>2, Room DEF WeakExact, WeakAgrees
<1>9. BrcTypeOK'
  <2>1. TypeOK'
    BY <1>2, StutterKeeps DEF HeaderInv, IInv
  <2> QED BY <1>2, <1>5, <1>7, <2>1, Room
          DEF BrcTypeOK, CallRecord, HeaderInv, BrcInv
<1> QED BY <1>5, <1>8, <1>9 DEF BrcInv

-----------------------------------------------------------------------------
(* The theorems.                                                           *)

(* Every step keeps the invariant, ...                                     *)
LEMMA HeaderStepKeeps ==
    ASSUME HeaderInv, [BrcNext /\ Disciplined]_brcVars
    PROVE  HeaderInv'
<1>1. IInv' /\ Safe'
  BY DisciplinedStepImplements, NextKeeps, SafeKeeps DEF HeaderInv
<1>2. CASE BrcNext /\ Disciplined
  <2>1. ASSUME NEW t \in Thread, CloneWeak(t) PROVE BrcInv'
    BY <1>2, <2>1, CloneWeakPastKeeps, WeakStepKeeps DEF WeakStep, CloneWeakBelow
  <2>2. BrcInv'
    BY <1>2, <2>1, CounterStepKeeps, WeakStepKeeps, IsUniqueKeeps, StrongCountKeeps,
       LockKeeps, LoadSharedKeeps, LoadBiasedKeeps, UnlockKeeps, AbortWeakKeeps,
       BorrowEndsKeeps
    DEF BrcNext, CounterStep, WeakStep, InCall
  <2> QED BY <1>1, <2>2 DEF HeaderInv
<1>3. CASE UNCHANGED brcVars
  <2>1. UNCHANGED <<vars, weakVars, call, unwrapped>>
    BY <1>3 DEF brcVars
  <2>2. WeakExact' /\ WeakAgrees'
    BY <2>1, WeakUntouched DEF Locking
  <2>3. BrcTypeOK'
    BY <1>1, <2>1 DEF BrcTypeOK, IInv, HeaderInv, BrcInv, weakVars
  <2>4. UNCHANGED <<shared, biased, ownerState, holder, weaks>>
    BY <2>1 DEF vars, counter, weakVars
  <2>5. CallAgrees' /\ BiasAgrees' /\ ReadAgrees' /\ UniqueAgrees'
    BY <2>1, <2>4
    DEF CallAgrees, BiasAgrees, ReadAgrees, UniqueAgrees, ThisId, Alone, Live,
        HeaderInv, BrcInv
  <2> QED BY <1>1, <2>2, <2>3, <2>5 DEF HeaderInv, BrcInv
<1> QED BY <1>2, <1>3

(* ... and it holds of a new object.                                       *)
LEMMA HeaderInit == BrcInit => HeaderInv
<1> SUFFICES ASSUME BrcInit PROVE HeaderInv
  OBVIOUS
<1>1. IInv /\ Safe
  BY InitEstablishes, RunningIsSafe DEF BrcInit, Init, Running
<1>2. /\ weak_count = 1 /\ weaks = 0 /\ mem = "strong"
      /\ \A t \in Thread : call[t] = NoCall
      /\ unwrapped = None /\ aborted = FALSE
  BY DEF BrcInit, Init
<1>3. BrcTypeOK
  <2>1. NoCall \in CallRecord
    BY Returning, HeaderAssumption
  <2>2. call \in [Thread -> CallRecord]
    BY <2>1 DEF BrcInit
  <2>3. TypeOK
    BY <1>1 DEF IInv
  <2>4. weak_count \in 0..WeakMax /\ weaks \in Nat
    BY <1>2, Room
  <2>5. unwrapped \in Ref \cup {None} /\ aborted \in BOOLEAN
    BY <1>2
  <2> QED BY <2>2, <2>3, <2>4, <2>5 DEF BrcTypeOK, CallRecord
<1>4. \A t \in Thread : ~Locking(t)
  BY <1>2 DEF Locking, NoCall
<1>5. WeakExact /\ WeakAgrees
  <2>1. Cardinality(Excessive) \in Nat
    BY Room DEF Excessive
  <2> QED BY <1>2, <1>4, <2>1, Room DEF WeakExact, WeakAgrees
<1>6. CallAgrees /\ BiasAgrees /\ ReadAgrees /\ UniqueAgrees
  BY <1>2 DEF CallAgrees, BiasAgrees, ReadAgrees, UniqueAgrees, NoCall
<1> QED BY <1>1, <1>3, <1>5, <1>6 DEF HeaderInv, BrcInv

(* The invariant holds forever, of the counter, the weak count and the     *)
(* calls of is_unique and strong_count that are in progress.               *)
THEOREM HeaderInvariance == DisciplinedBrcSpec => []HeaderInv
<1>1. HeaderInv /\ [BrcNext /\ Disciplined]_brcVars => HeaderInv'
  BY HeaderStepKeeps
<1> QED BY <1>1, HeaderInit, PTL DEF DisciplinedBrcSpec

(* In particular its part about the weak count and the calls.              *)
THEOREM HeaderConsistent == DisciplinedBrcSpec => []BrcInv
<1>1. HeaderInv => BrcInv
  BY DEF HeaderInv
<1> QED BY <1>1, HeaderInvariance, PTL

(* Weak pointers, is_unique, make_mut and strong_count leave the counter   *)
(* what it is without them.                                                *)
THEOREM HeaderCounts == DisciplinedBrcSpec => DisciplinedSpec
<1>1. BrcInit => Init
  BY DEF BrcInit
<1> QED
  BY <1>1, DisciplinedStepImplements, HeaderInvariance, PTL
  DEF DisciplinedBrcSpec, DisciplinedSpec

(* The weak count is the number of Weak pointers and one for the value.    *)
THEOREM WeakCountExact == DisciplinedBrcSpec => []WeakExact
<1>1. HeaderInv => WeakExact
  BY DEF HeaderInv, BrcInv
<1> QED BY <1>1, HeaderInvariance, PTL

(* Whoever has been found unique is alone with a live value.               *)
LEMMA InvBorrowsExclusively == HeaderInv => ExclusiveAccess
<1> SUFFICES
      ASSUME HeaderInv, Running,
             NEW r \in {call[t].ref : t \in {u \in Thread : call[u].at = "mutate"}}
                          \cup ({unwrapped} \ {None})
      PROVE  Live = {r} /\ weaks = 0 /\ value = "live"
  BY DEF ExclusiveAccess
<1>1. Alone(r) /\ weaks = 0
  <2>1. ASSUME NEW t \in Thread, call[t].at = "mutate"
        PROVE  Alone(call[t].ref) /\ weaks = 0
    BY <2>1, CallsConsistent DEF Consistent, CallRecord
  <2>2. unwrapped # None => Alone(unwrapped) /\ weaks = 0
    BY DEF HeaderInv, BrcInv, UniqueAgrees
  <2> QED BY <2>1, <2>2
<1> QED BY <1>1, LiveHolds DEF Alone

(* A mutable borrow of the value, or having moved it out, is exclusive.    *)
THEOREM BorrowsAreExclusive == DisciplinedBrcSpec => []ExclusiveAccess
<1> QED BY InvBorrowsExclusively, HeaderInvariance, PTL

(* What a call of strong_count has read agrees with what it is about to    *)
(* read, so that a sum it takes for exact is the number of references.     *)
LEMMA InvCountsExactly ==
    ASSUME AnonymousReads = FALSE, HeaderInv PROVE StrongCountExact
<1> SUFFICES ASSUME HeaderInv, NEW t \in Thread, At(t, "load_biased")
             PROVE  IF Precise(t) THEN Count(t) = call[t].actual
                                  ELSE LowerBound(t) =< call[t].actual
  BY DEF StrongCountExact
<1>1. /\ call[t] \in CallRecord /\ Consistent(t, call[t])
      /\ call[t].at = "load_biased" /\ call[t].op \in {"is_unique", "strong_count"}
  BY CallsConsistent DEF At, Consistent, CallRecord
<1>2. CASE call[t].word.merged
  BY <1>1, <1>2 DEF Consistent, Precise, Count
<1>3. CASE ~call[t].word.merged /\ Precise(t)
  <2>1. biased.owner_id = ThisId(t) /\ biased.owner_id \in {Owner, None}
    BY <1>3 DEF Precise, HeaderInv, IInv, TypeOK, BiasedWord
  <2>2. ThisId(t) # None
    BY <1>1, <1>3, HeaderAssumption DEF Consistent, ThisId
  <2> QED BY <1>1, <1>3, <2>1, <2>2 DEF Consistent, Count
<1>4. CASE ~call[t].word.merged /\ ~Precise(t)
  BY <1>1, <1>4 DEF Consistent, LowerBound, CallRecord
<1> QED BY <1>2, <1>3, <1>4

(* As long as only threads that have an id ask for it, a strong count      *)
(* given as exact is exact, and otherwise a lower bound.                   *)
THEOREM StrongCountsAreExact ==
    ASSUME AnonymousReads = FALSE
    PROVE  DisciplinedBrcSpec => []StrongCountExact
<1>1. HeaderInv => StrongCountExact
  BY InvCountsExactly
<1> QED BY <1>1, HeaderInvariance, PTL

(* So the whole header implements SharedValue as well.                     *)
THEOREM HeaderImplementation == DisciplinedBrcSpec => RefinesSharedValue
<1> QED BY HeaderCounts, Implementation, PTL

(* Weak pointers and borrows do not disturb the contract with the runtime: *)
(* an upgrade, too, leaves an object whose merge is asked for to its queue.*)
THEOREM HeaderKeepsContract == DisciplinedBrcSpec => RefinesMergeQueue
<1> QED BY HeaderCounts, ContractKept, PTL
=============================================================================
