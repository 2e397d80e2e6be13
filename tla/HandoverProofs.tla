--------------------------- MODULE HandoverProofs ---------------------------
(***************************************************************************)
(* Proofs about Handover: programs whose owner keeps its own references    *)
(* keep the discipline that the proofs about the counter and the header    *)
(* assume (HandoverIsDisciplined), so that everything these show holds of  *)
(* such programs, with the increments as the code has them.                *)
(***************************************************************************)
EXTENDS Handover, BrcHeaderProofs

(* The invariant: what the header's is worth depends on `kept'.            *)
HandoverInv == OwnAgrees /\ (kept => HeaderInv)

-----------------------------------------------------------------------------
(* Counting the owner's own references.                                    *)

(* They are finitely many, and so are the others.                          *)
LEMMA OwnFinite ==
    ASSUME OwnAgrees
    PROVE  /\ own \subseteq Live
           /\ IsFiniteSet(own) /\ Cardinality(own) \in Nat
           /\ IsFiniteSet(Live \ own) /\ Cardinality(Live \ own) \in Nat
           /\ Cardinality(Live \ own) = Cardinality(Live) - Cardinality(own)
<1>1. own \subseteq Live
  BY HeaderAssumption DEF OwnAgrees, Live
<1>2. Live \cap own = own
  BY <1>1
<1> QED BY <1>1, <1>2, LiveFinite, FS_Subset, FS_Difference, FS_CardinalityType

(* The shared word covers all others, because the counts are exact.        *)
LEMMA CoversOthers == ASSUME HandoverInv PROVE SharedCovers
<1> SUFFICES ASSUME kept, Running, ~shared.merged
             PROVE  shared.shared_count >= Cardinality(Live \ own)
  BY DEF SharedCovers
<1>1. /\ Cardinality(Live) = shared.shared_count + biased.biased_count
      /\ shared.shared_count \in Int /\ biased.biased_count \in Int
  BY DEF HandoverInv, HeaderInv, IInv, CountExact, TypeOK, SharedWord, BiasedWord,
         SharedMin, SharedMax
<1>2. biased.biased_count =< Cardinality(own)
  BY DEF HandoverInv, OwnAgrees
<1>3. OwnAgrees
  BY DEF HandoverInv
<1> QED BY <1>1, <1>2, <1>3, OwnFinite, LiveFinite

(* So no increment comes across a count of -1, ...                         *)
LEMMA NotAtMinusOne == ASSUME HandoverInv, kept, Running PROVE ~AtMinusOne
<1>1. CASE ~shared.merged
  <2>1. shared.shared_count >= Cardinality(Live \ own)
    BY <1>1, CoversOthers DEF SharedCovers
  <2>2. shared.shared_count \in Int
    BY DEF HandoverInv, HeaderInv, IInv, TypeOK, SharedWord
  <2>3. OwnAgrees
    BY DEF HandoverInv
  <2> QED BY <2>1, <2>2, <2>3, OwnFinite DEF AtMinusOne
<1> QED BY <1>1 DEF AtMinusOne

(* ... and the step is one of the discipline.                              *)
LEMMA KeepsDiscipline ==
    ASSUME HandoverInv, Observe, kept' PROVE HeaderInv /\ Disciplined
<1>1. kept /\ ~UpgradesNearMax /\ HeaderInv
  BY DEF Observe, HandoverInv, OwnAgrees
<1>2. ~ClonesAtMinusOne /\ ~UpgradesAtMinusOne
  BY <1>1, NotAtMinusOne
  DEF ClonesAtMinusOne, UpgradesAtMinusOne, CloneShared, UpgradeShared, Idle
<1> QED BY <1>1, <1>2 DEF Disciplined

-----------------------------------------------------------------------------
(* The steps.                                                              *)

(* Before the merge the biased count changes in two ways only, and the     *)
(* owner drops a reference without changing it only when it is not active. *)
LEMMA BiasedStep ==
    ASSUME IInv, Next, ~shared.merged, ~shared'.merged
    PROVE  \/ \E r \in Ref : IncrementBiased(Owner, r)
           \/ \E r \in Ref : DropBiased(Owner, r)
           \/ /\ biased' = biased
              /\ \A r \in Ref : holder[r] = Owner /\ holder'[r] = None =>
                     ownerState # "active"
<1> DEFINE Otherwise ==
        /\ biased' = biased
        /\ \A r \in Ref : holder[r] = Owner /\ holder'[r] = None =>
               ownerState # "active"
<1>1. ASSUME NEW t \in Thread, NEW r \in Ref, Clone(t, r) \/ Upgrade(t, r)
      PROVE  IncrementBiased(Owner, r) \/ Otherwise
  <2>1. CASE IncrementBiased(t, r)
    BY <2>1 DEF IncrementBiased, CanUseBias
  <2>2. CASE CloneShared(t, r) \/ UpgradeShared(t, r)
    <3>1. biased' = biased
      BY <2>2 DEF CloneShared, UpgradeShared
    <3>2. holder' = holder \/ holder' = [holder EXCEPT ![r] = t]
      BY <2>2 DEF CloneShared, UpgradeShared
    <3>3. \A s \in Ref : holder[s] = Owner /\ holder'[s] = None => FALSE
      BY <3>2, HeaderAssumption DEF IInv, TypeOK
    <3> QED BY <3>1, <3>3
  <2> QED BY <1>1, <2>1, <2>2 DEF Clone, CloneBiased, Upgrade, UpgradeBiased
<1>2. ASSUME NEW t \in Thread, NEW r \in Ref, Drop(t, r)
      PROVE  DropBiased(Owner, r) \/ Otherwise
  <2>1. CASE DropBiased(t, r)
    BY <2>1 DEF DropBiased, CanUseBias
  <2>2. CASE DropBiasedSlow(t, r)
    BY <2>2 DEF DropBiasedSlow, FetchOrMerged, IInv, TypeOK, SharedWord
  <2>3. CASE DropShared(t, r)
    <3>1. Running /\ biased.owner_id = Owner
      BY <2>3 DEF DropShared, Idle, IInv, WordsAgree
    <3>2. holder[r] = t /\ ~CanUseBias(t) /\ biased' = biased
      BY <2>3 DEF DropShared
    <3>3. holder' = holder \/ holder' = [holder EXCEPT ![r] = None]
      BY <2>3 DEF DropShared
    <3>4. \A s \in Ref : holder[s] = Owner /\ holder'[s] = None => s = r
      BY <3>3, HeaderAssumption DEF IInv, TypeOK
    <3> QED BY <3>1, <3>2, <3>4 DEF CanUseBias
  <2> QED BY <1>2, <2>1, <2>2, <2>3 DEF Drop
<1>3. ASSUME NEW t \in Thread, NEW u \in Thread, NEW r \in Ref, Transfer(t, r, u)
      PROVE  Otherwise
  <2>1. biased' = biased /\ holder' = [holder EXCEPT ![r] = u]
    BY <1>3 DEF Transfer, counter
  <2> QED BY <2>1, HeaderAssumption DEF IInv, TypeOK
<1>4. ASSUME NEW t \in Thread, StoreUnowned(t)
      PROVE  FALSE
  BY <1>4 DEF StoreUnowned, IInv, MergeHalves
<1>5. ASSUME NEW t \in Thread, TakeQueued(t) \/ Continue(t)
      PROVE  biased' = biased /\ holder' = holder
  BY <1>4, <1>5
  DEF TakeQueued, Continue, AbortOverflow, LoadOwner, QueueObject, MergeLoad, MergeCas, DropValue,
      DropWeak, counter
<1>6. ASSUME LastWeakDropped \/ OwnerDies \/ CloseQueue
      PROVE  biased' = biased /\ holder' = holder
  BY <1>6 DEF LastWeakDropped, OwnerDies, CloseQueue, counter
<1>7. ASSUME biased' = biased /\ holder' = holder PROVE Otherwise
  BY <1>7, HeaderAssumption
<1> QED BY <1>1, <1>2, <1>3, <1>5, <1>6, <1>7 DEF Next

(* An abort is the end.                                                    *)
LEMMA StoppedStays == ASSUME [Next]_vars, Running' PROVE Running
<1>1. CASE UNCHANGED vars
  BY <1>1 DEF vars, Running
<1>2. ASSUME NEW t \in Thread, NEW r \in Ref, Clone(t, r) \/ Upgrade(t, r) \/ Drop(t, r)
      PROVE  Running
  BY <1>2
  DEF Clone, CloneBiased, CloneShared, Upgrade, UpgradeBiased, UpgradeShared,
      IncrementBiased, Drop, DropBiased, DropBiasedSlow, DropShared, Idle
<1>3. ASSUME NEW t \in Thread, TakeQueued(t) \/ Continue(t) PROVE Running
  BY <1>3
  DEF TakeQueued, Continue, AbortOverflow, LoadOwner, QueueObject, MergeLoad, MergeCas,
      StoreUnowned, DropValue, DropWeak, Idle
<1> QED
  BY <1>1, <1>2, <1>3
  DEF Next, Transfer, LastWeakDropped, OwnerDies, CloseQueue, Idle

(* What is observed of a step that keeps the owner's references, and does  *)
(* not merge.                                                              *)
LEMMA Observed ==
    ASSUME Observe, OwnAgrees, kept', ~shared'.merged
    PROVE  /\ kept /\ KeepsOwn
           /\ own' = {r \in Ref : holder'[r] = Owner /\ (r \in own \/ CountedBiased(r))}
  BY DEF Observe, OwnAgrees

(* A fast increment makes the owner one more reference of its own, ...     *)
LEMMA IncrementAddsOwn ==
    ASSUME HandoverInv, Observe, kept', ~shared'.merged,
           NEW r \in Ref, IncrementBiased(Owner, r)
    PROVE  biased'.biased_count =< Cardinality(own') <=>
               biased.biased_count =< Cardinality(own)
<1>1. /\ OwnAgrees /\ TypeOK /\ kept
      /\ own' = {s \in Ref : holder'[s] = Owner /\ (s \in own \/ CountedBiased(s))}
  BY Observed DEF HandoverInv, HeaderInv, IInv
<1>2. /\ holder[r] = None /\ holder' = [holder EXCEPT ![r] = Owner]
      /\ biased' = [biased EXCEPT !.biased_count = @ + 1]
  BY DEF IncrementBiased
<1>3. biased.biased_count \in Nat /\ biased'.biased_count = biased.biased_count + 1
  BY <1>1, <1>2, WidthAssumption DEF TypeOK, BiasedWord
<1>4. \A s \in Ref : CountedBiased(s) <=> holder[s] = None
  BY <1>3 DEF CountedBiased
<1>5. own' = own \cup {r} /\ r \notin own
  BY <1>1, <1>2, <1>4, HeaderAssumption DEF OwnAgrees, TypeOK
<1>6. Cardinality(own') = Cardinality(own) + 1 /\ Cardinality(own) \in Nat
  BY <1>1, <1>5, OwnFinite, FS_AddElement
<1> QED BY <1>3, <1>6

(* ... a fast drop takes at most one away, ...                             *)
LEMMA DropTakesOwn ==
    ASSUME HandoverInv, Observe, kept', ~shared'.merged,
           biased.biased_count =< Cardinality(own),
           NEW r \in Ref, DropBiased(Owner, r)
    PROVE  biased'.biased_count =< Cardinality(own')
<1>1. /\ OwnAgrees /\ TypeOK /\ kept
      /\ own' = {s \in Ref : holder'[s] = Owner /\ (s \in own \/ CountedBiased(s))}
  BY Observed DEF HandoverInv, HeaderInv, IInv
<1>2. /\ holder[r] = Owner /\ holder' = [holder EXCEPT ![r] = None]
      /\ biased' = [biased EXCEPT !.biased_count = @ - 1]
  BY DEF DropBiased
<1>3. biased.biased_count \in Nat /\ biased'.biased_count = biased.biased_count - 1
  BY <1>1, <1>2, WidthAssumption DEF TypeOK, BiasedWord
<1>4. \A s \in Ref : ~CountedBiased(s)
  BY <1>3 DEF CountedBiased
<1>5. own' = own \ {r}
  BY <1>1, <1>2, <1>4, HeaderAssumption DEF OwnAgrees, TypeOK
<1>6. CASE r \in own
  <2>1. Cardinality(own') = Cardinality(own) - 1 /\ Cardinality(own) \in Nat
    BY <1>1, <1>5, <1>6, OwnFinite, FS_RemoveElement
  <2> QED BY <1>3, <2>1
<1>7. CASE r \notin own
  <2>1. own' = own /\ Cardinality(own) \in Nat
    BY <1>1, <1>5, <1>7, OwnFinite
  <2> QED BY <1>3, <2>1
<1> QED BY <1>6, <1>7

(* ... and nothing else changes what is the owner's own.                   *)
LEMMA OthersLeaveOwn ==
    ASSUME HandoverInv, Observe, kept', ~shared'.merged, biased' = biased,
           \A r \in Ref : holder[r] = Owner /\ holder'[r] = None =>
                ownerState # "active"
    PROVE  own' = own
<1>1. /\ OwnAgrees /\ TypeOK /\ kept /\ KeepsOwn
      /\ own' = {s \in Ref : holder'[s] = Owner /\ (s \in own \/ CountedBiased(s))}
  BY Observed DEF HandoverInv, HeaderInv, IInv
<1>2. \A s \in Ref : ~CountedBiased(s)
  <2>1. biased.biased_count \in Int
    BY <1>1 DEF TypeOK, BiasedWord
  <2> QED BY <2>1 DEF CountedBiased
<1>3. \A s \in own : s \in Ref /\ holder'[s] = Owner
  BY <1>1 DEF OwnAgrees, KeepsOwn
<1> QED BY <1>1, <1>2, <1>3

(* Whatever happens, as long as the owner has kept its own references the  *)
(* header is sound, and they are at least as many as the biased count.     *)
LEMMA HandoverKeeps ==
    ASSUME HandoverInv, [BrcNext /\ Observe]_handoverVars
    PROVE  HandoverInv'
<1>1. CASE BrcNext /\ Observe
  <2>1. kept' \in BOOLEAN /\ own' \subseteq {r \in Ref : holder'[r] = Owner}
    BY <1>1 DEF Observe, HandoverInv, OwnAgrees
  <2>2. kept' => kept
    BY <1>1 DEF Observe, HandoverInv, OwnAgrees
  <2>3. kept' => HeaderInv'
    BY <1>1, KeepsDiscipline, HeaderStepKeeps
  <2>4. ASSUME kept', Running', ~shared'.merged
        PROVE  biased'.biased_count =< Cardinality(own')
    <3>1. HeaderInv /\ Disciplined /\ IInv /\ OwnAgrees
      BY <1>1, <2>4, KeepsDiscipline DEF HandoverInv, HeaderInv
    <3>2. [Next]_vars /\ [Next /\ Disciplined]_vars
      BY <1>1, <3>1, StepImplements
    <3>3. Running
      BY <2>4, <3>2, StoppedStays
    <3>4. ~shared.merged
      BY <2>4, <3>1, <3>2, FlagsChange DEF NeverRebiasedStep
    <3>5. biased.biased_count =< Cardinality(own)
      BY <2>2, <2>4, <3>1, <3>3, <3>4 DEF OwnAgrees
    <3>6. CASE \E r \in Ref : IncrementBiased(Owner, r)
      BY <1>1, <2>4, <3>5, <3>6, IncrementAddsOwn
    <3>7. CASE \E r \in Ref : DropBiased(Owner, r)
      BY <1>1, <2>4, <3>5, <3>7, DropTakesOwn
    <3>8. CASE /\ biased' = biased
               /\ \A r \in Ref : holder[r] = Owner /\ holder'[r] = None =>
                      ownerState # "active"
      <4>1. own' = own
        BY <1>1, <2>4, <3>8, OthersLeaveOwn
      <4> QED BY <3>5, <3>8, <4>1
    <3>9. CASE UNCHANGED vars
      <4>1. biased' = biased /\ holder' = holder
        BY <3>9 DEF vars, counter
      <4> QED BY <3>8, <4>1, HeaderAssumption
    <3> QED BY <2>4, <3>1, <3>2, <3>4, <3>6, <3>7, <3>8, <3>9, BiasedStep
  <2> QED BY <2>1, <2>3, <2>4 DEF HandoverInv, OwnAgrees
<1>2. CASE UNCHANGED handoverVars
  <2>1. UNCHANGED brcVars /\ own' = own /\ kept' = kept
    BY <1>2 DEF handoverVars, observed
  <2>2. UNCHANGED <<shared, biased, holder, fault>>
    BY <2>1 DEF brcVars, vars, counter
  <2>3. OwnAgrees'
    BY <2>1, <2>2 DEF OwnAgrees, HandoverInv, Running
  <2>4. kept' => HeaderInv'
    BY <2>1, HeaderStepKeeps DEF HandoverInv
  <2> QED BY <2>3, <2>4 DEF HandoverInv
<1> QED BY <1>1, <1>2

(* A new object: the owner's first reference is its own, if it is biased.  *)
LEMMA HandoverInitEstablishes == HandoverInit => HandoverInv
<1> SUFFICES ASSUME HandoverInit PROVE HandoverInv
  OBVIOUS
<1>1. HeaderInv /\ Init
  BY HeaderInit DEF HandoverInit, BrcInit
<1>2. PICK r \in Ref : holder = [s \in Ref |-> IF s = r THEN Owner ELSE None]
  BY <1>1 DEF Init
<1>3. Live = {r} /\ Cardinality(Live) = 1
  BY <1>2, HeaderAssumption, FS_Singleton DEF Live
<1>4. CASE shared.merged
  BY <1>1, <1>4 DEF HandoverInit, HandoverInv, OwnAgrees
<1>5. CASE ~shared.merged
  <2>1. own = Live /\ kept = TRUE
    BY <1>5 DEF HandoverInit
  <2>2. biased.biased_count = 1
    BY <1>1, <1>5 DEF Init, InitBiased, InitUnowned
  <2> QED BY <1>1, <1>2, <1>3, <2>1, <2>2 DEF HandoverInv, OwnAgrees
<1> QED BY <1>1, <1>4, <1>5 DEF HandoverInv

-----------------------------------------------------------------------------
(* The theorems.                                                           *)

(* Whatever the increments at -1 would do (increment_strong_shared,        *)
(* increment_strong_unless_zero), in every reachable state the header is   *)
(* sound if the owner has kept its own references.                         *)
THEOREM HandoverInvariance == HandoverSpec => []HandoverInv
<1>1. HandoverInv /\ [BrcNext /\ Observe]_handoverVars => HandoverInv'
  BY HandoverKeeps
<1> QED BY <1>1, HandoverInitEstablishes, PTL DEF HandoverSpec

(* The shared word alone accounts for all references but the owner's own.  *)
THEOREM SharedWordCovers == HandoverSpec => []SharedCovers
<1>1. HandoverInv => SharedCovers
  BY CoversOthers
<1> QED BY <1>1, HandoverInvariance, PTL

(* Such programs never queue an object or merge one explicitly.            *)
THEOREM NothingQueued == HandoverSpec => []QueuesNothing
<1>1. HandoverInv => QueuesNothing
  <2> SUFFICES ASSUME HandoverInv, kept, Running
               PROVE  ~queued /\ \A t \in Thread : ~Holds(t)
    BY DEF QueuesNothing
  <2>1. shared.merged \/ ~shared.queued
    <3>1. CASE ~shared.merged
      <4>1. shared.shared_count >= Cardinality(Live \ own) /\ OwnAgrees
        BY <3>1, CoversOthers DEF SharedCovers, HandoverInv
      <4>2. shared.shared_count \in Int
        BY DEF HandoverInv, HeaderInv, IInv, TypeOK, SharedWord
      <4>3. shared.shared_count >= 0
        BY <4>1, <4>2, OwnFinite
      <4> QED BY <3>1, <4>2, <4>3 DEF HandoverInv, HeaderInv, IInv, WordsAgree
    <3> QED BY <3>1
  <2> QED BY <2>1 DEF HandoverInv, HeaderInv, IInv, TicketHeld, Holds
<1> QED BY <1>1, HandoverInvariance, PTL

(* The safety properties of the counter and of the header.                 *)
HandoverSafe ==
    /\ CountExact /\ OverflowRoom /\ NoCorruption /\ ValueSafe /\ DestroyedOnce /\ HeaderValid
    /\ NeverForgotten /\ ImplicitMergeClean
    /\ WeakExact /\ ExclusiveAccess
    /\ AnonymousReads = FALSE => StrongCountExact

(* They do in every state up to which the owner has kept its references.   *)
THEOREM HandoverIsSafe == HandoverSpec => [](kept => HandoverSafe)
<1>1. HandoverInv /\ kept => HandoverSafe
  <2> SUFFICES ASSUME HeaderInv PROVE HandoverSafe
    BY DEF HandoverInv
  <2>1. IInv /\ Safe /\ BrcInv
    BY DEF HeaderInv
  <2>2. CountExact /\ OverflowRoom
    BY <2>1 DEF IInv, CountExact, OverflowRoom
  <2>3. NoCorruption
    BY <2>1 DEF IInv, NoCorruption, Overflow, Corruption
  <2>4. NeverForgotten /\ ImplicitMergeClean /\ ExclusiveAccess
    BY <2>1, InvForgetsNothing, InvMergesCleanly, InvBorrowsExclusively
  <2>5. AnonymousReads = FALSE => StrongCountExact
    BY InvCountsExactly
  <2> QED BY <2>1, <2>2, <2>3, <2>4, <2>5 DEF HandoverSafe, Safe, BrcInv
<1> QED BY <1>1, HandoverInvariance, PTL

(* A program whose owner keeps its own references to the end is within the *)
(* discipline: nobody has to see to it that no count of -1 is incremented  *)
(* (increment_strong_shared, increment_strong_unless_zero).                *)
THEOREM HandoverIsDisciplined == HandoverSpec /\ []kept => DisciplinedBrcSpec
<1>1. HandoverInit => BrcInit
  BY DEF HandoverInit
<1>2. HandoverInv /\ kept' /\ [BrcNext /\ Observe]_handoverVars
        => [BrcNext /\ Disciplined]_brcVars
  BY KeepsDiscipline DEF handoverVars
<1> QED BY <1>1, <1>2, HandoverInvariance, PTL DEF HandoverSpec, DisciplinedBrcSpec

(* So the two refinements hold of it: what such a program sees of the      *)
(* whole header is a reference count, ...                                  *)
THEOREM HandoverImplementation == HandoverSpec /\ []kept => RefinesSharedValue
<1> QED BY HandoverIsDisciplined, HeaderImplementation, PTL

(* ... whose contract with the runtime is kept.                            *)
THEOREM HandoverKeepsContract == HandoverSpec /\ []kept => RefinesMergeQueue
<1> QED BY HandoverIsDisciplined, HeaderKeepsContract, PTL

(* Only merges merge, and a merged counter is never biased again: the two  *)
(* that the carry of an increment at -1 breaks (increment_strong_shared).  *)
THEOREM HandoverMergesForGood ==
    HandoverSpec /\ []kept => MergedByMerge /\ NeverRebiased
<1>1. [Next /\ Disciplined]_vars /\ [MergedByMergeStep \/ ClonesAtMinusOne]_vars
        => [MergedByMergeStep]_vars
  BY DEF Disciplined
<1>2. [Next /\ Disciplined]_vars => [Next]_vars
  OBVIOUS
<1> QED
  BY <1>1, <1>2, HandoverIsDisciplined, HeaderCounts, MergedOrCarried, MergedForGood, PTL
  DEF DisciplinedSpec, Spec, MergedByMerge
=============================================================================
