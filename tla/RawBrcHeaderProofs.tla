------------------------- MODULE RawBrcHeaderProofs -------------------------
(***************************************************************************)
(* Proofs about RawBrcHeader, for any threads, references and widths: the  *)
(* inductive invariant IInv, and what follows from it.  The types and the  *)
(* ways the merged flag comes to be set are those of the code as it is     *)
(* (Spec); the other theorems are about clients that keep the discipline   *)
(* (DisciplinedSpec): the violations the checked runs find show that they  *)
(* do not hold without it.                                                 *)
(***************************************************************************)
EXTENDS RawBrcHeader, WordsProofs, FiniteSetTheorems

-----------------------------------------------------------------------------
(* Counting references.                                                    *)

(* There are finitely many references, as many as a natural number says.   *)
LEMMA LiveFinite == IsFiniteSet(Live) /\ Cardinality(Live) \in Nat
  BY HeaderAssumption, FS_Subset, FS_CardinalityType DEF Live

(* Some reference exists when they are counted as one or more.             *)
LEMMA LiveSome == Live # {} <=> Cardinality(Live) >= 1
  BY LiveFinite, FS_EmptySet

(* A reference comes to be.                                                *)
LEMMA LiveAdded ==
    ASSUME TypeOK, NEW t \in Thread, NEW r \in Ref, holder[r] = None,
           holder' = [holder EXCEPT ![r] = t]
    PROVE  Cardinality(Live') = Cardinality(Live) + 1
<1>1. Live' = Live \cup {r} /\ r \notin Live
  BY HeaderAssumption DEF Live, TypeOK
<1> QED BY <1>1, LiveFinite, FS_AddElement

(* A reference is dropped.                                                 *)
LEMMA LiveRemoved ==
    ASSUME TypeOK, NEW r \in Ref, holder[r] # None,
           holder' = [holder EXCEPT ![r] = None]
    PROVE  Cardinality(Live') = Cardinality(Live) - 1 /\ Cardinality(Live) >= 1
<1>1. Live' = Live \ {r} /\ r \in Live
  BY HeaderAssumption DEF Live, TypeOK
<1>2. Cardinality(Live') = Cardinality(Live) - 1
  BY <1>1, LiveFinite, FS_RemoveElement
<1> QED BY <1>1, <1>2, LiveSome

(* The threads that are not past the threshold are finitely many, and none *)
(* is left out if it is not in the middle of an overflow.                  *)
LEMMA IncrementingCounted ==
    /\ IsFiniteSet(Incrementing)
    /\ Cardinality(Incrementing) \in Nat /\ Cardinality(Thread) \in Nat
    /\ Cardinality(Incrementing) =< Cardinality(Thread)
    /\ \A t \in Thread : pc[t] # "overflow" => Cardinality(Incrementing) >= 1
<1>1. Incrementing \subseteq Thread /\ IsFiniteSet(Thread)
  BY HeaderAssumption DEF Incrementing
<1>2. /\ IsFiniteSet(Incrementing)
      /\ Cardinality(Incrementing) =< Cardinality(Thread)
      /\ Cardinality(Incrementing) \in Nat /\ Cardinality(Thread) \in Nat
  BY <1>1, FS_Subset, FS_CardinalityType
<1>3. ASSUME NEW t \in Thread, pc[t] # "overflow"
      PROVE  Cardinality(Incrementing) >= 1
  BY <1>2, <1>3, FS_EmptySet DEF Incrementing
<1> QED BY <1>2, <1>3

(* A thread goes past the threshold: the count may be one larger.          *)
LEMMA IncrementingLess ==
    ASSUME TypeOK, NEW t \in Thread, pc[t] # "overflow",
           pc' = [pc EXCEPT ![t] = "overflow"]
    PROVE  Cardinality(Incrementing') = Cardinality(Incrementing) - 1
<1>1. Incrementing' = Incrementing \ {t} /\ t \in Incrementing
  BY DEF Incrementing, TypeOK
<1> QED BY <1>1, IncrementingCounted, FS_RemoveElement

(* Nobody goes past the threshold, and the count is not larger.            *)
LEMMA RoomKept ==
    ASSUME IInv, Running, shared'.shared_count \in Int,
           shared'.shared_count =< shared.shared_count,
           \A t \in Thread : pc'[t] = "overflow" <=> pc[t] = "overflow"
    PROVE  OverflowRoom'
<1>1. Incrementing' = Incrementing
  BY DEF Incrementing
<1>2. /\ shared.shared_count \in Int /\ SharedMax \in Int
      /\ shared.shared_count + Cardinality(Incrementing) =< SharedMax
  BY WidthAssumption DEF IInv, TypeOK, SharedWord, OverflowRoom, SharedMax
<1>3. Cardinality(Incrementing) \in Nat
  BY IncrementingCounted
<1>4. shared'.shared_count + Cardinality(Incrementing) =< SharedMax
  BY <1>2, <1>3
<1> QED BY <1>1, <1>4 DEF OverflowRoom

-----------------------------------------------------------------------------
(* Every action keeps the invariant.                                       *)

(* The fast path of clone and of upgrade.                                   *)
LEMMA IncrementBiasedKeeps ==
    ASSUME IInv, NEW t \in Thread, NEW r \in Ref, IncrementBiased(t, r)
    PROVE  IInv'
<1>1. Cardinality(Live') = Cardinality(Live) + 1
  BY LiveAdded DEF IncrementBiased, IInv
<1>2. TypeOK'
  BY WidthAssumption
  DEF BiasedWord, IInv, IncrementBiased, TypeOK, life, merging
<1>3. Running' => CountExact'
  BY <1>1
  DEF BiasedWord, CanUseBias, CountExact, IInv, Idle, IncrementBiased,
      MergeHalves, SharedWord, TypeOK
<1>4. Running' => WordsAgree' /\ MergeHalves'
  BY DEF BiasedWord, IInv, IncrementBiased, MergeHalves, Running, TypeOK,
         WordsAgree, merging
<1>5. Running' => OneTicket' /\ TicketHeld' /\ MergerAlone'
  BY DEF CanUseBias, IInv, Idle, IncrementBiased, MergerAlone, OneTicket,
         TicketHeld, merging
<1>6. Running' => OneDestroyer' /\ Remains'
  BY DEF Destroying, IInv, Idle, IncrementBiased, OneDestroyer, Remains, life,
         merging
<1>7. fault' \in {"none"} \cup Overflow
  BY DEF Idle, IncrementBiased, Running
<1>8. Running' => OverflowRoom'
  BY RoomKept
  DEF IncrementBiased, Idle, merging, IInv, TypeOK, SharedWord
<1> QED BY <1>2, <1>3, <1>4, <1>5, <1>6, <1>7, <1>8 DEF IInv

(* clone on the shared word: its fetch_add is an addition, because the     *)
(* count is not -1 under the discipline, and has room for it.              *)
LEMMA CloneSharedAdds ==
    ASSUME Disciplined, IInv, NEW t \in Thread, NEW r \in Ref, CloneShared(t, r)
    PROVE  /\ shared' = [shared EXCEPT !.shared_count = @ + 1]
           /\ shared.shared_count \in Int
           /\ shared.shared_count + 1 =< SharedMax
           /\ ~(~shared.merged /\ shared.shared_count = -1)
<1>1. Running /\ pc[t] = "idle"
  BY DEF CloneShared, Idle
<1>2. ~(~shared.merged /\ shared.shared_count = -1)
  BY DEF Disciplined, ClonesAtMinusOne, AtMinusOne
<1>3. shared \in SharedWord /\ shared.shared_count # -1
  BY <1>1, <1>2 DEF IInv, WordsAgree, TypeOK
<1>4. shared.shared_count \in Int /\ SharedMax \in Int
  BY <1>3, WidthAssumption DEF SharedWord, SharedMax
<1>5. shared.shared_count + 1 =< SharedMax
  BY <1>1, <1>4, IncrementingCounted DEF IInv, OverflowRoom
<1>6. shared.shared_count # SharedMax
  BY <1>4, <1>5
<1> QED BY <1>2, <1>3, <1>4, <1>5, <1>6, FetchAddIncrements DEF CloneShared

(* Past the threshold the thread that has incremented goes no further, so  *)
(* that the others keep the room they need; below it there is enough.      *)
LEMMA CloneSharedKeepsRoom ==
    ASSUME Disciplined, IInv, NEW t \in Thread, NEW r \in Ref, CloneShared(t, r)
    PROVE  OverflowRoom'
<1> DEFINE count == shared.shared_count
<1>1. /\ Running /\ pc[t] = "idle" /\ count \in Int
      /\ shared'.shared_count = count + 1
  BY CloneSharedAdds DEF CloneShared, Idle, IInv, TypeOK, SharedWord
<1>2. /\ Cardinality(Incrementing) \in Nat /\ Cardinality(Thread) \in Nat
      /\ Cardinality(Incrementing) =< Cardinality(Thread)
  BY IncrementingCounted
<1>3. CASE count > OVERFLOW_THRESHOLD
  <2>1. Cardinality(Incrementing') = Cardinality(Incrementing) - 1
    BY <1>1, <1>3, IncrementingLess DEF CloneShared, Goto, IInv
  <2>2. count + Cardinality(Incrementing) =< SharedMax
    BY <1>1 DEF IInv, OverflowRoom
  <2>3. count + 1 + (Cardinality(Incrementing) - 1) =< SharedMax
    BY <1>1, <1>2, <2>2
  <2> QED BY <1>1, <2>1, <2>3 DEF OverflowRoom
<1>4. CASE ~(count > OVERFLOW_THRESHOLD)
  <2>1. Incrementing' = Incrementing
    BY <1>4 DEF CloneShared, Incrementing
  <2>2. SharedMax \in Nat /\ 2 * OVERFLOW_THRESHOLD =< SharedMax
        /\ OVERFLOW_THRESHOLD \in Nat
    BY WidthAssumption DEF SharedMax, OVERFLOW_THRESHOLD
  <2>3. count + 1 + Cardinality(Incrementing) =< SharedMax
    BY <1>1, <1>2, <1>4, <2>2, RoomAssumption
  <2> QED BY <1>1, <2>1, <2>3 DEF OverflowRoom
<1> QED BY <1>3, <1>4

(* So clone on the shared word keeps all of the invariant.                 *)
LEMMA CloneSharedKeeps ==
    ASSUME Disciplined, IInv, NEW t \in Thread, NEW r \in Ref, CloneShared(t, r)
    PROVE  IInv'
<1>1. Cardinality(Live') = Cardinality(Live) + 1 /\ Cardinality(Live) \in Nat
  BY LiveAdded, LiveFinite DEF CloneShared, IInv
<1>2. Running /\ Running' /\ Cardinality(Live) >= 1 /\ pc[t] = "idle"
  BY LiveSome DEF CloneShared, Idle, Running
<1>3. /\ shared' = [shared EXCEPT !.shared_count = @ + 1]
      /\ ~(~shared.merged /\ shared.shared_count = -1)
  BY CloneSharedAdds
<1>4. ~(shared.merged /\ shared.shared_count = 0)
  BY <1>2 DEF IInv, CountExact
<1>5. /\ pc' \in [Thread -> PC]
      /\ \A u \in Thread : pc'[u] = pc[u] \/ (pc[u] = "idle" /\ pc'[u] = "overflow")
  BY <1>2 DEF CloneShared, Goto, IInv, TypeOK, PC
<1>6. TypeOK'
  <2>1. shared' \in SharedWord
    BY FetchAddType DEF CloneShared, IInv, TypeOK
  <2> QED BY <1>5, <2>1 DEF CloneShared, IInv, TypeOK, life
<1>7. CountExact'
  BY <1>1, <1>2, <1>3
  DEF CloneShared, IInv, CountExact, TypeOK, SharedWord, BiasedWord
<1>8. WordsAgree' /\ MergeHalves'
  <2>1. WordsAgree'
    BY <1>2, <1>3 DEF CloneShared, IInv, WordsAgree, TypeOK, SharedWord
  <2>2. shared'.merged = shared.merged
    BY <1>3 DEF IInv, TypeOK, SharedWord
  <2>3. MergeHalves'
    BY <1>2, <1>5, <2>2, HeaderAssumption DEF CloneShared, IInv, MergeHalves
  <2> QED BY <2>1, <2>3
<1>9. OneTicket' /\ TicketHeld' /\ MergerAlone'
  BY <1>2, <1>3, <1>5
  DEF CloneShared, IInv, OneTicket, TicketHeld, MergerAlone, Queueing, TypeOK,
      SharedWord
<1>10. OneDestroyer' /\ Remains'
  BY <1>2, <1>3, <1>4, <1>5
  DEF CloneShared, IInv, WordsAgree, OneDestroyer, Destroying, Remains, TypeOK,
      SharedWord, life
<1>11. OverflowRoom'
  BY CloneSharedKeepsRoom
<1> QED BY <1>2, <1>6, <1>7, <1>8, <1>9, <1>10, <1>11 DEF IInv, Running

(* The abort of a thread that has counted one too many.                    *)
LEMMA AbortOverflowKeeps ==
    ASSUME IInv, NEW t \in Thread, AbortOverflow(t)
    PROVE  IInv'
<1>1. fault' = "shared_refcnt_overflow"
  BY DEF AbortOverflow
<1>2. TypeOK'
  BY <1>1 DEF AbortOverflow, IInv, TypeOK, Overflow, counter, merging, life
<1> QED BY <1>1, <1>2 DEF IInv, Running, Overflow

(* upgrade on the shared word.                                             *)
LEMMA UpgradeSharedKeeps ==
    ASSUME Disciplined, IInv, NEW t \in Thread, NEW r \in Ref, UpgradeShared(t, r)
    PROVE  IInv'
<1>1. Running' => Cardinality(Live') = Cardinality(Live) + 1
  BY LiveAdded DEF UpgradeShared, IInv, Running
<1>2. TypeOK'
  BY DEF FitsShared, IInv, Overflow, SharedWord, TypeOK, UpgradeShared, life,
         merging
<1>3. Running' => CountExact'
  BY <1>1
  DEF BiasedWord, CountExact, IInv, Running, SharedWord, TypeOK, UpgradeShared
<1>4. Running' => WordsAgree' /\ MergeHalves'
  <2>1. ~(~shared.merged /\ shared.shared_count = -1)
    BY DEF Disciplined, UpgradesAtMinusOne, AtMinusOne
  <2> QED BY <2>1
          DEF IInv, MergeHalves, Running, SharedWord, TypeOK, UpgradeShared,
              WordsAgree, merging
<1>5. Running' => OneTicket' /\ TicketHeld' /\ MergerAlone'
  BY DEF IInv, Idle, MergerAlone, OneTicket, SharedWord, TicketHeld, TypeOK,
         UpgradeShared, merging
<1>6. Running' => OneDestroyer' /\ Remains'
  BY DEF Destroying, IInv, Idle, IsDead, OneDestroyer, Remains, SharedWord,
         TypeOK, UpgradeShared, WordsAgree, life, merging
<1>7. fault' \in {"none"} \cup Overflow
  BY DEF Idle, Overflow, Running, UpgradeShared
<1>8. Running' => OverflowRoom'
  <2>1. SUFFICES ASSUME Running' PROVE OverflowRoom'
    OBVIOUS
  <2>2. /\ shared.shared_count \in Int
        /\ shared'.shared_count = shared.shared_count + 1
        /\ Incrementing' = Incrementing
    BY <2>1
    DEF UpgradeShared, Running, IInv, TypeOK, SharedWord, Incrementing, merging
  <2>3. ~(shared.shared_count + 1 + Cardinality(Thread) > SharedMax)
    BY DEF Disciplined, UpgradesNearMax
  <2>4. shared.shared_count + 1 + Cardinality(Incrementing) =< SharedMax
    BY <2>2, <2>3, IncrementingCounted, WidthAssumption DEF SharedMax
  <2> QED BY <2>2, <2>4 DEF OverflowRoom
<1> QED BY <1>2, <1>3, <1>4, <1>5, <1>6, <1>7, <1>8 DEF IInv

(* A reference sent to another thread.                                     *)
LEMMA TransferKeeps ==
    ASSUME IInv,
           NEW t \in Thread, NEW r \in Ref, NEW u \in Thread, Transfer(t, r, u)
    PROVE  IInv'
<1>1. Live' = Live
  BY HeaderAssumption DEF Transfer, Live, IInv, TypeOK
<1>2. TypeOK'
  BY DEF IInv, Transfer, TypeOK, counter, life, merging
<1>3. Running' => CountExact'
  BY <1>1
  DEF CountExact, IInv, Transfer, counter
<1>4. Running' => WordsAgree' /\ MergeHalves'
  BY DEF IInv, MergeHalves, Transfer, WordsAgree, counter, merging
<1>5. Running' => OneTicket' /\ TicketHeld' /\ MergerAlone'
  BY DEF IInv, MergerAlone, OneTicket, TicketHeld, Transfer, counter, merging
<1>6. Running' => OneDestroyer' /\ Remains'
  BY DEF Destroying, IInv, OneDestroyer, Remains, Transfer, counter, life,
         merging
<1>7. fault' \in {"none"} \cup Overflow
  BY DEF Running, Transfer
<1>8. Running' => OverflowRoom'
  BY RoomKept
  DEF Transfer, counter, merging, IInv, TypeOK, SharedWord
<1> QED BY <1>2, <1>3, <1>4, <1>5, <1>6, <1>7, <1>8 DEF IInv

(* drop on the biased word, short of the last reference.                   *)
LEMMA DropBiasedKeeps ==
    ASSUME IInv, NEW t \in Thread, NEW r \in Ref, DropBiased(t, r)
    PROVE  IInv'
<1>1. Cardinality(Live') = Cardinality(Live) - 1
  BY HeaderAssumption, LiveRemoved DEF DropBiased, IInv
<1>2. TypeOK'
  BY WidthAssumption
  DEF BiasedWord, DropBiased, IInv, TypeOK, life, merging
<1>3. Running' => CountExact'
  BY <1>1
  DEF BiasedWord, CanUseBias, CountExact, DropBiased, IInv, Idle, MergeHalves,
      SharedWord, TypeOK
<1>4. Running' => WordsAgree' /\ MergeHalves'
  BY DEF BiasedWord, DropBiased, IInv, MergeHalves, Running, TypeOK, WordsAgree,
         merging
<1>5. Running' => OneTicket' /\ TicketHeld' /\ MergerAlone'
  BY DEF CanUseBias, DropBiased, IInv, Idle, MergerAlone, OneTicket, TicketHeld,
         merging
<1>6. Running' => OneDestroyer' /\ Remains'
  BY DEF Destroying, DropBiased, IInv, Idle, OneDestroyer, Remains, life,
         merging
<1>7. fault' \in {"none"} \cup Overflow
  BY DEF DropBiased, IInv
<1>8. Running' => OverflowRoom'
  BY RoomKept
  DEF DropBiased, Idle, merging, IInv, TypeOK, SharedWord
<1> QED BY <1>2, <1>3, <1>4, <1>5, <1>6, <1>7, <1>8 DEF IInv

(* The implicit merge: the owner's count is one, so that the shared count  *)
(* is the number of the other references, and nobody has asked for a merge.*)
LEMMA DropBiasedSlowKeeps ==
    ASSUME IInv, NEW t \in Thread, NEW r \in Ref, DropBiasedSlow(t, r)
    PROVE  IInv'
<1>1. /\ ~shared.merged /\ biased.biased_count = 1
      /\ shared.shared_count = Cardinality(Live) - 1
      /\ Cardinality(Live) >= 1
      /\ Cardinality(Live') = Cardinality(Live) - 1
  <2>1. holder[r] # None /\ holder' = [holder EXCEPT ![r] = None]
    BY HeaderAssumption DEF DropBiasedSlow
  <2>2. Cardinality(Live') = Cardinality(Live) - 1 /\ Cardinality(Live) >= 1
    BY <2>1, LiveRemoved DEF IInv
  <2>3. ~shared.merged /\ biased.biased_count = 1
    BY DEF DropBiasedSlow, CanUseBias, Idle, IInv, WordsAgree, MergeHalves,
           TypeOK, BiasedWord
  <2> QED BY <2>2, <2>3, LiveFinite DEF DropBiasedSlow, Idle, IInv, CountExact, TypeOK, SharedWord
<1>2. shared.shared_count >= 0 /\ ~shared.queued
  BY <1>1, LiveFinite
  DEF DropBiasedSlow, Idle, IInv, WordsAgree, TypeOK, SharedWord
<1>3. TypeOK'
  BY HeaderAssumption, WidthAssumption
  DEF BiasedWord, CanUseBias, Corruption, DropBiasedSlow, FetchOrMerged, Goto,
      IInv, Idle, MergeHalves, MergerAlone, OneDestroyer, OneTicket, Overflow,
      PC, Remains, Running, SharedMax, SharedMin, SharedWord, TicketHeld,
      TypeOK, WordsAgree, life
<1>4. Running' => CountExact'
  BY <1>1
  DEF CountExact, DropBiasedSlow, FetchOrMerged, IInv, SharedWord, TypeOK
<1>5. Running' => WordsAgree'
  BY <1>2
  DEF DropBiasedSlow, FetchOrMerged, WordsAgree
<1>6. Running' => MergeHalves'
  BY DEF CanUseBias, DropBiasedSlow, FetchOrMerged, Goto, IInv, Idle,
         MergeHalves, TypeOK
<1>7. Running' => OneTicket'
  BY <1>2
  DEF DropBiasedSlow, Goto, IInv, OneTicket, Running, TicketHeld
<1>8. Running' => TicketHeld'
  BY <1>2
  DEF DropBiasedSlow, FetchOrMerged, Goto, IInv, Queueing, Running, TicketHeld
<1>9. Running' => MergerAlone'
  BY DEF DropBiasedSlow, Goto, IInv, Idle, MergerAlone
<1>10. Running' => OneDestroyer'
  <2>1. after' = [after EXCEPT ![t] = IF shared.shared_count = 0 THEN "drop" ELSE "keep"]
    BY DEF DropBiasedSlow
  <2>2. pc' = [pc EXCEPT ![t] = "unown"] /\ pc[t] = "idle" /\ value' = value
    BY DEF DropBiasedSlow, Goto, Idle, life
  <2>3. shared'.merged /\ shared'.shared_count = shared.shared_count
    BY DEF DropBiasedSlow, FetchOrMerged, IInv, TypeOK, SharedWord
  <2>4. \A u \in Thread : Destroying(u)' => u = t /\ shared.shared_count = 0
    BY <1>1, <2>1, <2>2
    DEF DropBiasedSlow, Idle, IInv, OneDestroyer, Destroying, TypeOK
  <2>5. shared.shared_count = 0 => Destroying(t)'
    BY <2>1, <2>2 DEF IInv, TypeOK, Destroying
  <2>6. value = "live"
    BY <1>1 DEF DropBiasedSlow, Idle, IInv, Remains, TypeOK
  <2> QED BY <2>2, <2>3, <2>4, <2>5, <2>6 DEF OneDestroyer
<1>11. Running' => Remains'
  BY <1>1
  DEF DropBiasedSlow, Goto, IInv, Idle, Remains, life
<1>12. fault' \in {"none"} \cup Overflow
  BY DEF DropBiasedSlow, IInv
<1>13. Running' => OverflowRoom'
  BY RoomKept
  DEF DropBiasedSlow, FetchOrMerged, Goto, Idle, IInv, TypeOK, SharedWord
<1> QED
  BY <1>3, <1>4, <1>5, <1>6, <1>7, <1>8, <1>9, <1>10, <1>11, <1>12, <1>13 DEF IInv

(* The end of a merge.                                                     *)
LEMMA StoreUnownedKeeps ==
    ASSUME IInv, NEW t \in Thread, StoreUnowned(t)
    PROVE  IInv'
<1>1. TypeOK'
  BY WidthAssumption
  DEF BiasedWord, Corruption, Goto, IInv, PC, StoreUnowned, TypeOK, UNOWNED,
      life
<1>2. Running' => CountExact'
  BY DEF CountExact, IInv, Live, MergeHalves, StoreUnowned
<1>3. Running' => WordsAgree' /\ MergeHalves'
  BY HeaderAssumption
  DEF Goto, IInv, MergeHalves, StoreUnowned, UNOWNED, WordsAgree
<1>4. Running' => OneTicket' /\ TicketHeld' /\ MergerAlone'
  BY DEF Goto, IInv, MergeHalves, MergerAlone, OneTicket, Queueing,
         StoreUnowned, TicketHeld
<1>5. Running' => OneDestroyer' /\ Remains'
  BY DEF Destroying, Goto, IInv, OneDestroyer, Remains, StoreUnowned, life
<1>6. fault' \in {"none"} \cup Overflow
  BY DEF IInv, MergeHalves, StoreUnowned
<1>7. Running' => OverflowRoom'
  BY RoomKept
  DEF StoreUnowned, Goto, IInv, TypeOK, SharedWord
<1> QED BY <1>1, <1>2, <1>3, <1>4, <1>5, <1>6, <1>7 DEF IInv

(* drop on the shared word.  While the count is unmerged the owner's part  *)
(* bounds it from below; afterwards it counts this very reference.         *)
LEMMA DropSharedKeeps ==
    ASSUME IInv, NEW t \in Thread, NEW r \in Ref, DropShared(t, r)
    PROVE  IInv'
<1> DEFINE count == shared.shared_count - 1
           wins == count < 0 /\ ~shared.queued
<1>1. Running /\ Cardinality(Live) >= 1 /\ Cardinality(Live) \in Nat
  BY HeaderAssumption, LiveSome, LiveFinite DEF DropShared, Idle, Live
<1>2. /\ count \in Int /\ biased.biased_count \in Nat
      /\ shared.merged => count = Cardinality(Live) - 1
      /\ ~shared.merged => count = Cardinality(Live) - 1 - biased.biased_count
      /\ FitsShared(count)
  BY <1>1, WidthAssumption
  DEF IInv, CountExact, TypeOK, SharedWord, BiasedWord, FitsShared, SharedMin,
      SharedMax
<1>3. /\ shared' = [shared EXCEPT !.shared_count = count,
                                  !.queued = @ \/ count < 0]
      /\ holder' = [holder EXCEPT ![r] = None]
      /\ pc' = [pc EXCEPT ![t] = IF wins THEN "enqueue"
                                 ELSE IF shared.merged /\ count = 0
                                 THEN "drop_value" ELSE "idle"]
      /\ UNCHANGED <<biased, ownerState, queued, saw, after, value, mem, fault>>
      /\ pc[t] = "idle"
  BY <1>2 DEF DropShared, WinsTicket, IsLast, Goto, Idle, life
<1>4. Cardinality(Live') = Cardinality(Live) - 1
  BY <1>2, HeaderAssumption, LiveRemoved DEF DropShared, IInv
<1>5. shared' = [shared_count |-> count, merged |-> shared.merged,
                 queued |-> shared.queued \/ count < 0]
  BY <1>3 DEF IInv, TypeOK, SharedWord
<1>6. TypeOK'
  <2>1. shared' \in SharedWord
    BY <1>2, <1>5 DEF IInv, TypeOK, SharedWord, FitsShared
  <2>2. pc' \in [Thread -> PC]
    BY <1>3 DEF IInv, TypeOK, PC
  <2> QED BY <1>3, <2>1, <2>2 DEF IInv, TypeOK
<1>7. CountExact'
  BY <1>1, <1>2, <1>3, <1>4 DEF CountExact
<1>8. WordsAgree' /\ MergeHalves'
  <2>1. shared.shared_count = count + 1 /\ shared.queued \in BOOLEAN
    BY <1>2 DEF IInv, TypeOK, SharedWord
  <2>2. ~shared.merged => (shared'.queued <=> shared'.shared_count < 0)
    <3>1. ~shared.merged => (shared.queued => count < 0)
      BY <1>1, <1>2, <2>1 DEF IInv, WordsAgree
    <3>2. shared'.shared_count = count /\ shared'.queued = (shared.queued \/ count < 0)
      BY <1>5
    <3> QED BY <3>1, <3>2, Zenon
  <2>3. shared.merged => shared'.shared_count >= 0
    BY <1>1, <1>2, <1>5
  <2>4. WordsAgree'
    BY <1>1, <1>3, <1>5, <2>2, <2>3 DEF IInv, WordsAgree
  <2>5. MergeHalves'
    BY <1>1, <1>3, <1>5 DEF IInv, MergeHalves, TypeOK
  <2> QED BY <2>4, <2>5
<1>9. OneTicket' /\ TicketHeld' /\ MergerAlone'
  <2>1. CASE wins
    <3>1. ~shared.merged /\ ~shared.queued
      BY <1>1, <1>2, <2>1
    <3>2. ~queued /\ \A u \in Thread : pc[u] \notin Queueing
      BY <1>1, <3>1 DEF IInv, TicketHeld
    <3>3. pc' = [pc EXCEPT ![t] = "enqueue"]
      BY <1>3, <2>1
    <3>4. shared'.queued /\ ~shared'.merged
      BY <1>5, <2>1, <3>1
    <3> QED BY <1>3, <3>2, <3>3, <3>4
            DEF IInv, OneTicket, TicketHeld, MergerAlone, TypeOK, Queueing
  <2>2. CASE ~wins
    BY <1>1, <1>2, <1>3, <1>5, <2>2
    DEF IInv, WordsAgree, OneTicket, TicketHeld, MergerAlone, TypeOK, Queueing
  <2> QED BY <2>1, <2>2
<1>10. OneDestroyer' /\ Remains'
  <2>1. CASE shared.merged /\ count = 0
    BY <1>1, <1>2, <1>3, <1>5, <2>1
    DEF IInv, OneDestroyer, Remains, Destroying, TypeOK
  <2>2. CASE ~(shared.merged /\ count = 0)
    BY <1>1, <1>2, <1>3, <1>5, <2>2
    DEF IInv, OneDestroyer, Remains, Destroying, TypeOK
  <2> QED BY <2>1, <2>2
<1>11. OverflowRoom'
  <2>1. \A u \in Thread : pc'[u] = "overflow" <=> pc[u] = "overflow"
    BY <1>3 DEF IInv, TypeOK
  <2> QED BY <1>1, <1>2, <1>5, <2>1, RoomKept DEF IInv, TypeOK, SharedWord
<1> QED BY <1>1, <1>3, <1>6, <1>7, <1>8, <1>9, <1>10, <1>11 DEF IInv, Running

(* The owner of an object that waits for its merge is known.               *)
LEMMA LoadOwnerKeeps ==
    ASSUME IInv, NEW t \in Thread, LoadOwner(t)
    PROVE  IInv'
<1>1. biased.owner_id # None
  BY DEF LoadOwner, IInv, TicketHeld, WordsAgree, Queueing, Running
<1>2. TypeOK'
  BY <1>1
  DEF Goto, IInv, LoadOwner, PC, TypeOK, counter, life
<1>3. Running' => CountExact'
  BY DEF LoadOwner, CountExact, Live, IInv, Running, counter
<1>4. Running' => WordsAgree' /\ MergeHalves'
  BY HeaderAssumption
  DEF Goto, IInv, LoadOwner, MergeHalves, TypeOK, WordsAgree, counter
<1>5. Running' => OneTicket' /\ TicketHeld' /\ MergerAlone'
  BY DEF Goto, IInv, LoadOwner, MergerAlone, OneTicket, Queueing, TicketHeld,
         TypeOK, counter
<1>6. Running' => OneDestroyer' /\ Remains'
  BY DEF Destroying, Goto, IInv, LoadOwner, OneDestroyer, Remains, TypeOK,
         counter, life
<1>7. fault' \in {"none"} \cup Overflow
  BY <1>1
  DEF LoadOwner, Running
<1>8. Running' => OverflowRoom'
  BY RoomKept
  DEF LoadOwner, Goto, counter, IInv, TypeOK, SharedWord
<1> QED BY <1>2, <1>3, <1>4, <1>5, <1>6, <1>7, <1>8 DEF IInv

(* queue_object: the ticket goes to the queue, or to this thread.          *)
LEMMA QueueObjectKeeps ==
    ASSUME IInv, NEW t \in Thread, QueueObject(t)
    PROVE  IInv'
<1>1. TypeOK'
  BY DEF QueueObject, Goto, IInv, PC, TypeOK, counter, life
<1>2. Running' => CountExact'
  BY DEF CountExact, IInv, Live, QueueObject, counter
<1>3. Running' => WordsAgree' /\ MergeHalves'
  BY HeaderAssumption
  DEF Goto, IInv, MergeHalves, QueueObject, TypeOK, WordsAgree, counter
<1>4. Running' => OneTicket' /\ TicketHeld' /\ MergerAlone'
  BY DEF Goto, IInv, MergerAlone, OneTicket, QueueObject, Queueing, TicketHeld,
         TypeOK, counter
<1>5. Running' => OneDestroyer' /\ Remains'
  BY DEF Destroying, Goto, IInv, OneDestroyer, QueueObject, Remains, TypeOK,
         counter, life
<1>6. fault' \in {"none"} \cup Overflow
  BY DEF QueueObject, Running
<1>7. Running' => OverflowRoom'
  BY RoomKept
  DEF QueueObject, Goto, counter, IInv, TypeOK, SharedWord
<1> QED BY <1>1, <1>2, <1>3, <1>4, <1>5, <1>6, <1>7 DEF IInv

(* do_process: the ticket comes out of the queue.                          *)
LEMMA TakeQueuedKeeps ==
    ASSUME IInv, NEW t \in Thread, TakeQueued(t)
    PROVE  IInv'
<1>1. TypeOK'
  BY DEF TakeQueued, Goto, IInv, PC, TypeOK, counter, life
<1>2. Running' => CountExact'
  BY DEF CountExact, IInv, Idle, Live, TakeQueued, counter
<1>3. Running' => WordsAgree' /\ MergeHalves'
  BY DEF Goto, IInv, Idle, MergeHalves, TakeQueued, WordsAgree, counter
<1>4. Running' => OneTicket' /\ TicketHeld' /\ MergerAlone'
  BY DEF Goto, IInv, MergerAlone, OneTicket, Queueing, Running, TakeQueued,
         TicketHeld, TypeOK, counter
<1>5. Running' => OneDestroyer' /\ Remains'
  BY DEF Destroying, Goto, IInv, Idle, OneDestroyer, Remains, TakeQueued,
         counter, life
<1>6. fault' \in {"none"} \cup Overflow
  BY DEF Idle, Running, TakeQueued
<1>7. Running' => OverflowRoom'
  BY RoomKept
  DEF TakeQueued, Goto, Idle, counter, IInv, TypeOK, SharedWord
<1> QED BY <1>1, <1>2, <1>3, <1>4, <1>5, <1>6, <1>7 DEF IInv

(* explicit_merge reads the count of an owner that is not counting.        *)
LEMMA MergeLoadKeeps ==
    ASSUME IInv, NEW t \in Thread, MergeLoad(t)
    PROVE  IInv'
<1>1. biased.owner_id = Owner
  BY DEF MergeLoad, IInv, TicketHeld, WordsAgree, Queueing, Running
<1>2. TypeOK'
  BY <1>1
  DEF BiasedWord, Goto, IInv, MergeLoad, PC, TypeOK, counter, life
<1>3. Running' => CountExact'
  BY DEF MergeLoad, CountExact, Live, IInv, Running, counter
<1>4. Running' => WordsAgree' /\ MergeHalves'
  BY HeaderAssumption
  DEF Goto, IInv, MergeHalves, MergeLoad, TypeOK, WordsAgree, counter
<1>5. Running' => OneTicket' /\ TicketHeld' /\ MergerAlone'
  BY DEF Goto, IInv, MergeLoad, MergerAlone, OneTicket, Queueing, TicketHeld,
         TypeOK, counter
<1>6. Running' => OneDestroyer' /\ Remains'
  BY DEF Destroying, Goto, IInv, MergeLoad, OneDestroyer, Remains, TypeOK,
         counter, life
<1>7. fault' \in {"none"} \cup Overflow
  BY <1>1
  DEF MergeLoad, Running
<1>8. Running' => OverflowRoom'
  BY RoomKept
  DEF MergeLoad, Goto, counter, IInv, TypeOK, SharedWord
<1> QED BY <1>2, <1>3, <1>4, <1>5, <1>6, <1>7, <1>8 DEF IInv

(* The explicit merge: the two counts add up to the number of references,  *)
(* which is in range, since the shared count was negative.                 *)
LEMMA MergeCasKeeps ==
    ASSUME IInv, NEW t \in Thread, MergeCas(t)
    PROVE  IInv'
<1> DEFINE count == shared.shared_count + saw[t]
<1>1. /\ Running /\ ~shared.merged
      /\ saw[t] = biased.biased_count
      /\ shared.shared_count < 0
  BY DEF MergeCas, IInv, TicketHeld, MergerAlone, WordsAgree, Queueing
<1>2. count = Cardinality(Live) /\ count \in Nat /\ FitsShared(count)
  BY <1>1, LiveFinite, WidthAssumption
  DEF IInv, CountExact, TypeOK, SharedWord, BiasedWord, FitsShared, SharedMin,
      SharedMax
<1>3. /\ shared' = [shared EXCEPT !.shared_count = count, !.merged = TRUE]
      /\ after' = [after EXCEPT ![t] = MergeOutcome(count)]
      /\ pc[t] = "merge_cas" /\ pc' = [pc EXCEPT ![t] = "unown"]
      /\ UNCHANGED <<biased, ownerState, holder, queued, saw, value, mem, fault>>
  BY <1>1, <1>2 DEF MergeCas, Goto, life
<1>4. shared' = [shared_count |-> count, merged |-> TRUE, queued |-> shared.queued]
  BY <1>3 DEF IInv, TypeOK, SharedWord
<1>5. MergeOutcome(count) = IF count = 0 THEN "drop" ELSE "keep"
  BY <1>2 DEF MergeOutcome
<1>6. TypeOK'
  <2>1. shared' \in SharedWord
    BY <1>2, <1>4 DEF IInv, TypeOK, SharedWord, FitsShared
  <2>2. /\ after' \in [Thread -> {"keep", "drop", "negative"}]
        /\ pc' \in [Thread -> PC]
    BY <1>3, <1>5 DEF IInv, TypeOK, PC
  <2> QED BY <1>3, <2>1, <2>2 DEF IInv, TypeOK
<1>7. CountExact'
  BY <1>2, <1>3 DEF CountExact, Live
<1>8. WordsAgree' /\ MergeHalves'
  <2>1. t = Owner \/ ownerState = "closed"
    BY <1>1, <1>3 DEF IInv, MergerAlone
  <2> QED BY <1>1, <1>2, <1>3, <1>4, <1>5, <2>1, HeaderAssumption
          DEF IInv, WordsAgree, MergeHalves, TypeOK
<1>9. OneTicket' /\ TicketHeld' /\ MergerAlone'
  BY <1>1, <1>3
  DEF IInv, OneTicket, TicketHeld, MergerAlone, TypeOK, Queueing
<1>10. OneDestroyer' /\ Remains'
  <2>1. \A u \in Thread : Destroying(u)' => u = t /\ count = 0
    BY <1>1, <1>3, <1>5 DEF IInv, OneDestroyer, Destroying, TypeOK
  <2>2. count = 0 => Destroying(t)'
    BY <1>3, <1>5 DEF IInv, TypeOK, Destroying
  <2>3. value = "live"
    BY <1>1 DEF IInv, Remains, TypeOK
  <2> QED BY <1>1, <1>3, <1>4, <2>1, <2>2, <2>3 DEF IInv, OneDestroyer, Remains, TypeOK
<1>11. OverflowRoom'
  <2>1. Incrementing' = Incrementing
    BY <1>3 DEF Incrementing, IInv, TypeOK
  <2>2. count =< BiasedMax - 1
    BY <1>1, WidthAssumption DEF IInv, TypeOK, SharedWord, BiasedWord
  <2>3. count + Cardinality(Incrementing) =< SharedMax
    BY <1>2, <2>2, IncrementingCounted, RoomAssumption, WidthAssumption DEF SharedMax
  <2> QED BY <1>4, <2>1, <2>3 DEF OverflowRoom
<1> QED BY <1>1, <1>3, <1>6, <1>7, <1>8, <1>9, <1>10, <1>11 DEF IInv, Running

(* The destructor.                                                         *)
LEMMA DropValueKeeps ==
    ASSUME IInv, NEW t \in Thread, DropValue(t)
    PROVE  IInv'
<1>1. TypeOK'
  BY DEF DropValue, Goto, IInv, PC, TypeOK, counter
<1>2. Running' => CountExact'
  BY DEF CountExact, DropValue, IInv, Live, counter
<1>3. Running' => WordsAgree' /\ MergeHalves'
  BY DEF DropValue, Goto, IInv, MergeHalves, WordsAgree, counter
<1>4. Running' => OneTicket' /\ TicketHeld' /\ MergerAlone'
  BY DEF DropValue, Goto, IInv, MergerAlone, OneTicket, Queueing, TicketHeld,
         counter
<1>5. Running' => OneDestroyer' /\ Remains'
  BY DEF Destroying, DropValue, Goto, IInv, OneDestroyer, Remains, TypeOK,
         counter
<1>6. fault' \in {"none"} \cup Overflow
  BY DEF DropValue, Running
<1>7. Running' => OverflowRoom'
  BY RoomKept
  DEF DropValue, Goto, counter, IInv, TypeOK, SharedWord
<1> QED BY <1>1, <1>2, <1>3, <1>4, <1>5, <1>6, <1>7 DEF IInv

(* The common weak count is released.                                      *)
LEMMA DropWeakKeeps ==
    ASSUME IInv, NEW t \in Thread, DropWeak(t)
    PROVE  IInv'
<1>1. TypeOK'
  BY DEF DropWeak, Goto, IInv, PC, TypeOK, counter
<1>2. Running' => CountExact'
  BY DEF CountExact, DropWeak, IInv, Live, counter
<1>3. Running' => WordsAgree' /\ MergeHalves'
  BY DEF DropWeak, Goto, IInv, MergeHalves, WordsAgree, counter
<1>4. Running' => OneTicket' /\ TicketHeld' /\ MergerAlone'
  BY DEF DropWeak, Goto, IInv, MergerAlone, OneTicket, Queueing, TicketHeld,
         counter
<1>5. Running' => OneDestroyer' /\ Remains'
  BY DEF Destroying, DropWeak, Goto, IInv, OneDestroyer, Remains, TypeOK,
         counter
<1>6. fault' \in {"none"} \cup Overflow
  BY DEF DropWeak, Running
<1>7. Running' => OverflowRoom'
  BY RoomKept
  DEF DropWeak, Goto, counter, IInv, TypeOK, SharedWord
<1> QED BY <1>1, <1>2, <1>3, <1>4, <1>5, <1>6, <1>7 DEF IInv

(* The memory goes with the last Weak.                                     *)
LEMMA LastWeakDroppedKeeps ==
    ASSUME IInv, LastWeakDropped
    PROVE  IInv'
<1>1. TypeOK'
  BY DEF IInv, LastWeakDropped, TypeOK, counter, merging
<1>2. Running' => CountExact'
  BY DEF CountExact, IInv, LastWeakDropped, Live, counter
<1>3. Running' => WordsAgree' /\ MergeHalves'
  BY DEF IInv, LastWeakDropped, MergeHalves, WordsAgree, counter, merging
<1>4. Running' => OneTicket' /\ TicketHeld' /\ MergerAlone'
  BY DEF IInv, LastWeakDropped, MergerAlone, OneTicket, TicketHeld, counter,
         merging
<1>5. Running' => OneDestroyer' /\ Remains'
  BY DEF Destroying, IInv, LastWeakDropped, OneDestroyer, Remains, counter,
         merging
<1>6. fault' \in {"none"} \cup Overflow
  BY DEF IInv, LastWeakDropped
<1>7. Running' => OverflowRoom'
  BY RoomKept
  DEF LastWeakDropped, counter, merging, IInv, TypeOK, SharedWord
<1> QED BY <1>1, <1>2, <1>3, <1>4, <1>5, <1>6, <1>7 DEF IInv

(* The owner stops being one: it is in the middle of nothing.              *)
LEMMA OwnerDiesKeeps ==
    ASSUME IInv, OwnerDies
    PROVE  IInv'
<1>1. TypeOK'
  BY DEF IInv, OwnerDies, TypeOK, counter, life, merging
<1>2. Running' => CountExact'
  BY DEF CountExact, IInv, Idle, Live, OwnerDies, counter
<1>3. Running' => WordsAgree' /\ MergeHalves'
  BY DEF IInv, MergeHalves, OwnerDies, Running, WordsAgree, counter, merging
<1>4. Running' => OneTicket' /\ TicketHeld' /\ MergerAlone'
  BY DEF IInv, Idle, MergerAlone, OneTicket, OwnerDies, TicketHeld, counter,
         merging
<1>5. Running' => OneDestroyer' /\ Remains'
  BY DEF Destroying, IInv, Idle, OneDestroyer, OwnerDies, Remains, counter,
         life, merging
<1>6. fault' \in {"none"} \cup Overflow
  BY DEF Idle, OwnerDies, Running
<1>7. Running' => OverflowRoom'
  BY RoomKept
  DEF OwnerDies, Idle, counter, merging, IInv, TypeOK, SharedWord
<1> QED BY <1>1, <1>2, <1>3, <1>4, <1>5, <1>6, <1>7 DEF IInv

(* The queue of a dying owner is dropped.                                  *)
LEMMA CloseQueueKeeps ==
    ASSUME IInv, CloseQueue
    PROVE  IInv'
<1>1. TypeOK'
  BY DEF CloseQueue, IInv, TypeOK, counter, life, merging
<1>2. Running' => CountExact'
  BY DEF CloseQueue, CountExact, IInv, Live, counter
<1>3. Running' => WordsAgree' /\ MergeHalves'
  BY DEF CloseQueue, IInv, MergeHalves, WordsAgree, counter, merging
<1>4. Running' => OneTicket' /\ TicketHeld' /\ MergerAlone'
  BY DEF CloseQueue, IInv, MergerAlone, OneTicket, TicketHeld, counter, merging
<1>5. Running' => OneDestroyer' /\ Remains'
  BY DEF CloseQueue, Destroying, IInv, OneDestroyer, Remains, counter, life,
         merging
<1>6. fault' \in {"none"} \cup Overflow
  BY DEF CloseQueue, IInv
<1>7. Running' => OverflowRoom'
  BY RoomKept
  DEF CloseQueue, counter, merging, IInv, TypeOK, SharedWord
<1> QED BY <1>1, <1>2, <1>3, <1>4, <1>5, <1>6, <1>7 DEF IInv

(* init establishes the invariant, whether it biases the object or not.    *)
LEMMA InitEstablishes == Init => IInv
<1> SUFFICES ASSUME Init PROVE IInv
  OBVIOUS
<1>1. PICK r \in Ref : holder = [s \in Ref |-> IF s = r THEN Owner ELSE None]
  BY DEF Init
<1>2. Live = {r}
  BY <1>1, HeaderAssumption DEF Live
<1>3. Cardinality(Live) = 1
  BY <1>2, FS_Singleton
<1>4. TypeOK
  <2>1. shared \in SharedWord /\ biased \in BiasedWord
    <3>1. /\ 0 \in SharedMin..SharedMax /\ 1 \in SharedMin..SharedMax
          /\ 0 \in 0..BiasedMax /\ 1 \in 0..BiasedMax
      BY WidthAssumption DEF SharedMin, SharedMax
    <3>2. CASE InitBiased
      BY <3>1, <3>2 DEF InitBiased, SharedWord, BiasedWord
    <3>3. CASE InitUnowned
      BY <3>1, <3>3 DEF InitUnowned, SharedWord, BiasedWord, UNOWNED
    <3> QED BY <3>2, <3>3 DEF Init
  <2>2. holder \in [Ref -> Thread \cup {None}]
    BY <1>1, HeaderAssumption
  <2>3. /\ pc \in [Thread -> PC]
        /\ saw \in [Thread -> 0..BiasedMax]
        /\ after \in [Thread -> {"keep", "drop", "negative"}]
    BY WidthAssumption DEF Init, PC
  <2> QED BY <2>1, <2>2, <2>3 DEF Init, InitBiased, InitUnowned, TypeOK
<1>5. CountExact
  BY <1>3 DEF Init, InitBiased, InitUnowned, CountExact
<1>6. WordsAgree /\ MergeHalves
  BY HeaderAssumption
  DEF Init, InitBiased, InitUnowned, UNOWNED, WordsAgree, MergeHalves
<1>7. OneTicket /\ TicketHeld /\ MergerAlone
  BY DEF Init, InitBiased, InitUnowned, OneTicket, TicketHeld, MergerAlone,
         Queueing
<1>8. OneDestroyer /\ Remains
  BY DEF Init, InitBiased, InitUnowned, OneDestroyer, Remains, Destroying
<1>9. OverflowRoom
  <2>1. shared.shared_count \in {0, 1}
    BY DEF Init, InitBiased, InitUnowned
  <2>2. 1 + Cardinality(Thread) =< SharedMax
    BY IncrementingCounted, RoomAssumption, WidthAssumption, FS_EmptySet,
       HeaderAssumption
    DEF SharedMax
  <2>3. shared.shared_count + Cardinality(Incrementing) =< SharedMax
    BY <2>1, <2>2, IncrementingCounted, WidthAssumption DEF SharedMax
  <2> QED BY <2>3 DEF OverflowRoom
<1> QED BY <1>4, <1>5, <1>6, <1>7, <1>8, <1>9 DEF IInv, Init

(* The invariant is about the variables of the header only.                *)
LEMMA StutterKeeps == IInv /\ UNCHANGED vars => IInv'
  BY DEF IInv, TypeOK, CountExact, OverflowRoom, Incrementing, WordsAgree,
         OneTicket, TicketHeld, MergerAlone, MergeHalves, OneDestroyer, Remains,
         vars, counter, merging, life, Live, Running, Destroying, Queueing,
         Overflow

(* Whatever any thread does within the discipline, the invariant is kept.  *)
LEMMA NextKeeps == IInv /\ [Next /\ Disciplined]_vars => IInv'
<1> SUFFICES ASSUME IInv, [Next /\ Disciplined]_vars PROVE IInv'
  OBVIOUS
<1>1. ASSUME NEW t \in Thread, NEW r \in Ref,
             Disciplined, Clone(t, r) \/ Upgrade(t, r)
      PROVE  IInv'
  BY <1>1, IncrementBiasedKeeps, CloneSharedKeeps, UpgradeSharedKeeps
  DEF Clone, Upgrade, CloneBiased, UpgradeBiased
<1>2. ASSUME NEW t \in Thread, NEW r \in Ref, Drop(t, r) PROVE IInv'
  BY <1>2, DropBiasedKeeps, DropBiasedSlowKeeps, DropSharedKeeps DEF Drop
<1>3. ASSUME NEW t \in Thread, NEW u \in Thread, NEW r \in Ref, Transfer(t, r, u)
      PROVE  IInv'
  BY <1>3, TransferKeeps
<1>4. ASSUME NEW t \in Thread, TakeQueued(t) \/ Continue(t) PROVE IInv'
  BY <1>4, TakeQueuedKeeps, AbortOverflowKeeps, LoadOwnerKeeps, QueueObjectKeeps,
     MergeLoadKeeps, MergeCasKeeps, StoreUnownedKeeps, DropValueKeeps, DropWeakKeeps
  DEF Continue
<1>5. ASSUME LastWeakDropped \/ OwnerDies \/ CloseQueue PROVE IInv'
  BY <1>5, LastWeakDroppedKeeps, OwnerDiesKeeps, CloseQueueKeeps
<1>6. CASE UNCHANGED vars
  BY <1>6, StutterKeeps
<1> QED BY <1>1, <1>2, <1>3, <1>4, <1>5, <1>6 DEF Next

-----------------------------------------------------------------------------
(* What follows from the invariant.                                        *)

(* The invariants of the checked runs, gathered.                           *)
Safe == ValueSafe /\ DestroyedOnce /\ OneTicket /\ HeaderValid

(* As long as no abort has ended the program, what the invariant says of   *)
(* the counts makes the value and the memory safe.                         *)
LEMMA RunningIsSafe == ASSUME IInv, Running PROVE Safe
<1>1. Cardinality(Live) \in Nat
  BY LiveFinite
<1>2. shared.merged /\ shared.shared_count = 0 => Live = {}
  BY <1>1, LiveSome DEF IInv, CountExact
<1>3. ValueSafe
  BY <1>2 DEF IInv, ValueSafe, Remains, TypeOK
<1>4. DestroyedOnce
  BY <1>2 DEF IInv, DestroyedOnce, OneDestroyer, Destroying, Remains
<1>5. HeaderValid
  BY DEF IInv, HeaderValid, TicketHeld, Remains
<1> QED BY <1>3, <1>4, <1>5 DEF Safe, IInv

(* The step that ends the program by an overflow disturbs nothing else.    *)
LEMMA OverflowStep ==
    ASSUME Disciplined, IInv, Next, ~Running'
    PROVE  UNCHANGED <<holder, pc, queued, value, mem>>
<1>1. IInv'
  BY NextKeeps
<1>2. fault' \in Overflow /\ fault' # "none"
  BY <1>1 DEF IInv, Running
<1>3. ASSUME NEW t \in Thread, NEW r \in Ref, Clone(t, r) \/ Upgrade(t, r)
      PROVE  UNCHANGED <<holder, pc, queued, value, mem>>
  <2>1. CASE CloneShared(t, r)
    BY <1>2, <2>1 DEF CloneShared, Idle, Running
  <2>2. CASE UpgradeShared(t, r)
    BY <1>2, <2>2 DEF UpgradeShared, Idle, Running, merging, life
  <2>3. CASE IncrementBiased(t, r)
    BY <1>2, <2>3 DEF IncrementBiased, Idle, Running
  <2> QED BY <1>3, <2>1, <2>2, <2>3 DEF Clone, Upgrade, CloneBiased, UpgradeBiased
<1>4. ASSUME NEW t \in Thread, NEW r \in Ref, Drop(t, r)
      PROVE  FALSE
  BY <1>2, <1>4
  DEF Drop, DropBiased, DropBiasedSlow, DropShared, Idle, Running, Overflow
<1>5. ASSUME NEW t \in Thread, NEW u \in Thread, NEW r \in Ref, Transfer(t, r, u)
      PROVE  FALSE
  BY <1>2, <1>5 DEF Transfer, Running
<1>6. ASSUME NEW t \in Thread, TakeQueued(t) \/ Continue(t)
      PROVE  UNCHANGED <<holder, pc, queued, value, mem>>
  BY <1>2, <1>6
  DEF TakeQueued, Continue, AbortOverflow, LoadOwner, QueueObject, MergeLoad,
      MergeCas, StoreUnowned, DropValue, DropWeak, Idle, Running, Overflow,
      merging, life
<1>7. ASSUME LastWeakDropped \/ OwnerDies \/ CloseQueue
      PROVE  FALSE
  BY <1>2, <1>7 DEF LastWeakDropped, OwnerDies, CloseQueue, Idle, Running
<1> QED BY <1>3, <1>4, <1>5, <1>6, <1>7 DEF Next

(* Every step keeps them safe, the one that ends the program included.     *)
LEMMA SafeKeeps ==
    ASSUME IInv, Safe, [Next /\ Disciplined]_vars
    PROVE  Safe'
<1>1. IInv'
  BY NextKeeps
<1>2. CASE Running'
  <2>1. (IInv /\ Running => Safe)'
    BY RunningIsSafe, PTL
  <2> QED BY <1>1, <1>2, <2>1
<1>3. CASE ~Running' /\ Next /\ Disciplined
  <2>1. UNCHANGED <<holder, pc, queued, value, mem>>
    BY <1>3, OverflowStep
  <2>2. ValueSafe'
    BY <2>1 DEF Safe, ValueSafe, Live
  <2>3. OneTicket' /\ HeaderValid'
    BY <2>1 DEF Safe, OneTicket, HeaderValid, Queueing
  <2>4. DestroyedOnce'
    BY <2>1 DEF Safe, DestroyedOnce, Live
  <2> QED BY <2>2, <2>3, <2>4 DEF Safe
<1>4. CASE UNCHANGED vars
  BY <1>4
  DEF Safe, ValueSafe, DestroyedOnce, OneTicket, HeaderValid, Queueing, Live,
      vars, merging, life
<1> QED BY <1>2, <1>3, <1>4

(* Under the discipline, the counter of any object satisfies its inductive *)
(* invariant in every reachable state.                                     *)
THEOREM Invariance == DisciplinedSpec => [](IInv /\ Safe)
<1>1. Init => IInv /\ Safe
  <2> SUFFICES ASSUME Init PROVE IInv /\ Safe
    OBVIOUS
  <2>1. IInv
    BY InitEstablishes
  <2> QED BY <2>1, RunningIsSafe DEF Init, Running
<1>2. IInv /\ Safe /\ [Next /\ Disciplined]_vars => (IInv /\ Safe)'
  BY NextKeeps, SafeKeeps
<1> QED BY <1>1, <1>2, PTL DEF DisciplinedSpec

(* The two words add up to the number of references.                       *)
THEOREM CountsAreExact == DisciplinedSpec => []CountExact
<1>1. IInv => CountExact
  BY DEF IInv, CountExact
<1> QED BY <1>1, Invariance, PTL

(* However many threads have gone past the threshold at once, no fetch_add *)
(* wraps the shared count around.                                          *)
THEOREM CountNeverWraps == DisciplinedSpec => []OverflowRoom
<1>1. IInv => OverflowRoom
  BY DEF IInv, OverflowRoom
<1> QED BY <1>1, Invariance, PTL

(* None of the aborts for corrupt counters is reached.                     *)
THEOREM NeverCorrupt == DisciplinedSpec => []NoCorruption
<1>1. IInv => NoCorruption
  BY DEF IInv, NoCorruption, Overflow, Corruption
<1> QED BY <1>1, Invariance, PTL

(* A value that has a reference is never destroyed.                        *)
THEOREM ValueIsSafe == DisciplinedSpec => []ValueSafe
<1>1. Safe => ValueSafe
  BY DEF Safe
<1> QED BY <1>1, Invariance, PTL

(* The destructor runs at most once, in one thread.                        *)
THEOREM DestroyedAtMostOnce == DisciplinedSpec => []DestroyedOnce
<1>1. Safe => DestroyedOnce
  BY DEF Safe
<1> QED BY <1>1, Invariance, PTL

(* An object is queued at most once, and merged by whoever has it.         *)
THEOREM QueuedAtMostOnce == DisciplinedSpec => []OneTicket
<1>1. Safe => OneTicket
  BY DEF Safe
<1> QED BY <1>1, Invariance, PTL

(* The header of an object that waits for its merge is allocated.          *)
THEOREM QueuedHeaderValid == DisciplinedSpec => []HeaderValid
<1>1. Safe => HeaderValid
  BY DEF Safe
<1> QED BY <1>1, Invariance, PTL

(* A count of zero has a destroyer once merged, and cannot be zero before: *)
(* it is negative, and the ticket is held.                                 *)
LEMMA InvForgetsNothing == IInv => NeverForgotten
<1> SUFFICES ASSUME IInv, Running, Live = {}, value = "live"
             PROVE  queued \/ \E t \in Thread : pc[t] # "idle"
  BY DEF NeverForgotten
<1>1. Cardinality(Live) = 0
  BY FS_EmptySet
<1>2. CASE shared.merged
  <2>1. shared.shared_count = 0
    BY <1>1, <1>2 DEF IInv, CountExact, TypeOK, SharedWord
  <2>2. PICK t \in Thread : Destroying(t)
    BY <1>2, <2>1 DEF IInv, OneDestroyer
  <2> QED BY <2>2 DEF Destroying
<1>3. CASE ~shared.merged
  <2>1. shared.shared_count < 0
    BY <1>1, <1>3
    DEF IInv, CountExact, WordsAgree, TypeOK, SharedWord, BiasedWord
  <2>2. shared.queued
    BY <1>3, <2>1 DEF IInv, WordsAgree
  <2> QED BY <1>3, <2>2 DEF IInv, TicketHeld, Queueing
<1> QED BY <1>2, <1>3

(* A value without references always has somebody responsible for it.      *)
THEOREM NothingForgotten == DisciplinedSpec => []NeverForgotten
<1> QED BY InvForgetsNothing, Invariance, PTL

(* The last biased count is that of a reference the owner holds, so that   *)
(* the others are all counted in the shared word.                          *)
LEMMA InvMergesCleanly == IInv => ImplicitMergeClean
<1> SUFFICES ASSUME IInv, Idle(Owner), CanUseBias(Owner), biased.biased_count = 1,
                    NEW r \in Ref, holder[r] = Owner
             PROVE  ~shared.merged /\ shared.shared_count >= 0
  BY DEF ImplicitMergeClean
<1>1. Cardinality(Live) >= 1
  BY HeaderAssumption, LiveSome DEF Live
<1>2. ~shared.merged
  BY DEF Idle, CanUseBias, IInv, MergeHalves
<1> QED BY <1>1, <1>2, LiveFinite DEF Idle, IInv, CountExact, TypeOK, SharedWord

(* The assertions of decrement_biased_slow hold.                           *)
THEOREM ImplicitMergeIsClean == DisciplinedSpec => []ImplicitMergeClean
<1> QED BY InvMergesCleanly, Invariance, PTL
-----------------------------------------------------------------------------
(* What no step does.                                                      *)

(* Once the merged flag is set, the words change little.                   *)
LEMMA FlagsChange ==
    ASSUME IInv, [Next /\ Disciplined]_vars
    PROVE  NeverRebiasedStep
<1> USE DEF NeverRebiasedStep
<1>1. ASSUME NEW t \in Thread, NEW r \in Ref, IncrementBiased(t, r) \/ DropBiased(t, r)
      PROVE  NeverRebiasedStep
  BY <1>1 DEF IncrementBiased, DropBiased, CanUseBias, Idle, IInv, MergeHalves
<1>2. ASSUME NEW t \in Thread, NEW r \in Ref, Disciplined, CloneShared(t, r)
      PROVE  NeverRebiasedStep
  BY <1>2, CloneSharedAdds DEF CloneShared, IInv, TypeOK, SharedWord
<1>3. ASSUME NEW t \in Thread, NEW r \in Ref, UpgradeShared(t, r) \/ DropShared(t, r)
      PROVE  NeverRebiasedStep
  BY <1>3 DEF UpgradeShared, DropShared, IInv, TypeOK, SharedWord
<1>4. ASSUME NEW t \in Thread, NEW r \in Ref, DropBiasedSlow(t, r)
      PROVE  NeverRebiasedStep
  BY <1>4 DEF DropBiasedSlow, FetchOrMerged, IInv, TypeOK, SharedWord
<1>5. ASSUME NEW t \in Thread, MergeCas(t) \/ StoreUnowned(t)
      PROVE  NeverRebiasedStep
  BY <1>5 DEF MergeCas, StoreUnowned, IInv, TypeOK, SharedWord
<1>6. ASSUME UNCHANGED counter
      PROVE  NeverRebiasedStep
  BY <1>6 DEF counter
<1> QED
  BY <1>1, <1>2, <1>3, <1>4, <1>5, <1>6
  DEF Next, Clone, CloneBiased, Upgrade, UpgradeBiased, Drop, Continue,
      Transfer, TakeQueued, AbortOverflow, LoadOwner, QueueObject, MergeLoad,
      DropValue, DropWeak, LastWeakDropped, OwnerDies, CloseQueue, vars

(* A merged counter is never biased again.                                 *)
THEOREM MergedForGood == DisciplinedSpec => NeverRebiased
<1>1. IInv /\ [Next /\ Disciplined]_vars => [NeverRebiasedStep]_vars
  BY FlagsChange
<1> QED BY <1>1, Invariance, PTL DEF DisciplinedSpec, NeverRebiased

-----------------------------------------------------------------------------
(* The code as it is, whatever its clients do.                             *)

(* No step leaves the types, the additions that wrap around included.      *)
LEMMA TypeKept == TypeOK /\ [Next]_vars => TypeOK'
<1> SUFFICES ASSUME TypeOK, [Next]_vars PROVE TypeOK'
  OBVIOUS
<1> USE WidthAssumption DEF TypeOK
<1>1. ASSUME NEW t \in Thread, NEW r \in Ref, IncrementBiased(t, r) \/ DropBiased(t, r)
      PROVE  TypeOK'
  BY <1>1 DEF IncrementBiased, DropBiased, BiasedWord, merging, life
<1>2. ASSUME NEW t \in Thread, NEW r \in Ref, CloneShared(t, r)
      PROVE  TypeOK'
  BY <1>2, FetchAddType DEF CloneShared, Goto, PC, life
<1>3. ASSUME NEW t \in Thread, NEW r \in Ref, UpgradeShared(t, r)
      PROVE  TypeOK'
  BY <1>3 DEF UpgradeShared, FitsShared, SharedWord, Overflow, merging, life
<1>4. ASSUME NEW t \in Thread, NEW r \in Ref, DropBiasedSlow(t, r)
      PROVE  TypeOK'
  BY <1>4 DEF DropBiasedSlow, FetchOrMerged, SharedWord, Goto, PC, life
<1>5. ASSUME NEW t \in Thread, NEW r \in Ref, DropShared(t, r)
      PROVE  TypeOK'
  <2>1. CASE FitsShared(shared.shared_count - 1)
    <3> DEFINE count == shared.shared_count - 1
    <3>1. shared' = [shared EXCEPT !.shared_count = count, !.queued = @ \/ count < 0]
      BY <1>5, <2>1 DEF DropShared
    <3>2. shared' = [shared_count |-> count, merged |-> shared.merged,
                     queued |-> shared.queued \/ count < 0]
      BY <3>1 DEF SharedWord
    <3>3. shared' \in SharedWord
      BY <2>1, <3>2 DEF FitsShared, SharedWord
    <3>4. pc' \in [Thread -> PC]
      BY <1>5, <2>1 DEF DropShared, Goto, PC
    <3>5. /\ holder' \in [Ref -> Thread \cup {None}]
          /\ UNCHANGED <<biased, ownerState, queued, saw, after, value, mem, fault>>
      BY <1>5, <2>1 DEF DropShared, life
    <3> QED BY <3>3, <3>4, <3>5
  <2>2. CASE ~FitsShared(shared.shared_count - 1)
    BY <1>5, <2>2 DEF DropShared, Corruption, life
  <2> QED BY <2>1, <2>2
<1>6. ASSUME NEW t \in Thread, MergeCas(t)
      PROVE  TypeOK'
  <2> DEFINE count == shared.shared_count + saw[t]
  <2>1. CASE ~shared.merged /\ FitsShared(count)
    <3>1. shared' = [shared EXCEPT !.shared_count = count, !.merged = TRUE]
      BY <1>6, <2>1 DEF MergeCas
    <3>2. shared' \in SharedWord
      <4>1. shared' = [shared_count |-> count, merged |-> TRUE, queued |-> shared.queued]
        BY <3>1 DEF SharedWord
      <4>2. count \in Int /\ SharedMin =< count /\ count =< SharedMax
        BY <2>1 DEF FitsShared, SharedWord
      <4> QED BY <4>1, <4>2 DEF SharedWord
    <3>3. MergeOutcome(count) \in {"keep", "drop", "negative"}
      BY DEF MergeOutcome
    <3>4. after' \in [Thread -> {"keep", "drop", "negative"}]
      BY <1>6, <2>1, <3>3 DEF MergeCas
    <3>5. pc' \in [Thread -> PC]
      BY <1>6, <2>1 DEF MergeCas, Goto, PC
    <3> QED BY <1>6, <2>1, <3>2, <3>4, <3>5 DEF MergeCas, life
  <2>2. CASE ~(~shared.merged /\ FitsShared(count))
    BY <1>6, <2>2 DEF MergeCas, Corruption, life
  <2> QED BY <2>1, <2>2
<1>7. ASSUME NEW t \in Thread, StoreUnowned(t) \/ MergeLoad(t)
      PROVE  TypeOK'
  BY <1>7
  DEF StoreUnowned, MergeLoad, UNOWNED, BiasedWord, Goto, PC, Corruption,
      counter, life
<1>8. ASSUME NEW t \in Thread,
             TakeQueued(t) \/ AbortOverflow(t) \/ LoadOwner(t) \/ QueueObject(t)
      PROVE  TypeOK'
  BY <1>8
  DEF TakeQueued, AbortOverflow, LoadOwner, QueueObject, Goto, PC, Corruption,
      Overflow, counter, merging, life
<1>9. ASSUME NEW t \in Thread, DropValue(t) \/ DropWeak(t)
      PROVE  TypeOK'
  BY <1>9 DEF DropValue, DropWeak, Goto, PC, counter
<1>10. ASSUME NEW t \in Thread, NEW u \in Thread, NEW r \in Ref, Transfer(t, r, u)
       PROVE  TypeOK'
  BY <1>10 DEF Transfer, counter, merging, life
<1>11. ASSUME LastWeakDropped \/ OwnerDies \/ CloseQueue \/ UNCHANGED vars
       PROVE  TypeOK'
  BY <1>11 DEF LastWeakDropped, OwnerDies, CloseQueue, vars, counter, merging, life
<1> QED
  BY <1>1, <1>2, <1>3, <1>4, <1>5, <1>6, <1>7, <1>8, <1>9, <1>10, <1>11
  DEF Next, Clone, CloneBiased, Upgrade, UpgradeBiased, Drop, Continue

(* Without any discipline, the variables keep their types: no count leaves *)
(* the range its field of the packed word can hold.                        *)
THEOREM TypeCorrect == Spec => []TypeOK
<1>1. Init => TypeOK
  BY InitEstablishes DEF IInv
<1> QED BY <1>1, TypeKept, PTL DEF Spec

(* There are two ways for the merged flag to be set: a merge, implicit or  *)
(* explicit, and the carry of a fetch_add at an unmerged -1.               *)
LEMMA FlagAppears ==
    ASSUME TypeOK, [Next]_vars
    PROVE  MergedByMergeStep \/ ClonesAtMinusOne
<1> SUFFICES ASSUME ~shared.merged, shared'.merged
             PROVE  \/ \E t \in Thread : pc[t] # "unown" /\ pc'[t] = "unown"
                    \/ ClonesAtMinusOne
  BY DEF MergedByMergeStep
<1>1. ASSUME NEW t \in Thread, NEW r \in Ref, CloneShared(t, r)
      PROVE  ClonesAtMinusOne
  <2>1. shared.shared_count = -1
    BY <1>1, FetchAddIncrements DEF CloneShared, TypeOK, SharedWord
  <2> QED BY <1>1, <2>1 DEF ClonesAtMinusOne, AtMinusOne
<1>2. ASSUME NEW t \in Thread, NEW r \in Ref, DropBiasedSlow(t, r)
      PROVE  pc[t] # "unown" /\ pc'[t] = "unown"
  BY <1>2 DEF DropBiasedSlow, Idle, Goto, TypeOK
<1>3. ASSUME NEW t \in Thread, MergeCas(t)
      PROVE  pc[t] # "unown" /\ pc'[t] = "unown"
  BY <1>3 DEF MergeCas, Goto, TypeOK
<1>4. ASSUME NEW t \in Thread, NEW r \in Ref, UpgradeShared(t, r) \/ DropShared(t, r)
      PROVE  FALSE
  BY <1>4 DEF UpgradeShared, DropShared, TypeOK, SharedWord
<1>5. ASSUME UNCHANGED shared
      PROVE  FALSE
  BY <1>5
<1> QED
  BY <1>1, <1>2, <1>3, <1>4, <1>5
  DEF Next, Clone, CloneBiased, Upgrade, UpgradeBiased, IncrementBiased, Drop,
      DropBiased, Continue, Transfer, TakeQueued, AbortOverflow, LoadOwner,
      QueueObject, MergeLoad, StoreUnowned, DropValue, DropWeak,
      LastWeakDropped, OwnerDies, CloseQueue, vars, counter

(* Without any discipline, the merged flag is set by a merge or by a clone *)
(* that increments an unmerged -1; nothing else any program does sets it.  *)
THEOREM MergedOrCarried == Spec => [][MergedByMergeStep \/ ClonesAtMinusOne]_vars
<1>1. TypeOK /\ [Next]_vars => [MergedByMergeStep \/ ClonesAtMinusOne]_vars
  BY FlagAppears
<1> QED BY <1>1, TypeCorrect, PTL DEF Spec

-----------------------------------------------------------------------------
(* The counter implements SharedValue.                                     *)

(* A new object has one reference to a live value.                         *)
LEMMA PromiseInit == Init => Promise!Init
<1> SUFFICES ASSUME Init PROVE Promise!Init
  OBVIOUS
<1> QED BY HeaderAssumption DEF Init, Promise!Init

(* Every step of the counter is a step of SharedValue, or none at all:     *)
(* clone and upgrade acquire, drop releases, the destructor destroys.      *)
LEMMA PromiseStep ==
    ASSUME IInv, Safe, [Next /\ Disciplined]_vars
    PROVE  [Promise!Next]_Promise!vars
<1> USE DEF Promise!vars
<1>1. ASSUME NEW t \in Thread, NEW r \in Ref, IncrementBiased(t, r)
      PROVE  Promise!Acquire(t, r)
  BY <1>1
  DEF IncrementBiased, CanUseBias, Idle, life, IInv, MergeHalves, Remains,
      TypeOK, Promise!Acquire
<1>2. ASSUME NEW t \in Thread, NEW r \in Ref, CloneShared(t, r)
      PROVE  Promise!Acquire(t, r)
  BY <1>2 DEF CloneShared, Safe, ValueSafe, life, Promise!Acquire
<1>3. ASSUME NEW t \in Thread, NEW r \in Ref, UpgradeShared(t, r)
      PROVE  Promise!Acquire(t, r) \/ UNCHANGED <<holder, value>>
  BY <1>3
  DEF UpgradeShared, IsDead, Idle, life, IInv, Remains, TypeOK, Promise!Acquire
<1>4. ASSUME NEW t \in Thread, NEW r \in Ref, Drop(t, r)
      PROVE  Promise!Release(t, r) \/ UNCHANGED <<holder, value>>
  BY <1>4
  DEF Drop, DropBiased, DropBiasedSlow, DropShared, life, Promise!Release
<1>5. ASSUME NEW t \in Thread, NEW u \in Thread, NEW r \in Ref, Transfer(t, r, u)
      PROVE  Promise!Transfer(t, r, u)
  BY <1>5 DEF Transfer, life, Promise!Transfer
<1>6. ASSUME NEW t \in Thread, DropValue(t)
      PROVE  Promise!Destroy
  BY <1>6
  DEF DropValue, Safe, DestroyedOnce, Live, Promise!Destroy, Promise!Live
<1>7. ASSUME NEW t \in Thread,
             \/ TakeQueued(t) \/ AbortOverflow(t) \/ LoadOwner(t)
             \/ QueueObject(t) \/ MergeLoad(t) \/ MergeCas(t)
             \/ StoreUnowned(t) \/ DropWeak(t)
      PROVE  UNCHANGED <<holder, value>>
  BY <1>7
  DEF TakeQueued, AbortOverflow, LoadOwner, QueueObject, MergeLoad, MergeCas,
      StoreUnowned, DropWeak, life
<1>8. ASSUME LastWeakDropped \/ OwnerDies \/ CloseQueue \/ UNCHANGED vars
      PROVE  UNCHANGED <<holder, value>>
  BY <1>8 DEF LastWeakDropped, OwnerDies, CloseQueue, vars, life
<1> QED
  BY <1>1, <1>2, <1>3, <1>4, <1>5, <1>6, <1>7, <1>8
  DEF Next, Clone, CloneBiased, Upgrade, UpgradeBiased, Continue, Promise!Next

(* Seen from outside, the biased counter is a reference count: whatever    *)
(* the two words and the queue do, references come and go, and the value   *)
(* is destroyed once, after the last of them.                              *)
THEOREM Implementation == DisciplinedSpec => RefinesSharedValue
<1>1. Init => Promise!Init
  BY PromiseInit
<1>2. IInv /\ Safe /\ [Next /\ Disciplined]_vars => [Promise!Next]_Promise!vars
  BY PromiseStep
<1> QED BY <1>1, <1>2, Invariance, PTL DEF DisciplinedSpec, RefinesSharedValue, Promise!Spec

-----------------------------------------------------------------------------
(* The counter keeps its contract with the thread runtime.                 *)

Hand == [t \in Thread |-> IF Holds(t) THEN {Ticket} ELSE {}]
Stage == [x \in {Ticket} |-> TicketStage]

(* The stage an unmerged object is at is that of whoever holds its ticket. *)
LEMMA StageOf ==
    ASSUME IInv, Running
    PROVE  /\ queued => TicketStage = "queued" /\ \A t \in Thread : ~Holds(t)
           /\ \A t \in Thread : Holds(t) =>
                /\ ~shared.merged /\ ~queued
                /\ \A u \in Thread : Holds(u) => u = t
                /\ TicketStage = IF pc[t] \in {"merge_load", "merge_cas"}
                                 THEN "merging" ELSE "asked"
           /\ ~shared.merged /\ ~shared.queued =>
                TicketStage = "biased" /\ ~queued /\ \A t \in Thread : ~Holds(t)
  BY DEF IInv, TicketHeld, OneTicket, Holds, Queueing, TicketStage

(* Nothing happens to the ticket.                                          *)
LEMMA TicketStays ==
    ASSUME UNCHANGED <<queued, ownerState>>, shared'.merged = shared.merged,
           \A t \in Thread :
               \/ pc'[t] = pc[t]
               \/ pc[t] \notin Queueing /\ pc'[t] \notin Queueing
               \/ pc[t] = "enqueue" /\ pc'[t] = "queue_object"
               \/ pc[t] = "merge_load" /\ pc'[t] = "merge_cas"
    PROVE  UNCHANGED Contract!vars
<1>1. \A t \in Thread : Holds(t)' <=> Holds(t)
  BY DEF Holds, Queueing
<1>2. \A t \in Thread : pc'[t] \in {"merge_load", "merge_cas"}
                          <=> pc[t] \in {"merge_load", "merge_cas"}
  BY DEF Queueing
<1>3. TicketStage' = TicketStage
  BY <1>1, <1>2 DEF TicketStage
<1> QED BY <1>1, <1>3 DEF Contract!vars

(* The last of the owner's own references: an implicit merge.              *)
LEMMA SlowDropMergesOwn ==
    ASSUME IInv, NEW t \in Thread, NEW r \in Ref, DropBiasedSlow(t, r)
    PROVE  Contract!MergeOwn(Ticket)
<1>1. Running /\ t = Owner /\ ownerState = "active" /\ pc[t] = "idle"
  BY DEF DropBiasedSlow, CanUseBias, Idle
<1>2. ~shared.merged /\ biased.biased_count = 1 /\ Cardinality(Live) >= 1
  <2>1. ~shared.merged
    BY <1>1 DEF DropBiasedSlow, CanUseBias, IInv, MergeHalves
  <2>2. Cardinality(Live) >= 1
    BY HeaderAssumption, LiveSome DEF DropBiasedSlow, Live
  <2> QED BY <1>1, <2>1, <2>2 DEF DropBiasedSlow, IInv, WordsAgree, TypeOK, BiasedWord
<1>3. ~shared.queued
  BY <1>1, <1>2, LiveFinite DEF IInv, CountExact, WordsAgree, TypeOK, SharedWord
<1>4. shared'.merged
  BY DEF DropBiasedSlow, FetchOrMerged, IInv, TypeOK, SharedWord
<1>5. TicketStage = "biased" /\ TicketStage' = "merged"
  BY <1>1, <1>2, <1>3, <1>4, StageOf DEF TicketStage
<1>6. \A u \in Thread : Holds(u)' <=> Holds(u)
  BY <1>1 DEF DropBiasedSlow, Goto, Holds, Queueing, IInv, TypeOK
<1> QED BY <1>1, <1>5, <1>6 DEF Contract!MergeOwn, Contract!Advance, DropBiasedSlow

(* A drop on the shared word asks for the merge, or leaves it as it is.    *)
LEMMA SharedDropAsks ==
    ASSUME IInv, NEW t \in Thread, NEW r \in Ref, DropShared(t, r),
           WinsTicket(shared.shared_count - 1), FitsShared(shared.shared_count - 1)
    PROVE  Contract!Ask(t, Ticket)
<1>1. /\ Running /\ pc[t] = "idle" /\ ~shared.queued
      /\ pc' = [pc EXCEPT ![t] = "enqueue"]
      /\ UNCHANGED <<ownerState, queued>>
  BY DEF DropShared, WinsTicket, Idle, Goto
<1>2. Cardinality(Live) >= 1
  BY HeaderAssumption, LiveSome DEF DropShared, Live
<1>3. ~shared.merged
  BY <1>1, <1>2, LiveFinite DEF WinsTicket, IInv, CountExact, TypeOK, SharedWord
<1>4. t = Owner => ownerState # "active"
  BY <1>1, <1>3 DEF DropShared, CanUseBias, IInv, WordsAgree
<1>5. shared'.merged = shared.merged
  BY DEF DropShared, IInv, TypeOK, SharedWord
<1>6. TicketStage = "biased" /\ ~queued /\ \A u \in Thread : ~Holds(u)
  BY <1>1, <1>3, StageOf
<1>7. Holds(t)' /\ \A u \in Thread \ {t} : ~Holds(u)' /\ pc'[u] = pc[u]
  BY <1>1, <1>6 DEF Holds, Queueing, IInv, TypeOK
<1>8. pc'[t] = "enqueue"
  BY <1>1 DEF IInv, TypeOK
<1>9. TicketStage' = "asked"
  BY <1>1, <1>3, <1>5, <1>6, <1>7, <1>8 DEF TicketStage, Holds, Queueing
<1> QED BY <1>1, <1>4, <1>6, <1>7, <1>9 DEF Contract!Ask, Contract!Advance, Contract!TakeUp

(* The object goes into the queue, or into the hands of whoever asked.     *)
LEMMA QueueObjectHands ==
    ASSUME IInv, NEW t \in Thread, QueueObject(t)
    PROVE  Contract!Enqueue(t, Ticket) \/ Contract!Keep(t, Ticket)
<1>1. /\ Running /\ pc[t] = "queue_object" /\ Holds(t)
      /\ UNCHANGED <<shared, ownerState>>
  BY DEF QueueObject, Holds, Queueing, counter
<1>2. /\ ~shared.merged /\ ~queued /\ TicketStage = "asked"
      /\ \A u \in Thread : Holds(u) => u = t
  BY <1>1, StageOf
<1>3. CASE ownerState # "closed" /\ queued' = TRUE /\ Goto(t, "idle")
  <2>1. \A u \in Thread : ~Holds(u)'
    BY <1>2, <1>3 DEF Goto, Holds, Queueing, IInv, TypeOK
  <2>2. TicketStage' = "queued"
    BY <1>1, <1>2, <1>3 DEF TicketStage
  <2> QED BY <1>1, <1>2, <1>3, <2>1, <2>2
          DEF Contract!Enqueue, Contract!Advance, Contract!PutDown
<1>4. CASE ownerState = "closed" /\ Goto(t, "merge_load") /\ UNCHANGED queued
  <2>1. pc'[t] = "merge_load" /\ \A u \in Thread : Holds(u)' <=> Holds(u)
    BY <1>1, <1>4 DEF Goto, Holds, Queueing, IInv, TypeOK
  <2>2. TicketStage' = "merging"
    BY <1>1, <1>2, <1>4, <2>1 DEF TicketStage
  <2> QED BY <1>1, <1>2, <1>4, <2>1, <2>2 DEF Contract!Keep, Contract!Advance
<1> QED BY <1>3, <1>4 DEF QueueObject

(* The object is taken from the queue.                                     *)
LEMMA TakeQueuedTakes ==
    ASSUME IInv, NEW t \in Thread, TakeQueued(t)
    PROVE  Contract!Take(t, Ticket)
<1>1. /\ Running /\ queued /\ ~queued' /\ pc' = [pc EXCEPT ![t] = "merge_load"]
      /\ UNCHANGED <<shared, ownerState>>
  BY DEF TakeQueued, Idle, Goto, counter
<1>2. TicketStage = "queued" /\ \A u \in Thread : ~Holds(u)
  BY <1>1, StageOf
<1>3. ~shared.merged
  BY <1>1 DEF IInv, TicketHeld
<1>4. pc'[t] = "merge_load" /\ Holds(t)' /\ \A u \in Thread \ {t} : ~Holds(u)'
  BY <1>1, <1>2 DEF Holds, Queueing, IInv, TypeOK
<1>5. TicketStage' = "merging"
  BY <1>1, <1>3, <1>4 DEF TicketStage
<1> QED BY <1>1, <1>2, <1>4, <1>5
        DEF TakeQueued, Contract!Take, Contract!Advance, Contract!TakeUp

(* The exchange of explicit_merge is the merge.                            *)
LEMMA MergeCasMerges ==
    ASSUME IInv, NEW t \in Thread, MergeCas(t)
    PROVE  Contract!Merge(t, Ticket)
<1>1. Running /\ pc[t] = "merge_cas" /\ Holds(t) /\ UNCHANGED <<ownerState, queued>>
  BY DEF MergeCas, Holds, Queueing
<1>2. /\ ~shared.merged /\ TicketStage = "merging"
      /\ \A u \in Thread : Holds(u) => u = t
  BY <1>1, StageOf
<1>3. IInv'
  BY MergeCasKeeps
<1>4. fault' \notin {"assert_not_merged", "merged_refcnt_overflow"}
  BY <1>3 DEF IInv, Overflow
<1>5. shared'.merged /\ pc' = [pc EXCEPT ![t] = "unown"]
  BY <1>4 DEF MergeCas, Goto, IInv, TypeOK, SharedWord
<1>6. \A u \in Thread : ~Holds(u)'
  BY <1>2, <1>5 DEF Holds, Queueing, IInv, TypeOK
<1>7. TicketStage' = "merged"
  BY <1>5 DEF TicketStage
<1> QED BY <1>1, <1>2, <1>6, <1>7 DEF Contract!Merge, Contract!Advance, Contract!PutDown

(* Every step of the counter is a step of the contract, or none at all.    *)
LEMMA ContractStep ==
    ASSUME IInv, [Next /\ Disciplined]_vars
    PROVE  [Contract!Next]_(Contract!vars)
<1>1. ASSUME NEW t \in Thread, NEW r \in Ref, IncrementBiased(t, r) \/ DropBiased(t, r)
      PROVE  UNCHANGED Contract!vars
  BY <1>1, TicketStays DEF IncrementBiased, DropBiased, merging
<1>2. ASSUME NEW t \in Thread, NEW r \in Ref,
             Disciplined, CloneShared(t, r) \/ UpgradeShared(t, r)
      PROVE  UNCHANGED Contract!vars
  <2>1. CASE CloneShared(t, r)
    <3>1. shared'.merged = shared.merged
      BY <1>2, <2>1, CloneSharedAdds DEF IInv, TypeOK, SharedWord
    <3>2. \A u \in Thread : pc'[u] = pc[u] \/ (pc[u] = "idle" /\ pc'[u] = "overflow")
      BY <2>1 DEF CloneShared, Idle, Goto, IInv, TypeOK
    <3> QED BY <2>1, <3>1, <3>2, TicketStays DEF CloneShared, Queueing
  <2>2. CASE UpgradeShared(t, r)
    <3>1. shared'.merged = shared.merged
      BY <2>2 DEF UpgradeShared, IInv, TypeOK, SharedWord
    <3> QED BY <2>2, <3>1, TicketStays DEF UpgradeShared, merging
  <2> QED BY <1>2, <2>1, <2>2
<1>3. ASSUME NEW t \in Thread, NEW r \in Ref, DropShared(t, r)
      PROVE  Contract!Ask(t, Ticket) \/ UNCHANGED Contract!vars
  <2>1. CASE FitsShared(shared.shared_count - 1) /\ WinsTicket(shared.shared_count - 1)
    BY <1>3, <2>1, SharedDropAsks
  <2>2. CASE ~(FitsShared(shared.shared_count - 1) /\ WinsTicket(shared.shared_count - 1))
    <3>1. shared'.merged = shared.merged /\ UNCHANGED <<queued, ownerState>>
      BY <1>3 DEF DropShared, IInv, TypeOK, SharedWord
    <3>2. pc[t] = "idle" /\ pc'[t] \in {"idle", "drop_value"}
      BY <1>3, <2>2 DEF DropShared, Goto, Idle, IInv, TypeOK
    <3>3. \A u \in Thread \ {t} : pc'[u] = pc[u]
      BY <1>3 DEF DropShared, Goto, IInv, TypeOK
    <3> QED BY <3>1, <3>2, <3>3, TicketStays DEF Queueing
  <2> QED BY <2>1, <2>2
<1>4. ASSUME NEW t \in Thread, NEW r \in Ref, DropBiasedSlow(t, r)
      PROVE  Contract!MergeOwn(Ticket)
  BY <1>4, SlowDropMergesOwn
<1>5. ASSUME NEW t \in Thread, QueueObject(t)
      PROVE  Contract!Enqueue(t, Ticket) \/ Contract!Keep(t, Ticket)
  BY <1>5, QueueObjectHands
<1>6. ASSUME NEW t \in Thread, TakeQueued(t) PROVE Contract!Take(t, Ticket)
  BY <1>6, TakeQueuedTakes
<1>7. ASSUME NEW t \in Thread, MergeCas(t) PROVE Contract!Merge(t, Ticket)
  BY <1>7, MergeCasMerges
<1>8. ASSUME NEW t \in Thread,
             \/ AbortOverflow(t) \/ LoadOwner(t) \/ MergeLoad(t)
             \/ StoreUnowned(t) \/ DropValue(t) \/ DropWeak(t)
      PROVE  UNCHANGED Contract!vars
  <2>1. UNCHANGED <<queued, ownerState, shared>>
    BY <1>8
    DEF AbortOverflow, LoadOwner, MergeLoad, StoreUnowned, DropValue, DropWeak,
        counter
  <2>2. \A u \in Thread :
          \/ pc'[u] = pc[u]
          \/ pc[u] \notin Queueing /\ pc'[u] \notin Queueing
          \/ pc[u] = "enqueue" /\ pc'[u] = "queue_object"
          \/ pc[u] = "merge_load" /\ pc'[u] = "merge_cas"
    BY <1>8
    DEF AbortOverflow, LoadOwner, MergeLoad, StoreUnowned, DropValue, DropWeak,
        Goto, Queueing, IInv, TypeOK, merging
  <2> QED BY <2>1, <2>2, TicketStays
<1>9. ASSUME NEW t \in Thread, NEW u \in Thread, NEW r \in Ref, Transfer(t, r, u)
      PROVE  UNCHANGED Contract!vars
  BY <1>9, TicketStays DEF Transfer, counter, merging
<1>10. LastWeakDropped \/ UNCHANGED vars => UNCHANGED Contract!vars
  BY TicketStays DEF LastWeakDropped, counter, merging, vars
<1>11. OwnerDies => Contract!OwnerDies
  <2>1. SUFFICES ASSUME OwnerDies PROVE Contract!OwnerDies
    OBVIOUS
  <2>2. /\ ownerState = "active" /\ ownerState' = "dying" /\ ~Holds(Owner)
        /\ UNCHANGED <<shared, queued, pc>>
    BY <2>1 DEF OwnerDies, Idle, Holds, Queueing, counter, merging
  <2>3. UNCHANGED <<Stage, Hand>>
    BY <2>2 DEF Stage, Hand, TicketStage, Holds
  <2> QED BY <2>2, <2>3, HeaderAssumption DEF Contract!OwnerDies, Stage, Hand
<1>12. CloseQueue => Contract!CloseQueue
  <2>1. SUFFICES ASSUME CloseQueue PROVE Contract!CloseQueue
    OBVIOUS
  <2>2. /\ ownerState = "dying" /\ ownerState' = "closed"
        /\ UNCHANGED <<shared, queued, pc>>
    BY <2>1 DEF CloseQueue, counter, merging
  <2>3. UNCHANGED <<Stage, Hand>>
    BY <2>2 DEF Stage, Hand, TicketStage, Holds
  <2> QED BY <2>2, <2>3 DEF Contract!CloseQueue, Stage, Hand
<1> QED
  BY <1>1, <1>2, <1>3, <1>4, <1>5, <1>6, <1>7, <1>8, <1>9, <1>10, <1>11, <1>12
  DEF Next, Clone, CloneBiased, Upgrade, UpgradeBiased, Drop, Continue, Contract!Next

(* A new object is one that nobody has asked to merge, or merged already.  *)
LEMMA ContractInit == Init => Contract!Init
<1>1. SUFFICES ASSUME Init PROVE Contract!Init
  OBVIOUS
<1>2. ~queued /\ \A t \in Thread : ~Holds(t) /\ pc[t] = "idle"
  BY <1>1 DEF Init, Holds, Queueing
<1>3. \/ ownerState = "active" /\ TicketStage = "biased"
      \/ ownerState = "closed" /\ TicketStage = "merged"
  BY <1>1, <1>2 DEF Init, InitBiased, InitUnowned, TicketStage
<1> QED BY <1>2, <1>3 DEF Contract!Init

(* The counter asks for an object's merge at most once, and it is merged   *)
(* once, by its owner as long as there is one, and by somebody else only   *)
(* when the owner's queue is closed.                                       *)
THEOREM ContractKept == DisciplinedSpec => RefinesMergeQueue
<1>1. Init => Contract!Init
  BY ContractInit
<1>2. IInv /\ [Next /\ Disciplined]_vars => [Contract!Next]_(Contract!vars)
  BY ContractStep
<1> QED BY <1>1, <1>2, Invariance, PTL DEF DisciplinedSpec, RefinesMergeQueue, Contract!Spec
=============================================================================
