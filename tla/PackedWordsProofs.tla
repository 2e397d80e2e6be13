------------------------ MODULE PackedWordsProofs ------------------------
(***************************************************************************)
(* What the packed words hold and what fetch_add and fetch_or do to them,  *)
(* for every width.                                                        *)
(***************************************************************************)
EXTENDS PackedWords, WordsProofs

(* The widths, as the arithmetic below needs them.                         *)
LEMMA Widths ==
    /\ SharedHalf \in Nat /\ SharedHalf >= 2
    /\ MERGED_BIT = 2 * SharedHalf /\ QUEUED_BIT = 4 * SharedHalf
    /\ RawModulus = 8 * SharedHalf
    /\ SharedMax = SharedHalf - 1 /\ SharedMin = -SharedHalf
BY WidthAssumption DEF MERGED_BIT, QUEUED_BIT, RawModulus, SharedMax, SharedMin

(* Every raw word is the packed form of a shared word.                     *)
LEMMA UnpackedWord ==
    ASSUME NEW raw \in RawWord
    PROVE  /\ SharedFromRaw(raw) \in SharedWord
           /\ SharedToRaw(SharedFromRaw(raw)) = raw
<1> DEFINE unqueued == WithoutBit(raw, QUEUED_BIT)
           bits == WithoutBit(unqueued, MERGED_BIT)
           count == CountFromBits(bits)
<1>1. raw \in Int /\ 0 =< raw /\ raw < 8 * SharedHalf
  BY Widths DEF RawWord
<1>2. /\ unqueued \in Int /\ 0 =< unqueued /\ unqueued < 4 * SharedHalf
      /\ raw = unqueued + (IF raw >= QUEUED_BIT THEN QUEUED_BIT ELSE 0)
  BY <1>1, Widths DEF WithoutBit
<1>3. /\ bits \in Int /\ 0 =< bits /\ bits < 2 * SharedHalf
      /\ unqueued = bits + (IF unqueued >= MERGED_BIT THEN MERGED_BIT ELSE 0)
  <2> HIDE DEF unqueued
  <2> QED BY <1>2, Widths DEF WithoutBit
<1>4. count \in SharedMin..SharedMax /\ CountToBits(count) = bits
  <2> HIDE DEF bits
  <2> QED BY <1>3, Widths DEF CountFromBits, CountToBits
<1> DEFINE m == unqueued >= MERGED_BIT
           q == raw >= QUEUED_BIT
<1>5. SharedFromRaw(raw) = [shared_count |-> count, merged |-> m, queued |-> q]
  BY DEF SharedFromRaw
<1>6. m \in BOOLEAN /\ q \in BOOLEAN
  OBVIOUS
<1>7. /\ raw = unqueued + (IF q THEN QUEUED_BIT ELSE 0)
      /\ unqueued = bits + (IF m THEN MERGED_BIT ELSE 0)
  BY <1>2, <1>3
<1> HIDE DEF count, unqueued, bits, m, q
<1>8. SharedFromRaw(raw) \in SharedWord
  BY <1>4, <1>5, <1>6 DEF SharedWord
<1>9. SharedToRaw(SharedFromRaw(raw)) =
        bits + (IF m THEN MERGED_BIT ELSE 0) + (IF q THEN QUEUED_BIT ELSE 0)
  BY <1>4, <1>5, <1>6 DEF SharedToRaw
<1> QED BY <1>2, <1>3, <1>7, <1>8, <1>9

(* A number below a multiple of d splits into quotient and remainder.      *)
LEMMA Division ==
    ASSUME NEW n \in Nat, NEW d \in Nat, d > 0, NEW m \in Nat, n < m * d
    PROVE  /\ n \div d \in 0..(m - 1)
           /\ n % d \in 0..(d - 1)
           /\ n = (n \div d) * d + (n % d)
<1>1. /\ n % d \in 0..(d - 1) /\ n \div d \in Int
      /\ n = (n \div d) * d + (n % d)
  OBVIOUS
<1> DEFINE q == n \div d
           r == n % d
<1> HIDE DEF q, r
<1>2. q \in Int /\ r \in Nat /\ r < d /\ n = q * d + r
  BY <1>1 DEF q, r
<1>3. q < m
  <2>1. SUFFICES ASSUME q >= m PROVE FALSE
    BY <1>2
  <2>2. q * d >= m * d
    BY <1>2, <2>1
  <2> QED BY <1>2, <2>2
<1>4. q >= 0
  <2>1. SUFFICES ASSUME q =< -1 PROVE FALSE
    BY <1>2
  <2>2. q * d =< -1 * d
    BY <1>2, <2>1
  <2> QED BY <1>2, <2>2
<1> QED BY <1>1, <1>2, <1>3, <1>4 DEF q

(* Every raw biased word is the packed form of a biased word.              *)
LEMMA UnpackedBias ==
    ASSUME NEW raw \in RawBiasedWord
    PROVE  /\ BiasedFromRaw(raw) \in BiasedWords
           /\ BiasedToRaw(BiasedFromRaw(raw)) = raw
<1> DEFINE q == raw \div IdRange
           r == raw % IdRange
<1>1. /\ raw \in Nat /\ IdRange \in Nat /\ IdRange >= 2 /\ BiasedMax \in Nat
      /\ raw < (BiasedMax + 1) * IdRange
  <2>1. (BiasedMax + 1) * IdRange \in Nat
    BY WidthAssumption
  <2> QED BY <2>1, WidthAssumption DEF RawBiasedWord
<1>2. /\ q \in 0..((BiasedMax + 1) - 1) /\ r \in 0..(IdRange - 1)
      /\ raw = q * IdRange + r
  BY <1>1, Division
<1>3. BiasedFromRaw(raw) = [owner_id |-> IF r = 0 THEN None ELSE r, biased_count |-> q]
  BY DEF BiasedFromRaw
<1> HIDE DEF q, r
<1>4. BiasedFromRaw(raw) \in BiasedWords
  BY <1>1, <1>2, <1>3 DEF BiasedWords, ShortThreadId
<1>5. BiasedToRaw(BiasedFromRaw(raw)) = q * IdRange + r
  BY <1>1, <1>2, <1>3, OptionAssumption DEF BiasedToRaw, ShortThreadId
<1> QED BY <1>2, <1>4, <1>5

(* A biased word has room for every id and every count.                    *)
LEMMA PackedBias ==
    ASSUME NEW word \in BiasedWords
    PROVE  BiasedToRaw(word) \in RawBiasedWord
<1> DEFINE id == IF word.owner_id = None THEN 0 ELSE word.owner_id
           c == word.biased_count
<1>1. /\ IdRange \in Nat /\ IdRange >= 2 /\ BiasedMax \in Nat
      /\ id \in 0..(IdRange - 1) /\ c \in 0..BiasedMax
  BY WidthAssumption DEF BiasedWords, ShortThreadId
<1>2. BiasedToRaw(word) = c * IdRange + id
  BY DEF BiasedToRaw
<1> HIDE DEF id, c
<1>3. c * IdRange =< BiasedMax * IdRange /\ c * IdRange >= 0 /\ c * IdRange \in Int
  BY <1>1
<1>4. (BiasedMax + 1) * IdRange = BiasedMax * IdRange + IdRange
  BY <1>1
<1> QED BY <1>1, <1>2, <1>3, <1>4 DEF RawBiasedWord

(* At -1 a fetch_add carries into the merged flag, and through it, when it *)
(* is set, into the queued flag.                                           *)
LEMMA FetchAddAtMinusOne ==
    ASSUME NEW w \in SharedWord, w.shared_count = -1
    PROVE  FetchAddOne(w) = [shared_count |-> 0, merged |-> ~w.merged,
                             queued |-> w.queued # w.merged]
<1> DEFINE v(m, q) == [shared_count |-> 0, merged |-> m, queued |-> q]
<1>1. w.merged \in BOOLEAN /\ w.queued \in BOOLEAN
  BY DEF SharedWord
<1>2. ASSUME NEW m \in BOOLEAN, NEW q \in BOOLEAN
      PROVE  /\ v(m, q) \in SharedWord
             /\ SharedToRaw(v(m, q)) = (IF m THEN MERGED_BIT ELSE 0)
                                       + (IF q THEN QUEUED_BIT ELSE 0)
             /\ SharedFromRaw(SharedToRaw(v(m, q))) = v(m, q)
  <2>1. v(m, q) \in SharedWord
    BY Widths DEF SharedWord
  <2>2. SharedToRaw(v(m, q)) = (IF m THEN MERGED_BIT ELSE 0)
                               + (IF q THEN QUEUED_BIT ELSE 0)
    BY Widths DEF SharedToRaw, CountToBits
  <2> QED BY <2>1, <2>2, PackedWord
<1>3. SharedToRaw(w) = (MERGED_BIT - 1) + (IF w.merged THEN MERGED_BIT ELSE 0)
                                        + (IF w.queued THEN QUEUED_BIT ELSE 0)
  BY Widths DEF SharedToRaw, CountToBits
<1> HIDE DEF v
<1>3a. TRUE \in BOOLEAN /\ FALSE \in BOOLEAN
  OBVIOUS
<1>4. CASE ~w.merged
  <2>1. PICK q \in BOOLEAN : q = w.queued
    BY <1>1
  <2>2. RawIncrement(SharedToRaw(w)) = SharedToRaw(v(TRUE, q))
    <3>1. RawIncrement(SharedToRaw(w)) = MERGED_BIT + (IF q THEN QUEUED_BIT ELSE 0)
      BY <1>3, <1>4, <2>1, Widths DEF RawIncrement
    <3>2. SharedToRaw(v(TRUE, q)) =
            (IF TRUE THEN MERGED_BIT ELSE 0) + (IF q THEN QUEUED_BIT ELSE 0)
      BY <1>2, <1>3a, Zenon
    <3>3. (IF TRUE THEN MERGED_BIT ELSE 0) = MERGED_BIT
      OBVIOUS
    <3> QED BY <3>1, <3>2, <3>3, Zenon
  <2>3. FetchAddOne(w) = v(TRUE, q)
    BY <1>2, <1>3a, <2>2, Zenon DEF FetchAddOne
  <2>4. (~w.merged) = TRUE /\ (w.queued # w.merged) = q
    BY <1>1, <1>4, <2>1
  <2> QED BY <2>3, <2>4, Zenon DEF v
<1>5. CASE w.merged /\ ~w.queued
  <2>1. RawIncrement(SharedToRaw(w)) = SharedToRaw(v(FALSE, TRUE))
    <3>1. RawIncrement(SharedToRaw(w)) = QUEUED_BIT
      BY <1>1, <1>3, <1>5, Widths DEF RawIncrement
    <3>2. SharedToRaw(v(FALSE, TRUE)) = QUEUED_BIT
      <4>1. SharedToRaw(v(FALSE, TRUE)) =
              (IF FALSE THEN MERGED_BIT ELSE 0) + (IF TRUE THEN QUEUED_BIT ELSE 0)
        BY <1>2, <1>3a, Zenon
      <4>2. (IF FALSE THEN MERGED_BIT ELSE 0) + (IF TRUE THEN QUEUED_BIT ELSE 0) = QUEUED_BIT
        BY <1>1, Widths
      <4> QED BY <4>1, <4>2, Zenon
    <3> QED BY <3>1, <3>2
  <2>2. FetchAddOne(w) = v(FALSE, TRUE)
    BY <1>2, <2>1 DEF FetchAddOne
  <2>3. (~w.merged) = FALSE /\ (w.queued # w.merged) = TRUE
    BY <1>1, <1>5
  <2> QED BY <2>2, <2>3, Zenon DEF v
<1>6. CASE w.merged /\ w.queued
  <2>1. RawIncrement(SharedToRaw(w)) = SharedToRaw(v(FALSE, FALSE))
    <3>1. RawIncrement(SharedToRaw(w)) = 0
      BY <1>1, <1>3, <1>6, Widths DEF RawIncrement
    <3>2. SharedToRaw(v(FALSE, FALSE)) = 0
      <4>1. SharedToRaw(v(FALSE, FALSE)) =
              (IF FALSE THEN MERGED_BIT ELSE 0) + (IF FALSE THEN QUEUED_BIT ELSE 0)
        BY <1>2, <1>3a, Zenon
      <4>2. (IF FALSE THEN MERGED_BIT ELSE 0) + (IF FALSE THEN QUEUED_BIT ELSE 0) = 0
        BY <1>1, Widths
      <4> QED BY <4>1, <4>2, Zenon
    <3> QED BY <3>1, <3>2
  <2>2. FetchAddOne(w) = v(FALSE, FALSE)
    BY <1>2, <2>1 DEF FetchAddOne
  <2>3. (~w.merged) = FALSE /\ (w.queued # w.merged) = FALSE
    BY <1>1, <1>6
  <2> QED BY <2>2, <2>3, Zenon DEF v
<1> QED BY <1>1, <1>4, <1>5, <1>6

(* fetch_or sets its bit and changes no other.                             *)
LEMMA FetchOrSets ==
    ASSUME NEW w \in SharedWord
    PROVE  /\ FetchOrMerged(w) \in SharedWord
           /\ SharedToRaw(FetchOrMerged(w)) =
                SharedToRaw(w) + (IF w.merged THEN 0 ELSE MERGED_BIT)
<1>1. /\ FetchOrMerged(w) \in SharedWord
      /\ FetchOrMerged(w).shared_count = w.shared_count
      /\ FetchOrMerged(w).merged = TRUE
      /\ FetchOrMerged(w).queued = w.queued
  BY DEF FetchOrMerged, SharedWord
<1>2. CountToBits(w.shared_count) \in Int
  BY Widths DEF SharedWord, CountToBits
<1> QED BY <1>1, <1>2, Widths DEF SharedToRaw

-----------------------------------------------------------------------------
(* The words stay within their widths.                                     *)
LEMMA TypeCorrect == Spec => []TypeOK
<1>1. Init => TypeOK
  BY DEF Init, TypeOK
<1>2. ASSUME TypeOK, [Next]_vars PROVE TypeOK'
  <2>1. CASE FetchAdd
    <3>1. RawIncrement(shared_word) \in RawWord
      BY <1>2, Widths DEF TypeOK, RawWord, RawIncrement
    <3> QED BY <1>2, <2>1, <3>1 DEF FetchAdd, TypeOK
  <2>2. CASE FetchOr
    <3>1. SharedFromRaw(shared_word) \in SharedWord
      BY <1>2, UnpackedWord DEF TypeOK
    <3>2. SharedToRaw(FetchOrMerged(SharedFromRaw(shared_word))) \in RawWord
      BY <3>1, FetchOrSets, PackedWord
    <3> QED BY <1>2, <2>2, <3>2 DEF FetchOr, TypeOK
  <2>3. CASE ChangeBias
    BY <1>2, <2>3, PackedBias DEF ChangeBias, TypeOK
  <2>4. CASE UNCHANGED vars
    BY <1>2, <2>4 DEF vars, TypeOK
  <2> QED BY <1>2, <2>1, <2>2, <2>3, <2>4 DEF Next
<1> QED BY <1>1, <1>2, PTL DEF Spec

(* Whatever the words hold, packing loses nothing, fetch_add(1) is an      *)
(* increment but for the carry at -1 and the wrap at the largest count, and*)
(* fetch_or sets one bit: increment_strong_shared, decrement_biased_slow.  *)
THEOREM FetchesExact == Spec => []FetchEffect
<1>1. ASSUME TypeOK PROVE FetchEffect
  <2> DEFINE old == SharedFromRaw(shared_word)
  <2>1. RoundTrip
    BY <1>1, UnpackedWord, UnpackedBias DEF TypeOK, RoundTrip
  <2>2. old \in SharedWord /\ SharedToRaw(old) = shared_word
    BY <2>1 DEF RoundTrip
  <2> HIDE DEF old
  <2>3. SharedMax # -1 /\ SharedMin =< SharedMax /\ old.shared_count \in Int
    BY <2>2, Widths DEF SharedWord
  <2>4. old.shared_count \notin {-1, SharedMax} =>
           FetchAddOne(old) = [old EXCEPT !.shared_count = @ + 1]
    BY <2>2, FetchAddIncrements
  <2>5. old.shared_count = -1 =>
           FetchAddOne(old) = [shared_count |-> 0, merged |-> ~old.merged,
                               queued |-> old.queued # old.merged]
    BY <2>2, FetchAddAtMinusOne
  <2>6. old.shared_count = SharedMax =>
           FetchAddOne(old) = [old EXCEPT !.shared_count = SharedMin]
    BY <2>2, <2>3, FetchAddIncrements
  <2>7. SharedToRaw(FetchOrMerged(old)) =
          shared_word + (IF old.merged THEN 0 ELSE MERGED_BIT)
    BY <2>2, FetchOrSets
  <2> QED BY <2>1, <2>4, <2>5, <2>6, <2>7 DEF FetchEffect, old
<1> QED BY <1>1, TypeCorrect, PTL
=============================================================================
