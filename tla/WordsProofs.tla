---------------------------- MODULE WordsProofs ----------------------------
(***************************************************************************)
(* What the packed shared word does under the operations of the counter,   *)
(* for every width.                                                        *)
(***************************************************************************)
EXTENDS Words, TLAPS

(* A flag above the low bits is read and removed without disturbing them.  *)
LEMMA FlagBit ==
    ASSUME NEW low \in Int, NEW bit \in Int, NEW flag \in BOOLEAN,
           0 =< low, low < bit
    PROVE  LET raw == low + (IF flag THEN bit ELSE 0)
           IN  /\ WithoutBit(raw, bit) = low
               /\ (raw >= bit) = flag
               /\ raw \in Int /\ 0 =< raw /\ raw < 2 * bit
<1>1. CASE flag
  <2>1. low + (IF flag THEN bit ELSE 0) = low + bit
    BY <1>1
  <2>2. (low + bit >= bit) = TRUE
    OBVIOUS
  <2>3. WithoutBit(low + bit, bit) = low
    BY DEF WithoutBit
  <2>4. low + bit \in Int /\ 0 =< low + bit /\ low + bit < 2 * bit
    OBVIOUS
  <2>5. flag = TRUE
    BY <1>1
  <2> QED BY <2>1, <2>2, <2>3, <2>4, <2>5, Zenon
<1>2. CASE ~flag
  <2>1. low + (IF flag THEN bit ELSE 0) = low
    BY <1>2
  <2>2. (low >= bit) = FALSE
    OBVIOUS
  <2>3. WithoutBit(low, bit) = low
    BY DEF WithoutBit
  <2> QED BY <1>2, <2>1, <2>2, <2>3
<1> QED BY <1>1, <1>2

(* Packing a shared word gives a raw word, and unpacking gives it back:    *)
(* SharedWord::to_raw is injective.                                        *)
LEMMA PackedWord ==
    ASSUME NEW w \in SharedWord
    PROVE  /\ SharedToRaw(w) \in RawWord
           /\ SharedFromRaw(SharedToRaw(w)) = w
<1> DEFINE bits == CountToBits(w.shared_count)
           low == bits + (IF w.merged THEN MERGED_BIT ELSE 0)
           raw == low + (IF w.queued THEN QUEUED_BIT ELSE 0)
<1>1. /\ SharedHalf \in Nat /\ SharedHalf >= 2
      /\ w.shared_count \in Int
      /\ -SharedHalf =< w.shared_count /\ w.shared_count =< SharedHalf - 1
      /\ w.merged \in BOOLEAN /\ w.queued \in BOOLEAN
  BY WidthAssumption DEF SharedWord, SharedMin, SharedMax
<1>2. /\ MERGED_BIT \in Int /\ QUEUED_BIT \in Int
      /\ QUEUED_BIT = 2 * MERGED_BIT /\ RawModulus = 2 * QUEUED_BIT
  BY <1>1 DEF MERGED_BIT, QUEUED_BIT, RawModulus
<1>3. /\ bits \in Int /\ 0 =< bits /\ bits < MERGED_BIT
      /\ CountFromBits(bits) = w.shared_count
  BY <1>1 DEF CountToBits, CountFromBits, MERGED_BIT
<1>4. /\ WithoutBit(low, MERGED_BIT) = bits
      /\ (low >= MERGED_BIT) = w.merged
      /\ low \in Int /\ 0 =< low /\ low < QUEUED_BIT
  <2>1. LET r == bits + (IF w.merged THEN MERGED_BIT ELSE 0)
        IN  /\ WithoutBit(r, MERGED_BIT) = bits
            /\ (r >= MERGED_BIT) = w.merged
            /\ r \in Int /\ 0 =< r /\ r < 2 * MERGED_BIT
    <3> HIDE DEF bits
    <3> QED BY <1>1, <1>2, <1>3, FlagBit
  <2> QED BY <1>2, <2>1, Zenon
<1>5. /\ WithoutBit(raw, QUEUED_BIT) = low
      /\ (raw >= QUEUED_BIT) = w.queued
      /\ raw \in Int /\ 0 =< raw /\ raw < RawModulus
  BY <1>1, <1>2, <1>4, FlagBit
<1>6. SharedToRaw(w) = raw
  BY DEF SharedToRaw
<1>7. raw \in RawWord
  BY <1>2, <1>5 DEF RawWord
<1>8. SharedFromRaw(raw) = [shared_count |-> w.shared_count,
                            merged |-> w.merged, queued |-> w.queued]
  BY <1>3, <1>4, <1>5 DEF SharedFromRaw
<1>9. w = [shared_count |-> w.shared_count, merged |-> w.merged, queued |-> w.queued]
  BY DEF SharedWord
<1> QED BY <1>6, <1>7, <1>8, <1>9

(* increment_strong_shared's fetch_add(1) leaves the flags alone unless    *)
(* the count is -1, and is the addition it is meant to be unless the count *)
(* is also the largest, where it wraps around.                             *)
THEOREM FetchAddIncrements ==
    ASSUME NEW w \in SharedWord, w.shared_count # -1
    PROVE  FetchAddOne(w) =
             [w EXCEPT !.shared_count = IF @ = SharedMax THEN SharedMin ELSE @ + 1]
<1> DEFINE next == IF w.shared_count = SharedMax THEN SharedMin ELSE w.shared_count + 1
           v == [w EXCEPT !.shared_count = next]
<1>1. /\ SharedHalf \in Nat /\ SharedHalf >= 2
      /\ w.shared_count \in Int
      /\ -SharedHalf =< w.shared_count /\ w.shared_count =< SharedHalf - 1
  BY WidthAssumption DEF SharedWord, SharedMin, SharedMax
<1>2. /\ next \in SharedMin..SharedMax
      /\ CountToBits(next) = CountToBits(w.shared_count) + 1
      /\ CountToBits(w.shared_count) \in Int
  BY <1>1 DEF CountToBits, MERGED_BIT, SharedMin, SharedMax
<1>3. /\ v \in SharedWord
      /\ v.shared_count = next
      /\ v.merged = w.merged /\ v.queued = w.queued
  BY <1>2 DEF SharedWord
<1>4. SharedToRaw(v) = SharedToRaw(w) + 1
  BY <1>1, <1>2, <1>3 DEF SharedToRaw, MERGED_BIT, QUEUED_BIT
<1>5. SharedToRaw(v) \in RawWord
  BY <1>3, PackedWord
<1>6. RawIncrement(SharedToRaw(w)) = SharedToRaw(v)
  BY <1>1, <1>4, <1>5 DEF RawIncrement, RawWord, RawModulus
<1>7. SharedFromRaw(SharedToRaw(v)) = v
  BY <1>3, PackedWord
<1> QED BY <1>6, <1>7 DEF FetchAddOne

(* At -1 the same fetch_add carries out of the count: an unmerged word     *)
(* comes out merged, with no merge having been done.                       *)
THEOREM FetchAddCarries ==
    ASSUME NEW w \in SharedWord, w.shared_count = -1, ~w.merged
    PROVE  FetchAddOne(w) = [shared_count |-> 0, merged |-> TRUE, queued |-> w.queued]
<1> DEFINE v == [shared_count |-> 0, merged |-> TRUE, queued |-> w.queued]
<1>1. SharedHalf \in Nat /\ SharedHalf >= 2
  BY WidthAssumption
<1>2. v \in SharedWord
  BY <1>1 DEF SharedWord, SharedMin, SharedMax
<1>3. /\ CountToBits(w.shared_count) = 2 * SharedHalf - 1
      /\ CountToBits(v.shared_count) = 0
  BY <1>1 DEF CountToBits, MERGED_BIT
<1>4. SharedToRaw(v) = SharedToRaw(w) + 1
  BY <1>1, <1>3 DEF SharedToRaw, MERGED_BIT, QUEUED_BIT
<1>5. SharedToRaw(v) \in RawWord /\ SharedToRaw(w) \in RawWord
  BY <1>2, PackedWord
<1>6. RawIncrement(SharedToRaw(w)) = SharedToRaw(v)
  BY <1>1, <1>4, <1>5 DEF RawIncrement, RawWord, RawModulus
<1>7. SharedFromRaw(SharedToRaw(v)) = v
  BY <1>2, PackedWord
<1> QED BY <1>6, <1>7 DEF FetchAddOne

(* A fetch_add(1) always leaves a word that unpacks to a count in range.   *)
LEMMA FetchAddType ==
    ASSUME NEW w \in SharedWord
    PROVE  FetchAddOne(w) \in SharedWord
<1> DEFINE raw == RawIncrement(SharedToRaw(w))
           unqueued == WithoutBit(raw, QUEUED_BIT)
           rest == WithoutBit(unqueued, MERGED_BIT)
<1>1. SharedHalf \in Nat /\ SharedHalf >= 2
  BY WidthAssumption
<1>2. raw \in Int /\ 0 =< raw /\ raw < 8 * SharedHalf
  BY <1>1, PackedWord DEF RawIncrement, RawWord, RawModulus
<1>3. unqueued \in Int /\ 0 =< unqueued /\ unqueued < 4 * SharedHalf
  <2> HIDE DEF raw
  <2> QED BY <1>1, <1>2 DEF WithoutBit, QUEUED_BIT
<1>4. rest \in Int /\ 0 =< rest /\ rest < 2 * SharedHalf
  <2> HIDE DEF raw, unqueued
  <2> QED BY <1>1, <1>3 DEF WithoutBit, MERGED_BIT
<1>5. CountFromBits(rest) \in SharedMin..SharedMax
  <2> HIDE DEF rest
  <2> QED BY <1>1, <1>4 DEF CountFromBits, MERGED_BIT, SharedMin, SharedMax
<1> QED BY <1>5 DEF FetchAddOne, SharedFromRaw, SharedWord
=============================================================================
