------------------------------- MODULE Words -------------------------------
(***************************************************************************)
(* The two words of a RawBrcHeader and the arithmetic of their packed      *)
(* forms (src/src/runtime.rs, BiasedWord, SharedCount, SharedWord).        *)
(*                                                                         *)
(* The packed layouts are described by arithmetic rather than by bit       *)
(* operators, so that the prover can reason about them for every width;    *)
(* MCWords checks the arithmetic against the bit operators of the code.    *)
(***************************************************************************)
EXTENDS Integers

CONSTANTS
    SharedHalf,  \* 2^(SharedCount::BITS - 1): 2^61 on 64-bit, 2^29 on 32-bit
    BiasedMax,   \* BiasedCount::MAX: 2^20 - 1
    IdRange,     \* 2^ShortThreadId::BITS = 2^12; the value 0 packs "no owner"
    None         \* Option::None, for an owner and for a holder

(* The two const assertions of the code about the widths: a biased count   *)
(* fits in a shared count.                                                 *)
ASSUME WidthAssumption ==
    /\ SharedHalf \in Nat
    /\ BiasedMax \in Nat
    /\ IdRange \in Nat
    /\ 1 =< BiasedMax
    /\ BiasedMax =< SharedHalf - 1
    /\ 2 =< IdRange

-----------------------------------------------------------------------------
SharedMax == SharedHalf - 1
SharedMin == -SharedHalf

SharedWord == [shared_count : SharedMin..SharedMax,
               merged : BOOLEAN,
               queued : BOOLEAN]

MERGED_BIT == 2 * SharedHalf
QUEUED_BIT == 4 * SharedHalf
RawModulus == 8 * SharedHalf        \* 2^usize::BITS
RawWord == 0..(RawModulus - 1)

(* A mutant of OVERFLOW_THRESHOLD: no room for the increments under way.   *)
THRESHOLD_AT_MAX == SharedMax
OVERFLOW_THRESHOLD == SharedMax \div 2

(* SharedCount::to_bits: the two's complement of the count.                *)
CountToBits(count) == IF count < 0 THEN count + MERGED_BIT ELSE count

(* A mutant of CountFromBits: the sign is not extended.                    *)
CountUnsigned(bits) == bits

(* SharedCount::masked_new of a value below MERGED_BIT.                    *)
CountFromBits(bits) == IF bits < SharedHalf THEN bits ELSE bits - MERGED_BIT

SharedToRaw(word) ==
    CountToBits(word.shared_count)
      + (IF word.merged THEN MERGED_BIT ELSE 0)
      + (IF word.queued THEN QUEUED_BIT ELSE 0)

WithoutBit(raw, bit) == IF raw >= bit THEN raw - bit ELSE raw

SharedFromRaw(raw) ==
    LET unqueued == WithoutBit(raw, QUEUED_BIT)
    IN  [shared_count |-> CountFromBits(WithoutBit(unqueued, MERGED_BIT)),
         merged |-> unqueued >= MERGED_BIT,
         queued |-> raw >= QUEUED_BIT]

(* AtomicUsize::fetch_add(1) wraps around at the width of the whole word,  *)
(* so that a carry out of the count goes into the flags.                   *)
RawIncrement(raw) == IF raw + 1 = RawModulus THEN 0 ELSE raw + 1
FetchAddOne(word) == SharedFromRaw(RawIncrement(SharedToRaw(word)))

(* A mutant of FetchOrMerged: a store.                                     *)
StoreMerged(word) == [word EXCEPT !.merged = TRUE, !.queued = FALSE]

(* AtomicUsize::fetch_or(MERGED_BIT).                                      *)
FetchOrMerged(word) == [word EXCEPT !.merged = TRUE]

(* SharedCount::checked_add and checked_sub give None out of this range.   *)
FitsShared(count) == SharedMin =< count /\ count =< SharedMax

-----------------------------------------------------------------------------
(* The biased word; an owner is a short thread id, 1..IdRange - 1, or None. *)
ShortThreadId == 1..(IdRange - 1)

BiasedToRaw(word) ==
    word.biased_count * IdRange
      + (IF word.owner_id = None THEN 0 ELSE word.owner_id)

BiasedFromRaw(raw) ==
    [owner_id |-> IF raw % IdRange = 0 THEN None ELSE raw % IdRange,
     biased_count |-> raw \div IdRange]

UNOWNED == [owner_id |-> None, biased_count |-> 0]
=============================================================================
