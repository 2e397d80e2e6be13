------------------------------ MODULE MCWords ------------------------------
(***************************************************************************)
(* Checks Words over every packed word of a small width against the bit    *)
(* operators the code is written with.                                     *)
(***************************************************************************)
EXTENDS PackedWords, Bitwise

(* The bit operators of SharedWord::from_raw and to_raw and of             *)
(* BiasedWord::from_raw: masks and shifts.                                 *)
SignExtend(bits) == IF bits & SharedHalf = 0 THEN bits ELSE bits - MERGED_BIT

SharedFromBits(raw) ==
    [shared_count |-> SignExtend(raw & (MERGED_BIT - 1)),
     merged |-> (raw & MERGED_BIT) # 0,
     queued |-> (raw & QUEUED_BIT) # 0]

(* Unpacking by arithmetic is unpacking by masks, a biased word without an *)
(* owner is one whose lowest bits are 0, and what FetchOrMerged does to a  *)
(* word is what fetch_or(MERGED_BIT) does to its packed form.              *)
Packing ==
    /\ SharedFromRaw(shared_word) = SharedFromBits(shared_word)
    /\ BiasedFromRaw(biased_word).owner_id = None <=>
         (biased_word & (IdRange - 1)) = 0
    /\ SharedToRaw(FetchOrMerged(SharedFromRaw(shared_word))) =
         shared_word | MERGED_BIT
=============================================================================
