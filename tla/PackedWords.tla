---------------------------- MODULE PackedWords ----------------------------
(***************************************************************************)
(* The atomic words as the memory has them, packed, under the operations   *)
(* that the code applies to them without a compare-exchange                *)
(* (src/src/runtime.rs): fetch_add in increment_strong_shared, fetch_or in *)
(* decrement_biased_slow, and stores of a biased word.                     *)
(*                                                                         *)
(* They begin with any value of their width: which of them a counter can   *)
(* take is RawBrcHeader's question, here it is what the bits mean.         *)
(***************************************************************************)
EXTENDS Words

(* An Option<ShortThreadId> tells None from every id.                      *)
ASSUME OptionAssumption == None \notin ShortThreadId

VARIABLES
    shared_word,   \* the AtomicUsize
    biased_word    \* the AtomicU32

vars == <<shared_word, biased_word>>

BiasedWords == [owner_id : ShortThreadId \cup {None}, biased_count : 0..BiasedMax]
RawBiasedWord == 0..((BiasedMax + 1) * IdRange - 1)

Init == /\ shared_word \in RawWord
        /\ biased_word \in RawBiasedWord

FetchAdd == /\ shared_word' = RawIncrement(shared_word)
            /\ UNCHANGED biased_word

FetchOr == /\ shared_word' = SharedToRaw(FetchOrMerged(SharedFromRaw(shared_word)))
           /\ UNCHANGED biased_word

ChangeBias == /\ biased_word' \in {BiasedToRaw(word) : word \in BiasedWords}
              /\ UNCHANGED shared_word

Next == FetchAdd \/ FetchOr \/ ChangeBias
Spec == Init /\ [][Next]_vars

-----------------------------------------------------------------------------
TypeOK == shared_word \in RawWord /\ biased_word \in RawBiasedWord

(* Packing undoes unpacking: no two words share a packed form.  The owner  *)
(* and the count of a biased word survive it too, for the largest id and   *)
(* the largest count (SharedWord and BiasedWord, from_raw and to_raw).     *)
RoundTrip ==
    /\ SharedFromRaw(shared_word) \in SharedWord
    /\ SharedToRaw(SharedFromRaw(shared_word)) = shared_word
    /\ BiasedFromRaw(biased_word) \in BiasedWords
    /\ BiasedToRaw(BiasedFromRaw(biased_word)) = biased_word

(* increment_strong_shared's fetch_add(1) on the packed word adds one to   *)
(* the count and keeps both flags, except at the two counts whose          *)
(* successor needs a carry: -1, where it flips the merged flag (and, with  *)
(* that flag set, the queued flag), and the largest count, where it wraps  *)
(* to the smallest.  Setting the merged flag by fetch_or changes that bit  *)
(* and no other (decrement_biased_slow).                                   *)
FetchEffect ==
    LET old == SharedFromRaw(shared_word)
        new == FetchAddOne(old)
    IN  /\ RoundTrip
        /\ old.shared_count \notin {-1, SharedMax} =>
             new = [old EXCEPT !.shared_count = @ + 1]
        /\ old.shared_count = -1 =>
             new = [shared_count |-> 0, merged |-> ~old.merged,
                    queued |-> old.queued # old.merged]
        /\ old.shared_count = SharedMax =>
             new = [old EXCEPT !.shared_count = SharedMin]
        /\ SharedToRaw(FetchOrMerged(old)) =
             shared_word + (IF old.merged THEN 0 ELSE MERGED_BIT)
=============================================================================
