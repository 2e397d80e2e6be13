---------------------------- MODULE Construction ----------------------------
(***************************************************************************)
(* How a Brc comes by its value: alloc_with_in and                         *)
(* from_iter_exact_trusted_in (src/src/strong.rs) under the constructors   *)
(* and conversions (src/src/strong/conversions.rs), from the call to the   *)
(* last drop or the end of a panic.                                        *)
(*                                                                         *)
(* Items are counted in the order the source gives them, and have a        *)
(* destructor (needs_drop).  A panic unwinds (panic = "unwind"); one while *)
(* unwinding aborts and is left out.  The counts are those of the other    *)
(* modules: here the last reference goes, with no Weak pointer left.       *)
(***************************************************************************)
EXTENDS Naturals, Sequences, FiniteSets

CONSTANTS
    Source,  \* the kinds of constructors called
    Items,   \* the most items a source has
    None     \* memory that nothing was written to

ASSUME ConstructionAssumption ==
    /\ Source \subseteq {"value", "closure", "box", "vec", "clone", "exact", "buffered"}
    /\ Items \in Nat \ {0}
    /\ None \notin Nat

VARIABLES
    kind,             \* what the Brc is made from
    given,            \* how many items the source gives, if nothing panics
    claimed,          \* how many it says it has: len
    at,               \* where the call is
    source,           \* the items that are still the source's
    slot,             \* the value's memory
    initialized_len,  \* of PartialDropGuard
    mem,              \* the allocation: "none", "allocated", "freed"
    drops,            \* how often each item was dropped
    fault             \* memory was dropped that nothing was written to

input == <<given, claimed>>
vars == <<kind, input, at, source, slot, initialized_len, mem, drops, fault>>

-----------------------------------------------------------------------------
Item == 1..Items

(* The constructors' UnwindPolicy.                                         *)
MAY_UNWIND == kind \in {"closure", "clone", "exact"}

(* A closure and a cloning iterator make their items when they are called. *)
Lazy == kind \in {"closure", "clone"}

(* How many slots are written: index.                                      *)
Written == Cardinality({k \in DOMAIN slot : slot[k] # None})

Drop(items) == drops' = [i \in Item |-> IF i \in items THEN drops[i] + 1 ELSE drops[i]]
InSlots(n) == {slot[k] : k \in 1..n}
InSource == {source[k] : k \in DOMAIN source}

(* The source is dropped, and what is still in it.                         *)
DropSource ==
    /\ source' = IF Lazy THEN source ELSE <<>>
    /\ Drop(IF Lazy THEN {} ELSE InSource)

-----------------------------------------------------------------------------
Init ==
    /\ kind \in Source
    /\ given \in 0..Items
    /\ claimed \in 0..Items
    /\ kind \in {"value", "closure", "box"} => given = 1
    /\ kind # "exact" => claimed = given
    /\ at = "start"
    /\ source = [k \in 1..given |-> k]
    /\ slot = <<>>
    /\ initialized_len = 0
    /\ mem = "none"
    /\ drops = [i \in Item |-> 0]
    /\ fault = FALSE

(* collect_implicit, LayoutInfo::new_or_panic, the allocator, or collecting*)
(* an iterator into a Vec panics.                                          *)
PanicFirst ==
    /\ at = "start"
    /\ at' = "panicked"
    /\ DropSource
    /\ UNCHANGED <<kind, input, slot, initialized_len, mem, fault>>

(* from_iter when the hint does not tell the length.                       *)
Buffer ==
    /\ at = "start"
    /\ kind = "buffered"
    /\ kind' = "vec"
    /\ UNCHANGED <<input, at, source, slot, initialized_len, mem, drops, fault>>

(* alloc_with_in up to the call of its closure.                            *)
Allocate ==
    /\ at = "start"
    /\ kind # "buffered"
    /\ mem' = "allocated"
    /\ slot' = [k \in 1..claimed |-> None]
    /\ at' = IF kind \in {"clone", "exact"} THEN "loop" ELSE "fill"
    /\ UNCHANGED <<kind, input, source, initialized_len, drops, fault>>

(* new, and from_vec_like: the source gives its items up.  From<Box<T>>    *)
(* copies the bytes, and then drops the Box with what is in it.            *)
Move ==
    /\ at = "fill"
    /\ kind \in {"value", "vec", "box"}
    /\ slot' = source
    /\ IF kind = "box" THEN DropSource ELSE source' = <<>> /\ UNCHANGED drops
    /\ at' = "filled"
    /\ UNCHANGED <<kind, input, initialized_len, mem, fault>>

(* new_with: the value, or a panic.                                        *)
Call ==
    /\ at = "fill"
    /\ kind = "closure"
    /\ \/ slot' = source /\ source' = <<>> /\ at' = "filled"
       \/ at' = "unwind_memory" /\ UNCHANGED <<slot, source>>
    /\ UNCHANGED <<kind, input, initialized_len, mem, drops, fault>>

-----------------------------------------------------------------------------
(* A mutant of Begin: the item about to be written is counted.             *)
BeginCounted ==
    /\ at = "loop"
    /\ Written < claimed
    /\ initialized_len' = Written + 1
    /\ at' = "next"
    /\ UNCHANGED <<kind, input, source, slot, mem, drops, fault>>

(* from_iter_exact_trusted_in: an iteration, up to next.                   *)
Begin ==
    /\ at = "loop"
    /\ Written < claimed
    /\ initialized_len' = Written
    /\ at' = "next"
    /\ UNCHANGED <<kind, input, source, slot, mem, drops, fault>>

Yield ==
    /\ at = "next"
    /\ source # <<>>
    /\ slot' = [slot EXCEPT ![Written + 1] = Head(source)]
    /\ source' = Tail(source)
    /\ at' = "loop"
    /\ UNCHANGED <<kind, input, initialized_len, mem, drops, fault>>

(* next panics, as AssertExactIter's does when there is no item any more.  *)
NextPanics ==
    /\ at = "next"
    /\ at' = "unwind_items"
    /\ UNCHANGED <<kind, input, source, slot, initialized_len, mem, drops, fault>>

(* A mutant of LastNext: next is not called again.                         *)
LastNextNot ==
    /\ at = "loop"
    /\ Written = claimed
    /\ at' = "drop_iter"
    /\ UNCHANGED <<kind, input, source, slot, initialized_len, mem, drops, fault>>

(* next once more, for AssertExactIter to panic at one item too many, which*)
(* it drops; the iterator's own next may panic as well.                    *)
LastNext ==
    /\ at = "loop"
    /\ Written = claimed
    /\ IF source = <<>>
       THEN at' \in {"drop_iter", "unwind_items"} /\ UNCHANGED <<source, drops>>
       ELSE /\ at' = "unwind_items"
            /\ \/ source' = Tail(source) /\ Drop({Head(source)})
               \/ UNCHANGED <<source, drops>>
    /\ UNCHANGED <<kind, input, slot, initialized_len, mem, fault>>

(* drop(iter), which may panic, and the guard is forgotten.                *)
DropIter ==
    /\ at = "drop_iter"
    /\ DropSource
    /\ at' \in {"filled", "unwind_items"}
    /\ UNCHANGED <<kind, input, slot, initialized_len, mem, fault>>

-----------------------------------------------------------------------------
(* PartialDropGuard::drop.                                                 *)
UnwindItems ==
    /\ at = "unwind_items"
    /\ Drop(InSlots(initialized_len) \ {None})
    /\ fault' = (None \in InSlots(initialized_len))
    /\ at' = "unwind_source"
    /\ UNCHANGED <<kind, input, source, slot, initialized_len, mem>>

(* The iterator goes with the closure it was captured in.                  *)
UnwindSource ==
    /\ at = "unwind_source"
    /\ DropSource
    /\ at' = "unwind_memory"
    /\ UNCHANGED <<kind, input, slot, initialized_len, mem, fault>>

(* A mutant of UnwindMemory: there is no guard.                            *)
UnwindMemoryNot ==
    /\ at = "unwind_memory"
    /\ at' = "panicked"
    /\ UNCHANGED <<kind, input, source, slot, initialized_len, mem, drops, fault>>

(* CleanupGuard::drop, if there is one.                                    *)
UnwindMemory ==
    /\ at = "unwind_memory"
    /\ mem' = IF MAY_UNWIND THEN "freed" ELSE mem
    /\ at' = "panicked"
    /\ UNCHANGED <<kind, input, source, slot, initialized_len, drops, fault>>

(* alloc_with_in from there on: the guard is forgotten.                    *)
Finish ==
    /\ at = "filled"
    /\ at' = "returned"
    /\ UNCHANGED <<kind, input, source, slot, initialized_len, mem, drops, fault>>

(* erased_dealloc, for the last reference.  A destructor that panics keeps *)
(* neither the other items nor WeakDropGuard from being dropped.           *)
DropLast ==
    /\ at = "returned"
    /\ Drop(InSlots(Len(slot)) \ {None})
    /\ fault' = (None \in InSlots(Len(slot)))
    /\ mem' = "freed"
    /\ at' = "dropped"
    /\ UNCHANGED <<kind, input, source, slot, initialized_len>>

(* try_unwrap moves the value out, for the caller to drop, and leaves the  *)
(* memory behind.                                                          *)
TryUnwrap ==
    /\ at = "returned"
    /\ kind \in {"value", "closure", "box"}
    /\ Drop(InSlots(Len(slot)) \ {None})
    /\ at' = "unwrapped"
    /\ UNCHANGED <<kind, input, source, slot, initialized_len, mem, fault>>

-----------------------------------------------------------------------------
Construct ==
    \/ PanicFirst \/ Buffer \/ Allocate \/ Finish
    \/ Move \/ Call
    \/ Begin \/ Yield \/ NextPanics \/ LastNext \/ DropIter
Unwind == UnwindItems \/ UnwindSource \/ UnwindMemory

Next == Construct \/ Unwind \/ DropLast \/ TryUnwrap

Spec == Init /\ [][Next]_vars

-----------------------------------------------------------------------------
(* No item is dropped twice, whether the call returns or panics, and no    *)
(* memory that nothing was written to is dropped ("callback must either    *)
(* fully initialize the memory or panic").                                 *)
DroppedOnce == ~fault /\ \A i \in Item : drops[i] =< 1

(* A Brc that is returned has all the items its source had, in their order,*)
(* whatever length the source claimed ("verifies that the iterator has     *)
(* exactly the claimed length").                                           *)
Whole ==
    at = "returned" =>
        /\ slot = [k \in 1..given |-> k]
        /\ source = <<>>
        /\ \A i \in Item : drops[i] = 0

(* In the end every item that was made is dropped and the memory is freed, *)
(* with two exceptions: when the iterator panics after its last item, that *)
(* item is not under the guard yet; and try_unwrap keeps the memory.       *)
Released ==
    at \in {"panicked", "dropped", "unwrapped"} =>
        /\ \A i \in 1..given :
               \/ drops[i] = 1
               \/ Lazy /\ i \in InSource
               \/ at = "panicked" /\ i = claimed /\ Written = claimed
        /\ mem = "allocated" => at = "unwrapped"

-----------------------------------------------------------------------------
Kind == {"value", "closure", "box", "vec", "clone", "exact", "buffered"}
TypeOK ==
    /\ kind \in Kind
    /\ given \in 0..Items
    /\ claimed \in 0..Items
    /\ at \in {"start", "fill", "loop", "next", "drop_iter", "filled", "returned",
              "unwind_items", "unwind_source", "unwind_memory",
              "panicked", "dropped", "unwrapped"}
    /\ source \in Seq(Item)
    /\ slot \in Seq(Item \cup {None})
    /\ initialized_len \in 0..Items
    /\ mem \in {"none", "allocated", "freed"}
    /\ drops \in [Item -> Nat]
    /\ fault \in BOOLEAN

(* What the source gave up, written or not.                                *)
Taken == given - Len(source)

(* The items go through in their order: the first of them are in the slots,*)
(* the last still in the source, and those between were dropped.           *)
ItemsAgree ==
    /\ Written =< Taken
    /\ Taken =< given
    /\ source = [k \in 1..Len(source) |-> Taken + k]
    /\ slot = [k \in 1..(IF mem = "none" THEN 0 ELSE claimed) |->
                  IF k =< Written THEN k ELSE None]

Filled == {"filled", "returned", "dropped", "unwrapped"}
Unwinding == {"unwind_items", "unwind_source", "unwind_memory", "panicked"}

(* What the place in the call says of the items, and of the guard: it is at*)
(* most one item behind, and only after the last one when that matters.    *)
StageAgrees ==
    /\ kind \in {"value", "closure"} => given = 1
    /\ kind # "exact" => claimed = given
    /\ at \in {"loop", "next", "drop_iter"} \cup (Unwinding \ {"panicked"}) => MAY_UNWIND
    /\ at \in {"start", "fill"} => Written = 0
    /\ at = "next" => Written < claimed /\ initialized_len = Written
    /\ at \in {"drop_iter"} \cup Filled => Written = claimed /\ claimed = given
    /\ at \in Unwinding => Written \in {initialized_len, claimed}
    /\ at \notin Filled => Written =< initialized_len + 1
    /\ initialized_len =< Written
    /\ at \notin Unwinding \/ Lazy => Taken = Written
    /\ at \in {"unwind_memory", "panicked"} => Lazy \/ source = <<>>

MemoryAgrees ==
    /\ mem = "none" => at \in {"start", "panicked"}
    /\ mem = "freed" => at \in {"panicked", "dropped"}
    /\ mem = "allocated" => at \notin {"start", "panicked", "dropped"}

(* What was dropped: what was taken and not written, and then what the     *)
(* guard or the Brc held.                                                  *)
Gone(i) ==
    \/ Written < i /\ i =< Taken
    \/ at \in Unwinding \ {"unwind_items"} /\ i =< initialized_len
    \/ at \in {"dropped", "unwrapped"} /\ i =< given
DropsAgree == ~fault /\ drops = [i \in Item |-> IF Gone(i) THEN 1 ELSE 0]

(* The inductive invariant, without From<Box<T>>.                          *)
ConstructionInv ==
    TypeOK /\ kind # "box" /\ ItemsAgree /\ StageAgrees /\ MemoryAgrees /\ DropsAgree
=============================================================================
