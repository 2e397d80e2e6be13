------------------------ MODULE ConstructionProofs ------------------------
(***************************************************************************)
(* Proofs about Construction, for sources of any length, without           *)
(* From<Box<T>>, for which DroppedOnce is false.                           *)
(***************************************************************************)
EXTENDS Construction, FiniteSetTheorems, TLAPS

(* Memory whose first w slots are written has w written slots.             *)
LEMMA CountWritten ==
    ASSUME NEW n \in Nat, NEW w \in 0..n, NEW s,
           s = [k \in 1..n |-> IF k =< w THEN k ELSE None]
    PROVE  Cardinality({k \in DOMAIN s : s[k] # None}) = w
<1>1. {k \in DOMAIN s : s[k] # None} = 1..w
  BY ConstructionAssumption
<1>2. Cardinality(1..w) = w
  BY FS_Interval
<1> QED BY <1>1, <1>2

(* The numbers of items written and taken, and what memory and source hold.*)
LEMMA Contents ==
    ASSUME ConstructionInv
    PROVE  /\ Written \in 0..Items
           /\ Taken \in 0..Items
           /\ Len(slot) = IF mem = "none" THEN 0 ELSE claimed
           /\ Len(source) = given - Taken
           /\ Written =< Len(slot)
           /\ \A n \in 0..Written : InSlots(n) = 1..n
           /\ InSource = (Taken + 1)..given
<1> DEFINE n == IF mem = "none" THEN 0 ELSE claimed
<1>1. /\ given \in 0..Items /\ claimed \in 0..Items /\ n \in 0..Items
      /\ Len(source) \in Nat
  BY ConstructionAssumption DEF ConstructionInv, TypeOK
<1>2. slot = [k \in 1..n |-> IF k =< Written THEN k ELSE None]
  BY DEF ConstructionInv, ItemsAgree
<1> HIDE DEF n
<1>3. DOMAIN slot = 1..n
  BY <1>2
<1>4. Len(slot) = n
  BY <1>1, <1>3 DEF ConstructionInv, TypeOK
<1>5. Written \in 0..n
  <2>1. {k \in DOMAIN slot : slot[k] # None} \subseteq 1..n
    BY <1>3
  <2>2. IsFiniteSet(1..n) /\ Cardinality(1..n) = n
    <3>1. n \in Nat
      BY <1>1, ConstructionAssumption
    <3> QED BY <3>1, FS_Interval
  <2> QED BY <2>1, <2>2, <1>1, FS_Subset, FS_CardinalityType DEF Written
<1>6. Taken \in 0..Items /\ Len(source) = given - Taken
  BY <1>1, <1>5, ConstructionAssumption DEF Taken, ConstructionInv, ItemsAgree
<1>7. ASSUME NEW m \in 0..Written PROVE InSlots(m) = 1..m
  BY <1>2, <1>5, <1>7, <1>1 DEF InSlots
<1>8. InSource = (Taken + 1)..given
  <2>1. source = [k \in 1..Len(source) |-> Taken + k]
    BY DEF ConstructionInv, ItemsAgree
  <2>2. DOMAIN source = 1..Len(source)
    BY <2>1
  <2>3. ASSUME NEW i \in (Taken + 1)..given PROVE i \in InSource
    <3>1. i - Taken \in 1..Len(source) /\ source[i - Taken] = i
      BY <2>1, <1>6, <1>1
    <3> QED BY <3>1, <2>2 DEF InSource
  <2>4. ASSUME NEW i \in InSource PROVE i \in (Taken + 1)..given
    <3>1. PICK k \in DOMAIN source : i = source[k]
      BY DEF InSource
    <3> QED BY <3>1, <2>1, <2>2, <1>6, <1>1
  <2> QED BY <2>3, <2>4
<1> QED BY <1>1, <1>4, <1>5, <1>6, <1>7, <1>8, ConstructionAssumption DEF n

(* The invariant holds when the call begins.                               *)
LEMMA InitInv ==
    ASSUME "box" \notin Source, Init
    PROVE  ConstructionInv
<1>1. slot = <<>> /\ mem = "none" /\ at = "start" /\ initialized_len = 0 /\ fault = FALSE
  BY DEF Init
<1>2. Written = 0
  <2>1. {k \in DOMAIN slot : slot[k] # None} = {}
    BY <1>1
  <2> QED BY <2>1, FS_EmptySet DEF Written
<1>3. given \in 0..Items /\ claimed \in 0..Items /\ given \in Nat /\ Items \in Nat
  BY ConstructionAssumption DEF Init
<1>4. source = [k \in 1..given |-> k] /\ Len(source) = given /\ source \in Seq(Item)
  <2>1. source = [k \in 1..given |-> k]
    BY DEF Init
  <2>2. \A k \in 1..given : k \in Item
    BY <1>3 DEF Item
  <2>3. source \in [1..given -> Item]
    BY <2>1, <2>2
  <2>4. source \in Seq(Item)
    BY <2>3, <1>3
  <2>5. Len(source) = given
    BY <2>1, <2>4, <1>3
  <2> QED BY <2>1, <2>4, <2>5
<1>5. Taken = 0
  BY <1>3, <1>4 DEF Taken
<1>6. TypeOK /\ kind # "box"
  <2>1. kind \in Kind /\ kind # "box"
    BY ConstructionAssumption DEF Init, Kind
  <2>2. drops \in [Item -> Nat]
    BY DEF Init
  <2>3. slot \in Seq(Item \cup {None}) /\ initialized_len \in 0..Items
    BY <1>1, <1>3
  <2> QED BY <1>1, <1>3, <1>4, <2>1, <2>2, <2>3 DEF TypeOK
<1>7. ItemsAgree
  <2>1. source = [k \in 1..Len(source) |-> Taken + k]
    <3>1. \A k \in 1..given : Taken + k = k
      BY <1>3, <1>5
    <3>2. [k \in 1..given |-> Taken + k] = [k \in 1..given |-> k]
      BY <3>1
    <3>3. Len(source) = given /\ source = [k \in 1..given |-> k]
      BY <1>4
    <3> QED BY <3>2, <3>3, Zenon
  <2>2. slot = [k \in 1..(IF mem = "none" THEN 0 ELSE claimed) |->
                   IF k =< Written THEN k ELSE None]
    <3>1. 1..(IF mem = "none" THEN 0 ELSE claimed) = {}
      BY <1>1
    <3>2. slot = [k \in {} |-> IF k =< Written THEN k ELSE None]
      BY <1>1
    <3> QED BY <3>1, <3>2
  <2> QED BY <2>1, <2>2, <1>2, <1>3, <1>5 DEF ItemsAgree
<1>8. StageAgrees
  BY <1>1, <1>2, <1>5 DEF Init, StageAgrees, Filled, Unwinding
<1>9. MemoryAgrees
  BY <1>1 DEF MemoryAgrees
<1>10. DropsAgree
  <2>1. \A i \in Item : ~Gone(i)
    BY <1>1, <1>2, <1>5 DEF Gone, Unwinding, Item
  <2> QED BY <1>1, <2>1 DEF Init, DropsAgree
<1> QED BY <1>6, <1>7, <1>8, <1>9, <1>10 DEF ConstructionInv

(* A step that moves no item leaves the numbers and the contents as they   *)
(* were.                                                                   *)
LEMMA NothingMoved ==
    ASSUME ConstructionInv, UNCHANGED <<given, claimed, source, slot>>,
           mem' = "none" <=> mem = "none"
    PROVE  /\ Written' = Written
           /\ Taken' = Taken
           /\ ItemsAgree'
<1>1. Written' = Written
  BY DEF Written
<1>2. Taken' = Taken
  BY DEF Taken
<1>3. ItemsAgree
  BY DEF ConstructionInv
<1> QED BY <1>1, <1>2, <1>3 DEF ItemsAgree

(* A step that drops some items keeps count of them: none of them was gone,*)
(* and they are gone afterwards.                                           *)
LEMMA ItemsDropped ==
    ASSUME ConstructionInv, NEW items, Drop(items), ~fault',
           \A i \in Item : (i \in items => ~Gone(i)) /\ (Gone(i)' <=> Gone(i) \/ i \in items)
    PROVE  DropsAgree' /\ drops' \in [Item -> Nat]
<1>1. drops = [i \in Item |-> IF Gone(i) THEN 1 ELSE 0]
  BY DEF ConstructionInv, DropsAgree
<1>2. drops' = [i \in Item |-> IF i \in items THEN drops[i] + 1 ELSE drops[i]]
  BY DEF Drop
<1>3. \A i \in Item : drops'[i] = IF Gone(i)' THEN 1 ELSE 0
  BY <1>1, <1>2 DEF Gone
<1>4. drops' = [i \in Item |-> IF Gone(i)' THEN 1 ELSE 0]
  BY <1>2, <1>3 DEF Gone
<1>5. drops' \in [Item -> Nat]
  BY <1>4 DEF Gone
<1> QED BY <1>4, <1>5 DEF DropsAgree, Gone

(* A step that drops nothing.                                              *)
LEMMA NothingDropped ==
    ASSUME ConstructionInv, UNCHANGED <<drops, fault>>,
           \A i \in Item : Gone(i)' <=> Gone(i)
    PROVE  DropsAgree'
<1>1. ~fault /\ drops = [i \in Item |-> IF Gone(i) THEN 1 ELSE 0]
  BY DEF ConstructionInv, DropsAgree
<1>2. drops' = [i \in Item |-> IF Gone(i)' THEN 1 ELSE 0]
  BY <1>1 DEF Gone
<1> QED BY <1>1, <1>2 DEF DropsAgree, Gone

(* The source goes with what is in it, or with nothing when it makes its   *)
(* items on demand.                                                        *)
LEMMA SourceDropped ==
    ASSUME ConstructionInv, DropSource, UNCHANGED <<kind, given, claimed, slot, mem>>
    PROVE  /\ Written' = Written
           /\ Taken' = IF Lazy THEN Taken ELSE given
           /\ ItemsAgree'
           /\ source' \in Seq(Item)
           /\ Lazy \/ source' = <<>>
           /\ Drop(IF Lazy THEN {} ELSE (Taken + 1)..given)
<1>1. Written' = Written
  BY DEF Written
<1>2. /\ given \in 0..Items /\ Taken \in 0..Items /\ Written \in 0..Items
      /\ Items \in Nat /\ Written =< Taken /\ Taken =< given
      /\ InSource = (Taken + 1)..given
      /\ ItemsAgree
  BY Contents, ConstructionAssumption DEF ConstructionInv, TypeOK, ItemsAgree
<1>3. CASE Lazy
  <2>1. source' = source
    BY <1>3 DEF DropSource
  <2>2. Taken' = Taken
    BY <2>1 DEF Taken
  <2> QED BY <1>1, <1>2, <1>3, <2>1, <2>2 DEF DropSource, ItemsAgree, ConstructionInv, TypeOK
<1>4. CASE ~Lazy
  <2>1. source' = <<>> /\ Len(source') = 0
    BY <1>4 DEF DropSource
  <2>2. Taken' = given
    BY <1>2, <2>1 DEF Taken
  <2>3. source' = [k \in 1..Len(source') |-> Taken' + k]
    <3>1. 1..0 = {} /\ source' = [k \in {} |-> Taken' + k]
      BY <2>1
    <3> QED BY <3>1, <2>1
  <2>4. ItemsAgree'
    BY <1>1, <1>2, <2>2, <2>3 DEF ItemsAgree
  <2> QED BY <1>1, <1>2, <1>4, <2>1, <2>2, <2>4 DEF DropSource
<1> QED BY <1>3, <1>4

-----------------------------------------------------------------------------
(* The invariant's parts and the numbers, as every step needs them.        *)
LEMMA Parts ==
    ASSUME ConstructionInv
    PROVE  /\ TypeOK /\ kind # "box" /\ ItemsAgree /\ StageAgrees
           /\ MemoryAgrees /\ DropsAgree /\ ~fault
           /\ Items \in Nat /\ given \in 0..Items /\ claimed \in 0..Items
           /\ Written \in 0..Items /\ Taken \in 0..Items
           /\ Written =< Taken /\ Taken =< given
           /\ initialized_len \in 0..Items
           /\ Item = 1..Items
BY Contents, ConstructionAssumption
DEF ConstructionInv, TypeOK, ItemsAgree, DropsAgree, Item

(* Steps before the memory is allocated.                                   *)
LEMMA PanicFirstKeeps == ASSUME ConstructionInv, PanicFirst PROVE ConstructionInv'
<1>1. /\ at = "start" /\ at' = "panicked" /\ DropSource
      /\ UNCHANGED <<kind, given, claimed, slot, initialized_len, mem, fault>>
  BY DEF PanicFirst, input
<1>2. Written' = Written /\ Taken' = (IF Lazy THEN Taken ELSE given) /\ Written = 0
  BY <1>1, SourceDropped, Parts DEF StageAgrees
<1>3. Drop(IF Lazy THEN {} ELSE (Taken + 1)..given)
  BY <1>1, SourceDropped
<1>4. Taken = Written /\ initialized_len = 0
  BY <1>1, <1>2, Parts DEF StageAgrees, Unwinding
<1>5. DropsAgree' /\ drops' \in [Item -> Nat]
  <2>1. \A i \in Item :
           /\ i \in (IF Lazy THEN {} ELSE (Taken + 1)..given) => ~Gone(i)
           /\ Gone(i)' <=> Gone(i) \/ i \in (IF Lazy THEN {} ELSE (Taken + 1)..given)
    BY <1>1, <1>2, <1>4, Parts DEF Gone, Unwinding
  <2> QED BY <1>1, <1>3, <2>1, Parts, ItemsDropped DEF Gone
<1>6. TypeOK'
  BY <1>1, <1>5, SourceDropped, Parts DEF TypeOK
<1>7. StageAgrees'
  BY <1>1, <1>2, <1>4, SourceDropped, Parts
  DEF StageAgrees, Unwinding, Filled, Lazy, MAY_UNWIND
<1>8. MemoryAgrees'
  BY <1>1, Parts DEF MemoryAgrees
<1> QED BY <1>1, <1>5, <1>6, <1>7, <1>8, SourceDropped, Parts DEF ConstructionInv

LEMMA BufferKeeps == ASSUME ConstructionInv, Buffer PROVE ConstructionInv'
<1>1. /\ at = "start" /\ kind = "buffered" /\ kind' = "vec"
      /\ UNCHANGED <<given, claimed, at, source, slot, initialized_len, mem, drops, fault>>
  BY DEF Buffer, input
<1>2. Written' = Written /\ Taken' = Taken /\ ItemsAgree'
  BY <1>1, NothingMoved
<1>3. DropsAgree'
  <2>1. \A i \in Item : Gone(i)' <=> Gone(i)
    BY <1>1, <1>2 DEF Gone
  <2> QED BY <1>1, <2>1, NothingDropped DEF Gone
<1>4. TypeOK' /\ MemoryAgrees' /\ kind' # "box"
  BY <1>1, Parts DEF TypeOK, MemoryAgrees, Kind
<1>5. StageAgrees'
  BY <1>1, <1>2, Parts DEF StageAgrees, Unwinding, Filled, Lazy, MAY_UNWIND
<1> QED BY <1>2, <1>3, <1>4, <1>5 DEF ConstructionInv

LEMMA AllocateKeeps == ASSUME ConstructionInv, Allocate PROVE ConstructionInv'
<1>1. /\ at = "start" /\ kind # "buffered" /\ mem' = "allocated"
      /\ slot' = [k \in 1..claimed |-> None]
      /\ at' = IF kind \in {"clone", "exact"} THEN "loop" ELSE "fill"
      /\ UNCHANGED <<kind, given, claimed, source, initialized_len, drops, fault>>
  BY DEF Allocate, input
<1>2. Written = 0 /\ initialized_len = 0 /\ Taken' = Taken /\ Taken = 0
  BY <1>1, Parts DEF StageAgrees, Unwinding, Taken
<1>3. slot' = [k \in 1..claimed |-> IF k =< 0 THEN k ELSE None]
  BY <1>1, Parts
<1>4. Written' = 0
  BY <1>3, Parts, CountWritten DEF Written
<1>5. ItemsAgree'
  BY <1>1, <1>2, <1>3, <1>4, Parts DEF ItemsAgree
<1>6. DropsAgree'
  <2>1. \A i \in Item : Gone(i)' <=> Gone(i)
    BY <1>1, <1>2, <1>4, Parts DEF Gone, Unwinding
  <2> QED BY <1>1, <2>1, NothingDropped DEF Gone
<1>7. TypeOK'
  <2>1. slot' \in Seq(Item \cup {None})
    BY <1>1, Parts
  <2> QED BY <1>1, <2>1, Parts DEF TypeOK
<1>8. StageAgrees' /\ MemoryAgrees'
  BY <1>1, <1>2, <1>4, Parts
  DEF StageAgrees, MemoryAgrees, Unwinding, Filled, Lazy, MAY_UNWIND
<1> QED BY <1>1, <1>5, <1>6, <1>7, <1>8, Parts DEF ConstructionInv

(* The value is written at one stroke.                                     *)
LEMMA AllWritten ==
    ASSUME ConstructionInv, at = "fill", at' = "filled", kind # "exact",
           slot' = source, source' = <<>>,
           UNCHANGED <<kind, given, claimed, initialized_len, mem, drops, fault>>
    PROVE  ConstructionInv'
<1>1. /\ Written = 0 /\ Taken = 0 /\ initialized_len = 0 /\ claimed = given
      /\ mem # "none" /\ Len(source) = given
  BY Parts, Contents DEF StageAgrees, Unwinding, MemoryAgrees
<1>2. slot' = [k \in 1..claimed |-> IF k =< claimed THEN k ELSE None]
  <2>1. source = [k \in 1..claimed |-> 0 + k]
    BY <1>1, Parts DEF ItemsAgree
  <2> QED BY <2>1, Parts
<1>3. Written' = claimed
  <2>1. claimed \in Nat /\ claimed \in 0..claimed
    BY Parts
  <2> QED BY <1>2, <2>1, CountWritten DEF Written
<1>4. Len(source') = 0 /\ Taken' = given
  BY Parts DEF Taken
<1>5. ItemsAgree'
  <2>1. 1..0 = {} /\ source' = [k \in {} |-> Taken' + k]
    OBVIOUS
  <2>2. source' = [k \in 1..Len(source') |-> Taken' + k]
    BY <1>4, <2>1
  <2> QED BY <1>1, <1>2, <1>3, <1>4, <2>2, Parts DEF ItemsAgree
<1>6. DropsAgree'
  <2>1. \A i \in Item : Gone(i)' <=> Gone(i)
    BY <1>1, <1>3, <1>4, Parts DEF Gone, Unwinding
  <2> QED BY <2>1, NothingDropped DEF Gone
<1>7. TypeOK'
  <2>1. slot' \in Seq(Item \cup {None}) /\ source' \in Seq(Item)
    BY <1>2, Parts
  <2> QED BY <2>1, Parts DEF TypeOK
<1>8. StageAgrees' /\ MemoryAgrees'
  BY <1>1, <1>3, <1>4, Parts
  DEF StageAgrees, MemoryAgrees, Unwinding, Filled, Lazy, MAY_UNWIND
<1> QED BY <1>5, <1>6, <1>7, <1>8, Parts DEF ConstructionInv

LEMMA MoveKeeps == ASSUME ConstructionInv, Move PROVE ConstructionInv'
<1>1. kind # "box"
  BY Parts
<1>2. /\ at = "fill" /\ at' = "filled" /\ kind # "exact"
      /\ slot' = source /\ source' = <<>>
      /\ UNCHANGED <<kind, given, claimed, initialized_len, mem, drops, fault>>
  BY <1>1 DEF Move, input
<1> QED BY <1>2, AllWritten

(* A step that changes only where the call is, and perhaps the guard and   *)
(* the memory.                                                             *)
LEMMA OnlyPlace ==
    ASSUME ConstructionInv,
           UNCHANGED <<kind, given, claimed, source, slot, drops, fault>>,
           mem' = "none" <=> mem = "none",
           TypeOK', MemoryAgrees',
           \A i \in Item : Gone(i)' <=> Gone(i),
           Written' = Written /\ Taken' = Taken => StageAgrees'
    PROVE  ConstructionInv'
<1>1. Written' = Written /\ Taken' = Taken /\ ItemsAgree'
  BY NothingMoved
<1>2. DropsAgree'
  BY NothingDropped DEF Gone
<1> QED BY <1>1, <1>2, Parts DEF ConstructionInv

(* Its steps: the call goes on, or a panic begins.                         *)
LEMMA CallKeeps == ASSUME ConstructionInv, Call PROVE ConstructionInv'
<1>1. CASE slot' = source /\ source' = <<>> /\ at' = "filled"
  <2>1. /\ at = "fill" /\ kind # "exact"
        /\ UNCHANGED <<kind, given, claimed, initialized_len, mem, drops, fault>>
    BY DEF Call, input
  <2> QED BY <1>1, <2>1, AllWritten
<1>2. CASE at' = "unwind_memory" /\ UNCHANGED <<slot, source>>
  <2>1. /\ at = "fill" /\ kind = "closure"
        /\ UNCHANGED <<kind, given, claimed, initialized_len, mem, drops, fault>>
    BY DEF Call, input
  <2>2. TypeOK' /\ MemoryAgrees'
    BY <1>2, <2>1, Parts DEF TypeOK, MemoryAgrees
  <2>3. Written = 0 /\ initialized_len = 0 /\ Written' = Written /\ Taken' = Taken
    BY <1>2, <2>1, Parts, NothingMoved DEF StageAgrees
  <2>4. \A i \in Item : Gone(i)' <=> Gone(i)
    BY <1>2, <2>1, <2>3, Parts DEF Gone, Unwinding
  <2>5. StageAgrees'
    BY <1>2, <2>1, <2>3, Parts DEF StageAgrees, Unwinding, Filled, Lazy, MAY_UNWIND
  <2> QED BY <1>2, <2>1, <2>2, <2>4, <2>5, OnlyPlace DEF Gone
<1> QED BY <1>1, <1>2 DEF Call

LEMMA BeginKeeps == ASSUME ConstructionInv, Begin PROVE ConstructionInv'
<1>1. /\ at = "loop" /\ at' = "next" /\ Written < claimed
      /\ initialized_len' = Written
      /\ UNCHANGED <<kind, given, claimed, source, slot, mem, drops, fault>>
  BY DEF Begin, input
<1>2. Written' = Written /\ Taken' = Taken
  BY <1>1, NothingMoved
<1>3. TypeOK' /\ MemoryAgrees'
  BY <1>1, Parts DEF TypeOK, MemoryAgrees
<1>4. \A i \in Item : Gone(i)' <=> Gone(i)
  BY <1>1, <1>2, Parts DEF Gone, Unwinding
<1>5. StageAgrees'
  BY <1>1, <1>2, Parts DEF StageAgrees, Unwinding, Filled, Lazy, MAY_UNWIND
<1> QED BY <1>1, <1>3, <1>4, <1>5, OnlyPlace DEF Gone

LEMMA NextPanicsKeeps == ASSUME ConstructionInv, NextPanics PROVE ConstructionInv'
<1>1. /\ at = "next" /\ at' = "unwind_items"
      /\ UNCHANGED <<kind, given, claimed, source, slot, initialized_len, mem, drops, fault>>
  BY DEF NextPanics, input
<1>2. Written' = Written /\ Taken' = Taken
  BY <1>1, NothingMoved
<1>3. TypeOK' /\ MemoryAgrees'
  BY <1>1, Parts DEF TypeOK, MemoryAgrees
<1>4. \A i \in Item : Gone(i)' <=> Gone(i)
  BY <1>1, <1>2, Parts DEF Gone, Unwinding
<1>5. StageAgrees'
  BY <1>1, <1>2, Parts DEF StageAgrees, Unwinding, Filled, Lazy, MAY_UNWIND
<1> QED BY <1>1, <1>3, <1>4, <1>5, OnlyPlace DEF Gone

LEMMA UnwindMemoryKeeps == ASSUME ConstructionInv, UnwindMemory PROVE ConstructionInv'
<1>1. /\ at = "unwind_memory" /\ at' = "panicked"
      /\ mem' = IF MAY_UNWIND THEN "freed" ELSE mem
      /\ UNCHANGED <<kind, given, claimed, source, slot, initialized_len, drops, fault>>
  BY DEF UnwindMemory, input
<1>2. MAY_UNWIND /\ mem # "none" /\ mem' = "freed"
  BY <1>1, Parts DEF StageAgrees, Unwinding, MemoryAgrees
<1>3. Written' = Written /\ Taken' = Taken
  BY <1>1, <1>2, NothingMoved
<1>4. TypeOK' /\ MemoryAgrees'
  BY <1>1, <1>2, Parts DEF TypeOK, MemoryAgrees
<1>5. \A i \in Item : Gone(i)' <=> Gone(i)
  BY <1>1, <1>3, Parts DEF Gone, Unwinding
<1>6. StageAgrees'
  BY <1>1, <1>3, Parts DEF StageAgrees, Unwinding, Filled, Lazy, MAY_UNWIND
<1> QED BY <1>1, <1>2, <1>4, <1>5, <1>6, OnlyPlace DEF Gone

LEMMA FinishKeeps == ASSUME ConstructionInv, Finish PROVE ConstructionInv'
<1>1. /\ at = "filled" /\ at' = "returned"
      /\ UNCHANGED <<kind, given, claimed, source, slot, initialized_len, mem, drops, fault>>
  BY DEF Finish, input
<1>2. Written' = Written /\ Taken' = Taken
  BY <1>1, NothingMoved
<1>3. TypeOK' /\ MemoryAgrees'
  BY <1>1, Parts DEF TypeOK, MemoryAgrees
<1>4. \A i \in Item : Gone(i)' <=> Gone(i)
  BY <1>1, <1>2, Parts DEF Gone, Unwinding
<1>5. StageAgrees'
  BY <1>1, <1>2, Parts DEF StageAgrees, Unwinding, Filled, Lazy, MAY_UNWIND
<1> QED BY <1>1, <1>3, <1>4, <1>5, OnlyPlace DEF Gone

(* An item goes from the source into the next slot.                        *)
LEMMA YieldKeeps == ASSUME ConstructionInv, Yield PROVE ConstructionInv'
<1>1. /\ at = "next" /\ at' = "loop" /\ source # <<>>
      /\ slot' = [slot EXCEPT ![Written + 1] = Head(source)]
      /\ source' = Tail(source)
      /\ UNCHANGED <<kind, given, claimed, initialized_len, mem, drops, fault>>
  BY DEF Yield, input
<1>2. /\ Written < claimed /\ initialized_len = Written /\ Taken = Written
      /\ mem # "none" /\ MAY_UNWIND
  BY <1>1, Parts DEF StageAgrees, Unwinding, MemoryAgrees
<1>3. /\ source \in Seq(Item) /\ Len(source) = given - Taken /\ Len(source) > 0
  BY <1>1, Parts, Contents DEF TypeOK
<1>4. /\ Head(source) = Written + 1
      /\ source' \in Seq(Item)
      /\ Len(source') = Len(source) - 1
      /\ \A k \in 1..Len(source') : source'[k] = Taken + 1 + k
  <2>1. source = [k \in 1..Len(source) |-> Taken + k]
    BY Parts DEF ItemsAgree
  <2>2. source[1] = Taken + 1
    BY <2>1, <1>3
  <2>3. /\ source' \in Seq(Item) /\ Len(source') = Len(source) - 1
        /\ \A k \in 1..Len(source') : source'[k] = source[k + 1]
    BY <1>1, <1>3
  <2>4. \A k \in 1..Len(source') : source[k + 1] = Taken + (k + 1)
    BY <2>1, <2>3, <1>3
  <2> QED BY <1>1, <1>2, <1>3, <2>2, <2>3, <2>4, Parts
<1>5. Taken' = Taken + 1
  BY <1>1, <1>3, <1>4, Parts DEF Taken
<1>6. slot' = [k \in 1..claimed |-> IF k =< Written + 1 THEN k ELSE None]
  <2>1. slot = [k \in 1..claimed |-> IF k =< Written THEN k ELSE None]
    BY <1>2, Parts DEF ItemsAgree
  <2>2. slot' = [k \in 1..claimed |-> IF k = Written + 1 THEN Written + 1
                                      ELSE IF k =< Written THEN k ELSE None]
    BY <1>1, <1>4, <2>1
  <2> QED BY <2>2, Parts
<1>7. Written' = Written + 1
  <2>1. PICK w \in 0..claimed : w = Written + 1
    BY <1>2, Parts
  <2>2. claimed \in Nat /\ slot' = [k \in 1..claimed |-> IF k =< w THEN k ELSE None]
    BY <1>6, <2>1, Parts
  <2>3. Written' = w
    <3>1. PICK n \in Nat : n = claimed
      BY <2>2
    <3>2. w \in 0..n /\ slot' = [k \in 1..n |-> IF k =< w THEN k ELSE None]
      BY <2>1, <2>2, <3>1
    <3>3. \A s : s = [k \in 1..n |-> IF k =< w THEN k ELSE None] =>
                 Cardinality({k \in DOMAIN s : s[k] # None}) = w
      BY <3>2, CountWritten
    <3>4. Cardinality({k \in DOMAIN slot' : slot'[k] # None}) = w
      BY <3>2, <3>3
    <3> QED BY <3>4 DEF Written
  <2> QED BY <2>1, <2>3
<1>8. ItemsAgree'
  <2>1. source' = [k \in 1..Len(source') |-> Taken' + k]
    BY <1>4, <1>5
  <2>2. slot' = [k \in 1..(IF mem' = "none" THEN 0 ELSE claimed') |->
                    IF k =< Written' THEN k ELSE None]
    BY <1>1, <1>2, <1>6, <1>7
  <2>3. Written' =< Taken' /\ Taken' =< given'
    BY <1>1, <1>2, <1>3, <1>5, <1>7, Parts
  <2> QED BY <2>1, <2>2, <2>3 DEF ItemsAgree
<1>9. DropsAgree'
  <2>1. \A i \in Item : Gone(i)' <=> Gone(i)
    BY <1>1, <1>2, <1>5, <1>7, Parts DEF Gone, Unwinding
  <2> QED BY <1>1, <2>1, NothingDropped DEF Gone
<1>10. TypeOK'
  <2>1. slot' \in Seq(Item \cup {None})
    BY <1>2, <1>6, Parts
  <2> QED BY <1>1, <1>4, <2>1, Parts DEF TypeOK
<1>11. StageAgrees' /\ MemoryAgrees'
  BY <1>1, <1>2, <1>5, <1>7, Parts
  DEF StageAgrees, MemoryAgrees, Unwinding, Filled, Lazy, MAY_UNWIND
<1> QED BY <1>1, <1>8, <1>9, <1>10, <1>11, Parts DEF ConstructionInv

(* next once more: an item too many is taken and dropped.                  *)
LEMMA LastNextKeeps == ASSUME ConstructionInv, LastNext PROVE ConstructionInv'
<1>1. /\ at = "loop" /\ Written = claimed
      /\ UNCHANGED <<kind, given, claimed, slot, initialized_len, mem, fault>>
      /\ at' \in {"drop_iter", "unwind_items"}
      /\ source # <<>> => at' = "unwind_items"
  BY DEF LastNext, input
<1>2. Taken = Written /\ MAY_UNWIND /\ Written' = Written
  BY <1>1, Parts DEF StageAgrees, Unwinding, Filled, Written
<1>3. TypeOK /\ MemoryAgrees' /\ source \in Seq(Item) /\ Len(source) = given - Taken
  BY <1>1, Parts, Contents DEF TypeOK, MemoryAgrees
<1>4. CASE UNCHANGED <<source, drops>>
  <2>1. Taken' = Taken
    BY <1>1, <1>4 DEF Taken
  <2>2. TypeOK'
    BY <1>1, <1>3, <1>4 DEF TypeOK
  <2>3. \A i \in Item : Gone(i)' <=> Gone(i)
    BY <1>1, <1>2, <2>1, Parts DEF Gone, Unwinding
  <2>4. source = <<>> => claimed = given
    BY <1>1, <1>2, <1>3, Parts
  <2>5. StageAgrees'
    BY <1>1, <1>2, <2>1, <2>4, Parts
    DEF StageAgrees, Unwinding, Filled, Lazy, MAY_UNWIND
  <2> QED BY <1>1, <1>3, <1>4, <2>2, <2>3, <2>5, OnlyPlace DEF Gone
<1>5. CASE source # <<>> /\ source' = Tail(source) /\ Drop({Head(source)})
  <2>1. /\ Head(source) = Taken + 1 /\ Taken + 1 =< given
        /\ source' \in Seq(Item)
        /\ Len(source') = Len(source) - 1
        /\ \A k \in 1..Len(source') : source'[k] = Taken + 1 + k
    <3>1. source = [k \in 1..Len(source) |-> Taken + k] /\ Len(source) > 0
      BY <1>3, <1>5, Parts DEF ItemsAgree
    <3>2. source[1] = Taken + 1 /\ Taken + 1 =< given
      BY <3>1, <1>3, Parts
    <3>3. /\ source' \in Seq(Item) /\ Len(source') = Len(source) - 1
          /\ \A k \in 1..Len(source') : source'[k] = source[k + 1]
      BY <1>3, <1>5, <3>1
    <3>4. \A k \in 1..Len(source') : source[k + 1] = Taken + (k + 1)
      BY <3>1, <3>3, <1>3
    <3> QED BY <1>3, <1>5, <3>2, <3>3, <3>4, Parts
  <2>2. Taken' = Taken + 1
    BY <1>1, <1>3, <2>1, Parts DEF Taken
  <2>3. ItemsAgree'
    <3>1. source' = [k \in 1..Len(source') |-> Taken' + k]
      BY <2>1, <2>2
    <3> QED BY <1>1, <1>2, <2>1, <2>2, <3>1, Parts DEF ItemsAgree
  <2>4. DropsAgree' /\ drops' \in [Item -> Nat]
    <3>1. \A i \in Item : /\ i \in {Head(source)} => ~Gone(i)
                          /\ Gone(i)' <=> Gone(i) \/ i \in {Head(source)}
      BY <1>1, <1>2, <1>5, <2>1, <2>2, Parts DEF Gone, Unwinding
    <3> QED BY <1>1, <1>5, <3>1, Parts, ItemsDropped DEF Gone
  <2>5. TypeOK'
    BY <1>1, <1>3, <2>1, <2>4 DEF TypeOK
  <2>6. kind = "exact"
    BY <1>1, <1>2, <2>1, Parts DEF StageAgrees
  <2>7. StageAgrees'
    BY <1>1, <1>2, <1>5, <2>2, <2>6, Parts
    DEF StageAgrees, Unwinding, Filled, Lazy, MAY_UNWIND
  <2> QED BY <1>1, <1>3, <2>3, <2>4, <2>5, <2>7, Parts DEF ConstructionInv
<1> QED BY <1>4, <1>5 DEF LastNext

(* The iterator is dropped, at its end or with the closure it was in.      *)
LEMMA DropIterKeeps == ASSUME ConstructionInv, DropIter PROVE ConstructionInv'
<1>1. /\ at = "drop_iter" /\ DropSource /\ at' \in {"filled", "unwind_items"}
      /\ UNCHANGED <<kind, given, claimed, slot, initialized_len, mem, fault>>
  BY DEF DropIter, input
<1>2. /\ Written = claimed /\ claimed = given /\ Taken = Written /\ MAY_UNWIND
  BY <1>1, Parts DEF StageAgrees, Unwinding
<1>3. /\ Written' = Written /\ Taken' = Taken /\ ItemsAgree' /\ source' \in Seq(Item)
      /\ Drop({})
  <2>1. (Taken + 1)..given = {}
    BY <1>2, Parts
  <2> QED BY <1>1, <1>2, <2>1, SourceDropped
<1>4. DropsAgree' /\ drops' \in [Item -> Nat]
  <2>1. \A i \in Item : (i \in {} => ~Gone(i)) /\ (Gone(i)' <=> Gone(i) \/ i \in {})
    BY <1>1, <1>2, <1>3, Parts DEF Gone, Unwinding
  <2> QED BY <1>1, <1>3, <2>1, Parts, ItemsDropped DEF Gone
<1>5. TypeOK' /\ MemoryAgrees'
  BY <1>1, <1>3, <1>4, Parts DEF TypeOK, MemoryAgrees
<1>6. StageAgrees'
  BY <1>1, <1>2, <1>3, Parts DEF StageAgrees, Unwinding, Filled, Lazy, MAY_UNWIND
<1> QED BY <1>1, <1>3, <1>4, <1>5, <1>6, Parts DEF ConstructionInv

LEMMA UnwindSourceKeeps == ASSUME ConstructionInv, UnwindSource PROVE ConstructionInv'
<1>1. /\ at = "unwind_source" /\ at' = "unwind_memory" /\ DropSource
      /\ UNCHANGED <<kind, given, claimed, slot, initialized_len, mem, fault>>
  BY DEF UnwindSource, input
<1>2. /\ Written' = Written /\ Taken' = (IF Lazy THEN Taken ELSE given) /\ ItemsAgree'
      /\ source' \in Seq(Item)
      /\ Lazy \/ source' = <<>>
      /\ Drop(IF Lazy THEN {} ELSE (Taken + 1)..given)
  BY <1>1, SourceDropped
<1>3. MAY_UNWIND /\ initialized_len =< Written
  BY <1>1, Parts DEF StageAgrees, Unwinding
<1>4. DropsAgree' /\ drops' \in [Item -> Nat]
  <2>1. \A i \in Item :
           /\ i \in (IF Lazy THEN {} ELSE (Taken + 1)..given) => ~Gone(i)
           /\ Gone(i)' <=> Gone(i) \/ i \in (IF Lazy THEN {} ELSE (Taken + 1)..given)
    BY <1>1, <1>2, <1>3, Parts DEF Gone, Unwinding
  <2> QED BY <1>1, <1>2, <2>1, Parts, ItemsDropped DEF Gone
<1>5. TypeOK' /\ MemoryAgrees'
  BY <1>1, <1>2, <1>4, Parts DEF TypeOK, MemoryAgrees
<1>6. StageAgrees'
  BY <1>1, <1>2, <1>3, Parts DEF StageAgrees, Unwinding, Filled, Lazy, MAY_UNWIND
<1> QED BY <1>1, <1>2, <1>4, <1>5, <1>6, Parts DEF ConstructionInv

(* The first slots hold items, and no unwritten memory.                    *)
LEMMA SlotsHold ==
    ASSUME ConstructionInv, NEW n \in 0..Written
    PROVE  InSlots(n) \ {None} = 1..n /\ None \notin InSlots(n)
<1>1. InSlots(n) = 1..n
  BY Contents
<1>2. n \in Nat
  BY Parts
<1>3. None \notin 1..n
  BY <1>2, ConstructionAssumption
<1> QED BY <1>1, <1>3

LEMMA UnwindItemsKeeps == ASSUME ConstructionInv, UnwindItems PROVE ConstructionInv'
<1>1. /\ at = "unwind_items" /\ at' = "unwind_source"
      /\ Drop(InSlots(initialized_len) \ {None})
      /\ fault' = (None \in InSlots(initialized_len))
      /\ UNCHANGED <<kind, given, claimed, source, slot, initialized_len, mem>>
  BY DEF UnwindItems, input
<1>2. Written' = Written /\ Taken' = Taken /\ ItemsAgree'
  BY <1>1, NothingMoved
<1>3. initialized_len \in 0..Written /\ MAY_UNWIND
  BY <1>1, Parts DEF StageAgrees, Unwinding
<1>4. Drop(1..initialized_len) /\ fault' = FALSE
  <2>1. PICK n \in 0..Written : n = initialized_len
    BY <1>3
  <2>2. InSlots(n) \ {None} = 1..n /\ (None \in InSlots(n)) = FALSE
    BY SlotsHold
  <2>3. Drop(InSlots(n) \ {None}) /\ fault' = (None \in InSlots(n))
    BY <1>1, <2>1, Zenon
  <2>4. Drop(1..n) /\ fault' = FALSE
    BY <2>2, <2>3, Zenon
  <2> QED BY <2>1, <2>4, Zenon
<1>5. DropsAgree' /\ drops' \in [Item -> Nat]
  <2>1. \A i \in Item :
           /\ i \in 1..initialized_len => ~Gone(i)
           /\ Gone(i)' <=> Gone(i) \/ i \in 1..initialized_len
    BY <1>1, <1>2, <1>3, Parts DEF Gone, Unwinding
  <2> QED BY <1>4, <2>1, ItemsDropped DEF Gone
<1>6. TypeOK' /\ MemoryAgrees'
  BY <1>1, <1>4, <1>5, Parts DEF TypeOK, MemoryAgrees
<1>7. StageAgrees'
  BY <1>1, <1>2, <1>3, Parts DEF StageAgrees, Unwinding, Filled, Lazy, MAY_UNWIND
<1> QED BY <1>1, <1>2, <1>5, <1>6, <1>7, Parts DEF ConstructionInv

(* The value is dropped in place, or moved out and dropped by the caller.  *)
LEMMA ValueDropped ==
    ASSUME ConstructionInv, at = "returned", at' \in {"dropped", "unwrapped"},
           mem' = IF at' = "dropped" THEN "freed" ELSE mem,
           Drop(InSlots(Len(slot)) \ {None}),
           fault' = (None \in InSlots(Len(slot))) \/ fault' = fault,
           UNCHANGED <<kind, given, claimed, source, slot, initialized_len>>
    PROVE  ConstructionInv'
<1>1. /\ Written = claimed /\ claimed = given /\ Taken = Written /\ mem = "allocated"
      /\ Len(slot) = given
  BY Parts, Contents DEF StageAgrees, Unwinding, Filled, MemoryAgrees, TypeOK
<1>2. Written' = Written /\ Taken' = Taken /\ ItemsAgree'
  BY <1>1, NothingMoved
<1>3. Drop(1..given) /\ fault' = FALSE
  <2>1. PICK n \in 0..Written : n = given
    BY <1>1, Parts
  <2>2. InSlots(n) \ {None} = 1..n /\ (None \in InSlots(n)) = FALSE
    BY SlotsHold
  <2>3. fault = FALSE /\ n = Len(slot)
    BY <1>1, <2>1, Parts DEF TypeOK
  <2>4. /\ Drop(InSlots(n) \ {None})
        /\ fault' = (None \in InSlots(n)) \/ fault' = fault
    BY <2>3, Zenon
  <2>5. Drop(1..n) /\ fault' = FALSE
    BY <2>2, <2>3, <2>4, Zenon
  <2> QED BY <2>1, <2>5, Zenon
<1>4. DropsAgree' /\ drops' \in [Item -> Nat]
  <2>1. \A i \in Item : /\ i \in 1..given => ~Gone(i)
                        /\ Gone(i)' <=> Gone(i) \/ i \in 1..given
    BY <1>1, <1>2, Parts DEF Gone, Unwinding
  <2> QED BY <1>3, <2>1, ItemsDropped DEF Gone
<1>5. TypeOK' /\ MemoryAgrees'
  BY <1>1, <1>3, <1>4, Parts DEF TypeOK, MemoryAgrees
<1>6. StageAgrees'
  BY <1>1, <1>2, Parts DEF StageAgrees, Unwinding, Filled, Lazy, MAY_UNWIND
<1> QED BY <1>2, <1>4, <1>5, <1>6, Parts DEF ConstructionInv

LEMMA DropLastKeeps == ASSUME ConstructionInv, DropLast PROVE ConstructionInv'
BY ValueDropped DEF DropLast, input

LEMMA TryUnwrapKeeps == ASSUME ConstructionInv, TryUnwrap PROVE ConstructionInv'
BY ValueDropped DEF TryUnwrap, input

(* A step that changes nothing.                                            *)
LEMMA StutterKeeps == ASSUME ConstructionInv, UNCHANGED vars PROVE ConstructionInv'
<1>1. UNCHANGED <<kind, given, claimed, at, source, slot, initialized_len, mem, drops, fault>>
  BY DEF vars, input
<1>2. Written' = Written /\ Taken' = Taken
  BY <1>1, NothingMoved
<1>3. TypeOK' /\ MemoryAgrees'
  BY <1>1, Parts DEF TypeOK, MemoryAgrees
<1>4. \A i \in Item : Gone(i)' <=> Gone(i)
  BY <1>1, <1>2 DEF Gone
<1>5. StageAgrees'
  BY <1>1, <1>2, Parts DEF StageAgrees, Lazy, MAY_UNWIND
<1> QED BY <1>1, <1>3, <1>4, <1>5, OnlyPlace DEF Gone

-----------------------------------------------------------------------------
(* The invariant of every constructor and conversion but From<Box<T>>: the *)
(* items go through in order, the guard is at most one item behind, and    *)
(* what was dropped is what the guard, the source or the Brc let go of.    *)
THEOREM Invariance == ASSUME "box" \notin Source PROVE Spec => []ConstructionInv
<1>1. Init => ConstructionInv
  BY InitInv
<1>2. ASSUME ConstructionInv, [Next]_vars PROVE ConstructionInv'
  <2>1. CASE Construct
    <3>1. CASE PanicFirst  BY <1>2, <3>1, PanicFirstKeeps
    <3>2. CASE Buffer      BY <1>2, <3>2, BufferKeeps
    <3>3. CASE Allocate    BY <1>2, <3>3, AllocateKeeps
    <3>4. CASE Finish      BY <1>2, <3>4, FinishKeeps
    <3>5. CASE Move        BY <1>2, <3>5, MoveKeeps
    <3>6. CASE Call        BY <1>2, <3>6, CallKeeps
    <3>7. CASE Begin       BY <1>2, <3>7, BeginKeeps
    <3>8. CASE Yield       BY <1>2, <3>8, YieldKeeps
    <3>9. CASE NextPanics  BY <1>2, <3>9, NextPanicsKeeps
    <3>10. CASE LastNext   BY <1>2, <3>10, LastNextKeeps
    <3>11. CASE DropIter   BY <1>2, <3>11, DropIterKeeps
    <3> QED BY <2>1, <3>1, <3>2, <3>3, <3>4, <3>5, <3>6, <3>7, <3>8, <3>9,
               <3>10, <3>11 DEF Construct
  <2>2. CASE Unwind
    <3>1. CASE UnwindItems   BY <1>2, <3>1, UnwindItemsKeeps
    <3>2. CASE UnwindSource  BY <1>2, <3>2, UnwindSourceKeeps
    <3>3. CASE UnwindMemory  BY <1>2, <3>3, UnwindMemoryKeeps
    <3> QED BY <2>2, <3>1, <3>2, <3>3 DEF Unwind
  <2>3. CASE DropLast        BY <1>2, <2>3, DropLastKeeps
  <2>4. CASE TryUnwrap       BY <1>2, <2>4, TryUnwrapKeeps
  <2>5. CASE UNCHANGED vars  BY <1>2, <2>5, StutterKeeps
  <2> QED BY <1>2, <2>1, <2>2, <2>3, <2>4, <2>5 DEF Next
<1> QED BY <1>1, <1>2, PTL DEF Spec

(* No item is dropped twice and no unwritten memory is dropped, wherever   *)
(* the allocator, next or a destructor of the iterator panics.             *)
THEOREM NoDoubleDrop == ASSUME "box" \notin Source PROVE Spec => []DroppedOnce
<1>1. ConstructionInv => DroppedOnce
  BY Parts DEF DroppedOnce, DropsAgree, Gone
<1> QED BY <1>1, Invariance, PTL

(* A Brc that is returned has every item of its source in order, whatever  *)
(* length the iterator claimed to have.                                    *)
THEOREM ReturnedWhole == ASSUME "box" \notin Source PROVE Spec => []Whole
<1>1. ASSUME ConstructionInv, at = "returned"
      PROVE  /\ slot = [k \in 1..given |-> k]
             /\ source = <<>>
             /\ \A i \in Item : drops[i] = 0
  <2>1. /\ Written = claimed /\ claimed = given /\ Taken = given /\ mem = "allocated"
    BY <1>1, Parts DEF StageAgrees, Unwinding, Filled, MemoryAgrees, TypeOK
  <2>2. slot = [k \in 1..given |-> IF k =< given THEN k ELSE None]
    BY <2>1, <1>1, Parts DEF ItemsAgree
  <2>3. slot = [k \in 1..given |-> k]
    BY <2>2, <1>1, Parts
  <2>4. source \in Seq(Item) /\ Len(source) = 0
    BY <2>1, <1>1, Parts, Contents DEF TypeOK
  <2>5. \A i \in Item : ~Gone(i)
    BY <1>1, <2>1, Parts DEF Gone, Unwinding
  <2> QED BY <1>1, <2>3, <2>4, <2>5, Parts DEF DropsAgree
<1>2. ConstructionInv => Whole
  BY <1>1 DEF Whole
<1> QED BY <1>2, Invariance, PTL

(* Nothing is kept in the end but the item the guard was behind with when  *)
(* next panicked after the last one, and the memory of try_unwrap.         *)
THEOREM AllReleased == ASSUME "box" \notin Source PROVE Spec => []Released
<1>1. ASSUME ConstructionInv, at \in {"panicked", "dropped", "unwrapped"},
             NEW i \in 1..given
      PROVE  \/ drops[i] = 1
             \/ Lazy /\ i \in InSource
             \/ at = "panicked" /\ i = claimed /\ Written = claimed
  <2>1. i \in Item /\ i \in Nat
    BY <1>1, Parts
  <2>2. Gone(i) => drops[i] = 1
    BY <1>1, <2>1, Parts DEF DropsAgree
  <2>3. InSource = (Taken + 1)..given
    BY <1>1, Contents
  <2>4. CASE at # "panicked"
    BY <1>1, <2>1, <2>2, <2>4, Parts DEF Gone
  <2>5. CASE at = "panicked" /\ i =< Written
    BY <2>1, <2>2, <2>5, <1>1, Parts DEF Gone, StageAgrees, Unwinding, Filled
  <2>6. CASE at = "panicked" /\ Written < i
    <3>1. CASE Lazy
      BY <2>1, <2>3, <2>6, <3>1, <1>1, Parts DEF StageAgrees
    <3>2. CASE ~Lazy
      <4>1. source = <<>>
        BY <2>6, <3>2, <1>1, Parts DEF StageAgrees
      <4>2. Taken = given
        BY <4>1, <1>1, Parts, Contents
      <4> QED BY <2>1, <2>2, <2>6, <4>2, <1>1, Parts DEF Gone
    <3> QED BY <3>1, <3>2
  <2> QED BY <2>1, <2>4, <2>5, <2>6, <1>1, Parts
<1>2. ConstructionInv => (mem = "allocated" => at \notin {"panicked", "dropped"})
  BY Parts DEF MemoryAgrees
<1>3. ConstructionInv => Released
  BY <1>1, <1>2 DEF Released
<1> QED BY <1>3, Invariance, PTL
=============================================================================
