-------------------------- MODULE ThreadIdsProofs --------------------------
(***************************************************************************)
(* Proofs about ThreadIds, for any threads and objects and any number of   *)
(* ids: the inductive invariant IdsInv, and what follows from it, up to    *)
(* the refinement of Ownership.                                            *)
(***************************************************************************)
EXTENDS ThreadIds, FiniteSetTheorems, TLAPS

(* The length of the table, and its indices.                               *)
LEMMA TableLength ==
    ASSUME IdsTypeOK
    PROVE  Len(table) \in Nat /\ DOMAIN table = 1..Len(table)
  BY DEF IdsTypeOK

(* Setting the state flag of an entry changes nothing else in the table.   *)
LEMMA FlagSet ==
    ASSUME IdsTypeOK, NEW i \in DOMAIN table, NEW flag \in Entry, SetFlag(i, flag)
    PROVE  /\ table' \in Seq(Entry)
           /\ Len(table') = Len(table)
           /\ DOMAIN table' = DOMAIN table
           /\ table'[i] = flag
           /\ \A j \in DOMAIN table : j # i => table'[j] = table[j]
  BY DEF IdsTypeOK, SetFlag

(* push_with reserves an entry at the end of the table.                    *)
LEMMA Pushed ==
    ASSUME IdsTypeOK, table' = Append(table, "reserved")
    PROVE  /\ table' \in Seq(Entry)
           /\ Len(table') = Len(table) + 1
           /\ DOMAIN table = 1..Len(table)
           /\ DOMAIN table' = 1..(Len(table) + 1)
           /\ table'[Len(table) + 1] = "reserved"
           /\ \A j \in DOMAIN table : table'[j] = table[j]
  BY DEF IdsTypeOK, Entry

(* Before any thread is initialised the invariant holds.                   *)
LEMMA InitKeeps == ASSUME Init PROVE IdsInv
<1>1. IdsTypeOK
  <2>1. table \in Seq(Entry)
    BY DEF Init
  <2>2. fault \in {"none", "already_initialized"} /\ exhausted \in BOOLEAN
    BY DEF Init
  <2> QED BY <2>1, <2>2 DEF Init, IdsTypeOK, Tls, At
<1>2. DOMAIN table = {} /\ Len(table) = 0
  BY DEF Init
<1>3. Running /\ ClaimsDistinct /\ ThreadAgrees
  BY DEF Init, Running, ClaimsDistinct, Claim, Initialising, ThreadAgrees
<1>4. EntryAgrees /\ TableAgrees
  BY <1>2 DEF Init, EntryAgrees, TableAgrees
<1>5. HeaderAgrees /\ ExhaustedAgrees
  BY <1>2 DEF Init, HeaderAgrees, ExhaustedAgrees
<1> QED BY <1>1, <1>3, <1>4, <1>5 DEF IdsInv

(* init_thread, up to push_with: only a thread that has no id yet gets     *)
(* there.                                                                  *)
LEMMA InitThreadKeeps ==
    ASSUME IdsInv, NEW t \in Thread, InitThread(t)
    PROVE  IdsInv'
<1>a. /\ status[t] # "Active"
      /\ tls[t] \in {"unset", "destroyed"} /\ at[t] = "idle"
      /\ \/ /\ status[t] = "DeadOrDying"
            /\ tls' = [tls EXCEPT ![t] = "already_died"] /\ at' = at
         \/ /\ status[t] = "Uninit" /\ exhausted
            /\ tls' = [tls EXCEPT ![t] = "overflow"] /\ at' = at
         \/ /\ status[t] = "Uninit" /\ ~exhausted
            /\ tls' = tls /\ at' = [at EXCEPT ![t] = "push"]
      /\ fault' = "none"
      /\ UNCHANGED <<table, exhausted, local, status, short_id, watched, index>>
      /\ UNCHANGED <<maker, owner_id>>
  BY DEF InitThread, Step, Goto, IdsInv, IdsTypeOK, ThreadAgrees, Running,
         global, fast, header
<1>1. Running'
  BY ThreadIdsAssumption, TableLength, <1>a
  DEF IdsTypeOK, Running, ThreadAgrees, EntryAgrees, HeaderAgrees, Found,
      Flag, Unreachable, ExistingShortId, Initialising
<1>2. IdsTypeOK'
  BY ThreadIdsAssumption, TableLength, <1>a
  DEF IdsInv, IdsTypeOK, Entry, Flag, Tls, At, ShortId, Running
<1>3. ClaimsDistinct'
  BY ThreadIdsAssumption, TableLength, <1>a
  DEF IdsInv, IdsTypeOK, ClaimsDistinct, Claim, Initialising, ThreadAgrees,
      EntryAgrees
<1>4. ThreadAgrees'
  BY <1>a DEF IdsInv, IdsTypeOK, ThreadAgrees, Initialising, ExhaustedAgrees
<1>5. EntryAgrees'
  BY ThreadIdsAssumption, TableLength, <1>a
  DEF IdsInv, IdsTypeOK, EntryAgrees, ClaimsDistinct, Claim, Initialising,
      ThreadAgrees, Fits, TableAgrees, Flag, HeaderAgrees, NamesMaker, Found
<1>6. TableAgrees'
  <2>1. \A u \in Thread : Claim(u)' = Claim(u)
    BY <1>a DEF IdsInv, Claim, Initialising, IdsTypeOK, thread, fast, header
  <2> QED BY <2>1, ThreadIdsAssumption, <1>a DEF IdsInv, TableAgrees
<1>7. HeaderAgrees'
  BY ThreadIdsAssumption, TableLength, <1>a
  DEF IdsInv, IdsTypeOK, HeaderAgrees, NamesMaker, Found, Flag, Initialising,
      ThreadAgrees, EntryAgrees, TableAgrees, ClaimsDistinct, Claim,
      ExistingShortId, Fits, ShortId
<1>8. ExhaustedAgrees'
  BY ThreadIdsAssumption, TableLength, <1>a
  DEF IdsInv, IdsTypeOK, ExhaustedAgrees, Fits, EntryAgrees, ThreadAgrees,
      Initialising
<1> QED BY <1>1, <1>2, <1>3, <1>4, <1>5, <1>6, <1>7, <1>8 DEF IdsInv

(* A reserved entry is claimed by the thread that reserved it.             *)
LEMMA PushKeeps ==
    ASSUME IdsInv, NEW t \in Thread, Push(t)
    PROVE  IdsInv'
<1>a. /\ table' \in Seq(Entry)
      /\ Len(table') = Len(table) + 1
      /\ DOMAIN table' = 1..(Len(table) + 1)
      /\ table'[Len(table) + 1] = "reserved"
      /\ \A j \in DOMAIN table : table'[j] = table[j]
  BY Pushed DEF Push, IdsInv
<1>1. Running'
  BY ThreadIdsAssumption, TableLength, <1>a
  DEF Push, Step, header, IdsTypeOK, Running, ThreadAgrees, EntryAgrees,
      HeaderAgrees, Found, Flag, Unreachable, ExistingShortId, Initialising
<1>2. IdsTypeOK'
  BY ThreadIdsAssumption, TableLength, <1>a
  DEF IdsInv, Push, Goto, fast, header, IdsTypeOK, Entry, Flag, Tls, At,
      ShortId, Running
<1>3. ClaimsDistinct'
  BY ThreadIdsAssumption, TableLength, <1>a
  DEF IdsInv, Push, Goto, header, IdsTypeOK, ClaimsDistinct, Claim,
      Initialising, ThreadAgrees, EntryAgrees
<1>4. ThreadAgrees'
  BY ThreadIdsAssumption, TableLength, <1>a
  DEF IdsInv, Push, Step, Goto, fast, header, IdsTypeOK, ThreadAgrees,
      Initialising, ShortId, EntryAgrees, Fits
<1>5. EntryAgrees'
  BY ThreadIdsAssumption, TableLength, <1>a
  DEF IdsInv, Push, Step, Goto, header, IdsTypeOK, EntryAgrees,
      ClaimsDistinct, Claim, Initialising, ThreadAgrees, Fits, TableAgrees,
      Flag, HeaderAgrees, NamesMaker, Found
<1>6. TableAgrees'
  <2>1. Claim(t)' = Len(table) + 1 /\ Claim(t) = None
    BY DEF IdsInv, Push, Step, Goto, Claim, Initialising, IdsTypeOK,
           ThreadAgrees
  <2>2. \A u \in Thread \ {t} : Claim(u)' = Claim(u)
    BY DEF Push, Goto, Claim, Initialising
  <2>3. \A j \in DOMAIN table : None # j
    BY ThreadIdsAssumption, TableLength
  <2> QED BY <2>1, <2>2, <2>3, <1>a, TableLength DEF IdsInv, TableAgrees, Flag
<1>7. HeaderAgrees'
  BY ThreadIdsAssumption, TableLength, <1>a
  DEF IdsInv, Push, Goto, header, IdsTypeOK, HeaderAgrees, NamesMaker, Found,
      Flag, Initialising, ThreadAgrees, EntryAgrees, TableAgrees,
      ClaimsDistinct, Claim, ExistingShortId, Fits, ShortId
<1>8. ExhaustedAgrees'
  BY ThreadIdsAssumption, TableLength, <1>a
  DEF IdsInv, Push, Goto, fast, header, IdsTypeOK, ExhaustedAgrees, Fits,
      EntryAgrees, ThreadAgrees, Initialising
<1> QED BY <1>1, <1>2, <1>3, <1>4, <1>5, <1>6, <1>7, <1>8 DEF IdsInv

(* The closure of push_with: the exhaustion flag is set by a thread whose  *)
(* index is no id.                                                         *)
LEMMA FillKeeps ==
    ASSUME IdsInv, NEW t \in Thread, Fill(t)
    PROVE  IdsInv'
<1>1. Running'
  BY ThreadIdsAssumption, TableLength
  DEF Fill, Step, header, IdsTypeOK, Running, ThreadAgrees, EntryAgrees,
      HeaderAgrees, Found, Flag, Unreachable, ExistingShortId, Initialising
<1>2. IdsTypeOK'
  BY ThreadIdsAssumption, TableLength
  DEF IdsInv, Fill, Goto, fast, header, IdsTypeOK, Entry, Flag, Tls, At,
      ShortId, Running
<1>3. ClaimsDistinct'
  BY ThreadIdsAssumption, TableLength
  DEF IdsInv, Fill, Step, Goto, header, IdsTypeOK, ClaimsDistinct, Claim,
      Initialising, ThreadAgrees, EntryAgrees
<1>4. ThreadAgrees'
  BY ThreadIdsAssumption, TableLength
  DEF IdsInv, Fill, Step, Goto, fast, header, IdsTypeOK, ThreadAgrees,
      Initialising, ShortId, EntryAgrees, Fits
<1>5. EntryAgrees'
  BY ThreadIdsAssumption, TableLength
  DEF IdsInv, Fill, Step, Goto, header, IdsTypeOK, EntryAgrees,
      ClaimsDistinct, Claim, Initialising, ThreadAgrees, Fits, TableAgrees,
      Flag, HeaderAgrees, NamesMaker, Found
<1>6. TableAgrees'
  BY ThreadIdsAssumption, TableLength
  DEF IdsInv, Fill, Step, Goto, global, fast, thread, header, IdsTypeOK,
      TableAgrees, Claim, Initialising, ThreadAgrees, EntryAgrees, Fits, Flag,
      ClaimsDistinct
<1>7. HeaderAgrees'
  BY ThreadIdsAssumption, TableLength
  DEF IdsInv, Fill, Step, Goto, header, IdsTypeOK, HeaderAgrees, NamesMaker,
      Found, Flag, Initialising, ThreadAgrees, EntryAgrees, TableAgrees,
      ClaimsDistinct, Claim, ExistingShortId, Fits, ShortId
<1>8. ExhaustedAgrees'
  <2>1. exhausted' <=> exhausted \/ ~Fits(index[t])
    BY <1>2 DEF Fill
  <2>2. index[t] \in 1..Len(table) /\ Len(table) \in Nat
    BY DEF IdsInv, Fill, Step, EntryAgrees
  <2> QED
    BY <2>1, <2>2, ThreadIdsAssumption
    DEF IdsInv, Fill, Goto, ExhaustedAgrees, Fits, fast, ThreadAgrees
<1> QED BY <1>1, <1>2, <1>3, <1>4, <1>5, <1>6, <1>7, <1>8 DEF IdsInv

(* An entry is published as live if its index is an id, and as an error if *)
(* not.                                                                    *)
LEMMA PublishKeeps ==
    ASSUME IdsInv, NEW t \in Thread, Publish(t)
    PROVE  IdsInv'
<1> DEFINE i == index[t]
           flag == IF Fits(index[t]) THEN "Live" ELSE "error"
<1>a. i \in DOMAIN table /\ flag \in Entry
  BY DEF IdsInv, Publish, Step, EntryAgrees, Flag, Entry, IdsTypeOK
<1>b. SetFlag(i, flag)
  BY DEF Publish
<1>c. /\ table' \in Seq(Entry)
      /\ Len(table') = Len(table)
      /\ DOMAIN table' = DOMAIN table
      /\ table'[i] = flag
      /\ \A j \in DOMAIN table : j # i => table'[j] = table[j]
  <2> HIDE DEF i, flag
  <2> QED BY <1>a, <1>b, FlagSet DEF IdsInv
<1>1. Running'
  BY ThreadIdsAssumption, TableLength, <1>a, <1>c
  DEF Publish, Step, header, IdsTypeOK, Running, ThreadAgrees, EntryAgrees,
      HeaderAgrees, Found, Flag, Unreachable, ExistingShortId, Initialising
<1>2. IdsTypeOK'
  BY ThreadIdsAssumption, TableLength, <1>a, <1>c
  DEF IdsInv, Publish, Goto, fast, header, IdsTypeOK, Entry, Flag, Tls, At,
      ShortId, Running
<1>3. ClaimsDistinct'
  BY ThreadIdsAssumption, TableLength, <1>a, <1>c
  DEF IdsInv, Publish, Step, Goto, header, IdsTypeOK, ClaimsDistinct, Claim,
      Initialising, ThreadAgrees, EntryAgrees
<1>4. ThreadAgrees'
  BY ThreadIdsAssumption, TableLength, <1>a, <1>c
  DEF IdsInv, Publish, Step, Goto, fast, header, IdsTypeOK, ThreadAgrees,
      Initialising, ShortId, EntryAgrees, Fits
<1>5. EntryAgrees'
  BY ThreadIdsAssumption, TableLength, <1>a, <1>c
  DEF IdsInv, Publish, Step, Goto, header, IdsTypeOK, EntryAgrees,
      ClaimsDistinct, Claim, Initialising, ThreadAgrees, Fits, TableAgrees,
      Flag, HeaderAgrees, NamesMaker, Found
<1>6. TableAgrees'
  BY ThreadIdsAssumption, TableLength, <1>a, <1>c
  DEF IdsInv, Publish, Step, Goto, header, IdsTypeOK, TableAgrees, Claim,
      Initialising, ThreadAgrees, EntryAgrees, Fits, Flag, ClaimsDistinct
<1>7. HeaderAgrees'
  BY ThreadIdsAssumption, TableLength, <1>a, <1>c
  DEF IdsInv, Publish, Step, Goto, header, IdsTypeOK, HeaderAgrees,
      NamesMaker, Found, Flag, Initialising, ThreadAgrees, EntryAgrees,
      TableAgrees, ClaimsDistinct, Claim, ExistingShortId, Fits, ShortId
<1>8. ExhaustedAgrees'
  BY ThreadIdsAssumption, TableLength, <1>a, <1>c
  DEF IdsInv, Publish, Step, Goto, fast, header, IdsTypeOK, ExhaustedAgrees,
      Fits, EntryAgrees, ThreadAgrees, Initialising
<1> QED BY <1>1, <1>2, <1>3, <1>4, <1>5, <1>6, <1>7, <1>8 DEF IdsInv

(* The rest of init_thread: the fast state was as its assertion says.      *)
LEMMA AdoptKeeps ==
    ASSUME IdsInv, NEW t \in Thread, Adopt(t)
    PROVE  IdsInv'
<1>1. Running'
  BY ThreadIdsAssumption, TableLength
  DEF IdsInv, Adopt, Step, Goto, global, fast, thread, header, IdsTypeOK,
      Running, ThreadAgrees, EntryAgrees, HeaderAgrees, Found, Flag,
      Unreachable, ExistingShortId, Initialising
<1>2. IdsTypeOK'
  <2>1. table[index[t]] # "error" => index[t] \in ShortId
    BY ThreadIdsAssumption, TableLength
    DEF IdsInv, Adopt, Step, EntryAgrees, Fits, ShortId
  <2>2. fault' = "none"
    BY <1>1 DEF Running
  <2> QED
    BY <2>1, <2>2
    DEF IdsInv, IdsTypeOK, Adopt, Goto, global, fast, header, Tls, At
<1>3. ClaimsDistinct'
  BY ThreadIdsAssumption, TableLength
  DEF IdsInv, Adopt, Step, Goto, header, IdsTypeOK, ClaimsDistinct, Claim,
      Initialising, ThreadAgrees, EntryAgrees
<1>4. ThreadAgrees'
  BY ThreadIdsAssumption, TableLength
  DEF IdsInv, Adopt, Step, Goto, fast, header, IdsTypeOK, ThreadAgrees,
      Initialising, ShortId, EntryAgrees, Fits
<1>5. EntryAgrees'
  BY ThreadIdsAssumption, TableLength
  DEF IdsInv, Adopt, Step, Goto, global, header, IdsTypeOK, EntryAgrees,
      ClaimsDistinct, Claim, Initialising, ThreadAgrees, Fits, TableAgrees,
      Flag, HeaderAgrees, NamesMaker, Found
<1>6. TableAgrees'
  BY ThreadIdsAssumption, TableLength
  DEF IdsInv, Adopt, Step, Goto, global, header, IdsTypeOK, TableAgrees,
      Claim, Initialising, ThreadAgrees, EntryAgrees, Fits, Flag,
      ClaimsDistinct
<1>7. HeaderAgrees'
  BY ThreadIdsAssumption, TableLength
  DEF IdsInv, Adopt, Step, Goto, global, header, IdsTypeOK, HeaderAgrees,
      NamesMaker, Found, Flag, Initialising, ThreadAgrees, EntryAgrees,
      TableAgrees, ClaimsDistinct, Claim, ExistingShortId, Fits, ShortId
<1>8. ExhaustedAgrees'
  BY ThreadIdsAssumption, TableLength
  DEF IdsInv, Adopt, Step, Goto, global, header, IdsTypeOK, ExhaustedAgrees,
      Fits, EntryAgrees, ThreadAgrees, Initialising
<1> QED BY <1>1, <1>2, <1>3, <1>4, <1>5, <1>6, <1>7, <1>8 DEF IdsInv

(* RawBrcHeader::init: the id put into the header is the maker's.          *)
LEMMA InitHeaderKeeps ==
    ASSUME IdsInv, NEW t \in Thread, NEW x \in Object, InitHeader(t, x)
    PROVE  IdsInv'
<1>1. Running'
  BY ThreadIdsAssumption, TableLength
  DEF IdsInv, InitHeader, header, IdsTypeOK, Running, ThreadAgrees,
      EntryAgrees, HeaderAgrees, Found, Flag, Unreachable, ExistingShortId,
      Initialising
<1>2. IdsTypeOK'
  <2>1. ExistingShortId(t) \in ShortId \cup {None}
    BY DEF IdsInv, IdsTypeOK, ExistingShortId
  <2> QED BY <2>1 DEF IdsInv, IdsTypeOK, InitHeader, global, thread, fast
<1>3. ClaimsDistinct'
  BY ThreadIdsAssumption, TableLength
  DEF IdsInv, InitHeader, thread, header, IdsTypeOK, ClaimsDistinct, Claim,
      Initialising, ThreadAgrees, EntryAgrees
<1>4. ThreadAgrees'
  BY ThreadIdsAssumption, TableLength
  DEF IdsInv, InitHeader, fast, thread, header, IdsTypeOK, ThreadAgrees,
      Initialising, ShortId, EntryAgrees, Fits
<1>5. EntryAgrees'
  BY ThreadIdsAssumption, TableLength
  DEF IdsInv, InitHeader, global, thread, header, IdsTypeOK, EntryAgrees,
      ClaimsDistinct, Claim, Initialising, ThreadAgrees, Fits, TableAgrees,
      Flag, HeaderAgrees, NamesMaker, Found
<1>6. TableAgrees'
  BY ThreadIdsAssumption, TableLength
  DEF IdsInv, InitHeader, global, thread, header, IdsTypeOK, TableAgrees,
      Claim, Initialising, ThreadAgrees, EntryAgrees, Fits, Flag,
      ClaimsDistinct
<1>7. HeaderAgrees'
  <2>1. /\ ExistingShortId(t) # None =>
              ExistingShortId(t) = local[t] /\ Claim(t) = local[t]
        /\ local[t] # None => Found(local[t])
    BY ThreadIdsAssumption
    DEF IdsInv, ExistingShortId, Claim, ThreadAgrees, EntryAgrees, Found,
        Flag, IdsTypeOK
  <2>2. ExistingShortId(t) # None =>
          /\ NamesMaker(local[t])
          /\ \A u \in Thread : local[u] = local[t] => u = t
    BY <2>1 DEF IdsInv, ClaimsDistinct, Claim, NamesMaker, ThreadAgrees
  <2>3. t # None /\ maker' = [maker EXCEPT ![x] = t] /\ maker[x] = None
        /\ owner_id' = [owner_id EXCEPT ![x] = ExistingShortId(t)]
    BY ThreadIdsAssumption DEF InitHeader
  <2>4. UNCHANGED <<table, at, index, local>>
    BY DEF InitHeader, global, thread
  <2> QED
    BY <2>1, <2>2, <2>3, <2>4
    DEF IdsInv, HeaderAgrees, NamesMaker, Found, IdsTypeOK, Initialising
<1>8. ExhaustedAgrees'
  BY ThreadIdsAssumption, TableLength
  DEF IdsInv, InitHeader, global, fast, thread, header, IdsTypeOK,
      ExhaustedAgrees, Fits, EntryAgrees, ThreadAgrees, Initialising
<1> QED BY <1>1, <1>2, <1>3, <1>4, <1>5, <1>6, <1>7, <1>8 DEF IdsInv

(* A merge clears the owner of a header.                                   *)
LEMMA UnownKeeps ==
    ASSUME IdsInv, NEW t \in Thread, NEW x \in Object, Unown(t, x)
    PROVE  IdsInv'
<1>1. Running'
  BY ThreadIdsAssumption, TableLength
  DEF Unown, header, IdsTypeOK, Running, ThreadAgrees, EntryAgrees,
      HeaderAgrees, Found, Flag, Unreachable, ExistingShortId, Initialising
<1>2. IdsTypeOK'
  BY ThreadIdsAssumption, TableLength
  DEF IdsInv, Unown, global, fast, thread, header, IdsTypeOK, Entry, Flag,
      Tls, At, ShortId, Running
<1>3. ClaimsDistinct'
  BY ThreadIdsAssumption, TableLength
  DEF IdsInv, Unown, thread, header, IdsTypeOK, ClaimsDistinct, Claim,
      Initialising, ThreadAgrees, EntryAgrees
<1>4. ThreadAgrees'
  BY ThreadIdsAssumption, TableLength
  DEF IdsInv, Unown, fast, thread, header, IdsTypeOK, ThreadAgrees,
      Initialising, ShortId, EntryAgrees, Fits
<1>5. EntryAgrees'
  BY ThreadIdsAssumption, TableLength
  DEF IdsInv, Unown, global, thread, header, IdsTypeOK, EntryAgrees,
      ClaimsDistinct, Claim, Initialising, ThreadAgrees, Fits, TableAgrees,
      Flag, HeaderAgrees, NamesMaker, Found
<1>6. TableAgrees'
  BY ThreadIdsAssumption, TableLength
  DEF IdsInv, Unown, global, thread, header, IdsTypeOK, TableAgrees, Claim,
      Initialising, ThreadAgrees, EntryAgrees, Fits, Flag, ClaimsDistinct
<1>7. HeaderAgrees'
  BY ThreadIdsAssumption, TableLength
  DEF IdsInv, Unown, global, thread, header, IdsTypeOK, HeaderAgrees,
      NamesMaker, Found, Flag, Initialising, ThreadAgrees, EntryAgrees,
      TableAgrees, ClaimsDistinct, Claim, ExistingShortId, Fits, ShortId
<1>8. ExhaustedAgrees'
  BY ThreadIdsAssumption, TableLength
  DEF IdsInv, Unown, global, fast, thread, header, IdsTypeOK, ExhaustedAgrees,
      Fits, EntryAgrees, ThreadAgrees, Initialising
<1> QED BY <1>1, <1>2, <1>3, <1>4, <1>5, <1>6, <1>7, <1>8 DEF IdsInv

(* decrement_shared_do_queue has taken an id from a header.                *)
LEMMA LoadOwnerKeeps ==
    ASSUME IdsInv, NEW t \in Thread, NEW x \in Object, LoadOwner(t, x)
    PROVE  IdsInv'
<1>1. Running'
  BY ThreadIdsAssumption, TableLength
  DEF LoadOwner, Step, header, IdsTypeOK, Running, ThreadAgrees, EntryAgrees,
      HeaderAgrees, Found, Flag, Unreachable, ExistingShortId, Initialising
<1>2. IdsTypeOK'
  BY ThreadIdsAssumption, TableLength
  DEF IdsInv, LoadOwner, Goto, global, fast, header, IdsTypeOK, Entry, Flag,
      Tls, At, ShortId, Running
<1>3. ClaimsDistinct'
  BY ThreadIdsAssumption, TableLength
  DEF IdsInv, LoadOwner, Goto, global, header, IdsTypeOK, ClaimsDistinct,
      Claim, Initialising, ThreadAgrees, EntryAgrees
<1>4. ThreadAgrees'
  BY ThreadIdsAssumption, TableLength
  DEF IdsInv, LoadOwner, Goto, fast, header, IdsTypeOK, ThreadAgrees,
      Initialising, ShortId, EntryAgrees, Fits
<1>5. EntryAgrees'
  BY ThreadIdsAssumption, TableLength
  DEF IdsInv, LoadOwner, Step, Goto, global, header, IdsTypeOK, EntryAgrees,
      ClaimsDistinct, Claim, Initialising, ThreadAgrees, Fits, TableAgrees,
      Flag, HeaderAgrees, NamesMaker, Found
<1>6. TableAgrees'
  BY ThreadIdsAssumption, TableLength
  DEF IdsInv, LoadOwner, Step, Goto, global, header, IdsTypeOK, TableAgrees,
      Claim, Initialising, ThreadAgrees, EntryAgrees, Fits, Flag,
      ClaimsDistinct
<1>7. HeaderAgrees'
  BY ThreadIdsAssumption, TableLength
  DEF IdsInv, LoadOwner, Goto, global, header, IdsTypeOK, HeaderAgrees,
      NamesMaker, Found, Flag, Initialising, ThreadAgrees, EntryAgrees,
      TableAgrees, ClaimsDistinct, Claim, ExistingShortId, Fits, ShortId
<1>8. ExhaustedAgrees'
  BY ThreadIdsAssumption, TableLength
  DEF IdsInv, LoadOwner, Goto, global, fast, header, IdsTypeOK,
      ExhaustedAgrees, Fits, EntryAgrees, ThreadAgrees, Initialising
<1> QED BY <1>1, <1>2, <1>3, <1>4, <1>5, <1>6, <1>7, <1>8 DEF IdsInv

(* get_by_id finds the entry of an id that was in a header, and            *)
(* queue_object may set its flag.                                          *)
LEMMA GetByIdKeeps ==
    ASSUME IdsInv, NEW t \in Thread, GetById(t)
    PROVE  IdsInv'
<1> DEFINE i == index[t]
           flag == IF table[index[t]] = "Live" THEN "QueuedObjects" ELSE table[index[t]]
<1>a. i \in DOMAIN table /\ flag \in Entry
  BY DEF IdsInv, GetById, Step, EntryAgrees, Flag, Entry, IdsTypeOK
<1>b. SetFlag(i, flag)
  BY DEF IdsInv, GetById, Step, HeaderAgrees
<1>c. /\ table' \in Seq(Entry)
      /\ Len(table') = Len(table)
      /\ DOMAIN table' = DOMAIN table
      /\ table'[i] = flag
      /\ \A j \in DOMAIN table : j # i => table'[j] = table[j]
  <2> HIDE DEF i, flag
  <2> QED BY <1>a, <1>b, FlagSet DEF IdsInv
<1>1. Running'
  BY ThreadIdsAssumption, TableLength, <1>a, <1>c
  DEF IdsInv, GetById, Step, header, IdsTypeOK, Running, ThreadAgrees,
      EntryAgrees, HeaderAgrees, Found, Flag, Unreachable, ExistingShortId,
      Initialising
<1>2. IdsTypeOK'
  BY ThreadIdsAssumption, TableLength, <1>a, <1>c
  DEF IdsInv, GetById, Goto, fast, header, IdsTypeOK, Entry, Flag, Tls, At,
      ShortId, Running
<1>3. ClaimsDistinct'
  BY ThreadIdsAssumption, TableLength, <1>a, <1>c
  DEF IdsInv, GetById, Goto, header, IdsTypeOK, ClaimsDistinct, Claim,
      Initialising, ThreadAgrees, EntryAgrees
<1>4. ThreadAgrees'
  BY ThreadIdsAssumption, TableLength, <1>a, <1>c
  DEF IdsInv, GetById, Goto, fast, header, IdsTypeOK, ThreadAgrees,
      Initialising, ShortId, EntryAgrees, Fits
<1>5. EntryAgrees'
  BY ThreadIdsAssumption, TableLength, <1>a, <1>c
  DEF IdsInv, GetById, Step, Goto, header, IdsTypeOK, EntryAgrees,
      ClaimsDistinct, Claim, Initialising, ThreadAgrees, Fits, TableAgrees,
      Flag, HeaderAgrees, NamesMaker, Found
<1>6. TableAgrees'
  <2>1. \A u \in Thread : Claim(u)' = Claim(u)
    BY ThreadIdsAssumption
    DEF GetById, Step, Goto, Claim, Initialising, thread, fast, header
  <2> QED
    BY <2>1, ThreadIdsAssumption, <1>a, <1>c
    DEF IdsInv, TableAgrees, Flag
<1>7. HeaderAgrees'
  <2>1. table[i] \in Flag /\ flag \in Flag
    BY <1>a DEF IdsInv, GetById, Step, HeaderAgrees, Found, Flag
  <2>2. \A j : Found(j)' <=> Found(j)
    <3> HIDE DEF i, flag
    <3> QED BY <1>c, <2>1 DEF Found
  <2>3. \A j : NamesMaker(j) => NamesMaker(j)'
    BY DEF GetById, Goto, NamesMaker, Initialising, thread, fast
  <2>4. \A j \in DOMAIN table : table'[j] = "QueuedObjects" => NamesMaker(j)
    BY <1>c DEF IdsInv, GetById, Step, HeaderAgrees
  <2> QED
    BY <1>c, <2>2, <2>3, <2>4
    DEF IdsInv, GetById, Goto, HeaderAgrees, fast, header
<1>8. ExhaustedAgrees'
  BY ThreadIdsAssumption, TableLength, <1>a, <1>c
  DEF IdsInv, GetById, Goto, fast, header, IdsTypeOK, ExhaustedAgrees, Fits,
      EntryAgrees, ThreadAgrees, Initialising
<1> QED BY <1>1, <1>2, <1>3, <1>4, <1>5, <1>6, <1>7, <1>8 DEF IdsInv

(* A collection sets its own thread's flag back.                           *)
LEMMA CollectKeeps ==
    ASSUME IdsInv, NEW t \in Thread, Collect(t)
    PROVE  IdsInv'
<1> DEFINE i == local[t]
           flag == IF table[local[t]] = "QueuedObjects" THEN "Live" ELSE table[local[t]]
<1>a. i \in DOMAIN table /\ flag \in Entry
  BY DEF IdsInv, Collect, EntryAgrees, ThreadAgrees, Flag, Entry, IdsTypeOK
<1>b. SetFlag(i, flag)
  BY DEF Collect
<1>c. /\ table' \in Seq(Entry)
      /\ Len(table') = Len(table)
      /\ DOMAIN table' = DOMAIN table
      /\ table'[i] = flag
      /\ \A j \in DOMAIN table : j # i => table'[j] = table[j]
  <2> HIDE DEF i, flag
  <2> QED BY <1>a, <1>b, FlagSet DEF IdsInv
<1>1. Running'
  BY ThreadIdsAssumption, TableLength, <1>a, <1>c
  DEF Collect, Step, header, IdsTypeOK, Running, ThreadAgrees, EntryAgrees,
      HeaderAgrees, Found, Flag, Unreachable, ExistingShortId, Initialising
<1>2. IdsTypeOK'
  BY ThreadIdsAssumption, TableLength, <1>a, <1>c
  DEF IdsInv, Collect, fast, thread, header, IdsTypeOK, Entry, Flag, Tls, At,
      ShortId, Running
<1>3. ClaimsDistinct'
  BY ThreadIdsAssumption, TableLength, <1>a, <1>c
  DEF IdsInv, Collect, thread, header, IdsTypeOK, ClaimsDistinct, Claim,
      Initialising, ThreadAgrees, EntryAgrees
<1>4. ThreadAgrees'
  BY ThreadIdsAssumption, TableLength, <1>a, <1>c
  DEF IdsInv, Collect, fast, thread, header, IdsTypeOK, ThreadAgrees,
      Initialising, ShortId, EntryAgrees, Fits
<1>5. EntryAgrees'
  BY ThreadIdsAssumption, TableLength, <1>a, <1>c
  DEF IdsInv, Collect, thread, header, IdsTypeOK, EntryAgrees, ClaimsDistinct,
      Claim, Initialising, ThreadAgrees, Fits, TableAgrees, Flag,
      HeaderAgrees, NamesMaker, Found
<1>6. TableAgrees'
  BY ThreadIdsAssumption, TableLength, <1>a, <1>c
  DEF IdsInv, Collect, thread, header, IdsTypeOK, TableAgrees, Claim,
      Initialising, ThreadAgrees, EntryAgrees, Fits, Flag, ClaimsDistinct
<1>7. HeaderAgrees'
  <2>1. table[i] \in Flag /\ flag \in Flag
    BY <1>a DEF IdsInv, Collect, EntryAgrees, Flag
  <2>2. \A j : Found(j)' <=> Found(j)
    <3> HIDE DEF i, flag
    <3> QED BY <1>c, <2>1 DEF Found
  <2>3. \A j : NamesMaker(j) => NamesMaker(j)'
    BY DEF Collect, NamesMaker, Initialising, thread, fast
  <2>4. \A j \in DOMAIN table : table'[j] = "QueuedObjects" => NamesMaker(j)
    BY <1>c DEF IdsInv, HeaderAgrees
  <2> QED
    BY <1>c, <2>2, <2>3, <2>4
    DEF IdsInv, Collect, HeaderAgrees, thread, fast, header
<1>8. ExhaustedAgrees'
  BY ThreadIdsAssumption, TableLength, <1>a, <1>c
  DEF IdsInv, Collect, fast, thread, header, IdsTypeOK, ExhaustedAgrees, Fits,
      EntryAgrees, ThreadAgrees, Initialising
<1> QED BY <1>1, <1>2, <1>3, <1>4, <1>5, <1>6, <1>7, <1>8 DEF IdsInv

(* LocalThreadState::drop takes the id from the fast state, and its two    *)
(* assertions hold.                                                        *)
LEMMA DieKeeps ==
    ASSUME IdsInv, NEW t \in Thread, Die(t)
    PROVE  IdsInv'
<1>1. Running'
  BY ThreadIdsAssumption, TableLength
  DEF IdsInv, Die, header, IdsTypeOK, Running, ThreadAgrees, EntryAgrees,
      HeaderAgrees, Found, Flag, Unreachable, ExistingShortId, Initialising
<1>2. IdsTypeOK'
  BY ThreadIdsAssumption, TableLength
  DEF IdsInv, Die, Goto, global, header, IdsTypeOK, Entry, Flag, Tls, At,
      ShortId, Running
<1>3. ClaimsDistinct'
  BY ThreadIdsAssumption, TableLength
  DEF IdsInv, Die, Goto, header, IdsTypeOK, ClaimsDistinct, Claim,
      Initialising, ThreadAgrees, EntryAgrees
<1>4. ThreadAgrees'
  BY ThreadIdsAssumption, TableLength
  DEF IdsInv, Die, Goto, header, IdsTypeOK, ThreadAgrees, Initialising,
      ShortId, EntryAgrees, Fits
<1>5. EntryAgrees'
  BY ThreadIdsAssumption, TableLength
  DEF IdsInv, Die, Goto, global, header, IdsTypeOK, EntryAgrees,
      ClaimsDistinct, Claim, Initialising, ThreadAgrees, Fits, TableAgrees,
      Flag, HeaderAgrees, NamesMaker, Found
<1>6. TableAgrees'
  BY ThreadIdsAssumption, TableLength
  DEF IdsInv, Die, Step, Goto, global, fast, thread, header, IdsTypeOK,
      TableAgrees, Claim, Initialising, ThreadAgrees, EntryAgrees, Fits, Flag,
      ClaimsDistinct
<1>7. HeaderAgrees'
  BY ThreadIdsAssumption, TableLength
  DEF IdsInv, Die, Goto, global, header, IdsTypeOK, HeaderAgrees, NamesMaker,
      Found, Flag, Initialising, ThreadAgrees, EntryAgrees, TableAgrees,
      ClaimsDistinct, Claim, ExistingShortId, Fits, ShortId
<1>8. ExhaustedAgrees'
  BY ThreadIdsAssumption, TableLength
  DEF IdsInv, Die, Goto, global, header, IdsTypeOK, ExhaustedAgrees, Fits,
      EntryAgrees, ThreadAgrees, Initialising
<1> QED BY <1>1, <1>2, <1>3, <1>4, <1>5, <1>6, <1>7, <1>8 DEF IdsInv

(* Then the flag says dying, and it said live before.                      *)
LEMMA DieFlagKeeps ==
    ASSUME IdsInv, NEW t \in Thread, DieFlag(t)
    PROVE  IdsInv'
<1> DEFINE i == local[t]
           flag == "Dying"
<1>a. i \in DOMAIN table /\ flag \in Entry
  BY DEF IdsInv, DieFlag, Step, EntryAgrees, ThreadAgrees, Flag, Entry,
         IdsTypeOK
<1>b. SetFlag(i, flag)
  BY DEF DieFlag
<1>c. /\ table' \in Seq(Entry)
      /\ Len(table') = Len(table)
      /\ DOMAIN table' = DOMAIN table
      /\ table'[i] = flag
      /\ \A j \in DOMAIN table : j # i => table'[j] = table[j]
  <2> HIDE DEF i, flag
  <2> QED BY <1>a, <1>b, FlagSet DEF IdsInv
<1>1. Running'
  BY ThreadIdsAssumption, TableLength, <1>a, <1>c
  DEF IdsInv, DieFlag, Step, header, IdsTypeOK, Running, ThreadAgrees,
      EntryAgrees, HeaderAgrees, Found, Flag, Unreachable, ExistingShortId,
      Initialising
<1>2. IdsTypeOK'
  BY ThreadIdsAssumption, TableLength, <1>a, <1>c
  DEF IdsInv, DieFlag, Goto, fast, header, IdsTypeOK, Entry, Flag, Tls, At,
      ShortId, Running
<1>3. ClaimsDistinct'
  BY ThreadIdsAssumption, TableLength, <1>a, <1>c
  DEF IdsInv, DieFlag, Goto, header, IdsTypeOK, ClaimsDistinct, Claim,
      Initialising, ThreadAgrees, EntryAgrees
<1>4. ThreadAgrees'
  BY ThreadIdsAssumption, TableLength, <1>a, <1>c
  DEF IdsInv, DieFlag, Goto, fast, header, IdsTypeOK, ThreadAgrees,
      Initialising, ShortId, EntryAgrees, Fits
<1>5. EntryAgrees'
  BY ThreadIdsAssumption, TableLength, <1>a, <1>c
  DEF IdsInv, DieFlag, Step, Goto, header, IdsTypeOK, EntryAgrees,
      ClaimsDistinct, Claim, Initialising, ThreadAgrees, Fits, TableAgrees,
      Flag, HeaderAgrees, NamesMaker, Found
<1>6. TableAgrees'
  <2>1. \A u \in Thread : Claim(u)' = Claim(u)
    BY DEF DieFlag, Step, Goto, Claim, Initialising
  <2>2. Claim(t) = i
    BY DEF DieFlag, Step, Claim, Initialising
  <2>3. table[i] \in Flag
    BY DEF IdsInv, DieFlag, Step, EntryAgrees, Flag
  <2> HIDE DEF i
  <2> QED BY <2>1, <2>2, <2>3, <1>a, <1>c DEF IdsInv, TableAgrees
<1>7. HeaderAgrees'
  <2>1. table[i] \in Flag /\ flag \in Flag
    BY <1>a DEF IdsInv, DieFlag, Step, EntryAgrees, Flag
  <2>2. \A j : Found(j)' <=> Found(j)
    <3> HIDE DEF i, flag
    <3> QED BY <1>c, <2>1 DEF Found
  <2>3. \A j : NamesMaker(j) => NamesMaker(j)'
    BY DEF DieFlag, Goto, NamesMaker, Initialising, thread, fast
  <2>4. \A j \in DOMAIN table : table'[j] = "QueuedObjects" => NamesMaker(j)
    BY <1>c DEF IdsInv, HeaderAgrees
  <2> QED
    BY <1>c, <2>2, <2>3, <2>4
    DEF IdsInv, DieFlag, Goto, HeaderAgrees, fast, header
<1>8. ExhaustedAgrees'
  BY ThreadIdsAssumption, TableLength, <1>a, <1>c
  DEF IdsInv, DieFlag, Goto, fast, header, IdsTypeOK, ExhaustedAgrees, Fits,
      EntryAgrees, ThreadAgrees, Initialising
<1> QED BY <1>1, <1>2, <1>3, <1>4, <1>5, <1>6, <1>7, <1>8 DEF IdsInv

(* At last the flag says dead, and it said dying before.                   *)
LEMMA DieDeadKeeps ==
    ASSUME IdsInv, NEW t \in Thread, DieDead(t)
    PROVE  IdsInv'
<1> DEFINE i == local[t]
           flag == "Dead"
<1>a. i \in DOMAIN table /\ flag \in Entry
  BY DEF IdsInv, DieDead, EntryAgrees, ThreadAgrees, Flag, Entry, IdsTypeOK
<1>b. SetFlag(i, flag)
  BY DEF IdsInv, DieDead, Step, EntryAgrees
<1>c. /\ table' \in Seq(Entry)
      /\ Len(table') = Len(table)
      /\ DOMAIN table' = DOMAIN table
      /\ table'[i] = flag
      /\ \A j \in DOMAIN table : j # i => table'[j] = table[j]
  <2> HIDE DEF i, flag
  <2> QED BY <1>a, <1>b, FlagSet DEF IdsInv
<1>1. Running'
  BY ThreadIdsAssumption, TableLength, <1>a, <1>c
  DEF IdsInv, DieDead, header, IdsTypeOK, Running, ThreadAgrees, EntryAgrees,
      HeaderAgrees, Found, Flag, Unreachable, ExistingShortId, Initialising
<1>2. IdsTypeOK'
  BY ThreadIdsAssumption, TableLength, <1>a, <1>c
  DEF IdsInv, DieDead, fast, header, IdsTypeOK, Entry, Flag, Tls, At, ShortId,
      Running
<1>3. ClaimsDistinct'
  BY ThreadIdsAssumption, TableLength, <1>a, <1>c
  DEF IdsInv, DieDead, header, IdsTypeOK, ClaimsDistinct, Claim, Initialising,
      ThreadAgrees, EntryAgrees
<1>4. ThreadAgrees'
  BY ThreadIdsAssumption, TableLength, <1>a, <1>c
  DEF IdsInv, DieDead, fast, header, IdsTypeOK, ThreadAgrees, Initialising,
      ShortId, EntryAgrees, Fits
<1>5. EntryAgrees'
  BY ThreadIdsAssumption, TableLength, <1>a, <1>c
  DEF IdsInv, DieDead, header, IdsTypeOK, EntryAgrees, ClaimsDistinct, Claim,
      Initialising, ThreadAgrees, Fits, TableAgrees, Flag, HeaderAgrees,
      NamesMaker, Found
<1>6. TableAgrees'
  <2>1. \A u \in Thread \ {t} : Claim(u)' = Claim(u)
    BY DEF DieDead, Claim, Initialising
  <2>2. Claim(t) = i
    BY DEF DieDead, Step, Claim, Initialising
  <2>3. table[i] = "Dying" /\ flag = "Dead"
    BY DEF IdsInv, DieDead, Step, EntryAgrees
  <2> QED BY <2>1, <2>2, <2>3, <1>a, <1>c DEF IdsInv, TableAgrees, Flag
<1>7. HeaderAgrees'
  <2>1. table[i] \in Flag /\ flag \in Flag
    BY <1>a DEF IdsInv, DieDead, EntryAgrees, Flag
  <2>2. \A j : Found(j)' <=> Found(j)
    <3> HIDE DEF i, flag
    <3> QED BY <1>c, <2>1 DEF Found
  <2>3. \A j : NamesMaker(j) => NamesMaker(j)'
    BY DEF DieDead, NamesMaker, Initialising, thread, fast
  <2>4. \A j \in DOMAIN table : table'[j] = "QueuedObjects" => NamesMaker(j)
    BY <1>c DEF IdsInv, HeaderAgrees
  <2> QED
    BY <1>c, <2>2, <2>3, <2>4
    DEF IdsInv, DieDead, HeaderAgrees, fast, header
<1>8. ExhaustedAgrees'
  BY ThreadIdsAssumption, TableLength, <1>a, <1>c
  DEF IdsInv, DieDead, fast, header, IdsTypeOK, ExhaustedAgrees, Fits,
      EntryAgrees, ThreadAgrees, Initialising
<1> QED BY <1>1, <1>2, <1>3, <1>4, <1>5, <1>6, <1>7, <1>8 DEF IdsInv

(* A thread-local that held an error is destroyed.                         *)
LEMMA ForgetErrorKeeps ==
    ASSUME IdsInv, NEW t \in Thread, ForgetError(t)
    PROVE  IdsInv'
<1>1. Running'
  BY ThreadIdsAssumption, TableLength
  DEF ForgetError, Step, header, IdsTypeOK, Running, ThreadAgrees,
      EntryAgrees, HeaderAgrees, Found, Flag, Unreachable, ExistingShortId,
      Initialising
<1>2. IdsTypeOK'
  BY ThreadIdsAssumption, TableLength
  DEF IdsInv, ForgetError, global, fast, header, IdsTypeOK, Entry, Flag, Tls,
      At, ShortId, Running
<1>3. ClaimsDistinct'
  BY ThreadIdsAssumption, TableLength
  DEF IdsInv, ForgetError, header, IdsTypeOK, ClaimsDistinct, Claim,
      Initialising, ThreadAgrees, EntryAgrees
<1>4. ThreadAgrees'
  BY ThreadIdsAssumption, TableLength
  DEF IdsInv, ForgetError, fast, header, IdsTypeOK, ThreadAgrees,
      Initialising, ShortId, EntryAgrees, Fits
<1>5. EntryAgrees'
  BY ThreadIdsAssumption, TableLength
  DEF IdsInv, ForgetError, global, header, IdsTypeOK, EntryAgrees,
      ClaimsDistinct, Claim, Initialising, ThreadAgrees, Fits, TableAgrees,
      Flag, HeaderAgrees, NamesMaker, Found
<1>6. TableAgrees'
  <2>1. \A u \in Thread : Claim(u)' = Claim(u)
    BY ThreadIdsAssumption
    DEF ForgetError, Claim, Initialising, thread, fast, header
  <2> QED
    BY <2>1, ThreadIdsAssumption
    DEF IdsInv, ForgetError, TableAgrees, global
<1>7. HeaderAgrees'
  BY ThreadIdsAssumption, TableLength
  DEF IdsInv, ForgetError, global, header, IdsTypeOK, HeaderAgrees,
      NamesMaker, Found, Flag, Initialising, ThreadAgrees, EntryAgrees,
      TableAgrees, ClaimsDistinct, Claim, ExistingShortId, Fits, ShortId
<1>8. ExhaustedAgrees'
  BY ThreadIdsAssumption, TableLength
  DEF IdsInv, ForgetError, global, fast, header, IdsTypeOK, ExhaustedAgrees,
      Fits, EntryAgrees, ThreadAgrees, Initialising
<1> QED BY <1>1, <1>2, <1>3, <1>4, <1>5, <1>6, <1>7, <1>8 DEF IdsInv

-----------------------------------------------------------------------------
(* Every step keeps the invariant.                                         *)
LEMMA NextKeeps == ASSUME IdsInv, [Next]_vars PROVE IdsInv'
<1>1. CASE UNCHANGED vars
  BY <1>1
  DEF vars, global, fast, thread, header, IdsInv, IdsTypeOK, Running,
      ClaimsDistinct, Claim, Initialising, ThreadAgrees, EntryAgrees,
      TableAgrees, HeaderAgrees, NamesMaker, Found, ExhaustedAgrees
<1>2. ASSUME NEW t \in Thread, Initialise(t) PROVE IdsInv'
  BY <1>2, InitThreadKeeps, PushKeeps, FillKeeps, PublishKeeps, AdoptKeeps
  DEF Initialise
<1>3. ASSUME NEW t \in Thread, Terminate(t) PROVE IdsInv'
  BY <1>3, DieKeeps, DieFlagKeeps, DieDeadKeeps, ForgetErrorKeeps
  DEF Terminate
<1>4. ASSUME NEW t \in Thread, GetById(t) \/ Collect(t) PROVE IdsInv'
  BY <1>4, GetByIdKeeps, CollectKeeps
<1>5. ASSUME NEW t \in Thread, NEW x \in Object,
             InitHeader(t, x) \/ Unown(t, x) \/ LoadOwner(t, x)
      PROVE  IdsInv'
  BY <1>5, InitHeaderKeeps, UnownKeeps, LoadOwnerKeeps
<1> QED BY <1>1, <1>2, <1>3, <1>4, <1>5 DEF Next

(* The invariant of the thread table and the thread-local states           *)
(* (init_thread, LocalThreadState::drop) holds of every reachable state.   *)
THEOREM IdsInvariant == Spec => []IdsInv
<1>1. Init => IdsInv
  BY InitKeeps
<1>2. IdsInv /\ [Next]_vars => IdsInv'
  BY NextKeeps
<1> QED BY <1>1, <1>2, PTL DEF Spec

(* No assertion of init_thread and drop fails, and no                      *)
(* unreachable_unchecked of existing_short_id is reached.                  *)
THEOREM NoAssertionFails == Spec => []StateCoherent
<1>1. IdsInv => StateCoherent
  BY DEF IdsInv, StateCoherent
<1> QED BY <1>1, IdsInvariant, PTL

(* The owner id in a header leads to an entry that says whether the owner  *)
(* may still use its bias (get_by_id, ThreadStateFlag).                    *)
THEOREM OwnersAreFound == Spec => []OwnerEntry
<1>1. IdsInv => OwnerEntry
  <2>1. SUFFICES ASSUME IdsInv, NEW x \in Object, owner_id[x] # None
                 PROVE  /\ Found(owner_id[x])
                        /\ ExistingShortId(maker[x]) = owner_id[x] =>
                               table[owner_id[x]] \in {"Live", "QueuedObjects"}
                        /\ table[owner_id[x]] \in {"Live", "QueuedObjects"} =>
                               \/ ExistingShortId(maker[x]) = owner_id[x]
                               \/ at[maker[x]] = "die_flag"
    BY DEF OwnerEntry
  <2> DEFINE i == owner_id[x]
             m == maker[x]
  <2>2. /\ Found(i) /\ m \in Thread /\ NamesMaker(i)
        /\ \A u \in Thread : local[u] = i => u = m
    BY <2>1 DEF IdsInv, HeaderAgrees, IdsTypeOK
  <2>3. ExistingShortId(m) = i => tls[m] = "ok" /\ local[m] = i
    BY <2>1, <2>2 DEF IdsInv, ThreadAgrees, ExistingShortId
  <2>4. ExistingShortId(m) = i => table[i] \in {"Live", "QueuedObjects"}
    BY <2>1, <2>2, <2>3 DEF IdsInv, EntryAgrees
  <2>5. ASSUME table[i] \in {"Live", "QueuedObjects"}
        PROVE  ExistingShortId(m) = i \/ at[m] = "die_flag"
    <3>1. PICK u \in Thread : Claim(u) = i
      BY <2>1, <2>2, <2>5 DEF IdsInv, TableAgrees, Found
    <3>2. u = m /\ local[m] = i
      BY <2>1, <2>2, <3>1 DEF Claim, NamesMaker
    <3>3. tls[m] \in {"ok", "dropping"}
      BY <2>1, <2>2, <3>2 DEF IdsInv, ThreadAgrees
    <3>4. tls[m] = "ok" => ExistingShortId(m) = i
      BY <2>1, <2>2, <3>2 DEF IdsInv, ThreadAgrees, ExistingShortId
    <3>5. tls[m] = "dropping" => at[m] = "die_flag"
      BY <2>1, <2>2, <2>5, <3>2 DEF IdsInv, EntryAgrees
    <3> QED BY <3>3, <3>4, <3>5
  <2> QED BY <2>2, <2>4, <2>5
<1> QED BY <1>1, IdsInvariant, PTL

(* A flag that asks for a collection is the one its thread's               *)
(* currently_needs_collect reads, until the thread dies.                   *)
THEOREM QueuedFlagsAreSeen == Spec => []QueuedIsWatched
<1>1. IdsInv => QueuedIsWatched
  <2>1. SUFFICES ASSUME IdsInv, NEW i \in DOMAIN table, table[i] = "QueuedObjects"
                 PROVE  \E t \in Thread :
                            local[t] = i /\ (watched[t] = i \/ at[t] = "die_flag")
    BY DEF QueuedIsWatched
  <2>2. PICK t \in Thread : Claim(t) = i
    BY <2>1 DEF IdsInv, TableAgrees
  <2>3. local[t] = i /\ local[t] # None
    BY <2>1, <2>2, ThreadIdsAssumption, TableLength
    DEF IdsInv, HeaderAgrees, NamesMaker, Claim
  <2>4. tls[t] = "ok" \/ (tls[t] = "dropping" /\ at[t] = "die_flag")
    BY <2>1, <2>3 DEF IdsInv, ThreadAgrees, EntryAgrees
  <2>5. tls[t] = "ok" => watched[t] = i
    BY <2>1, <2>3 DEF IdsInv, ThreadAgrees
  <2> QED BY <2>3, <2>4, <2>5
<1> QED BY <1>1, IdsInvariant, PTL

(* SHORT_THREAD_IDS_EXHAUSTED is set, and a thread goes without an id,     *)
(* only when every id was handed out (init_thread).                        *)
THEOREM IdsAreSpentFirst == Spec => []IdsSpentFirst
<1>1. IdsInv => IdsSpentFirst
  <2>1. SUFFICES ASSUME IdsInv, exhausted
                 PROVE  Len(table) > MaxId /\ \A i \in ShortId : table[i] # "error"
    BY DEF IdsInv, ExhaustedAgrees, IdsSpentFirst
  <2>2. Len(table) > MaxId /\ \A i \in ShortId : i \in DOMAIN table /\ Fits(i)
    BY <2>1, ThreadIdsAssumption DEF IdsInv, ExhaustedAgrees, ShortId, Fits
  <2> QED BY <2>1, <2>2 DEF IdsInv, TableAgrees
<1> QED BY <1>1, IdsInvariant, PTL

-----------------------------------------------------------------------------
(* A thread gets no second id, and none after its death, however often its *)
(* thread-local is initialised (init_thread).                              *)
THEOREM OneLifeEach == Spec => OneLife
<1>1. IdsInv /\ [Next]_vars => [OneLifeStep]_vars
  <2>1. SUFFICES ASSUME IdsInv, Next PROVE OneLifeStep
    OBVIOUS
  <2>2. CASE \E t \in Thread : Adopt(t)
    <3>1. PICK t \in Thread : Adopt(t)
      BY <2>2
    <3>2. status[t] = "Uninit" /\ short_id[t] = None
      BY <2>1, <3>1
      DEF IdsInv, IdsTypeOK, Adopt, Step, ThreadAgrees, Initialising
    <3>3. \A u \in Thread \ {t} : status'[u] = status[u] /\ short_id'[u] = short_id[u]
      BY <2>1, <3>1 DEF IdsInv, IdsTypeOK, Adopt, fast
    <3> QED BY <3>2, <3>3 DEF OneLifeStep
  <2>3. CASE \E t \in Thread : Die(t)
    BY <2>1, <2>3 DEF Die, OneLifeStep
  <2>4. CASE UNCHANGED <<status, short_id>>
    BY <2>4 DEF OneLifeStep
  <2> QED
    BY <2>1, <2>2, <2>3, <2>4
    DEF Next, Initialise, Terminate, InitThread, Push, Fill, Publish, GetById,
        Collect, DieFlag, DieDead, ForgetError, InitHeader, Unown, LoadOwner,
        thread, fast
<1> QED BY <1>1, IdsInvariant, PTL DEF Spec, OneLife

(* The owner's checks depend on the headers and the fast states alone.     *)
LEMMA PassesStay ==
    ASSUME UNCHANGED <<owner_id, status, short_id>>
    PROVE  Passes' = Passes
  BY DEF Passes, ExistingShortId

(* Every step is one that Ownership allows: an id that a thread adopts is  *)
(* in no header.                                                           *)
LEMMA IdentityStep == ASSUME IdsInv, Next PROVE [Identity!Next]_(Identity!vars)
<1> DEFINE made == {x \in Object : maker[x] # None}
<1>1. CASE UNCHANGED <<owner_id, maker, status, short_id>>
  BY <1>1, PassesStay DEF Identity!vars
<1>2. ASSUME NEW t \in Thread, Adopt(t) PROVE UNCHANGED <<made, Passes>>
  <2>1. at[t] = "adopt" /\ ExistingShortId(t) = None
    BY <1>2
    DEF Adopt, Step, IdsInv, ThreadAgrees, Initialising, ExistingShortId
  <2>2. ExistingShortId(t)' \in {None, index[t]}
    <3>1. status[t] # "Active" /\ short_id[t] = None
      BY <2>1 DEF IdsInv, ThreadAgrees, Initialising
    <3>2. short_id' \in {short_id, [short_id EXCEPT ![t] = index[t]]}
      BY <1>2 DEF Adopt, fast
    <3> QED BY <3>1, <3>2 DEF IdsInv, IdsTypeOK, ExistingShortId
  <2>3. \A u \in Thread \ {t} : ExistingShortId(u)' = ExistingShortId(u)
    BY <1>2 DEF Adopt, IdsInv, IdsTypeOK, ExistingShortId, fast
  <2>4. \A x \in Object : owner_id[x] # None => index[t] # owner_id[x]
    BY <2>1 DEF IdsInv, HeaderAgrees, NamesMaker, Initialising
  <2>5. UNCHANGED <<maker, owner_id>>
    BY <1>2 DEF Adopt, header
  <2> HIDE DEF made
  <2>6. \A x \in Object, u \in Thread :
          (owner_id[x] # None /\ ExistingShortId(u)' = owner_id[x])
            = (owner_id[x] # None /\ ExistingShortId(u) = owner_id[x])
    BY <2>1, <2>2, <2>3, <2>4
  <2> QED BY <2>5, <2>6 DEF Passes, made
<1>3. ASSUME NEW t \in Thread, NEW x \in Object, InitHeader(t, x)
      PROVE  Identity!Make(t, x)
  <2>1. /\ maker[x] = None /\ t # None /\ at[t] = "idle"
        /\ maker' = [maker EXCEPT ![x] = t]
        /\ owner_id' = [owner_id EXCEPT ![x] = ExistingShortId(t)]
        /\ UNCHANGED <<status, short_id>>
    BY <1>3, ThreadIdsAssumption DEF InitHeader, Step, thread, fast
  <2>2. x \notin made /\ made' = made \cup {x}
    BY <2>1 DEF IdsInv, IdsTypeOK
  <2>3. \A u \in Thread : ExistingShortId(u)' = ExistingShortId(u)
    BY <2>1 DEF ExistingShortId
  <2>4. \A u \in Thread :
            ExistingShortId(t) # None /\ ExistingShortId(u) = ExistingShortId(t)
                => u = t
    BY <2>1 DEF IdsInv, ClaimsDistinct, Claim, ThreadAgrees, ExistingShortId
  <2>5. Passes'[x] = IF ExistingShortId(t) = None THEN {} ELSE {t}
    BY <2>1, <2>3, <2>4 DEF Passes, IdsInv, IdsTypeOK
  <2>6. Passes' = [Passes EXCEPT ![x] = IF ExistingShortId(t) = None THEN {} ELSE {t}]
    <3>1. \A y \in Object \ {x} : owner_id'[y] = owner_id[y]
      BY <2>1
    <3>2. \A y \in Object \ {x} : Passes'[y] = Passes[y]
      BY <2>3, <3>1 DEF Passes
    <3> QED BY <2>5, <3>2 DEF Passes
  <2> QED BY <2>2, <2>6 DEF Identity!Make
<1>4. ASSUME NEW t \in Thread, NEW x \in Object, Unown(t, x)
      PROVE  Identity!Unbias(x)
  <2>1. /\ owner_id' = [owner_id EXCEPT ![x] = None]
        /\ UNCHANGED <<maker, status, short_id>>
    BY <1>4 DEF Unown, thread, fast
  <2> QED
    BY <2>1
    DEF Passes, ExistingShortId, IdsInv, IdsTypeOK, Identity!Unbias
<1>5. ASSUME NEW t \in Thread, Die(t) PROVE Identity!Retire(t)
  <2>1. /\ UNCHANGED <<maker, owner_id>>
        /\ ExistingShortId(t)' = None
        /\ \A u \in Thread \ {t} : ExistingShortId(u)' = ExistingShortId(u)
    BY <1>5 DEF Die, header, ExistingShortId, IdsInv, IdsTypeOK
  <2> QED BY <2>1 DEF Passes, Identity!Retire
<1> QED
  BY <1>1, <1>2, <1>3, <1>4, <1>5
  DEF Next, Initialise, Terminate, InitThread, Push, Fill, Publish, GetById,
      Collect, DieFlag, DieDead, ForgetError, LoadOwner, thread, fast, header,
      Identity!Next, Identity!vars

(* Comparing ids is comparing threads: only an object's maker ever passes  *)
(* the owner's check (existing_short_id).                                  *)
THEOREM IdsAreIdentities == Spec => RefinesOwnership
<1>1. Init => Identity!Init
  BY DEF Init, Identity!Init, Passes
<1>2. IdsInv /\ [Next]_vars => [Identity!Next]_(Identity!vars)
  <2>1. UNCHANGED vars => UNCHANGED Identity!vars
    BY PassesStay DEF vars, thread, fast, header, Identity!vars
  <2> QED BY <2>1, IdentityStep
<1> QED
  BY <1>1, <1>2, IdsInvariant, PTL
  DEF Spec, RefinesOwnership, Identity!Spec

-----------------------------------------------------------------------------
(* The threads that have reserved an entry, or have got past that.         *)
Began == {t \in Thread : tls[t] # "unset" \/ Initialising(t)}
EntriesBegun == Len(table) =< Cardinality(Began)

(* Threads that have begun are finitely many.                              *)
LEMMA BeganFinite ==
    ASSUME IsFiniteSet(Thread)
    PROVE  IsFiniteSet(Began) /\ Cardinality(Began) \in Nat
  BY FS_Subset, FS_CardinalityType DEF Began

(* Of finitely many threads none takes a second entry: the table is no     *)
(* longer than there are threads (init_thread, THREADS).                   *)
THEOREM TableIsBounded ==
    ASSUME IsFiniteSet(Thread)
    PROVE  Spec => []TableBounded
<1>1. Init => EntriesBegun
  BY BeganFinite DEF Init, EntriesBegun
<1>2. IdsInv /\ EntriesBegun /\ [Next]_vars => EntriesBegun'
  <2>1. SUFFICES ASSUME IdsInv, EntriesBegun, [Next]_vars PROVE EntriesBegun'
    OBVIOUS
  <2>2. IsFiniteSet(Began) /\ IsFiniteSet(Began') /\ Cardinality(Began) \in Nat
          /\ Cardinality(Began') \in Nat /\ Len(table) \in Nat
    BY FS_Subset, FS_CardinalityType DEF Began, IdsInv
  <2>3. ASSUME NEW t \in Thread, Push(t) PROVE EntriesBegun'
    <3>1. t \notin Began /\ Began' = Began \cup {t}
      BY <2>1, <2>3
      DEF Push, Step, Goto, Began, Initialising, IdsInv, IdsTypeOK,
          ThreadAgrees
    <3>2. Len(table') = Len(table) + 1
      BY <2>1, <2>3 DEF Push, IdsInv
    <3> QED BY <2>1, <2>2, <3>1, <3>2, FS_AddElement DEF EntriesBegun
  <2>4. ASSUME Began \subseteq Began', Len(table') = Len(table) PROVE EntriesBegun'
    BY <2>1, <2>2, <2>4, FS_Subset DEF EntriesBegun
  <2>5. CASE ~(\E t \in Thread : Push(t))
    <3>1. Began \subseteq Began'
      <4>1. ASSUME NEW t \in Thread, InitThread(t) \/ Fill(t) \/ Publish(t)
            PROVE  Began \subseteq Began'
        BY <2>1, <4>1
        DEF Began, InitThread, Fill, Publish, Step, Goto, Initialising,
            IdsInv, IdsTypeOK
      <4>2. ASSUME NEW t \in Thread, Adopt(t) PROVE Began \subseteq Began'
        <5>1. tls'[t] # "unset" /\ \A u \in Thread \ {t} : tls'[u] = tls[u]
          BY <2>1, <4>2 DEF Adopt, IdsInv, IdsTypeOK
        <5>2. index' = index /\ \A u \in Thread \ {t} : at'[u] = at[u]
          BY <2>1, <4>2 DEF Adopt, Goto, IdsInv
        <5> QED BY <5>1, <5>2 DEF Began, Initialising
      <4>3. ASSUME NEW t \in Thread, Terminate(t) PROVE Began \subseteq Began'
        BY <2>1, <4>3
        DEF Began, Terminate, Die, DieFlag, DieDead, ForgetError, Step, Goto,
            Initialising, IdsInv, IdsTypeOK
      <4>4. ASSUME NEW t \in Thread, NEW x \in Object,
                   InitHeader(t, x) \/ Unown(t, x) \/ LoadOwner(t, x)
            PROVE  Began \subseteq Began'
        BY <2>1, <4>4
        DEF Began, InitHeader, Unown, LoadOwner, Step, Goto, Initialising,
            IdsInv, IdsTypeOK, thread
      <4>5. ASSUME NEW t \in Thread, GetById(t) \/ Collect(t) PROVE Began \subseteq Began'
        BY <2>1, <4>5
        DEF Began, GetById, Collect, Step, Goto, Initialising, IdsInv,
            IdsTypeOK, thread
      <4>6. UNCHANGED vars => Began \subseteq Began'
        BY DEF Began, Initialising, vars, thread
      <4> QED
        BY <2>1, <2>5, <4>1, <4>2, <4>3, <4>4, <4>5, <4>6
        DEF Next, Initialise
    <3>2. Len(table') = Len(table)
      <4>1. \/ UNCHANGED table
            \/ \E i \in DOMAIN table, flag \in Entry : SetFlag(i, flag)
        <5>1. ASSUME NEW t \in Thread, Publish(t)
              PROVE  \E i \in DOMAIN table, flag \in Entry : SetFlag(i, flag)
          BY <2>1, <5>1 DEF Publish, Step, IdsInv, EntryAgrees, Entry, Flag
        <5>2. ASSUME NEW t \in Thread, GetById(t)
              PROVE  \/ UNCHANGED table
                     \/ \E i \in DOMAIN table, flag \in Entry : SetFlag(i, flag)
          BY <2>1, <5>2 DEF GetById, IdsInv, Entry, Found, Flag
        <5>3. ASSUME NEW t \in Thread, Collect(t) \/ DieFlag(t) \/ DieDead(t)
              PROVE  \/ UNCHANGED table
                     \/ \E i \in DOMAIN table, flag \in Entry : SetFlag(i, flag)
          BY <2>1, <5>3
          DEF Collect, DieFlag, DieDead, Step, IdsInv, EntryAgrees,
              ThreadAgrees, Entry, Flag
        <5> QED
          BY <2>1, <2>5, <5>1, <5>2, <5>3
          DEF Next, Initialise, Terminate, InitThread, Fill, Adopt, Die,
              ForgetError, InitHeader, Unown, LoadOwner, vars, global, header
      <4> QED BY <2>1, <4>1, FlagSet DEF IdsInv
    <3> QED BY <2>4, <3>1, <3>2
  <2> QED BY <2>3, <2>5
<1>3. IdsInv /\ EntriesBegun => TableBounded
  <2>1. SUFFICES ASSUME IdsInv, EntriesBegun PROVE Len(table) =< Cardinality(Thread)
    BY DEF TableBounded
  <2>2. Began \subseteq Thread /\ Cardinality(Began) =< Cardinality(Thread)
    BY FS_Subset DEF Began
  <2> QED
    BY <2>1, <2>2, BeganFinite, FS_CardinalityType
    DEF EntriesBegun, IdsInv
<1> QED BY <1>1, <1>2, <1>3, IdsInvariant, PTL DEF Spec
=============================================================================
