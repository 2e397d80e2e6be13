------------------------------ MODULE ThreadIds ------------------------------
(***************************************************************************)
(* The identity of threads (src/src/runtime/threads.rs): how a thread gets *)
(* a short id in the table THREADS, keeps it in its thread-local state,    *)
(* and loses it; and what the ids in the headers of objects lead to.       *)
(*                                                                         *)
(* The table is a concurrent vector: push_with reserves an index, runs its *)
(* closure, and then publishes the entry; `get' sees published entries.    *)
(* Indices are counted from 1, as ids are.  Of a header only the owner id  *)
(* matters here, of a thread's queue only that there may be something in   *)
(* it.  A destroyed thread-local gives an access error or is initialised   *)
(* again, as the platform has it.                                          *)
(***************************************************************************)
EXTENDS Naturals, Sequences, FiniteSets

CONSTANTS
    Thread,  \* the threads
    Object,  \* the objects
    MaxId,   \* ShortThreadId::MAX
    None     \* no id, no thread; for a thread's flag, DUMMY_STATE_FLAG

ASSUME ThreadIdsAssumption ==
    /\ MaxId \in Nat
    /\ None \notin Nat
    /\ None \notin Thread

VARIABLES
    table,      \* THREADS: an entry is an Err or the state flag of an Ok
    exhausted,  \* SHORT_THREAD_IDS_EXHAUSTED
    tls,        \* THIS_THREAD_STATE as a lazily initialised thread-local
    local,      \* the id in the LocalThreadState that is its Ok value
    status,     \* THIS_THREAD_STATE_FAST: LocalThreadStatus,
    short_id,   \* the short id,
    watched,    \* and the thread whose state flag it refers to, by its id
    at,         \* where each thread is in init_thread, drop or queueing
    index,      \* the index that push_with or a header gave a thread there
    maker,      \* the thread that initialised each object's header
    owner_id,   \* the owner id in each object's biased word
    fault       \* the assertion that stopped the process, or "none"

global == <<table, exhausted>>
fast == <<status, short_id, watched>>
thread == <<tls, local, fast, at, index>>
header == <<maker, owner_id>>
vars == <<global, thread, header, fault>>

-----------------------------------------------------------------------------
ShortId == 1..MaxId
Flag == {"Live", "QueuedObjects", "Dying", "Dead"}
Entry == {"reserved", "error"} \cup Flag
Tls == {"unset", "ok", "overflow", "already_died", "dropping", "destroyed"}
At == {"idle", "push", "fill", "publish", "adopt", "die_flag", "get_by_id"}

Running == fault = "none"
Step(t, from) == Running /\ at[t] = from
Goto(t, next) == at' = [at EXCEPT ![t] = next]

(* A mutant of Fits: the largest id is refused.                            *)
FitsBelow(i) == i < MaxId

(* ShortThreadId::try_from.                                                *)
Fits(i) == i =< MaxId

(* existing_short_id().ok().                                               *)
ExistingShortId(t) == IF status[t] = "Active" THEN short_id[t] ELSE None

(* The combinations existing_short_id takes for impossible, with an        *)
(* unreachable_unchecked.                                                  *)
Unreachable(t) == (status[t] = "Active") # (short_id[t] # None)

Found(i) == i \in DOMAIN table /\ table[i] \in Flag
SetFlag(i, flag) == table' = [table EXCEPT ![i] = flag]

-----------------------------------------------------------------------------
Init ==
    /\ table = <<>>
    /\ exhausted = FALSE
    /\ tls = [t \in Thread |-> "unset"]
    /\ local = [t \in Thread |-> None]
    /\ status = [t \in Thread |-> "Uninit"]
    /\ short_id = [t \in Thread |-> None]
    /\ watched = [t \in Thread |-> None]
    /\ at = [t \in Thread |-> "idle"]
    /\ index = [t \in Thread |-> 0]
    /\ maker = [x \in Object |-> None]
    /\ owner_id = [x \in Object |-> None]
    /\ fault = "none"

(* A mutant of InitThread: it does not see that the thread has died.       *)
InitThreadAgain(t) ==
    /\ Step(t, "idle")
    /\ tls[t] \in {"unset", "destroyed"}
    /\ IF exhausted
       THEN tls' = [tls EXCEPT ![t] = "overflow"] /\ UNCHANGED at
       ELSE Goto(t, "push") /\ UNCHANGED tls
    /\ UNCHANGED <<global, local, fast, index, header, fault>>

(* with_current on a thread-local that has no value: init_thread, called   *)
(* for init_tid, a collection, or collect_force, up to push_with.          *)
InitThread(t) ==
    /\ Step(t, "idle")
    /\ tls[t] \in {"unset", "destroyed"}
    /\ CASE status[t] = "DeadOrDying" ->
              tls' = [tls EXCEPT ![t] = "already_died"] /\ UNCHANGED <<at, fault>>
         [] status[t] = "Active" ->
              fault' = "already_initialized" /\ UNCHANGED <<tls, at>>
         [] status[t] = "Uninit" ->
              /\ IF exhausted
                 THEN tls' = [tls EXCEPT ![t] = "overflow"] /\ UNCHANGED at
                 ELSE Goto(t, "push") /\ UNCHANGED tls
              /\ UNCHANGED fault
    /\ UNCHANGED <<global, local, fast, index, header>>

(* A mutant of Push: the entry of a dead thread is used again.             *)
PushReusing(t) ==
    LET free == {i \in DOMAIN table : table[i] = "Dead"}
    IN  /\ Step(t, "push")
        /\ \E i \in IF free = {} THEN {Len(table) + 1} ELSE free :
               /\ index' = [index EXCEPT ![t] = i]
               /\ table' = IF free = {} THEN Append(table, "reserved")
                           ELSE [table EXCEPT ![i] = "reserved"]
        /\ Goto(t, "fill")
        /\ UNCHANGED <<exhausted, tls, local, fast, header, fault>>

(* push_with reserves the next index.                                      *)
Push(t) ==
    /\ Step(t, "push")
    /\ table' = Append(table, "reserved")
    /\ index' = [index EXCEPT ![t] = Len(table) + 1]
    /\ Goto(t, "fill")
    /\ UNCHANGED <<exhausted, tls, local, fast, header, fault>>

(* A mutant of Fill: the other threads are not told.                       *)
FillQuietly(t) ==
    /\ Step(t, "fill")
    /\ Goto(t, "publish")
    /\ UNCHANGED <<global, tls, local, fast, index, header, fault>>

(* Its closure: an index that is no short id means there are no more.      *)
Fill(t) ==
    /\ Step(t, "fill")
    /\ exhausted' = (exhausted \/ ~Fits(index[t]))
    /\ Goto(t, "publish")
    /\ UNCHANGED <<table, tls, local, fast, index, header, fault>>

Publish(t) ==
    /\ Step(t, "publish")
    /\ SetFlag(index[t], IF Fits(index[t]) THEN "Live" ELSE "error")
    /\ Goto(t, "adopt")
    /\ UNCHANGED <<exhausted, tls, local, fast, index, header, fault>>

(* A mutant of Adopt: the thread goes on watching the dummy flag.          *)
AdoptUnwatched(t) ==
    /\ Step(t, "adopt")
    /\ IF table[index[t]] = "error"
       THEN tls' = [tls EXCEPT ![t] = "overflow"] /\ UNCHANGED <<local, status, short_id>>
       ELSE /\ tls' = [tls EXCEPT ![t] = "ok"]
            /\ local' = [local EXCEPT ![t] = index[t]]
            /\ status' = [status EXCEPT ![t] = "Active"]
            /\ short_id' = [short_id EXCEPT ![t] = index[t]]
    /\ Goto(t, "idle")
    /\ UNCHANGED <<global, watched, index, header, fault>>

(* The rest of init_thread: the thread-local state, fast and slow.         *)
Adopt(t) ==
    /\ Step(t, "adopt")
    /\ IF table[index[t]] = "error"
       THEN /\ tls' = [tls EXCEPT ![t] = "overflow"]
            /\ UNCHANGED <<local, fast, fault>>
       ELSE /\ tls' = [tls EXCEPT ![t] = "ok"]
            /\ local' = [local EXCEPT ![t] = index[t]]
            /\ watched' = [watched EXCEPT ![t] = index[t]]
            /\ status' = [status EXCEPT ![t] = "Active"]
            /\ short_id' = [short_id EXCEPT ![t] = index[t]]
            /\ fault' = IF <<watched[t], status[t], short_id[t]>> = <<None, "Uninit", None>>
                        THEN "none" ELSE "not_uninit"
    /\ Goto(t, "idle")
    /\ UNCHANGED <<global, index, header>>

-----------------------------------------------------------------------------
(* RawBrcHeader::init, by a thread that has an id, or that cannot get one: *)
(* its ids overflowed, it died, or its thread-local gives an access error. *)
InitHeader(t, x) ==
    /\ Step(t, "idle")
    /\ maker[x] = None
    /\ status[t] = "Uninit" => tls[t] # "unset"
    /\ maker' = [maker EXCEPT ![x] = t]
    /\ owner_id' = [owner_id EXCEPT ![x] = ExistingShortId(t)]
    /\ fault' = IF Unreachable(t) THEN "unreachable" ELSE "none"
    /\ UNCHANGED <<global, thread>>

(* The biased word is released: by its owner, or, when its thread does not *)
(* count as one any more, by another.                                      *)
Unown(t, x) ==
    /\ Running
    /\ owner_id[x] # None
    /\ \/ ExistingShortId(t) = owner_id[x]
       \/ table[owner_id[x]] \in {"Dying", "Dead"}
    /\ owner_id' = [owner_id EXCEPT ![x] = None]
    /\ UNCHANGED <<global, thread, maker, fault>>

(* decrement_shared_do_queue, on a thread that does not pass for the owner:*)
(* the owner id, and then the owner's entry, whose queue gets the object.  *)
LoadOwner(t, x) ==
    /\ Step(t, "idle")
    /\ owner_id[x] \notin {None, ExistingShortId(t)}
    /\ index' = [index EXCEPT ![t] = owner_id[x]]
    /\ Goto(t, "get_by_id")
    /\ UNCHANGED <<global, tls, local, fast, header, fault>>

GetById(t) ==
    /\ Step(t, "get_by_id")
    /\ IF Found(index[t])
       THEN /\ SetFlag(index[t], IF table[index[t]] = "Live"
                                 THEN "QueuedObjects" ELSE table[index[t]])
            /\ UNCHANGED fault
       ELSE fault' = "owner_undefined_state" /\ UNCHANGED table
    /\ Goto(t, "idle")
    /\ UNCHANGED <<exhausted, tls, local, fast, index, header>>

(* currently_needs_collect, and a whole collection.                        *)
NeedsCollect(t) == watched[t] # None => table[watched[t]] # "Live"

Collect(t) ==
    /\ Step(t, "idle")
    /\ tls[t] = "ok"
    /\ NeedsCollect(t)
    /\ SetFlag(local[t], IF table[local[t]] = "QueuedObjects"
                         THEN "Live" ELSE table[local[t]])
    /\ UNCHANGED <<exhausted, thread, header, fault>>

-----------------------------------------------------------------------------
(* Mutants of Die: the fast state is left alone; its id and flag are kept; *)
(* the flag says so first.                                                 *)
DieActive(t) ==
    /\ Step(t, "idle")
    /\ tls[t] = "ok"
    /\ tls' = [tls EXCEPT ![t] = "dropping"]
    /\ Goto(t, "die_flag")
    /\ UNCHANGED <<global, local, fast, index, header, fault>>

DieWatching(t) ==
    /\ Step(t, "idle")
    /\ tls[t] = "ok"
    /\ tls' = [tls EXCEPT ![t] = "dropping"]
    /\ status' = [status EXCEPT ![t] = "DeadOrDying"]
    /\ Goto(t, "die_flag")
    /\ UNCHANGED <<global, local, short_id, watched, index, header, fault>>

DieFlagFirst(t) ==
    /\ Step(t, "idle")
    /\ tls[t] = "ok"
    /\ tls' = [tls EXCEPT ![t] = "dropping"]
    /\ SetFlag(local[t], "Dying")
    /\ UNCHANGED <<exhausted, local, fast, at, index, header, fault>>

(* LocalThreadState::drop: the fast state, then the flag, then the queue   *)
(* (whose objects' destructors may use the library), then the flag again.  *)
Die(t) ==
    /\ Step(t, "idle")
    /\ tls[t] = "ok"
    /\ tls' = [tls EXCEPT ![t] = "dropping"]
    /\ status' = [status EXCEPT ![t] = "DeadOrDying"]
    /\ short_id' = [short_id EXCEPT ![t] = None]
    /\ watched' = [watched EXCEPT ![t] = None]
    /\ fault' = IF <<status[t], short_id[t]>> = <<"Active", local[t]>>
                THEN "none" ELSE "not_active"
    /\ Goto(t, "die_flag")
    /\ UNCHANGED <<global, local, index, header>>

DieFlag(t) ==
    /\ Step(t, "die_flag")
    /\ SetFlag(local[t], "Dying")
    /\ fault' = IF table[local[t]] \in {"Live", "QueuedObjects"}
                THEN "none" ELSE "destroying_dead_thread"
    /\ Goto(t, "idle")
    /\ UNCHANGED <<exhausted, tls, local, fast, index, header>>

DieDead(t) ==
    /\ Step(t, "idle")
    /\ tls[t] = "dropping"
    /\ tls' = [tls EXCEPT ![t] = "destroyed"]
    /\ local' = [local EXCEPT ![t] = None]
    /\ IF table[local[t]] = "Dying"
       THEN SetFlag(local[t], "Dead") /\ UNCHANGED fault
       ELSE fault' = "not_dying" /\ UNCHANGED table
    /\ UNCHANGED <<exhausted, fast, at, index, header>>

(* A thread-local that holds an error is destroyed.                        *)
ForgetError(t) ==
    /\ Step(t, "idle")
    /\ tls[t] \in {"overflow", "already_died"}
    /\ tls' = [tls EXCEPT ![t] = "destroyed"]
    /\ UNCHANGED <<global, local, fast, at, index, header, fault>>

-----------------------------------------------------------------------------
Initialise(t) == InitThread(t) \/ Push(t) \/ Fill(t) \/ Publish(t) \/ Adopt(t)
Terminate(t) == Die(t) \/ DieFlag(t) \/ DieDead(t) \/ ForgetError(t)

Next ==
    \/ \E t \in Thread : Initialise(t) \/ Terminate(t) \/ GetById(t) \/ Collect(t)
    \/ \E t \in Thread, x \in Object : InitHeader(t, x) \/ Unown(t, x) \/ LoadOwner(t, x)

Spec == Init /\ [][Next]_vars

-----------------------------------------------------------------------------
(* What the identity of threads has to be.                                 *)

(* Every variable has its type.                                            *)
IdsTypeOK ==
    /\ table \in Seq(Entry)
    /\ exhausted \in BOOLEAN
    /\ tls \in [Thread -> Tls]
    /\ local \in [Thread -> ShortId \cup {None}]
    /\ status \in [Thread -> {"Uninit", "Active", "DeadOrDying"}]
    /\ short_id \in [Thread -> ShortId \cup {None}]
    /\ watched \in [Thread -> ShortId \cup {None}]
    /\ at \in [Thread -> At]
    /\ index \in [Thread -> Nat]
    /\ maker \in [Object -> Thread \cup {None}]
    /\ owner_id \in [Object -> ShortId \cup {None}]
    /\ fault \in {"none", "already_initialized", "not_uninit", "unreachable",
                  "not_active", "destroying_dead_thread", "not_dying",
                  "owner_undefined_state"}

(* The fast and the slow thread-local state agree, whatever order a thread *)
(* is initialised, dies and is accessed again in: no assertion of          *)
(* init_thread and drop fails, no unreachable_unchecked is reached, and an *)
(* owner id that a header names leads to an entry (owner_undefined_state). *)
StateCoherent == Running

(* The entry that an owner id leads to tells whether that header's owner,  *)
(* the thread that made the object, may still use its bias: it is live for *)
(* a thread that is active, and dying only after the thread has given up   *)
(* its id (ThreadStateFlag::Dying: "the biased thread will not manipulate  *)
(* the shared count").                                                     *)
OwnerEntry ==
    \A x \in Object : owner_id[x] # None =>
        /\ Found(owner_id[x])
        /\ ExistingShortId(maker[x]) = owner_id[x] =>
               table[owner_id[x]] \in {"Live", "QueuedObjects"}
        /\ table[owner_id[x]] \in {"Live", "QueuedObjects"} =>
               ExistingShortId(maker[x]) = owner_id[x] \/ at[maker[x]] = "die_flag"

(* A flag that says there are queued objects is looked at by a thread that *)
(* is going to collect, or its thread is just giving it up.                *)
QueuedIsWatched ==
    \A i \in DOMAIN table : table[i] = "QueuedObjects" =>
        \E t \in Thread : local[t] = i /\ (watched[t] = i \/ at[t] = "die_flag")

(* A thread goes without an id only when every id has been handed out      *)
(* ("if this is true, we have run out of valid thread ids").               *)
IdsSpentFirst ==
    exhausted \/ (\E t \in Thread : tls[t] = "overflow") =>
        /\ Len(table) > MaxId
        /\ \A i \in ShortId : table[i] # "error"

(* Once the ids are exhausted the table stops growing, however often       *)
(* destroyed thread-locals are initialised again: a thread takes one entry *)
(* in its life ("this avoids expanding the THREADS vector when we are out  *)
(* of ids").                                                               *)
TableBounded == Len(table) =< Cardinality(Thread)

(* A thread that has died never gets an id again, and one that has an id   *)
(* never gets another (init_thread: "we may have transferred ownership").  *)
OneLifeStep ==
    \A t \in Thread :
        /\ status[t] = "DeadOrDying" => status'[t] = "DeadOrDying"
        /\ short_id[t] # None => short_id'[t] \in {short_id[t], None}
OneLife == [][OneLifeStep]_vars

(* Comparing ids is comparing threads: the owner's check of a header is    *)
(* passed by the thread that made it and by no other, ever.                *)
Passes == [x \in Object |->
              {t \in Thread : owner_id[x] # None /\ ExistingShortId(t) = owner_id[x]}]
Identity == INSTANCE Ownership
                WITH made <- {x \in Object : maker[x] # None}, passes <- Passes
RefinesOwnership == Identity!Spec

-----------------------------------------------------------------------------
(* The invariant that is inductive, in parts.                              *)

Initialising(t) == at[t] \in {"fill", "publish", "adopt"}

(* The entry a thread has reserved or lives under.                         *)
Claim(t) == IF Initialising(t) THEN index[t] ELSE local[t]

(* No entry is claimed by two threads.                                     *)
ClaimsDistinct ==
    \A t, u \in Thread : Claim(t) # None /\ Claim(t) = Claim(u) => t = u

(* What the fast state, the slow one and the point of execution say of a   *)
(* thread goes together.                                                   *)
ThreadAgrees ==
    \A t \in Thread :
        /\ status[t] = "Active" <=> tls[t] = "ok"
        /\ status[t] = "Active" => short_id[t] = local[t] /\ watched[t] = local[t]
        /\ status[t] # "Active" => short_id[t] = None /\ watched[t] = None
        /\ local[t] # None <=> tls[t] \in {"ok", "dropping"}
        /\ tls[t] \in {"dropping", "already_died"} => status[t] = "DeadOrDying"
        /\ status[t] = "DeadOrDying" => tls[t] \in {"dropping", "already_died", "destroyed"}
        /\ at[t] = "push" \/ Initialising(t) => tls[t] = "unset"
        /\ at[t] = "die_flag" => tls[t] = "dropping"

(* What the entry that a thread is working with says.                      *)
EntryAgrees ==
    \A t \in Thread :
        /\ at[t] \in {"fill", "publish", "adopt", "get_by_id"} => index[t] \in DOMAIN table
        /\ at[t] \in {"fill", "publish"} => table[index[t]] = "reserved"
        /\ at[t] = "adopt" =>
               table[index[t]] = (IF Fits(index[t]) THEN "Live" ELSE "error")
        /\ local[t] # None => local[t] \in DOMAIN table
        /\ tls[t] = "ok" \/ at[t] = "die_flag" => table[local[t]] \in {"Live", "QueuedObjects"}
        /\ tls[t] = "dropping" /\ at[t] # "die_flag" => table[local[t]] = "Dying"

(* A live entry has a thread, and only what fits is no error.              *)
TableAgrees ==
    \A i \in DOMAIN table :
        /\ table[i] \in Flag => Fits(i)
        /\ table[i] = "error" => ~Fits(i)
        /\ table[i] \in {"Live", "QueuedObjects", "Dying"} => \E t \in Thread : Claim(t) = i

(* An id in a header, or taken from one, is that of the object's maker, as *)
(* long as that thread has it; nobody else is about to get it.             *)
NamesMaker(i) == \A t \in Thread : Initialising(t) => index[t] # i
HeaderAgrees ==
    /\ \A x \in Object : owner_id[x] # None =>
           /\ Found(owner_id[x])
           /\ maker[x] # None
           /\ NamesMaker(owner_id[x])
           /\ \A t \in Thread : local[t] = owner_id[x] => t = maker[x]
    /\ \A t \in Thread : at[t] = "get_by_id" => Found(index[t]) /\ NamesMaker(index[t])
    /\ \A i \in DOMAIN table : table[i] = "QueuedObjects" => NamesMaker(i)

(* The flag is set by those who hold an index that does not fit.           *)
ExhaustedAgrees ==
    /\ exhausted => Len(table) > MaxId
    /\ \A t \in Thread :
           /\ at[t] \in {"publish", "adopt"} /\ ~Fits(index[t]) => exhausted
           /\ tls[t] = "overflow" => exhausted
           /\ tls[t] = "destroyed" /\ status[t] = "Uninit" => exhausted

IdsInv ==
    /\ IdsTypeOK
    /\ Running
    /\ ClaimsDistinct
    /\ ThreadAgrees
    /\ EntryAgrees
    /\ TableAgrees
    /\ HeaderAgrees
    /\ ExhaustedAgrees
=============================================================================
