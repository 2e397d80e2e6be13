# A verification development of biasedrc

`biasedrc` provides `Brc`, a reference-counted pointer like `Arc` whose
reference count is *biased* towards one thread.  The thread that creates an
object, its owner, counts its own references in a word of its own, without
atomic read-modify-write operations; all other threads count in a shared word,
atomically.  When the owner's count is used up it *merges* the two words.  When
the other threads drop more references than they made, so that the shared count
becomes negative, the owner has to be asked for the merge: the object is put
into the owner's queue, and the owner merges it the next time it *collects*.
When the owner has died meanwhile, somebody else merges.

This directory holds TLA+ modules that model that algorithm as the code has it,
TLC configurations that check them on small instances, and proofs, checked by
TLAPS, that hold for every number of threads and references and every width of
the counters.  Paths are relative to the repository; `runtime.rs` and so on are
in `src/src/`.

## 1. The system

| Component | State | Operations | Talks to |
|---|---|---|---|
| `RawBrcHeader` (`runtime.rs`) | shared word (signed count, `merged`, `queued`), biased word (owner id, count) | `init`, `increment_strong`, `increment_strong_shared`, `increment_strong_unless_zero`, `decrement_strong` (three paths), `explicit_merge`, `strong_count`, `is_unique` | is called by `Brc` and `Weak`; queues itself with the owner's `SharedThreadInfo`; is merged by a collection |
| Packed words (`runtime.rs`) | none | `to_raw`, `from_raw`, `checked_add`, `checked_sub`, and what `fetch_add` and `fetch_or` do to a packed word | used by `RawBrcHeader` |
| Thread runtime (`runtime/threads.rs`) | per thread: `LocalThreadStatus`, `ThreadStateFlag`, `ObjectQueue` with its `Arc` and `Weak` handles | `queue_object`, `collect`, `collect_nounwind`, `collect_force`, `LocalThreadState::drop`, `ObjectQueue::drop` | shared memory between the owner and the threads that queue; calls `explicit_merge`, which calls the destructors of values, which call the runtime again |
| Thread ids (`runtime/threads.rs`) | the table of threads, `SHORT_THREAD_IDS_EXHAUSTED`, a thread-local state | `init_thread`, `existing_short_id`, `get_by_id` | decides whether `init` can bias |
| Weak and uniqueness (`weak.rs`, `strong.rs`, `layout.rs`) | `weak_count` with its locked value | `downgrade`, `upgrade`, `Weak::clone`, `Weak::drop`, `is_unique`, `get_mut`, `make_mut`, `try_unwrap` | reads both words of the counter; frees the memory |
| `Brc` (`strong.rs`) | none besides the header | `clone`, `clone_shared`, `drop`, raw pointers, pinning | the above; `new`, `clone` and `drop` begin with an implicit collection |
| Allocation and conversions (`strong.rs`, `strong/conversions.rs`) | during a call, a guard with the number of items written | `alloc_with_in`, `from_iter_exact_trusted_in`, `From`, `FromIterator` | calls iterators, closures and `clone`, any of which may panic; initialises the header last |
| Pointee traits, macros, third-party adapters | none | forwarding | `Brc` |

What is hard about it:

* **Interleaving.** A merge is two writes to two words.  The owner merges
  implicitly at its last reference while others add to and subtract from the
  shared word; several of them may see it become negative at once; between the
  two writes the header says two things.
* **Packed arithmetic.** A signed count shares a word with two flags, and one
  path changes it with an unchecked `fetch_add`.
* **Ownership of the right to merge.** An object waiting in a queue is kept alive
  by the state of its counters and not by a reference.
* **Wakeups.** `queue_object` pushes and then sets a flag; the owner empties its
  queue and then clears the flag.
* **Death.** A thread may die, with objects queued, while another is pushing.
* **Re-entrance and panics.** A merge may run a destructor, which calls the
  library again, and may unwind through the collection.
* **Life of a thread.** A thread takes an id while others do, out of a table that
  grows; its thread-local state is destroyed before its last use; the id stays in
  the headers of its objects.
* **Partial construction.** An iterator may panic, end early or go on too long,
  when some items are written and others are not.
* **Locks.** `is_unique` locks the weak count and then reads two words one after
  the other; `downgrade` spins meanwhile.

What makes each component correct: the counts of the two words are together the
number of references; a value is destroyed once, after its last reference; an
object is in one queue, or in one thread's hands, once, with its memory
allocated; a value without references is not forgotten; only the owner merges as
long as there is one; no queued object goes unnoticed; a mutable borrow is
exclusive; an exact count is exact; an id belongs to one thread for ever, and leads
to it; every item given to a constructor is dropped once, whatever panics.

## 2. The modules

```
 Words ── RawBrcHeader ── BrcHeader ── Handover   ThreadRuntime    ThreadIds    Construction
   │        │ refines SharedValue                      │ refines       │ refines
   │        └ refines MergeQueue ───────────────── MergeQueue      Ownership
   │        │               │             │            │               │            │
 Words-,  RawBrcHeader-   BrcHeader-   Handover-  ThreadRuntime-   ThreadIds-   Construction-
 Packed-  Proofs          Proofs       Proofs     Proofs           Proofs       Proofs
 WordsProofs
```

Each component has an `MC` module that gives the model values of its runs.


* **`Words`**: the two words as records, and the arithmetic of their packed
  forms.  It is written with `+`, `\div` and comparisons, which the prover
  understands, and `MCWords` checks it against the masks and shifts of the code.
* **`PackedWords`**: the two atomic words, packed, under `fetch_add`, `fetch_or` and
  stores.
* **`SharedValue`** (abstract): what any reference-counted pointer promises.  A
  value is reached through references, destroyed at most once, only when none is
  left, and no reference is obtained afterwards.
* **`RawBrcHeader`** (the core): one object, any number of threads and references.
  `holder` says which thread has each outstanding `Brc`.  There is one action per
  atomic access to the shared word, and one per access to the biased word that
  races with another thread's.  The owner's load and store of the biased word in
  `attempt_biased_increment` and `decrement_biased` are one step, because nobody
  else writes that word while its owner is active.  `pc` says what a thread is in
  the middle of: aborting, queueing, merging, destroying.  `TakeQueued` stands for the
  queue, which `ThreadRuntime` models in full.
* **`BrcHeader`**: extends `RawBrcHeader` with the weak count, its lock, the
  `Weak` pointers, and the calls that read both words (`strong_count`,
  `is_unique`), one step per access.  `DisciplinedSpec` of `RawBrcHeader` is a property of it:
  the nondeterministic `LastWeakDropped` and `DropWeak` there become exact here.
* **`Handover`**: extends `BrcHeader` with two variables that observe it and restrict
  nothing: `own`, the references the biased word was incremented for, and `kept`,
  which says whether the owner has kept them.  It is about clients, not about the code of
  the library: it says which programs keep the discipline of section 3.
* **`MergeQueue`** (abstract): the contract between the counter and the runtime.
  Whoever was given the right to queue an object either hands it to the queue or,
  once that is closed, merges it; the owner takes objects out while it is active,
  and others only afterwards; each object is merged once.  Both sides refine it,
  with the same three owner states: `RawBrcHeader` with its one object
  (`RefinesMergeQueue`, the ticket being the object), `ThreadRuntime` with several.
  That is how the two are composed.
* **`ThreadRuntime`**: the queue, the state flag, the `Arc` handles of the queue,
  collections and thread death, with a stack of calls per thread so that
  destructors can call the runtime again.  `unwinds` says whether a panic goes
  through a call or aborts there; `abandoned` is the set of the objects that such a panic
  has left in a queue whose flag does not show it.  A panic fills it, setting the flag
  empties it, and a popped object leaves it.
* **`Ownership`** (abstract): what `RawBrcHeader` relies on from thread ids.  Whether
  a thread takes itself for an object's owner is decided by comparing ids; only
  the thread that made the object may ever pass, and once it cannot, it never
  can again.
* **`ThreadIds`**: the table of threads as the concurrent vector it is (reserve,
  fill, publish), the exhaustion flag, and each thread's two states: the
  thread-local `THIS_THREAD_STATE` with its initialisation and destruction, and
  `THIS_THREAD_STATE_FAST` with its status, its id, and the flag it watches.
  `fault` names the assertion that failed, or the `unreachable_unchecked` that was
  reached.
* **`Construction`**: one call of a constructor, from the source of the items over
  the guard and the allocation to the last drop or to the end of a panic.

### How actions correspond to code

| Action | Code |
|---|---|
| `IncrementBiased`, `CloneBiased`, `UpgradeBiased` | `attempt_biased_increment`, runtime.rs 281-307 |
| `CloneShared`, `AbortOverflow` | `increment_strong_shared`, 325-348: the `fetch_add`, at any count; and, when the count it found was past the threshold, the abort, a step later, with the new count there for others to see |
| `UpgradeShared` | the loop of `increment_strong_unless_zero`, 350-391 |
| `DropBiased`, `DropBiasedSlow` | `decrement_biased`, `decrement_biased_slow`, 431-509 |
| `DropShared` | the loop of `decrement_shared`, 511-576 |
| `LoadOwner`, `QueueObject` | `decrement_shared_do_queue`, 578-617, and `queue_object` |
| `MergeLoad`, `MergeCas`, `StoreUnowned` | `explicit_merge`, 865-937 |
| `DropValue`, `DropWeak` | `erased_dealloc`, strong.rs 982-1032, and `drop_weak`, layout.rs 41-71 |
| `OwnerDies`, `CloseQueue` | `LocalThreadState::drop`, threads.rs 408-441 |
| `Upgrade` ... `CheckDead` of `ThreadRuntime` | `queue_object`, threads.rs 157-205 |
| `Collect`, `Pop`, `Emptied`, `ClearFlag`, `Recheck` | `collect_slow`, `collect_force`, threads.rs 310-400 |
| `Die` ... `DieDead` | `LocalThreadState::drop` |
| `IsUnique`, `Lock`, `LoadShared`, `LoadBiased`, `Unlock` | `Brc::is_unique`, strong.rs 456-485, and `RawBrcHeader::strong_count`, runtime.rs 168-236 |
| `Downgrade`, `CloneWeak`, `AbortWeak`, `DropWeakPointer` | strong.rs 576-613, weak.rs 250-286; the abort of `Weak::clone` is a step after its `fetch_add` |
| `InitThread`, `Push`, `Fill`, `Publish`, `Adopt` | `init_thread`, before, around and after `push_with`, in threads.rs |
| `InitHeader` | `RawBrcHeader::init` with `existing_short_id` and its slow path |
| `LoadOwner`, `GetById` of `ThreadIds` | `decrement_shared_do_queue` and `get_by_id` |
| `Die`, `DieFlag`, `DieDead`, `ForgetError` | `LocalThreadState::drop` and the destruction of the thread-local |
| `Begin` ... `DropIter` of `Construction` | `from_iter_exact_trusted_in` |
| `Allocate`, `Move`, `Call` | `alloc_with_in` with the closures of `new`, `new_with` and the conversions |
| `UnwindItems`, `UnwindMemory` | `PartialDropGuard::drop` and the guard of the allocation |

A compare-exchange loop is one action that happens when the exchange succeeds:
failed attempts change nothing and the loop starts again from what it has read.
The aborts that a release build performs are values of `fault`; after one the
process has stopped.

## 3. What is checked

Every run has a mutant for each of its properties: a plausible error in one
mapped definition that makes TLC find that property violated.

| Run | What it asks | Bounds |
|---|---|---|
| `words` | packing loses nothing; the arithmetic is the code's bit operations; `fetch_add` and `fetch_or` on a packed word do what the records say | 4-bit counts, every packed word |
| `header` | the core, under the discipline below: exact counts, which never wrap however many threads are past the threshold, no corruption abort, value safe, destroyed once, memory of waiting objects valid, nothing forgotten, implicit merge clean, never biased again, the inductive invariant, refinement of `SharedValue` and of `MergeQueue`; liveness: a value without references is destroyed, an object whose merge is asked for is merged | 3 threads, 6 references, 4-bit shared count (-8..7), biased count at most 2; 550,000 states |
| `brc_header` | under the same discipline: weak count exact, mutable borrows exclusive, exact counts exact, the refinement of `RawBrcHeader`, the inductive invariant; as long as the owner keeps its own references, the shared count covers all others | owner, a thread with an id, a thread without; 3 references; weak counts up to 9; 580,000 states |
| `runtime` | nobody merges beside a live owner, no object stranded, no lost wakeup, every queued object merged in the end, but for the objects a panic has abandoned, until the flag is set again; refinement of `MergeQueue`, the inductive invariant, of which the runtime's assertions are a part | 3 threads, 3 objects, destructors two levels deep, a panic in any of them; 70,000 states |
| `thread_ids` | no assertion of `init_thread` and `drop` fails, the id in a header leads to its owner, a queued flag is one that is watched, no id is given out while another is left, none twice, refinement of `Ownership`, the inductive invariant | 3 threads, 2 ids, 2 objects |
| `construction` | no item dropped twice or before it was written, a `Brc` returned is whole, everything is released in the end, the inductive invariant | up to 4 items, every kind of source but boxes |

The other six runs are expected to be violated; see section 5.

A run is `tlc -config <cfg> <module>`, with the module and the configuration that
`PROJECT.json` names for it; the proofs are checked by `tlapm` on each of
`WordsProofs.tla`, `PackedWordsProofs.tla`, `RawBrcHeaderProofs.tla`,
`BrcHeaderProofs.tla`, `HandoverProofs.tla`, `ThreadRuntimeProofs.tla`, `ThreadIdsProofs.tla` and `ConstructionProofs.tla`.

**Why the bounds are enough for the interesting cases.**  Six references with a
4-bit count let the shared count pass the overflow threshold (3) with one thread waiting to abort
and others adding to it, and take several negative values with owner and others still holding
references; the largest count (7) leaves room for one increment by each of three threads above the
threshold, as the code's comment on the threshold supposes (`RoomAssumption`).  A biased count
of at most 2 makes the owner's increments run over into the shared word.  Three threads give
an owner and two others racing for the same transition, which is all the pairs there are; a third
racer finds what the second finds.  Three objects let one be popped, one queued and one being
pushed at once, with two levels of destructors, so that a nested collection meets an outer one.
That the invariants do not depend on these bounds is what the proofs show.  `WeakMax` 9 has the
threshold, counts past it while the call that made them has not aborted yet, and the
locked value.  Three threads with two ids let the ids run out while two threads
are still taking theirs, and two objects let one header keep the id of a dead
thread while another thread makes the other.  Four items let a source panic with
items written, one in flight and others still to come, and stop before or go on
after the length that was claimed.

**Symmetry** is used among references, among objects and among the threads that
are alike, in runs without a liveness property: `brc_header`, `thread_ids` and some
of the violated ones.  `header` and `runtime` do without.

**Deadlock** is not checked where the system may stop: when all references and
all `Weak` pointers are gone, or when an abort has ended the process, nothing is
left to do.

**Fairness.**  `header` assumes that a thread finishes what it is in the middle
of (`Continue`), that a queue with objects in it is emptied (`TakeQueued`) and
that a dying thread finishes dying.  For an active owner `TakeQueued` means that
it calls the library again: collections are implicit in `new`, `clone` and
`drop`, and an owner that never again does any of these never frees what others
have left to it.  The doc of `collect` says as much (runtime.rs 945-947).  `runtime` assumes the
same of the queue, and that destructors return.  No fairness is assumed for
clients: references need not be dropped, sent or made.

**The discipline.**  `Spec` of `RawBrcHeader` and `BrcSpec` of `BrcHeader` are the code as it
is: `CloneShared` is a `fetch_add` at any count, `UpgradeShared` an increment at any count but
the largest.  `Disciplined` is what the code leaves to its clients, in three parts:

* no `fetch_add` at an unmerged count of -1 (`ClonesAtMinusOne`), where it carries into the
  merged flag;
* no upgrade at an unmerged count of -1 (`UpgradesAtMinusOne`), where it leaves an object
  queued whose count says that it is not;
* no upgrade when the count is so near its largest value that increments under way might wrap
  (`UpgradesNearMax`).  `increment_strong_shared` stops at the threshold, so that the
  room above it is left for threads that have added and not yet aborted;
  `increment_strong_unless_zero` looks at the width only and may use that room up.

No code enforces them.  `DisciplinedSpec`, `DisciplinedBrcSpec` and their fair or observed variants
(`FairSpec`, `DisciplinedHandoverSpec`) are the behaviours whose every step keeps them.  The passing
runs of the counter and of the header and the theorems of `RawBrcHeaderProofs` and
`BrcHeaderProofs` are about these, but for two about `Spec`: `TypeCorrect` and `MergedOrCarried`.
`clone_at_minus_one` and `upgrade_at_minus_one` drop the first and the second part, one each
(`CloningSpec`, `UpgradingSpec`), and show what happens then.  In particular `MergedByMerge`,
that only merges set the merged flag, is false of the code, and is checked in the first of these only.

`Handover` says which programs keep it: those whose owner keeps its own references.  A
reference is the owner's own if the biased word was incremented for it, by `init`, or
by the owner's `clone` or `upgrade`.  To keep it is not to send it to another thread
before the words are merged, and to drop it, if at all, while the owner is active.
Other threads come by references with `clone_shared`, which the owner may call and send
the result, with a `clone` of a borrowed reference, or with an `upgrade`; all of these can
be sent on, also to the owner.  The last condition matters: an owner that drops its own
references after its thread-local state is gone drops them in the shared word.  With that
condition taken out of `KeepsOwn`, TLC finds an owner with two references of its own
that dies and drops one, so that the count is -1, and another thread that clones the
second.

That such programs never come across a count of -1 is checked (`SharedCovers`) and
proved.  The run has only steps within the discipline, which is enough: the first step
outside it would start from a -1 that the run has found first.  It is also proved that such
programs keep the discipline (`HandoverIsDisciplined`) and so have all properties that follow from
it.  Its third part, which is about the number of references and not about who has them, is
taken over into `kept` as it is.  Such programs never use the queue, either (`QueuesNothing`): it
is programs that send biased references, or drop them after the owner's death, that need the
queue, and for them the discipline stays an assumption.

## 4. What is proved

`WordsProofs` proves, for every width, that packing is injective, that
`fetch_add` adds one and keeps the flags at every count but -1
(`FetchAddIncrements`), and that at -1 it flips the merged flag
(`FetchAddCarries`).  `PackedWordsProofs` shows `FetchEffect` of every packed word: each is
the packed form of one shared or biased word (`UnpackedWord`, `UnpackedBias`), the
carry at -1 may go on into the queued flag (`FetchAddAtMinusOne`), and `fetch_or` sets one
bit and no other (`FetchOrSets`).  Besides the widths it assumes that `None` is no id.

`RawBrcHeaderProofs` proves for any threads, any finite set of references and any
widths (`WidthAssumption`, `HeaderAssumption`, `RoomAssumption`) that the
safety properties of run `header` hold of every behaviour of `DisciplinedSpec`, among them the
refinements of `SharedValue` and of `MergeQueue`.  The argument:

* None of the properties is inductive by itself.  That the counts are exact after
  a merge needs that the biased count read by the merger is still the count when
  its exchange succeeds (`MergerAlone`); that needs that nobody but the owner, or
  anybody after the owner's death, merges; that needs that the ticket exists once
  (`OneTicket`, `TicketHeld`); and that needs that the sign of the shared count and
  the queued flag agree (`WordsAgree`), for which the discipline is needed.
* That the counts are exact needs also that no `fetch_add` wraps (`OverflowRoom`): a thread past the
  threshold is at "overflow" and adds no more, so that above the threshold the count
  and the number of threads that may still add go up and down together.  `CountNeverWraps`
  is that part of the invariant.
* `IInv` is the conjunction of these, of the state between the two halves of a merge
  (`MergeHalves`), of there being one destroyer exactly when a merged count is zero
  and the value whole (`OneDestroyer`), and of what is left after it (`Remains`).
  TLC checks it as an invariant of run `header`.
* `InitEstablishes`, one `...Keeps` lemma per action and `NextKeeps` give
  `Invariance`.  References are counted with the library's theorems on
  finite sets (`LiveAdded`, `LiveRemoved`).
* The safety properties follow state by state from `IInv`; `NeverRebiased` and the
  refinements follow step by step (`FlagsChange`, `PromiseStep`, `ContractStep`).
* Two theorems are about `Spec`, the code without the discipline.  `TypeCorrect` says that no
  count leaves its width, whatever carries and wraps there are.  `MergedOrCarried` says that a step that
  sets the merged flag is a merge or a `fetch_add` at an unmerged -1 (`FlagAppears`): the error of
  section 5 is the only way to the flag besides a merge.

`BrcHeaderProofs` builds on that: it proves, from `BrcAssumption` besides and under
the same discipline, that the whole header, with its weak count and the calls in
progress, satisfies `BrcInv` (`HeaderConsistent`) and implements `RawBrcHeader`'s
`DisciplinedSpec` (`HeaderCounts`), and therefore `SharedValue` (`HeaderImplementation`) and
`MergeQueue` (`HeaderKeepsContract`).  The argument:

* A call of `is_unique` or `strong_count` is a sequence of steps of a thread that
  does nothing else meanwhile.  `BrcInv` says what the words it has read are still
  worth: `BiasAgrees` that the bias it has looked at cannot have changed hands,
  `ReadAgrees` that the shared word it holds goes with the biased word it is
  about to read, `UniqueAgrees` that whoever was found alone is alone.
* The last of these is kept because an exclusively borrowed reference is lent to
  nobody, so that nothing can be cloned from it, and because without a `Weak` there
  is nothing to upgrade (`SoleStays`).  That there is no `Weak` is what the lock is
  for (`WeakExact`, `WeakAgrees`).
* The steps are taken in three groups: the counter's (`CounterStepKeeps`), those of
  the `Weak` pointers (`WeakStepKeeps`), and those of the calls, which all come down
  to one thread's record changing (`OneCall`, `CallKeeps`).
* `WeakCountExact`, `BorrowsAreExclusive` and `StrongCountsAreExact` follow state by
  state; the last assumes that only threads with an id ask (`AnonymousReads`), and
  run `strong_count_without_id` shows what happens otherwise.

`HandoverProofs` discharges the discipline for the programs of `Handover`.  `HandoverSpec` is
built on `BrcSpec`: increments at -1 are what the code makes of them.  The argument:

* The step lemmas of the two modules above are about a step of `Next` that is `Disciplined`, and
  so can be used of a step of which this has to be shown first.
* `OwnAgrees` says that, as long as `kept` is true, the biased count is at most the number
  of the owner's own references.  With exact counts, the shared count is then at
  least the number of the others (`CoversOthers`), and never -1 (`KeepsDiscipline`).
* Each of the two needs the other: that the biased count follows the owner's own references
  needs that no one but the owner changes it before the merge, which is in `IInv`
  (`BiasedStep`), and `IInv` is kept because the count is not -1.  `HandoverInv` is their
  conjunction, `OwnAgrees /\ (kept => HeaderInv)`.
* An increment adds a reference to the owner's own (`IncrementAddsOwn`), a drop takes at most one
  away (`DropTakesOwn`; none if it was received), nothing else does (`OthersLeaveOwn`).
* `HandoverIsDisciplined`: if `kept` is true throughout, the behaviour is one of
  `DisciplinedBrcSpec`.  `HandoverIsSafe`, `HandoverImplementation` and `HandoverKeepsContract`
  carry the safety properties and the refinements over.
* `HandoverMergesForGood`: in such programs only merges merge, which follows from `MergedOrCarried`,
  and a merged counter is never biased again.

`ThreadIdsProofs` proves the properties of run `thread_ids` for any threads and
objects and any `MaxId`, without any discipline; `TableIsBounded` assumes that the
threads are finitely many.  The argument:

* Every index of the table is claimed by at most one thread (`ClaimsDistinct`),
  whether it is still taking its id or has it; what the entry says is what that
  thread's status says (`ThreadAgrees`, `EntryAgrees`).
* The id in a header is one that was published, so that its entry never goes away
  and is never handed out again (`HeaderAgrees`, `TableAgrees`); hence `OwnersAreFound`
  and `IdsAreIdentities`.
* `ExhaustedAgrees` relates the flag to the table; it gives `IdsAreSpentFirst`.
* One `...Keeps` lemma per action gives `IdsInvariant`.

`ThreadRuntimeProofs` proves the safety properties of run `runtime` for any
threads and objects and any bounds (`RuntimeAssumption`), with destructors that call
the runtime again and may panic anywhere.  The argument:

* A thread's calls are a stack, and a step changes its top.  `StackAgrees` says what
  can lie below a call: only one that runs user code or merges.  It also says that the
  owner dies at the bottom of its stack, that only the owner collects, and only
  while it is active.  Without it a step could return into a call that does not expect it.
* `OwnerAgrees` ties the state flag and the owner's `Arc` to how far its death has
  come.  That the assertions hold follows: `queue_object` finds the queue gone only
  after the owner's `Arc` is given up, which happens after the flag was set, and no
  collection is in progress when the owner starts to die.
* `ClosedAgrees` says that who has found the queue gone, or is emptying it from outside,
  is right for good: no handle can be made from a queue without handles.  With
  `StackAgrees` it gives `OwnerMergesAlone`.
* `NothingStranded` is kept because whoever gives up the last handle empties the
  queue; `NoLostWakeup` because a collection that has cleared the flag looks at the
  queue again, and whoever pushes sets the flag after the push.  A panic leaves in `abandoned` only
  objects that are in the queue at that moment; the next push is not among them, and its flag
  brings them back.
* `TicketsAgree` says that an object is in the queue once, or in the hands of one call.
  Each kind of change to the stacks has a lemma: a call begins (`EnteredTickets`), ends
  (`ReturnedTickets`) or goes on (`MovedTickets`).
* `RuntimeInv`, which TLC checks in run `runtime`, is the conjunction; one `...Keeps` lemma
  per action and `RuntimeStep` give `Invariance`.
* For `QueueImplemented` each step is mapped: `QueueObject` to `Ask`, `Push` to
  `Enqueue`, `CheckDead` to `Keep`, `Pop` to `Take`, `Merge` to `Merge`, `Die` to
  `OwnerDies`; giving up the last handle, in `Release` or in `DieQueue`, to `CloseQueue`; all
  others change nothing of `MergeQueue`, including a panic that unwinds calls.
  `ContractKept` of `RawBrcHeaderProofs` is the other half: the counter and the runtime
  keep the same contract, each proved on its own side.

`ConstructionProofs` proves `DroppedOnce`, `Whole` and `Released` for sources of any
length, any claimed length and a panic at any place.  They assume that
`From<Box<T>>` is not called, for which `DroppedOnce` is false (section 5).  The argument:

* `ItemsAgree`: with `Written` slots written and `Taken` items taken, the slots hold the
  first items in order, the source the last ones, and an item between them was
  taken and dropped: one too many, or what was left when the source was dropped.
* `StageAgrees` says how the two numbers, the claimed length and the guard's
  `initialized_len` are related at each place of the call; the guard is never ahead, at
  most one item behind, and when a panic unwinds with it behind, all slots are written.
* `DropsAgree` says exactly which items were dropped (`Gone`), so that no drop can
  happen twice; `MemoryAgrees` follows the allocation.
* `CountWritten` is the one fact about counting; the rest is one `...Keeps` lemma per
  action.

Only model-checked:

* the liveness properties `Reclaimed`, `EventuallyMerged` and `EveryObjectMerged`:
  fairness and `ENABLED` are beyond the prover;
* `Packing` of `MCWords`, which compares the arithmetic of `Words` with the operators
  of `Bitwise`: these are recursive, and the prover cannot use them.  What
  `WordsProofs` and `PackedWordsProofs` show is about the arithmetic.

Parts of an inductive invariant that have a theorem of their own, such as `OneTicket`
of the core and `AssertionsHold` of the runtime, are checked by TLC as part of that
invariant.  `QueuesNothing` follows from `SharedCovers` and `IInv`, and has no run.

## 5. Where the code does not do what it says

Each is a run that TLC finds violated.

1. **`clone_at_minus_one`** (runtime.rs:344).  `increment_strong_shared` adds 1 to the
   packed word.  At -1 the carry sets the merged flag, though the flag "is set by
   the owner thread when it has merged" (runtime.rs:809).  `decrement_shared` warns
   of this for subtraction (518-519) and uses a loop; the increment does not.
2. **`upgrade_at_minus_one`** (runtime.rs:377).  An upgrade takes the count of a queued
   object from -1 to 0.  The owner's implicit merge then sees 0 and frees an object
   that is still in the queue, where "the refcnt guarantees the header will not be
   dropped" (runtime.rs:604).
3. **`unown_after_free`** (runtime.rs:504, 920).  The store that clears the owner comes
   after the merged flag is published; another thread may have freed the header.
4. **`panic_in_collect`** (threads.rs:382).  A panic in the second round of a
   collection leaves objects in a queue whose flag is `Live`, which "indicates that
   a thread is alive, but has no queued objects" (threads.rs:34-35).  They wait for
   the next object to be queued, for `collect_force` or for the thread's death.
5. **`strong_count_without_id`** (runtime.rs:198).  For a thread without a short id the
   ownerless biased word compares equal to its own missing id, so that a shared word
   read before a merge is taken for its own: `Ok(0)` to the holder of a reference.
   `is_unique` is safe from this because it has asked `is_definitely_not_unique`.

6. **`box_conversion`** (conversions.rs:97).  `From<Box<T>>` copies the value out of
   the box, as its comment says (conversions.rs:85), and then drops the box together
   with the value: the value is dropped again with the `Brc`.  The one test of it
   uses `Box<str>`, which has no destructor to run twice.

Seen while modelling, with no run of their own:

* `try_unwrap` never releases the header's memory, because the reference is
  forgotten and the common weak count with it (`Released` of `Construction` allows
  for it); its comment says `is_unique` may have false positives where `is_unique`
  says it never has.
* In `from_iter_exact_trusted_in` a panic of the last call of `next`, which checks
  that the iterator has ended, or of the iterator's destructor, leaks the last item:
  the guard's `initialized_len` is only updated when the next iteration begins.
  `Released` allows for exactly that.
* A thread that only clones or drops a `Brc` takes a short id: the dummy flag of an
  uninitialised thread reads as `Dying`, so that the implicit collection goes the
  slow way, which initialises the thread.
* The doc of `ShortThreadId` says that an id fits in 18 bits; `BITS` is 12
  (threads.rs:593-599).

## 6. What is not modelled

* Weak memory.  Steps are sequentially consistent.  The code's orderings (a relaxed
  failure in the upgrade, relaxed loads in `is_definitely_not_unique`, acquire and
  release around the destructor) are not judged.
* Debug assertions as aborts: they appear as properties (`ImplicitMergeClean`).
* Layout, pointer arithmetic, `into_raw` and `from_raw`, pinning, the pointee traits,
  macros and third-party adapters: address arithmetic that changes no state,
  forwarding, or settled by the compiler.
* Conversions of items that have no destructor (`str`, `OsStr`, slices that are
  copied): they copy bytes, and can fail only before they begin.
* A panic while another unwinds aborts the process; `Construction` and
  `ThreadRuntime` end there.  `collect_slow` does nothing while its thread is
  panicking; `ThreadRuntime` has no state for this and leaves those calls out.
* `Brc::weak_count`, a load that changes nothing.
* The concurrent vector behind the table of threads is an external library:
  modelled from how `threads.rs` uses it.

## 7. Plan

Done: `Words`, `RawBrcHeader` with `SharedValue` and `MergeQueue`, `BrcHeader`,
`Handover`, `ThreadRuntime` with `MergeQueue`, `ThreadIds` with `Ownership`, `Construction`, and the
proofs about all of them: each safety property of a passing run is proved but for
`Packing`.

Next, in this order:

1. The two errors in the increments repaired in a variant of `CloneShared` and
   `UpgradeShared`, and the theorems of the core without the discipline.
2. The memory that `try_unwrap` leaves behind, followed through the weak count.
