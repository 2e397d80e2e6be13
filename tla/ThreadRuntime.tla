---------------------------- MODULE ThreadRuntime ----------------------------
(***************************************************************************)
(* The part of the runtime that gets objects merged (src/src/runtime/      *)
(* threads.rs): the queue of one owner, its state flag, the Arc handles    *)
(* that keep the queue alive, the collections of the owner, and its death. *)
(*                                                                         *)
(* Every thread has a stack of calls, because a merge may destroy a value, *)
(* and its destructor may call the runtime again.  A call is a record of   *)
(* where it is and of the object it works for.                             *)
(***************************************************************************)
EXTENDS Naturals, Sequences, FiniteSets, SequencesExt

CONSTANTS
    Thread,     \* the threads
    Owner,      \* the thread whose queue is modelled
    Object,     \* the objects biased to Owner
    NoObject,   \* the object of a call that is for none
    MaxDepth,   \* the deepest stack from which a destructor calls again
    MayPanic    \* whether destructors panic: TRUE or FALSE

ASSUME RuntimeAssumption ==
    /\ Owner \in Thread
    /\ NoObject \notin Object
    /\ MaxDepth \in Nat
    /\ MayPanic \in BOOLEAN

VARIABLES
    status,      \* the owner's LocalThreadStatus: "Active" or "DeadOrDying"
    state_flag,  \* the owner's ThreadStateFlag
    queue,       \* the owner's ObjectQueue
    handle,      \* LocalThreadState still holds its Arc of the queue
    stage,       \* where each object is on its way to the merge
    stack,       \* the calls each thread is in, the innermost last
    abandoned,   \* the objects a panic has left in the queue with no flag set
    fault        \* the assertion that stopped the process, or "none"

owner == <<status, state_flag, handle>>
vars == <<owner, queue, stage, stack, abandoned, fault>>

-----------------------------------------------------------------------------
(* Calls.  A panic unwinds through a call or aborts there (abort_unwind).  *)
QueueObjectAt == {"upgrade", "push", "set_flag", "release", "check_dead"}
CollectAt == {"pop", "clear_flag", "recheck"}
MergeAt == {"merge", "destroy"}
HandAt == {"upgrade", "push", "check_dead", "merge"}
DeathAt == {"die_flag", "die_queue", "die_dead"}
Call == [at : QueueObjectAt \cup CollectAt \cup MergeAt \cup DeathAt \cup {"drain"},
         object : Object \cup {NoObject},
         unwinds : BOOLEAN]

NewCall(at, x) == [at |-> at, object |-> x, unwinds |-> FALSE]

Running == fault = "none"
Busy(t) == stack[t] # <<>>
Top(t) == Last(stack[t])
At(t, at) == Running /\ Busy(t) /\ Top(t).at = at

Return(t) == stack' = [stack EXCEPT ![t] = Front(@)]
Goto(t, at) == stack' = [stack EXCEPT ![t] = Append(Front(@), [Top(t) EXCEPT !.at = at])]
Enter(t, call) == stack' = [stack EXCEPT ![t] = Append(@, call)]

(* User code runs: outside of any call, or in a destructor.                *)
MayCall(t) ==
    /\ Running
    /\ Busy(t) => Top(t).at = "destroy" /\ Len(stack[t]) =< MaxDepth

Advance(x, next) == stage' = [stage EXCEPT ![x] = next]

(* The calls that hold an Arc of the queue, besides the owner's own.       *)
HoldsArc(call) == call.at \in {"push", "set_flag", "release"} \cup CollectAt
ArcCalls == {c \in Thread \X (1..(MaxDepth + 3)) :
               c[2] =< Len(stack[c[1]]) /\ HoldsArc(stack[c[1]][c[2]])}
QueueAlive == handle \/ ArcCalls # {}

InCall(t, at) == \E i \in 1..Len(stack[t]) : stack[t][i].at = at

-----------------------------------------------------------------------------
Init ==
    /\ status = "Active"
    /\ state_flag = "Live"
    /\ queue = <<>>
    /\ handle = TRUE
    /\ stage = [x \in Object |-> "biased"]
    /\ stack = [t \in Thread |-> <<>>]
    /\ abandoned = {}
    /\ fault = "none"

(* queue_object is called, at most once for an object.  The owner itself   *)
(* gets there only when it no longer counts as one.                        *)
QueueObject(t, x) ==
    /\ MayCall(t)
    /\ stage[x] = "biased"
    /\ t = Owner => status = "DeadOrDying"
    /\ Advance(x, "asked")
    /\ Enter(t, NewCall("upgrade", x))
    /\ UNCHANGED <<owner, queue, abandoned, fault>>

(* Weak::upgrade of queued_objects.                                        *)
Upgrade(t) ==
    /\ At(t, "upgrade")
    /\ Goto(t, IF QueueAlive THEN "push" ELSE "check_dead")
    /\ UNCHANGED <<owner, queue, stage, abandoned, fault>>

Push(t) ==
    /\ At(t, "push")
    /\ queue' = Append(queue, Top(t).object)
    /\ Advance(Top(t).object, "queued")
    /\ Goto(t, "set_flag")
    /\ UNCHANGED <<owner, abandoned, fault>>

(* compare_exchange(Live, QueuedObjects), its failure ignored.  The flag   *)
(* is for the whole queue.                                                 *)
SetFlag(t) ==
    /\ At(t, "set_flag")
    /\ IF state_flag = "Live"
       THEN state_flag' = "QueuedObjects" /\ abandoned' = {}
       ELSE UNCHANGED <<state_flag, abandoned>>
    /\ Goto(t, "release")
    /\ UNCHANGED <<status, handle, queue, stage, fault>>

(* Mutants of Release: the owner's own Arc does not count; a queue is      *)
(* dropped without being processed.                                        *)
ReleaseForOwner(t) ==
    /\ At(t, "release")
    /\ IF ArcCalls # {<<t, Len(stack[t])>>} THEN Return(t) ELSE Goto(t, "drain")
    /\ UNCHANGED <<owner, queue, stage, abandoned, fault>>

ReleaseAll(t) ==
    /\ At(t, "release")
    /\ Return(t)
    /\ UNCHANGED <<owner, queue, stage, abandoned, fault>>

(* The upgraded Arc is dropped, and the queue with it if it was the last.  *)
Release(t) ==
    /\ At(t, "release")
    /\ IF handle \/ ArcCalls # {<<t, Len(stack[t])>>}
       THEN Return(t) ELSE Goto(t, "drain")
    /\ UNCHANGED <<owner, queue, stage, abandoned, fault>>

(* No queue: the owner has to be dying or dead, and this thread merges.    *)
CheckDead(t) ==
    /\ At(t, "check_dead")
    /\ IF state_flag \in {"Dying", "Dead"}
       THEN /\ Goto(t, "merge")
            /\ Advance(Top(t).object, "merging")
            /\ UNCHANGED fault
       ELSE /\ fault' = "live_without_queue"
            /\ UNCHANGED <<stack, stage>>
    /\ UNCHANGED <<owner, queue, abandoned>>

-----------------------------------------------------------------------------
(* explicit_merge: references remain, or the value is destroyed.           *)
Merge(t) ==
    /\ At(t, "merge")
    /\ Advance(Top(t).object, "merged")
    /\ Return(t) \/ Goto(t, "destroy")
    /\ UNCHANGED <<owner, queue, abandoned, fault>>

DestructorReturns(t) ==
    /\ At(t, "destroy")
    /\ Return(t)
    /\ UNCHANGED <<owner, queue, stage, abandoned, fault>>

(* A destructor panics, and every call it is in unwinds: the collections   *)
(* are abandoned where they are, and what is in the queue with them unless *)
(* the flag asks for another one.  (Otherwise the process aborts.)         *)
DestructorPanics(t) ==
    /\ MayPanic
    /\ At(t, "destroy")
    /\ \A i \in 1..Len(stack[t]) : stack[t][i].unwinds
    /\ stack' = [stack EXCEPT ![t] = <<>>]
    /\ abandoned' = IF state_flag = "Live" THEN ToSet(queue) ELSE {}
    /\ UNCHANGED <<owner, queue, stage, fault>>

(* A mutant of Pop: the object stays in the queue until it is merged.      *)
Peek(t, at) ==
    /\ At(t, at)
    /\ queue # <<>>
    /\ Enter(t, NewCall("merge", Head(queue)))
    /\ UNCHANGED <<owner, queue, stage, abandoned, fault>>

(* do_process, in a collection or in the destructor of the queue.          *)
Pop(t, at) ==
    /\ At(t, at)
    /\ queue # <<>>
    /\ queue' = Tail(queue)
    /\ abandoned' = abandoned \ {Head(queue)}
    /\ Advance(Head(queue), "merging")
    /\ Enter(t, [NewCall("merge", Head(queue)) EXCEPT !.unwinds = Top(t).unwinds])
    /\ UNCHANGED <<owner, fault>>

Drained(t) ==
    /\ At(t, "drain")
    /\ queue = <<>>
    /\ Return(t)
    /\ UNCHANGED <<owner, queue, stage, abandoned, fault>>

-----------------------------------------------------------------------------
(* collect, collect_nounwind and the implicit collections: only if the     *)
(* flag says so.                                                           *)
Collect(unwinds) ==
    /\ MayCall(Owner)
    /\ status = "Active"
    /\ state_flag # "Live"
    /\ Enter(Owner, [NewCall("pop", NoObject) EXCEPT !.unwinds = unwinds])
    /\ UNCHANGED <<owner, queue, stage, abandoned, fault>>

(* The public collect_force, which does not look at the flag.              *)
CollectForce ==
    /\ MayCall(Owner)
    /\ status = "Active"
    /\ Enter(Owner, [NewCall("pop", NoObject) EXCEPT !.unwinds = TRUE])
    /\ UNCHANGED <<owner, queue, stage, abandoned, fault>>

Emptied ==
    /\ At(Owner, "pop")
    /\ queue = <<>>
    /\ Goto(Owner, "clear_flag")
    /\ UNCHANGED <<owner, queue, stage, abandoned, fault>>

(* compare_exchange(QueuedObjects, Live), its failure ignored.             *)
ClearFlag ==
    /\ At(Owner, "clear_flag")
    /\ state_flag' = IF state_flag = "QueuedObjects" THEN "Live" ELSE state_flag
    /\ Goto(Owner, "recheck")
    /\ UNCHANGED <<status, handle, queue, stage, abandoned, fault>>

(* Mutants of Recheck: the collection ends at once; it starts over by      *)
(* calling itself.                                                         *)
NoRecheck ==
    /\ At(Owner, "recheck")
    /\ Return(Owner)
    /\ UNCHANGED <<owner, queue, stage, abandoned, fault>>

RecursiveRecheck ==
    /\ At(Owner, "recheck")
    /\ IF queue = <<>> THEN Return(Owner) ELSE Enter(Owner, NewCall("pop", NoObject))
    /\ UNCHANGED <<owner, queue, stage, abandoned, fault>>

(* An object may have come in between; otherwise the collection is over.   *)
Recheck ==
    /\ At(Owner, "recheck")
    /\ IF queue = <<>> THEN Return(Owner) ELSE Goto(Owner, "pop")
    /\ UNCHANGED <<owner, queue, stage, abandoned, fault>>

-----------------------------------------------------------------------------
(* LocalThreadState::drop.                                                 *)
Die ==
    /\ Running
    /\ ~Busy(Owner)
    /\ status = "Active"
    /\ status' = "DeadOrDying"
    /\ Enter(Owner, NewCall("die_flag", NoObject))
    /\ UNCHANGED <<state_flag, handle, queue, stage, abandoned, fault>>

DieFlag ==
    /\ At(Owner, "die_flag")
    /\ IF state_flag \in {"Live", "QueuedObjects"}
       THEN /\ state_flag' = "Dying"
            /\ Goto(Owner, "die_queue")
            /\ UNCHANGED fault
       ELSE /\ fault' = "destroying_dead_thread"
            /\ UNCHANGED <<state_flag, stack>>
    /\ UNCHANGED <<status, handle, queue, stage, abandoned>>

(* The owner's Arc goes, and the queue with it unless a queue_object has   *)
(* upgraded meanwhile.                                                     *)
DieQueue ==
    /\ At(Owner, "die_queue")
    /\ handle' = FALSE
    /\ stack' = [stack EXCEPT ![Owner] =
                   <<NewCall("die_dead", NoObject)>>
                     \o (IF ArcCalls = {} THEN <<NewCall("drain", NoObject)>> ELSE <<>>)]
    /\ UNCHANGED <<status, state_flag, queue, stage, abandoned, fault>>

DieDead ==
    /\ At(Owner, "die_dead")
    /\ IF state_flag = "Dying"
       THEN /\ state_flag' = "Dead"
            /\ Return(Owner)
            /\ UNCHANGED fault
       ELSE /\ fault' = "not_dying"
            /\ UNCHANGED <<state_flag, stack>>
    /\ UNCHANGED <<status, handle, queue, stage, abandoned>>

-----------------------------------------------------------------------------
(* The steps that carry on with the calls of a thread.                     *)
Continue(t) ==
    \/ Upgrade(t) \/ Push(t) \/ SetFlag(t) \/ Release(t) \/ CheckDead(t)
    \/ Merge(t) \/ DestructorReturns(t)
    \/ Pop(t, "pop") \/ Pop(t, "drain") \/ Drained(t)

ContinueOwner ==
    \/ Emptied \/ ClearFlag \/ Recheck
    \/ DieFlag \/ DieQueue \/ DieDead

Next ==
    \/ \E t \in Thread, x \in Object : QueueObject(t, x)
    \/ \E t \in Thread : Continue(t) \/ DestructorPanics(t)
    \/ ContinueOwner
    \/ \E unwinds \in BOOLEAN : Collect(unwinds)
    \/ CollectForce
    \/ Die

Spec == Init /\ [][Next]_vars

(* Threads run, destructors return, and an owner whose flag asks for a     *)
(* collection sooner or later calls the library again.                     *)
Fairness ==
    /\ \A t \in Thread : WF_vars(Continue(t))
    /\ WF_vars(ContinueOwner)
    /\ WF_vars(Collect(FALSE))

FairSpec == Spec /\ Fairness

-----------------------------------------------------------------------------
(* What the runtime promises.                                              *)

(* Every variable has its type, and the stacks are bounded.                *)
TypeOK ==
    /\ status \in {"Active", "DeadOrDying"}
    /\ state_flag \in {"Live", "QueuedObjects", "Dying", "Dead"}
    /\ queue \in Seq(Object)
    /\ handle \in BOOLEAN
    /\ stage \in [Object -> {"biased", "asked", "queued", "merging", "merged"}]
    /\ stack \in [Thread -> Seq(Call)]
    /\ \A t \in Thread : Len(stack[t]) =< MaxDepth + 3
    /\ abandoned \subseteq Object
    /\ fault \in {"none", "live_without_queue", "destroying_dead_thread", "not_dying"}

(* The assertions of queue_object and of LocalThreadState::drop hold.      *)
AssertionsHold == Running

(* As long as the owner may use its biased counts nobody else merges its   *)
(* objects, and it is in no merge itself when it starts to die             *)
(* (do_process: "if the biased thread is live, that is the only thread").  *)
OwnerMergesAlone ==
    /\ status = "Active" =>
         \A t \in Thread \ {Owner} : ~InCall(t, "merge") /\ ~InCall(t, "drain")
    /\ \A t \in Thread : InCall(t, "drain") => ~QueueAlive

(* An object waiting in the queue is noticed: the owner's flag says so, or *)
(* the thread that pushed it is about to set the flag, or the owner is in  *)
(* a collection that looks at the queue again ("Live: no queued objects"). *)
QueuedIsFlagged ==
    queue # <<>> /\ status = "Active" /\ state_flag = "Live" =>
        \/ \E t \in Thread : InCall(t, "set_flag")
        \/ \E at \in CollectAt : InCall(Owner, at)

(* Nothing but a destructor's panic, unwinding through a collection, makes *)
(* an object go unnoticed: no interleaving of queue_object and collect     *)
(* does, before a panic or after it, and the panic itself only those that  *)
(* are in the queue, until the flag is set for the next one.               *)
NoLostWakeup ==
    (\E i \in 1..Len(queue) : queue[i] \notin abandoned) => QueuedIsFlagged

(* An object waiting in the queue of a dead owner is not stranded there:   *)
(* some thread still holds the queue, and will empty it, or is emptying it.*)
NothingStranded ==
    queue # <<>> => QueueAlive \/ \E t \in Thread : InCall(t, "drain")

(* Everything the counter relies on: each object merged once, and by whom. *)
Hand(t) == {stack[t][i].object :
              i \in {j \in 1..Len(stack[t]) : stack[t][j].at \in HandAt}}
OwnerState == IF status = "Active" THEN "active"
              ELSE IF QueueAlive THEN "dying" ELSE "closed"
Tickets == INSTANCE MergeQueue WITH ownerState <- OwnerState,
                                    hand <- [t \in Thread |-> Hand(t)]
RefinesMergeQueue == Tickets!Spec

(* Why the promises hold.  A call has another one above it only where it   *)
(* runs user code or merges; the owner dies at the bottom of its stack;    *)
(* only what a collection does may unwind, and only the owner collects.    *)
StackAgrees == \A t \in Thread : \A i \in 1..Len(stack[t]) :
    LET call == stack[t][i] IN
    /\ i < Len(stack[t]) => call.at \in {"destroy", "pop", "drain", "die_dead"}
    /\ call.at \in DeathAt => t = Owner /\ i = 1
    /\ call.at \notin MergeAt => i =< MaxDepth + 2
    /\ call.at \in HandAt => call.object \in Object
    /\ call.unwinds => call.at \in CollectAt \cup MergeAt
    /\ call.at \in CollectAt => t = Owner /\ status = "Active"

(* The state flag and the owner's Arc follow the owner's death.            *)
Dying(at) == Busy(Owner) /\ stack[Owner][1].at = at
OwnerAgrees ==
    /\ handle <=> status = "Active" \/ Dying("die_flag") \/ Dying("die_queue")
    /\ state_flag \in {"Live", "QueuedObjects"} <=>
         status = "Active" \/ Dying("die_flag")
    /\ state_flag = "Dying" <=> Dying("die_queue") \/ Dying("die_dead")
    /\ status = "Active" => \A at \in DeathAt : ~Dying(at)

(* Who found the queue gone, or drains it, is right for good.              *)
ClosedAgrees == \A t \in Thread :
    InCall(t, "drain") \/ InCall(t, "check_dead") \/ (t # Owner /\ InCall(t, "merge"))
        => ~QueueAlive

(* An object is in one place: in the queue, or in the hands of one call.   *)
TicketsAgree ==
    /\ \A i \in 1..Len(queue) : stage[queue[i]] = "queued"
    /\ \A i, j \in 1..Len(queue) : queue[i] = queue[j] => i = j
    /\ \A t \in Thread : \A i \in 1..Len(stack[t]) :
         stack[t][i].at \in HandAt =>
           stage[stack[t][i].object] =
             IF stack[t][i].at = "merge" THEN "merging" ELSE "asked"
    /\ \A t, s \in Thread : \A i \in 1..Len(stack[t]), j \in 1..Len(stack[s]) :
         /\ stack[t][i].at \in HandAt
         /\ stack[s][j].at \in HandAt
         /\ stack[t][i].object = stack[s][j].object
         => t = s /\ i = j

(* The inductive invariant.                                                *)
RuntimeInv ==
    /\ TypeOK /\ StackAgrees /\ OwnerAgrees /\ ClosedAgrees /\ TicketsAgree
    /\ AssertionsHold /\ NothingStranded /\ NoLostWakeup

(* An object whose merge is asked for is merged, unless it is left behind  *)
(* by a panic; and that too, once the flag is set for another one.         *)
EveryObjectMerged == \A x \in Object :
    stage[x] \in {"asked", "queued", "merging"} /\ x \notin abandoned
        ~> stage[x] = "merged" \/ x \in abandoned
=============================================================================
