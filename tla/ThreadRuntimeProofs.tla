------------------------- MODULE ThreadRuntimeProofs -------------------------
(***************************************************************************)
(* The promises of the thread runtime, for any threads, objects and depth  *)
(* of destructors: its inductive invariant, and the step of the abstract   *)
(* queue that every step of it takes.                                      *)
(***************************************************************************)
EXTENDS ThreadRuntime, SequenceTheorems, TLAPS

ArcAt == {"push", "set_flag", "release"} \cup CollectAt
CallAt == QueueObjectAt \cup CollectAt \cup MergeAt \cup DeathAt \cup {"drain"}

(* The three things a step does to a stack, call by call: the innermost    *)
(* call returns, goes on somewhere else, or enters another one.            *)
Returned(t) ==
    /\ stack' \in [Thread -> Seq(Call)]
    /\ \A s \in Thread \ {t} : stack'[s] = stack[s]
    /\ Len(stack[t]) \in Nat \ {0}
    /\ Len(stack'[t]) = Len(stack[t]) - 1
    /\ \A i \in 1..(Len(stack[t]) - 1) : stack'[t][i] = stack[t][i]

Moved(t, at) ==
    /\ stack' \in [Thread -> Seq(Call)]
    /\ \A s \in Thread \ {t} : stack'[s] = stack[s]
    /\ Len(stack[t]) \in Nat \ {0}
    /\ Len(stack'[t]) = Len(stack[t])
    /\ \A i \in 1..(Len(stack[t]) - 1) : stack'[t][i] = stack[t][i]
    /\ stack'[t][Len(stack[t])].at = at
    /\ stack'[t][Len(stack[t])].object = stack[t][Len(stack[t])].object
    /\ stack'[t][Len(stack[t])].unwinds = stack[t][Len(stack[t])].unwinds

Entered(t, call) ==
    /\ stack' \in [Thread -> Seq(Call)]
    /\ \A s \in Thread \ {t} : stack'[s] = stack[s]
    /\ Len(stack[t]) \in Nat
    /\ Len(stack'[t]) = Len(stack[t]) + 1
    /\ \A i \in 1..Len(stack[t]) : stack'[t][i] = stack[t][i]
    /\ stack'[t][Len(stack[t]) + 1] = call

-----------------------------------------------------------------------------
(* What is left of a stack when its innermost call returns.                *)
LEMMA FrontLast ==
    ASSUME NEW S, NEW s \in Seq(S), s # <<>>
    PROVE  /\ Len(s) \in Nat \ {0}
           /\ Last(s) = s[Len(s)]
           /\ Last(s) \in S
           /\ Front(s) \in Seq(S)
           /\ Len(Front(s)) = Len(s) - 1
           /\ \A i \in 1..(Len(s) - 1) : Front(s)[i] = s[i]
<1>1. Len(s) \in Nat \ {0}
  BY EmptySeq, LenProperties
<1>2. \A i \in 1..Len(s) : s[i] \in S
  BY ElementOfSeq
<1> DEFINE n == Len(s) - 1
<1>3. n \in Nat /\ Len(s) = n + 1
  BY <1>1
<1>4. Front(s) = SubSeq(s, 1, n)
  BY DEF Front
<1> HIDE DEF n
<1>5. /\ Front(s) \in Seq(S)
      /\ Len(Front(s)) = IF 1 =< n THEN n - 1 + 1 ELSE 0
      /\ \A i \in 1..(n - 1 + 1) : Front(s)[i] = s[1 + i - 1]
  <2>1. \A i \in 1..n : s[i] \in S
    BY <1>2, <1>3
  <2>2. QED
    BY <1>3, <1>4, <2>1, SubSeqProperties
<1>6. Len(Front(s)) = n /\ \A i \in 1..n : Front(s)[i] = s[i]
  BY <1>3, <1>5
<1>7. Last(s) = s[Len(s)] /\ Last(s) \in S
  BY <1>1, <1>2 DEF Last
<1>8. QED
  BY <1>1, <1>3, <1>5, <1>6, <1>7

(* A call is at a place, for an object, and may unwind or not.             *)
LEMMA Calls ==
    /\ \A call \in Call : /\ call.at \in CallAt
                          /\ call.object \in Object \cup {NoObject}
                          /\ call.unwinds \in BOOLEAN
    /\ \A at \in CallAt, x \in Object \cup {NoObject}, u \in BOOLEAN :
         [NewCall(at, x) EXCEPT !.unwinds = u] \in Call
    /\ \A at \in CallAt, x \in Object \cup {NoObject} : NewCall(at, x) \in Call
BY DEF Call, CallAt, NewCall

(* The innermost call returns: the ones below it stay as they are.         *)
LEMMA Returning ==
    ASSUME stack \in [Thread -> Seq(Call)],
           NEW t \in Thread, Busy(t), Return(t)
    PROVE  Returned(t)
<1>1. stack[t] \in Seq(Call) /\ stack[t] # <<>>
  BY DEF Busy
<1>2. stack' = [stack EXCEPT ![t] = Front(stack[t])]
  BY DEF Return
<1>3. Front(stack[t]) \in Seq(Call)
  BY <1>1, FrontLast
<1>4. stack'[t] = Front(stack[t]) /\ stack' \in [Thread -> Seq(Call)]
  BY <1>2, <1>3
<1>5. QED
  BY <1>1, <1>2, <1>4, FrontLast DEF Returned

(* The innermost call goes on somewhere else, for the same object.         *)
LEMMA Going ==
    ASSUME stack \in [Thread -> Seq(Call)],
           NEW t \in Thread, Busy(t),
           NEW at \in CallAt, Goto(t, at)
    PROVE  Moved(t, at)
<1> DEFINE call == [Top(t) EXCEPT !.at = at]
<1>1. stack[t] \in Seq(Call) /\ stack[t] # <<>>
  BY DEF Busy
<1>2. stack' = [stack EXCEPT ![t] = Append(Front(stack[t]), call)]
  BY DEF Goto
<1>3. Front(stack[t]) \in Seq(Call) /\ Top(t) \in Call /\ Top(t) = stack[t][Len(stack[t])]
  BY <1>1, FrontLast DEF Top
<1>4. /\ call \in Call
      /\ call.at = at
      /\ call.object = Top(t).object
      /\ call.unwinds = Top(t).unwinds
  BY <1>3 DEF Call, CallAt
<1> HIDE DEF call
<1>5. /\ Len(stack[t]) \in Nat \ {0}
      /\ Len(Front(stack[t])) = Len(stack[t]) - 1
      /\ \A i \in 1..(Len(stack[t]) - 1) : Front(stack[t])[i] = stack[t][i]
  BY <1>1, FrontLast
<1>6. /\ Append(Front(stack[t]), call) \in Seq(Call)
      /\ Len(Append(Front(stack[t]), call)) = Len(stack[t])
      /\ \A i \in 1..(Len(stack[t]) - 1) : Append(Front(stack[t]), call)[i] = stack[t][i]
      /\ Append(Front(stack[t]), call)[Len(stack[t])] = call
  BY <1>3, <1>4, <1>5, AppendProperties
<1>7. stack'[t] = Append(Front(stack[t]), call) /\ stack' \in [Thread -> Seq(Call)]
  BY <1>2, <1>6
<1>8. \A s \in Thread \ {t} : stack'[s] = stack[s]
  BY <1>2
<1>9. QED
  BY <1>3, <1>4, <1>5, <1>6, <1>7, <1>8 DEF Moved

(* A call is entered from the innermost one, which stays as it is.         *)
LEMMA Entering ==
    ASSUME stack \in [Thread -> Seq(Call)],
           NEW t \in Thread, NEW call \in Call, Enter(t, call)
    PROVE  Entered(t, call)
<1>1. stack' = [stack EXCEPT ![t] = Append(stack[t], call)]
  BY DEF Enter
<1>2. stack[t] \in Seq(Call)
  OBVIOUS
<1>3. /\ Len(stack[t]) \in Nat
      /\ Append(stack[t], call) \in Seq(Call)
      /\ Len(Append(stack[t], call)) = Len(stack[t]) + 1
      /\ \A i \in 1..Len(stack[t]) : Append(stack[t], call)[i] = stack[t][i]
      /\ Append(stack[t], call)[Len(stack[t]) + 1] = call
  BY <1>2, AppendProperties, LenProperties
<1>4. stack'[t] = Append(stack[t], call) /\ stack' \in [Thread -> Seq(Call)]
  BY <1>1, <1>3
<1>5. \A s \in Thread \ {t} : stack'[s] = stack[s]
  BY <1>1
<1>6. QED
  BY <1>3, <1>4, <1>5 DEF Entered
-----------------------------------------------------------------------------
(* A stack is a sequence of calls, each at its place.                      *)
LEMMA Stacks ==
    ASSUME stack \in [Thread -> Seq(Call)], NEW t \in Thread
    PROVE  /\ Len(stack[t]) \in Nat
           /\ Busy(t) <=> Len(stack[t]) # 0
           /\ \A i \in 1..Len(stack[t]) : stack[t][i] \in Call
           /\ Busy(t) => Top(t) = stack[t][Len(stack[t])]
<1>1. stack[t] \in Seq(Call)
  OBVIOUS
<1>2. QED
  BY <1>1, EmptySeq, LenProperties, ElementOfSeq DEF Busy, Top, Last

(* The same after a step.                                                  *)
LEMMA StacksNext ==
    ASSUME stack' \in [Thread -> Seq(Call)], NEW t \in Thread
    PROVE  /\ Len(stack'[t]) \in Nat
           /\ Busy(t)' <=> Len(stack'[t]) # 0
           /\ \A i \in 1..Len(stack'[t]) : stack'[t][i] \in Call
<1>1. stack'[t] \in Seq(Call)
  OBVIOUS
<1>2. QED
  BY <1>1, EmptySeq, LenProperties, ElementOfSeq DEF Busy

(* The queue lives on in its owner's handle, or in a call that holds it.   *)
LEMMA Arcs ==
    ASSUME TypeOK
    PROVE  QueueAlive <=>
             handle \/ \E t \in Thread : \E i \in 1..Len(stack[t]) : stack[t][i].at \in ArcAt
<1>1. ASSUME ArcCalls # {}
      PROVE  \E t \in Thread : \E i \in 1..Len(stack[t]) : stack[t][i].at \in ArcAt
  <2>1. PICK c \in Thread \X (1..(MaxDepth + 3)) :
          c[2] =< Len(stack[c[1]]) /\ HoldsArc(stack[c[1]][c[2]])
    BY <1>1 DEF ArcCalls
  <2>2. c[1] \in Thread /\ c[2] \in 1..Len(stack[c[1]])
    BY <2>1, RuntimeAssumption, Stacks DEF TypeOK
  <2>3. QED
    BY <2>1, <2>2 DEF HoldsArc, ArcAt
<1>2. ASSUME NEW t \in Thread, NEW i \in 1..Len(stack[t]), stack[t][i].at \in ArcAt
      PROVE  ArcCalls # {}
  <2>1. i \in 1..(MaxDepth + 3)
    BY RuntimeAssumption, Stacks DEF TypeOK
  <2>2. HoldsArc(stack[t][i]) /\ i =< Len(stack[t])
    BY <1>2, Stacks DEF HoldsArc, ArcAt, TypeOK
  <2>3. <<t, i>> \in Thread \X (1..(MaxDepth + 3)) /\ <<t, i>>[1] = t /\ <<t, i>>[2] = i
    BY <2>1
  <2>4. <<t, i>> \in ArcCalls
    BY <2>2, <2>3 DEF ArcCalls
  <2>5. QED
    BY <2>4
<1>3. QED
  BY <1>1, <1>2 DEF QueueAlive

(* The same after a step.                                                  *)
LEMMA ArcsNext ==
    ASSUME TypeOK'
    PROVE  QueueAlive' <=>
             handle' \/ \E t \in Thread : \E i \in 1..Len(stack'[t]) : stack'[t][i].at \in ArcAt
<1>1. ASSUME ArcCalls' # {}
      PROVE  \E t \in Thread : \E i \in 1..Len(stack'[t]) : stack'[t][i].at \in ArcAt
  <2>1. PICK c \in Thread \X (1..(MaxDepth + 3)) :
          c[2] =< Len(stack'[c[1]]) /\ HoldsArc(stack'[c[1]][c[2]])
    BY <1>1 DEF ArcCalls
  <2>2. c[1] \in Thread /\ c[2] \in 1..Len(stack'[c[1]])
    BY <2>1, RuntimeAssumption, StacksNext DEF TypeOK
  <2>3. QED
    BY <2>1, <2>2 DEF HoldsArc, ArcAt
<1>2. ASSUME NEW t \in Thread, NEW i \in 1..Len(stack'[t]), stack'[t][i].at \in ArcAt
      PROVE  ArcCalls' # {}
  <2>1. i \in 1..(MaxDepth + 3)
    BY RuntimeAssumption, StacksNext DEF TypeOK
  <2>2. HoldsArc(stack'[t][i]) /\ i =< Len(stack'[t])
    BY <1>2, StacksNext DEF HoldsArc, ArcAt, TypeOK
  <2>3. <<t, i>> \in Thread \X (1..(MaxDepth + 3)) /\ <<t, i>>[1] = t /\ <<t, i>>[2] = i
    BY <2>1
  <2>4. <<t, i>> \in ArcCalls'
    BY <2>2, <2>3 DEF ArcCalls
  <2>5. QED
    BY <2>4
<1>3. QED
  BY <1>1, <1>2 DEF QueueAlive

-----------------------------------------------------------------------------
(* A call may return: the agreement of the stacks does not look at what is *)
(* above a call.                                                           *)
LEMMA ReturnedStack ==
    ASSUME TypeOK, StackAgrees, UNCHANGED status,
           NEW t \in Thread, Returned(t)
    PROVE  /\ StackAgrees'
           /\ \A s \in Thread : Len(stack'[s]) =< MaxDepth + 3
<1>1. \A s \in Thread : Len(stack[s]) \in Nat /\ Len(stack[s]) =< MaxDepth + 3
  BY Stacks DEF TypeOK
<1>2. \A s \in Thread : Len(stack'[s]) =< Len(stack[s])
  BY <1>1 DEF Returned
<1>3. ASSUME NEW s \in Thread, NEW i \in 1..Len(stack'[s])
      PROVE  i \in 1..Len(stack[s]) /\ stack'[s][i] = stack[s][i]
  BY <1>1 DEF Returned
<1>4. StackAgrees'
  BY <1>1, <1>2, <1>3, RuntimeAssumption DEF StackAgrees
<1>5. QED
  BY <1>1, <1>2, <1>4, RuntimeAssumption DEF Returned

(* A call may go on where a call of its thread, at its depth, may be.      *)
LEMMA MovedStack ==
    ASSUME TypeOK, StackAgrees, UNCHANGED status,
           NEW t \in Thread, NEW at \in CallAt, Moved(t, at),
           at \in DeathAt => t = Owner /\ Len(stack[t]) = 1,
           at \notin MergeAt => Len(stack[t]) =< MaxDepth + 2,
           at \in HandAt => stack[t][Len(stack[t])].object \in Object,
           stack[t][Len(stack[t])].unwinds => at \in CollectAt \cup MergeAt,
           at \in CollectAt => t = Owner /\ status = "Active"
    PROVE  /\ StackAgrees'
           /\ \A s \in Thread : Len(stack'[s]) =< MaxDepth + 3
<1>1. \A s \in Thread : Len(stack[s]) \in Nat /\ Len(stack[s]) =< MaxDepth + 3
  BY Stacks DEF TypeOK
<1>2. \A s \in Thread : Len(stack'[s]) = Len(stack[s])
  BY <1>1 DEF Moved
<1>3. ASSUME NEW s \in Thread, NEW i \in 1..Len(stack'[s]), s # t \/ i # Len(stack[s])
      PROVE  i \in 1..Len(stack[s]) /\ stack'[s][i] = stack[s][i]
  BY <1>1, <1>2, <1>3 DEF Moved
<1>4. ASSUME NEW s \in Thread, NEW i \in 1..Len(stack'[s])
      PROVE  LET call == stack'[s][i] IN
             /\ i < Len(stack'[s]) => call.at \in {"destroy", "pop", "drain", "die_dead"}
             /\ call.at \in DeathAt => s = Owner /\ i = 1
             /\ call.at \notin MergeAt => i =< MaxDepth + 2
             /\ call.at \in HandAt => call.object \in Object
             /\ call.unwinds => call.at \in CollectAt \cup MergeAt
             /\ call.at \in CollectAt => s = Owner /\ status = "Active"
  <2>1. CASE s # t \/ i # Len(stack[s])
    BY <1>1, <1>2, <1>3, <2>1 DEF StackAgrees
  <2>2. CASE s = t /\ i = Len(stack[s])
    BY <1>1, <1>2, <2>2 DEF Moved
  <2>3. QED
    BY <2>1, <2>2
<1>5. StackAgrees'
  BY <1>4 DEF StackAgrees
<1>6. QED
  BY <1>1, <1>2, <1>5

(* A call may be entered where a call may be, and from one that calls.     *)
LEMMA EnteredStack ==
    ASSUME TypeOK, StackAgrees, UNCHANGED status,
           NEW t \in Thread, NEW call \in Call, Entered(t, call),
           Len(stack[t]) # 0 =>
             stack[t][Len(stack[t])].at \in {"destroy", "pop", "drain", "die_dead"},
           Len(stack[t]) + 1 =< MaxDepth + 3,
           call.at \in DeathAt => t = Owner /\ Len(stack[t]) = 0,
           call.at \notin MergeAt => Len(stack[t]) + 1 =< MaxDepth + 2,
           call.at \in HandAt => call.object \in Object,
           call.unwinds => call.at \in CollectAt \cup MergeAt,
           call.at \in CollectAt => t = Owner /\ status = "Active"
    PROVE  /\ StackAgrees'
           /\ \A s \in Thread : Len(stack'[s]) =< MaxDepth + 3
<1>1. \A s \in Thread : Len(stack[s]) \in Nat /\ Len(stack[s]) =< MaxDepth + 3
  BY Stacks DEF TypeOK
<1>2. \A s \in Thread : Len(stack'[s]) = IF s = t THEN Len(stack[s]) + 1 ELSE Len(stack[s])
  BY <1>1 DEF Entered
<1>3. ASSUME NEW s \in Thread, NEW i \in 1..Len(stack'[s]), s # t \/ i # Len(stack[s]) + 1
      PROVE  i \in 1..Len(stack[s]) /\ stack'[s][i] = stack[s][i]
  BY <1>1, <1>2, <1>3 DEF Entered
<1>4. ASSUME NEW s \in Thread, NEW i \in 1..Len(stack'[s])
      PROVE  LET c == stack'[s][i] IN
             /\ i < Len(stack'[s]) => c.at \in {"destroy", "pop", "drain", "die_dead"}
             /\ c.at \in DeathAt => s = Owner /\ i = 1
             /\ c.at \notin MergeAt => i =< MaxDepth + 2
             /\ c.at \in HandAt => c.object \in Object
             /\ c.unwinds => c.at \in CollectAt \cup MergeAt
             /\ c.at \in CollectAt => s = Owner /\ status = "Active"
  <2>1. CASE s # t
    BY <1>1, <1>2, <1>3, <2>1 DEF StackAgrees
  <2>2. CASE s = t /\ i # Len(stack[s]) + 1
    <3>1. i \in 1..Len(stack[s]) /\ stack'[s][i] = stack[s][i]
      BY <1>3, <2>2
    <3>2. CASE i < Len(stack[s])
      BY <1>1, <1>2, <3>1, <3>2 DEF StackAgrees
    <3>3. CASE i = Len(stack[s])
      <4>1. stack[s][i].at \in {"destroy", "pop", "drain", "die_dead"}
        BY <1>1, <2>2, <3>1, <3>3
      <4>2. QED
        BY <1>1, <1>2, <3>1, <4>1 DEF StackAgrees
    <3>4. QED
      BY <1>1, <3>1, <3>2, <3>3
  <2>3. CASE s = t /\ i = Len(stack[s]) + 1
    BY <1>1, <1>2, <2>3 DEF Entered
  <2>4. QED
    BY <2>1, <2>2, <2>3
<1>5. StackAgrees'
  BY <1>4 DEF StackAgrees
<1>6. QED
  BY <1>1, <1>2, <1>5

-----------------------------------------------------------------------------

(* No step but those of its death changes where the owner is in its death. *)
LEMMA ReturnedDying ==
    ASSUME stack \in [Thread -> Seq(Call)], NEW t \in Thread, Returned(t),
           stack[t][Len(stack[t])].at \notin DeathAt
    PROVE  \A a \in DeathAt : Dying(a)' <=> Dying(a)
<1>1. Len(stack[Owner]) \in Nat /\ Len(stack'[Owner]) \in Nat
  BY RuntimeAssumption, Stacks, StacksNext DEF Returned
<1>2. \A a \in DeathAt : Dying(a) <=> Len(stack[Owner]) # 0 /\ stack[Owner][1].at = a
  BY RuntimeAssumption, Stacks DEF Dying
<1>3. \A a \in DeathAt : Dying(a)' <=> Len(stack'[Owner]) # 0 /\ stack'[Owner][1].at = a
  BY RuntimeAssumption, StacksNext DEF Dying, Returned
<1>4. CASE t # Owner
  BY <1>2, <1>3, <1>4, RuntimeAssumption DEF Returned
<1>5. CASE t = Owner /\ Len(stack[t]) > 1
  BY <1>1, <1>2, <1>3, <1>5, RuntimeAssumption DEF Returned
<1>6. CASE t = Owner /\ Len(stack[t]) =< 1
  BY <1>1, <1>2, <1>3, <1>6, RuntimeAssumption DEF Returned
<1>7. QED
  BY <1>1, <1>4, <1>5, <1>6

(* The same when a call goes on.                                           *)
LEMMA MovedDying ==
    ASSUME stack \in [Thread -> Seq(Call)], NEW t \in Thread,
           NEW at \in CallAt, Moved(t, at),
           stack[t][Len(stack[t])].at \notin DeathAt, at \notin DeathAt
    PROVE  \A a \in DeathAt : Dying(a)' <=> Dying(a)
<1>1. Len(stack[Owner]) \in Nat /\ Len(stack'[Owner]) \in Nat
  BY RuntimeAssumption, Stacks, StacksNext DEF Moved
<1>2. \A a \in DeathAt : Dying(a) <=> Len(stack[Owner]) # 0 /\ stack[Owner][1].at = a
  BY RuntimeAssumption, Stacks DEF Dying
<1>3. \A a \in DeathAt : Dying(a)' <=> Len(stack'[Owner]) # 0 /\ stack'[Owner][1].at = a
  BY RuntimeAssumption, StacksNext DEF Dying, Moved
<1>4. CASE t # Owner
  BY <1>2, <1>3, <1>4, RuntimeAssumption DEF Moved
<1>5. CASE t = Owner /\ Len(stack[t]) > 1
  BY <1>1, <1>2, <1>3, <1>5, RuntimeAssumption DEF Moved
<1>6. CASE t = Owner /\ Len(stack[t]) =< 1
  BY <1>1, <1>2, <1>3, <1>6, RuntimeAssumption DEF Moved
<1>7. QED
  BY <1>1, <1>4, <1>5, <1>6

(* The same when a call is entered.                                        *)
LEMMA EnteredDying ==
    ASSUME stack \in [Thread -> Seq(Call)], NEW t \in Thread,
           NEW call \in Call, Entered(t, call),
           call.at \notin DeathAt
    PROVE  \A a \in DeathAt : Dying(a)' <=> Dying(a)
<1>1. Len(stack[Owner]) \in Nat /\ Len(stack'[Owner]) \in Nat
  BY RuntimeAssumption, Stacks, StacksNext DEF Entered
<1>2. \A a \in DeathAt : Dying(a) <=> Len(stack[Owner]) # 0 /\ stack[Owner][1].at = a
  BY RuntimeAssumption, Stacks DEF Dying
<1>3. \A a \in DeathAt : Dying(a)' <=> Len(stack'[Owner]) # 0 /\ stack'[Owner][1].at = a
  BY RuntimeAssumption, StacksNext DEF Dying, Entered
<1>4. CASE t # Owner
  BY <1>2, <1>3, <1>4, RuntimeAssumption DEF Entered
<1>5. CASE t = Owner /\ Len(stack[t]) > 1
  BY <1>1, <1>2, <1>3, <1>5, RuntimeAssumption DEF Entered
<1>6. CASE t = Owner /\ Len(stack[t]) =< 1
  BY <1>1, <1>2, <1>3, <1>6, RuntimeAssumption DEF Entered
<1>7. QED
  BY <1>1, <1>4, <1>5, <1>6

(* The calls a thread is in when one returns.                              *)
LEMMA ReturnedCalls ==
    ASSUME stack \in [Thread -> Seq(Call)], NEW t \in Thread, Returned(t)
    PROVE  \A s \in Thread : \A a \in CallAt :
             /\ InCall(s, a)' => InCall(s, a)
             /\ InCall(s, a) => InCall(s, a)' \/ (s = t /\ a = stack[t][Len(stack[t])].at)
<1>1. \A s \in Thread : Len(stack[s]) \in Nat
  BY Stacks
<1>2. ASSUME NEW s \in Thread, NEW a \in CallAt, InCall(s, a)'
      PROVE  InCall(s, a)
  <2>1. PICK i \in 1..Len(stack'[s]) : stack'[s][i].at = a
    BY <1>2 DEF InCall
  <2>2. i \in 1..Len(stack[s]) /\ stack[s][i] = stack'[s][i]
    BY <1>1 DEF Returned
  <2>3. QED
    BY <2>1, <2>2 DEF InCall
<1>3. ASSUME NEW s \in Thread, NEW a \in CallAt, InCall(s, a), ~(s = t /\ a = stack[t][Len(stack[t])].at)
      PROVE  InCall(s, a)'
  <2>1. PICK i \in 1..Len(stack[s]) : stack[s][i].at = a
    BY <1>3 DEF InCall
  <2>2. i \in 1..Len(stack'[s]) /\ stack[s][i] = stack'[s][i]
    BY <1>1, <1>3, <2>1 DEF Returned
  <2>3. QED
    BY <2>1, <2>2 DEF InCall
<1>4. QED
  BY <1>2, <1>3

(* The same when one goes on.                                              *)
LEMMA MovedCalls ==
    ASSUME stack \in [Thread -> Seq(Call)], NEW t \in Thread,
           NEW at \in CallAt, Moved(t, at)
    PROVE  \A s \in Thread : \A a \in CallAt :
             /\ InCall(s, a)' => InCall(s, a) \/ (s = t /\ a = at)
             /\ InCall(s, a) => InCall(s, a)' \/ (s = t /\ a = stack[t][Len(stack[t])].at)
             /\ InCall(t, at)'
<1>1. \A s \in Thread : Len(stack[s]) \in Nat
  BY Stacks
<1>2. ASSUME NEW s \in Thread, NEW a \in CallAt, InCall(s, a)', ~(s = t /\ a = at)
      PROVE  InCall(s, a)
  <2>1. PICK i \in 1..Len(stack'[s]) : stack'[s][i].at = a
    BY <1>2 DEF InCall
  <2>2. i \in 1..Len(stack[s]) /\ stack[s][i] = stack'[s][i]
    BY <1>1, <1>2, <2>1 DEF Moved
  <2>3. QED
    BY <2>1, <2>2 DEF InCall
<1>3. ASSUME NEW s \in Thread, NEW a \in CallAt, InCall(s, a), ~(s = t /\ a = stack[t][Len(stack[t])].at)
      PROVE  InCall(s, a)'
  <2>1. PICK i \in 1..Len(stack[s]) : stack[s][i].at = a
    BY <1>3 DEF InCall
  <2>2. i \in 1..Len(stack'[s]) /\ stack[s][i] = stack'[s][i]
    BY <1>1, <1>3, <2>1 DEF Moved
  <2>3. QED
    BY <2>1, <2>2 DEF InCall
<1>4. InCall(t, at)'
  BY <1>1 DEF InCall, Moved
<1>5. QED
  BY <1>2, <1>3, <1>4

(* The same when one is entered.                                           *)
LEMMA EnteredCalls ==
    ASSUME stack \in [Thread -> Seq(Call)], NEW t \in Thread,
           NEW call \in Call, Entered(t, call)
    PROVE  \A s \in Thread : \A a \in CallAt :
             InCall(s, a)' <=> InCall(s, a) \/ (s = t /\ a = call.at)
<1>1. \A s \in Thread : Len(stack[s]) \in Nat
  BY Stacks
<1>2. ASSUME NEW s \in Thread, NEW a \in CallAt, InCall(s, a)', ~(s = t /\ a = call.at)
      PROVE  InCall(s, a)
  <2>1. PICK i \in 1..Len(stack'[s]) : stack'[s][i].at = a
    BY <1>2 DEF InCall
  <2>2. i \in 1..Len(stack[s]) /\ stack[s][i] = stack'[s][i]
    BY <1>1, <1>2, <2>1 DEF Entered
  <2>3. QED
    BY <2>1, <2>2 DEF InCall
<1>3. ASSUME NEW s \in Thread, NEW a \in CallAt, InCall(s, a)
      PROVE  InCall(s, a)'
  <2>1. PICK i \in 1..Len(stack[s]) : stack[s][i].at = a
    BY <1>3 DEF InCall
  <2>2. i \in 1..Len(stack'[s]) /\ stack[s][i] = stack'[s][i]
    <3>1. CASE s = t
      BY <1>1, <3>1 DEF Entered
    <3>2. CASE s # t
      BY <3>2 DEF Entered
    <3>3. QED
      BY <3>1, <3>2
  <2>3. QED
    BY <2>1, <2>2 DEF InCall
<1>4. InCall(t, call.at)'
  <2>1. Len(stack[t]) + 1 \in 1..Len(stack'[t]) /\ stack'[t][Len(stack[t]) + 1] = call
    BY <1>1 DEF Entered
  <2>2. QED
    BY <2>1 DEF InCall
<1>5. QED
  BY <1>2, <1>3, <1>4

-----------------------------------------------------------------------------
(* Whether the queue lives, by the calls that threads are in.              *)
LEMMA Alive ==
    ASSUME TypeOK
    PROVE  QueueAlive <=> handle \/ \E s \in Thread : \E a \in ArcAt : InCall(s, a)
BY Arcs DEF InCall

(* The same after a step.                                                  *)
LEMMA AliveNext ==
    ASSUME TypeOK'
    PROVE  QueueAlive' <=> handle' \/ \E s \in Thread : \E a \in ArcAt : InCall(s, a)'
BY ArcsNext DEF InCall

(* The queue lives on when a call returns that does not hold it,           *)
LEMMA ReturnedAlive ==
    ASSUME TypeOK, TypeOK', UNCHANGED handle, NEW t \in Thread, Returned(t),
           stack[t][Len(stack[t])].at \notin ArcAt
    PROVE  QueueAlive' <=> QueueAlive
<1>1. ArcAt \subseteq CallAt
  BY DEF ArcAt, CallAt, QueueObjectAt
<1>2. handle' <=> handle
  OBVIOUS
<1>3. ASSUME QueueAlive PROVE QueueAlive'
  BY <1>1, <1>2, <1>3, ReturnedCalls, Alive, AliveNext DEF TypeOK
<1>4. ASSUME QueueAlive' PROVE QueueAlive
  <2>1. CASE handle'
    BY <1>2, <2>1, Alive
  <2>2. CASE \E s \in Thread : \E a \in ArcAt : InCall(s, a)'
    <3>1. PICK s \in Thread, a \in ArcAt : InCall(s, a)'
      BY <2>2
    <3>2. \E b \in ArcAt : InCall(s, b)
      BY <1>1, <3>1, ReturnedCalls DEF TypeOK
    <3>3. QED
      BY <3>2, Alive
  <2>3. QED
    BY <1>4, <2>1, <2>2, AliveNext
<1>5. QED
  BY <1>3, <1>4

(* The innermost call is one that its thread is in.                        *)
LEMMA MovedTop ==
    ASSUME stack \in [Thread -> Seq(Call)], NEW t \in Thread,
           NEW at \in CallAt, Moved(t, at)
    PROVE  InCall(t, stack[t][Len(stack[t])].at) /\ stack[t][Len(stack[t])].at \in CallAt
<1>1. Len(stack[t]) \in 1..Len(stack[t])
  BY DEF Moved
<1>2. stack[t][Len(stack[t])] \in Call
  BY <1>1, Stacks
<1>3. QED
  BY <1>1, <1>2, Calls DEF InCall

(* when one goes on and keeps its hold,                                    *)
LEMMA MovedAlive ==
    ASSUME TypeOK, TypeOK', UNCHANGED handle, NEW t \in Thread,
           NEW at \in CallAt, Moved(t, at),
           at \in ArcAt <=> stack[t][Len(stack[t])].at \in ArcAt
    PROVE  QueueAlive' <=> QueueAlive
<1>1. ArcAt \subseteq CallAt
  BY DEF ArcAt, CallAt, QueueObjectAt
<1>2. handle' <=> handle
  OBVIOUS
<1>3. ASSUME QueueAlive PROVE QueueAlive'
  BY <1>1, <1>2, <1>3, MovedCalls, Alive, AliveNext DEF TypeOK
<1>4. ASSUME QueueAlive' PROVE QueueAlive
  <2>1. CASE handle'
    BY <1>2, <2>1, Alive
  <2>2. CASE \E s \in Thread : \E a \in ArcAt : InCall(s, a)'
    <3>1. PICK s \in Thread, a \in ArcAt : InCall(s, a)'
      BY <2>2
    <3>2. \E b \in ArcAt : InCall(s, b)
      BY <1>1, <3>1, MovedCalls, MovedTop DEF TypeOK
    <3>3. QED
      BY <3>2, Alive
  <2>3. QED
    BY <1>4, <2>1, <2>2, AliveNext
<1>5. QED
  BY <1>3, <1>4

(* and when one is entered that does not hold it.                          *)
LEMMA EnteredAlive ==
    ASSUME TypeOK, TypeOK', UNCHANGED handle, NEW t \in Thread,
           NEW call \in Call, Entered(t, call),
           call.at \notin ArcAt
    PROVE  QueueAlive' <=> QueueAlive
<1>1. ArcAt \subseteq CallAt
  BY DEF ArcAt, CallAt, QueueObjectAt
<1>2. handle' <=> handle
  OBVIOUS
<1>3. ASSUME QueueAlive PROVE QueueAlive'
  BY <1>1, <1>2, <1>3, EnteredCalls, Alive, AliveNext DEF TypeOK
<1>4. ASSUME QueueAlive' PROVE QueueAlive
  <2>1. CASE handle'
    BY <1>2, <2>1, Alive
  <2>2. CASE \E s \in Thread : \E a \in ArcAt : InCall(s, a)'
    <3>1. PICK s \in Thread, a \in ArcAt : InCall(s, a)'
      BY <2>2
    <3>2. \E b \in ArcAt : InCall(s, b)
      BY <1>1, <3>1, EnteredCalls DEF TypeOK
    <3>3. QED
      BY <3>2, Alive
  <2>3. QED
    BY <1>4, <2>1, <2>2, AliveNext
<1>5. QED
  BY <1>3, <1>4

(* Objects stay in one place when a call returns,                          *)
LEMMA ReturnedTickets ==
    ASSUME TypeOK, TicketsAgree, UNCHANGED <<queue, stage>>, NEW t \in Thread,
           Returned(t)
    PROVE  TicketsAgree'
<1>1. \A s \in Thread : Len(stack[s]) \in Nat
  BY Stacks DEF TypeOK
<1>2. ASSUME NEW s \in Thread, NEW i \in 1..Len(stack'[s]), stack'[s][i].at \in HandAt
      PROVE  /\ i \in 1..Len(stack[s])
             /\ stack[s][i].at \in HandAt
             /\ stack[s][i].object = stack'[s][i].object
             /\ stack[s][i].at = "merge" <=> stack'[s][i].at = "merge"
  BY <1>1, <1>2 DEF Returned
<1>3. \A s \in Thread : \A i \in 1..Len(stack'[s]) : stack'[s][i].at \in HandAt =>
        stage[stack'[s][i].object] =
          IF stack'[s][i].at = "merge" THEN "merging" ELSE "asked"
  BY <1>2 DEF TicketsAgree
<1>4. \A s, r \in Thread : \A i \in 1..Len(stack'[s]), j \in 1..Len(stack'[r]) :
        /\ stack'[s][i].at \in HandAt
        /\ stack'[r][j].at \in HandAt
        /\ stack'[s][i].object = stack'[r][j].object
        => s = r /\ i = j
  BY <1>2 DEF TicketsAgree
<1>5. QED
  BY <1>3, <1>4 DEF TicketsAgree

(* when one goes on as one that has the object or not,                     *)
LEMMA MovedTickets ==
    ASSUME TypeOK, TicketsAgree, UNCHANGED <<queue, stage>>, NEW t \in Thread,
           NEW at \in CallAt, Moved(t, at),
           at \in HandAt => stack[t][Len(stack[t])].at \in HandAt,
           at = "merge" <=> stack[t][Len(stack[t])].at = "merge"
    PROVE  TicketsAgree'
<1>1. \A s \in Thread : Len(stack[s]) \in Nat
  BY Stacks DEF TypeOK
<1>2. ASSUME NEW s \in Thread, NEW i \in 1..Len(stack'[s]), stack'[s][i].at \in HandAt
      PROVE  /\ i \in 1..Len(stack[s])
             /\ stack[s][i].at \in HandAt
             /\ stack[s][i].object = stack'[s][i].object
             /\ stack[s][i].at = "merge" <=> stack'[s][i].at = "merge"
  <2>1. CASE s = t /\ i = Len(stack[t])
    <3>1. /\ stack'[s][i].at = at
          /\ stack'[s][i].object = stack[s][i].object
          /\ i \in 1..Len(stack[s])
      BY <1>1, <2>1 DEF Moved
    <3>2. stack[s][i].at \in HandAt /\ (stack[s][i].at = "merge" <=> at = "merge")
      BY <1>2, <2>1, <3>1
    <3>3. QED
      BY <3>1, <3>2
  <2>2. CASE s # t \/ i # Len(stack[t])
    BY <1>1, <1>2, <2>2 DEF Moved
  <2>3. QED
    BY <2>1, <2>2
<1>3. \A s \in Thread : \A i \in 1..Len(stack'[s]) : stack'[s][i].at \in HandAt =>
        stage[stack'[s][i].object] =
          IF stack'[s][i].at = "merge" THEN "merging" ELSE "asked"
  BY <1>2 DEF TicketsAgree
<1>4. \A s, r \in Thread : \A i \in 1..Len(stack'[s]), j \in 1..Len(stack'[r]) :
        /\ stack'[s][i].at \in HandAt
        /\ stack'[r][j].at \in HandAt
        /\ stack'[s][i].object = stack'[r][j].object
        => s = r /\ i = j
  BY <1>2 DEF TicketsAgree
<1>5. QED
  BY <1>3, <1>4 DEF TicketsAgree

(* and when one is entered that is for no object.                          *)
LEMMA EnteredTickets ==
    ASSUME TypeOK, TicketsAgree, UNCHANGED <<queue, stage>>, NEW t \in Thread,
           NEW call \in Call, Entered(t, call),
           call.at \notin HandAt
    PROVE  TicketsAgree'
<1>1. \A s \in Thread : Len(stack[s]) \in Nat
  BY Stacks DEF TypeOK
<1>2. ASSUME NEW s \in Thread, NEW i \in 1..Len(stack'[s]), stack'[s][i].at \in HandAt
      PROVE  /\ i \in 1..Len(stack[s])
             /\ stack[s][i].at \in HandAt
             /\ stack[s][i].object = stack'[s][i].object
             /\ stack[s][i].at = "merge" <=> stack'[s][i].at = "merge"
  <2>1. CASE s = t /\ i = Len(stack[t]) + 1
    BY <1>1, <1>2, <2>1 DEF Entered
  <2>2. CASE s # t \/ i # Len(stack[t]) + 1
    BY <1>1, <1>2, <2>2 DEF Entered
  <2>3. QED
    BY <2>1, <2>2
<1>3. \A s \in Thread : \A i \in 1..Len(stack'[s]) : stack'[s][i].at \in HandAt =>
        stage[stack'[s][i].object] =
          IF stack'[s][i].at = "merge" THEN "merging" ELSE "asked"
  BY <1>2 DEF TicketsAgree
<1>4. \A s, r \in Thread : \A i \in 1..Len(stack'[s]), j \in 1..Len(stack'[r]) :
        /\ stack'[s][i].at \in HandAt
        /\ stack'[r][j].at \in HandAt
        /\ stack'[s][i].object = stack'[r][j].object
        => s = r /\ i = j
  BY <1>2 DEF TicketsAgree
<1>5. QED
  BY <1>3, <1>4 DEF TicketsAgree

-----------------------------------------------------------------------------
(* What the invariant says of the innermost call of a thread.              *)
LEMMA Innermost ==
    ASSUME RuntimeInv, NEW t \in Thread, Busy(t)
    PROVE  /\ Len(stack[t]) \in 1..Len(stack[t])
           /\ Top(t) = stack[t][Len(stack[t])]
           /\ Top(t) \in Call
           /\ InCall(t, Top(t).at)
           /\ Top(t).at \in CallAt
           /\ Top(t).at \in DeathAt => t = Owner /\ Len(stack[t]) = 1
           /\ Top(t).at \notin MergeAt => Len(stack[t]) =< MaxDepth + 2
           /\ Top(t).at \in HandAt => Top(t).object \in Object
           /\ Top(t).unwinds => Top(t).at \in CollectAt \cup MergeAt
           /\ Top(t).at \in CollectAt => t = Owner /\ status = "Active"
<1>1. stack \in [Thread -> Seq(Call)]
  BY DEF RuntimeInv, TypeOK
<1>2. /\ Len(stack[t]) \in 1..Len(stack[t])
      /\ Top(t) = stack[t][Len(stack[t])]
      /\ Top(t) \in Call
  BY <1>1, Stacks
<1>3. InCall(t, Top(t).at) /\ Top(t).at \in CallAt
  BY <1>2, Calls DEF InCall
<1>4. LET call == stack[t][Len(stack[t])] IN
      /\ call.at \in DeathAt => t = Owner /\ Len(stack[t]) = 1
      /\ call.at \notin MergeAt => Len(stack[t]) =< MaxDepth + 2
      /\ call.at \in HandAt => call.object \in Object
      /\ call.unwinds => call.at \in CollectAt \cup MergeAt
      /\ call.at \in CollectAt => t = Owner /\ status = "Active"
  BY <1>2 DEF RuntimeInv, StackAgrees
<1>5. QED
  BY <1>2, <1>3, <1>4

(* A step that only moves calls keeps the types.                           *)
LEMMA TypeKeeps ==
    ASSUME TypeOK, UNCHANGED <<owner, queue, stage, abandoned, fault>>,
           stack' \in [Thread -> Seq(Call)],
           \A s \in Thread : Len(stack'[s]) =< MaxDepth + 3
    PROVE  TypeOK'
BY DEF TypeOK, owner

(* A step that is none of the owner's death keeps what goes with it.       *)
LEMMA OwnerKeeps ==
    ASSUME OwnerAgrees, UNCHANGED owner,
           \A a \in DeathAt : Dying(a)' <=> Dying(a)
    PROVE  OwnerAgrees'
<1>1. {"die_flag", "die_queue", "die_dead"} = DeathAt
  BY DEF DeathAt
<1>2. UNCHANGED <<status, state_flag, handle>>
  BY DEF owner
<1>3. \A a \in {"die_flag", "die_queue", "die_dead"} : Dying(a)' <=> Dying(a)
  BY <1>1
<1>4. /\ Dying("die_flag")' <=> Dying("die_flag")
      /\ Dying("die_queue")' <=> Dying("die_queue")
      /\ Dying("die_dead")' <=> Dying("die_dead")
  BY <1>3 DEF Dying
<1>5. /\ handle' <=> status' = "Active" \/ Dying("die_flag")' \/ Dying("die_queue")'
      /\ state_flag' \in {"Live", "QueuedObjects"} <=>
           status' = "Active" \/ Dying("die_flag")'
      /\ state_flag' = "Dying" <=> Dying("die_queue")' \/ Dying("die_dead")'
  BY <1>2, <1>4 DEF OwnerAgrees
<1>6. status' = "Active" => \A a \in DeathAt : ~Dying(a)'
  BY <1>2 DEF OwnerAgrees
<1>7. QED
  BY <1>5, <1>6 DEF OwnerAgrees

(* Weak::upgrade.                                                          *)
LEMMA UpgradeKeeps ==
    ASSUME RuntimeInv, NEW t \in Thread, Upgrade(t)
    PROVE  RuntimeInv' /\ (QueueAlive' <=> QueueAlive)
<1>1. PICK next \in {"push", "check_dead"} : next = IF QueueAlive THEN "push" ELSE "check_dead"
  OBVIOUS
<1>2. /\ Busy(t) /\ Top(t).at = "upgrade" /\ Goto(t, next)
      /\ UNCHANGED <<owner, queue, stage, abandoned, fault>>
  BY <1>1 DEF Upgrade, At
<1>3. next \in CallAt /\ next \in HandAt /\ next # "merge"
  BY <1>1 DEF CallAt, HandAt, QueueObjectAt
<1>4. TypeOK /\ stack \in [Thread -> Seq(Call)]
  BY DEF RuntimeInv, TypeOK
<1>5. Moved(t, next)
  BY <1>2, <1>3, <1>4, Going
<1>6. StackAgrees' /\ \A s \in Thread : Len(stack'[s]) =< MaxDepth + 3
  <2>1. /\ next \notin DeathAt /\ next \notin CollectAt
        /\ ~stack[t][Len(stack[t])].unwinds
        /\ Len(stack[t]) =< MaxDepth + 2
        /\ stack[t][Len(stack[t])].object \in Object
    BY <1>2, <1>1, Innermost DEF DeathAt, CollectAt, MergeAt, HandAt
  <2>2. UNCHANGED status /\ StackAgrees
    BY <1>2 DEF RuntimeInv, owner
  <2>3. QED
    BY <1>3, <1>4, <1>5, <2>1, <2>2, MovedStack
<1>7. TypeOK'
  BY <1>2, <1>4, <1>5, <1>6, TypeKeeps DEF Moved
<1>8. OwnerAgrees'
  <2>1. stack[t][Len(stack[t])].at \notin DeathAt /\ next \notin DeathAt
    BY <1>2, <1>1, Innermost DEF DeathAt
  <2>2. QED
    BY <1>2, <1>3, <1>4, <1>5, <2>1, MovedDying, OwnerKeeps DEF RuntimeInv
<1>9. QueueAlive' <=> QueueAlive
  <2>1. stack[t][Len(stack[t])].at \notin ArcAt /\ ("check_dead" \notin ArcAt)
    BY <1>2, Innermost DEF ArcAt, CollectAt
  <2>2. CASE QueueAlive
    <3>1. InCall(t, next)' /\ next \in ArcAt
      BY <1>1, <1>3, <1>4, <1>5, <2>2, MovedCalls DEF ArcAt
    <3>2. QED
      BY <1>7, <2>2, <3>1, AliveNext
  <2>3. CASE ~QueueAlive
    <3>1. next \notin ArcAt
      BY <1>1, <2>1, <2>3
    <3>2. QED
      BY <1>2, <1>3, <1>4, <1>5, <1>7, <2>1, <3>1, MovedAlive DEF owner
  <2>4. QED
    BY <2>2, <2>3
<1>10. ClosedAgrees'
  BY <1>1, <1>4, <1>5, <1>3, <1>9, MovedCalls
     DEF RuntimeInv, ClosedAgrees, CallAt, MergeAt, QueueObjectAt
<1>11. TicketsAgree'
  <2>1. stack[t][Len(stack[t])].at = "upgrade" /\ "upgrade" \in HandAt
    BY <1>2, Innermost DEF HandAt
  <2>2. QED
    BY <1>2, <1>3, <1>4, <1>5, <2>1, MovedTickets DEF RuntimeInv
<1>12. \A s \in Thread : \A a \in CollectAt \cup {"drain", "set_flag"} : InCall(s, a) => InCall(s, a)'
  <2>1. stack[t][Len(stack[t])].at = "upgrade"
    BY <1>2, Innermost
  <2>2. QED
    BY <1>3, <1>4, <1>5, <2>1, MovedCalls DEF CallAt, CollectAt, QueueObjectAt
<1>13. NothingStranded' /\ NoLostWakeup' /\ AssertionsHold'
  BY <1>2, <1>9, <1>12, RuntimeAssumption
     DEF RuntimeInv, NothingStranded, NoLostWakeup, QueuedIsFlagged, AssertionsHold, Running, owner
<1>14. QED
  BY <1>6, <1>7, <1>8, <1>9, <1>10, <1>11, <1>13 DEF RuntimeInv

(* A call returns: one that held the queue leaves it alive, and one that   *)
(* was to empty the queue has done so.                                     *)
LEMMA ReturnedKeeps ==
    ASSUME RuntimeInv, NEW t \in Thread, Busy(t), Return(t),
           UNCHANGED <<owner, queue, stage, abandoned, fault>>,
           Top(t).at \notin DeathAt,
           Top(t).at \in ArcAt => QueueAlive',
           Top(t).at \in CollectAt \cup {"drain", "set_flag"} => queue = <<>>
    PROVE  RuntimeInv' /\ (QueueAlive' <=> QueueAlive)
<1>1. TypeOK /\ stack \in [Thread -> Seq(Call)] /\ StackAgrees
  BY DEF RuntimeInv, TypeOK
<1>2. PICK top \in CallAt : top = Top(t).at /\ top = stack[t][Len(stack[t])].at /\ InCall(t, top)
  BY Innermost
<1>3. Returned(t)
  BY <1>1, Returning
<1>4. StackAgrees' /\ \A s \in Thread : Len(stack'[s]) =< MaxDepth + 3
  BY <1>1, <1>3, ReturnedStack DEF owner
<1>5. TypeOK'
  BY <1>1, <1>3, <1>4, TypeKeeps DEF Returned
<1>6. OwnerAgrees'
  BY <1>1, <1>2, <1>3, ReturnedDying, OwnerKeeps DEF RuntimeInv
<1>7. QueueAlive' <=> QueueAlive
  <2>1. CASE top \in ArcAt
    BY <1>1, <1>2, <2>1, Alive
  <2>2. CASE top \notin ArcAt
    BY <1>1, <1>2, <1>3, <1>5, <2>2, ReturnedAlive DEF owner
  <2>3. QED
    BY <2>1, <2>2
<1>8. ClosedAgrees'
  <2>1. {"drain", "check_dead", "merge"} \subseteq CallAt
    BY DEF CallAt, QueueObjectAt, MergeAt
  <2>2. QED
    BY <1>1, <1>3, <1>7, <2>1, ReturnedCalls DEF RuntimeInv, ClosedAgrees
<1>9. TicketsAgree'
  BY <1>1, <1>3, ReturnedTickets DEF RuntimeInv
<1>10. NothingStranded' /\ NoLostWakeup' /\ AssertionsHold'
  <2>1. CASE queue = <<>>
    BY <2>1
       DEF RuntimeInv, NothingStranded, NoLostWakeup, QueuedIsFlagged, AssertionsHold, Running
  <2>2. CASE queue # <<>>
    <3>1. \A s \in Thread : \A a \in CollectAt \cup {"drain", "set_flag"} :
            InCall(s, a) => InCall(s, a)'
      <4>1. CollectAt \cup {"drain", "set_flag"} \subseteq CallAt
        BY DEF CallAt, QueueObjectAt
      <4>2. QED
        BY <1>1, <1>2, <1>3, <2>2, <4>1, ReturnedCalls
    <3>2. QED
      BY <1>7, <3>1, RuntimeAssumption
         DEF RuntimeInv, NothingStranded, NoLostWakeup, QueuedIsFlagged, AssertionsHold, Running, owner
  <2>3. QED
    BY <2>1, <2>2
<1>11. QED
  BY <1>4, <1>5, <1>6, <1>7, <1>8, <1>9, <1>10 DEF RuntimeInv

(* A call goes on and keeps its hold on the queue; it may look at the flag *)
(* on the way and swap one of its live states for the other.               *)
LEMMA HeldKeeps ==
    ASSUME RuntimeInv, NEW t \in Thread, Busy(t),
           NEW at \in ArcAt \ {"push"}, Goto(t, at),
           Top(t).at \in ArcAt \ {"push"},
           Top(t).at \in CollectAt <=> at \in CollectAt,
           UNCHANGED <<status, handle, queue, stage, fault>>,
           abandoned' = abandoned \/ abandoned' = {},
           \/ UNCHANGED state_flag
           \/ {state_flag, state_flag'} \subseteq {"Live", "QueuedObjects"},
           NoLostWakeup'
    PROVE  RuntimeInv' /\ (QueueAlive' <=> QueueAlive)
<1>1. TypeOK /\ stack \in [Thread -> Seq(Call)] /\ StackAgrees
  BY DEF RuntimeInv, TypeOK
<1>2. at \in CallAt /\ at \notin DeathAt \cup HandAt \cup MergeAt \cup {"drain"}
  BY DEF ArcAt, CallAt, QueueObjectAt, DeathAt, HandAt, MergeAt, CollectAt
<1>3. PICK top \in CallAt : top = Top(t).at /\ top = stack[t][Len(stack[t])].at /\ InCall(t, top)
  BY Innermost
<1>4. top \notin DeathAt \cup HandAt \cup MergeAt \cup {"drain"}
  BY <1>3 DEF ArcAt, CallAt, QueueObjectAt, DeathAt, HandAt, MergeAt, CollectAt
<1>5. Moved(t, at)
  BY <1>1, <1>2, Going
<1>6. StackAgrees' /\ \A s \in Thread : Len(stack'[s]) =< MaxDepth + 3
  <2>1. /\ Len(stack[t]) =< MaxDepth + 2
        /\ stack[t][Len(stack[t])].unwinds => at \in CollectAt
        /\ at \in CollectAt => t = Owner /\ status = "Active"
    BY <1>3, <1>4, Innermost
  <2>2. QED
    BY <1>1, <1>2, <1>5, <2>1, MovedStack
<1>7. TypeOK'
  BY <1>1, <1>5, <1>6 DEF TypeOK, Moved
<1>8. OwnerAgrees'
  <2>1. \A a \in DeathAt : Dying(a)' <=> Dying(a)
    BY <1>1, <1>2, <1>3, <1>4, <1>5, MovedDying
  <2>2. CASE UNCHANGED state_flag
    BY <2>1, <2>2, OwnerKeeps DEF RuntimeInv, owner
  <2>3. CASE {state_flag, state_flag'} \subseteq {"Live", "QueuedObjects"}
    <3>1. /\ Dying("die_flag")' <=> Dying("die_flag")
          /\ Dying("die_queue")' <=> Dying("die_queue")
          /\ Dying("die_dead")' <=> Dying("die_dead")
      BY <2>1 DEF Dying, DeathAt
    <3>2. /\ handle' <=> status' = "Active" \/ Dying("die_flag")' \/ Dying("die_queue")'
          /\ state_flag' \in {"Live", "QueuedObjects"} <=>
               status' = "Active" \/ Dying("die_flag")'
          /\ state_flag' = "Dying" <=> Dying("die_queue")' \/ Dying("die_dead")'
      BY <2>3, <3>1 DEF RuntimeInv, OwnerAgrees
    <3>3. status' = "Active" => \A a \in DeathAt : ~Dying(a)'
      BY <2>1 DEF RuntimeInv, OwnerAgrees
    <3>4. QED
      BY <3>2, <3>3 DEF OwnerAgrees
  <2>4. QED
    BY <2>2, <2>3
<1>9. QueueAlive' <=> QueueAlive
  BY <1>1, <1>2, <1>3, <1>5, <1>7, MovedAlive
<1>10. ClosedAgrees'
  <2>1. {"drain", "check_dead", "merge"} \subseteq CallAt \ {at}
    BY <1>2 DEF CallAt, QueueObjectAt, MergeAt, HandAt
  <2>2. QED
    BY <1>1, <1>2, <1>5, <1>9, <2>1, MovedCalls DEF RuntimeInv, ClosedAgrees
<1>11. TicketsAgree'
  BY <1>1, <1>2, <1>3, <1>4, <1>5, MovedTickets DEF RuntimeInv, HandAt
<1>12. NothingStranded' /\ AssertionsHold'
  <2>1. \A s \in Thread : InCall(s, "drain") => InCall(s, "drain")'
    BY <1>1, <1>2, <1>3, <1>4, <1>5, MovedCalls DEF CallAt
  <2>2. QED
    BY <1>9, <2>1 DEF RuntimeInv, NothingStranded, AssertionsHold, Running
<1>13. QED
  BY <1>6, <1>7, <1>8, <1>9, <1>10, <1>11, <1>12 DEF RuntimeInv

-----------------------------------------------------------------------------
(* compare_exchange(Live, QueuedObjects).                                  *)
LEMMA SetFlagKeeps ==
    ASSUME RuntimeInv, NEW t \in Thread, SetFlag(t)
    PROVE  RuntimeInv' /\ (QueueAlive' <=> QueueAlive)
<1>1. /\ Busy(t) /\ Top(t).at = "set_flag" /\ Goto(t, "release")
      /\ state_flag' = IF state_flag = "Live" THEN "QueuedObjects" ELSE state_flag
      /\ abandoned' = abandoned \/ abandoned' = {}
      /\ UNCHANGED <<status, handle, queue, stage, fault>>
  BY DEF SetFlag, At
<1>2. /\ "release" \in ArcAt \ {"push"}
      /\ "set_flag" \in ArcAt \ {"push"}
      /\ "set_flag" \notin CollectAt /\ "release" \notin CollectAt
  BY DEF ArcAt, CollectAt
<1>3. UNCHANGED state_flag \/ {state_flag, state_flag'} \subseteq {"Live", "QueuedObjects"}
  BY <1>1
<1>4. NoLostWakeup'
  BY <1>1 DEF NoLostWakeup, QueuedIsFlagged
<1>5. QED
  BY <1>1, <1>2, <1>3, <1>4, HeldKeeps

(* The collection has emptied the queue, and is to reset the flag.         *)
LEMMA EmptiedKeeps ==
    ASSUME RuntimeInv, Emptied
    PROVE  RuntimeInv' /\ (QueueAlive' <=> QueueAlive)
<1>1. /\ Busy(Owner) /\ Top(Owner).at = "pop" /\ queue = <<>> /\ Goto(Owner, "clear_flag")
      /\ UNCHANGED <<status, state_flag, handle, queue, stage, abandoned, fault>>
  BY DEF Emptied, At, owner
<1>2. {"pop", "clear_flag"} \subseteq ArcAt \ {"push"} /\ {"pop", "clear_flag"} \subseteq CollectAt
  BY DEF ArcAt, CollectAt
<1>3. NoLostWakeup'
  BY <1>1 DEF NoLostWakeup, QueuedIsFlagged
<1>4. QED
  BY <1>1, <1>2, <1>3, HeldKeeps, RuntimeAssumption

(* A collection that goes on is one that looks at the queue again.         *)
LEMMA Collecting ==
    ASSUME RuntimeInv, Busy(Owner), NEW at \in CollectAt, Goto(Owner, at)
    PROVE  NoLostWakeup'
<1>1. stack \in [Thread -> Seq(Call)] /\ at \in CallAt
  BY DEF RuntimeInv, TypeOK, CallAt
<1>2. Moved(Owner, at)
  BY <1>1, Going, RuntimeAssumption
<1>3. InCall(Owner, at)'
  BY <1>1, <1>2, MovedCalls, RuntimeAssumption
<1>4. QED
  BY <1>3 DEF NoLostWakeup, QueuedIsFlagged

(* compare_exchange(QueuedObjects, Live).                                  *)
LEMMA ClearFlagKeeps ==
    ASSUME RuntimeInv, ClearFlag
    PROVE  RuntimeInv' /\ (QueueAlive' <=> QueueAlive)
<1>1. /\ Busy(Owner) /\ Top(Owner).at = "clear_flag" /\ Goto(Owner, "recheck")
      /\ state_flag' = IF state_flag = "QueuedObjects" THEN "Live" ELSE state_flag
      /\ UNCHANGED <<status, handle, queue, stage, abandoned, fault>>
  BY DEF ClearFlag, At
<1>2. /\ {"clear_flag", "recheck"} \subseteq ArcAt \ {"push"}
      /\ {"clear_flag", "recheck"} \subseteq CollectAt
  BY DEF ArcAt, CollectAt
<1>3. UNCHANGED state_flag \/ {state_flag, state_flag'} \subseteq {"Live", "QueuedObjects"}
  BY <1>1
<1>4. NoLostWakeup'
  BY <1>1, <1>2, Collecting
<1>5. QED
  BY <1>1, <1>2, <1>3, <1>4, HeldKeeps, RuntimeAssumption

(* The owner's handle keeps the queue alive while it collects.             *)
LEMMA ActiveAlive ==
    ASSUME RuntimeInv, status = "Active"
    PROVE  handle /\ QueueAlive
BY DEF RuntimeInv, OwnerAgrees, QueueAlive

(* The queue is empty after all, or the collection starts over.            *)
LEMMA RecheckKeeps ==
    ASSUME RuntimeInv, Recheck
    PROVE  RuntimeInv' /\ (QueueAlive' <=> QueueAlive)
<1>1. /\ Busy(Owner) /\ Top(Owner).at = "recheck"
      /\ IF queue = <<>> THEN Return(Owner) ELSE Goto(Owner, "pop")
      /\ UNCHANGED <<owner, queue, stage, abandoned, fault>>
  BY DEF Recheck, At
<1>2. /\ {"recheck", "pop"} \subseteq ArcAt \ {"push"}
      /\ {"recheck", "pop"} \subseteq CollectAt
      /\ "recheck" \notin DeathAt
  BY DEF ArcAt, CollectAt, DeathAt
<1>3. CASE queue = <<>>
  <2>1. handle
    BY <1>1, <1>2, Innermost, ActiveAlive, RuntimeAssumption
  <2>2. QueueAlive'
    BY <1>1, <2>1 DEF QueueAlive, owner
  <2>3. QED
    BY <1>1, <1>2, <1>3, <2>2, ReturnedKeeps, RuntimeAssumption
<1>4. CASE queue # <<>>
  <2>1. NoLostWakeup'
    BY <1>1, <1>2, <1>4, Collecting
  <2>2. QED
    BY <1>1, <1>2, <1>4, <2>1, HeldKeeps, RuntimeAssumption DEF owner
<1>5. QED
  BY <1>3, <1>4

(* A value is destroyed.                                                   *)
LEMMA DestructorReturnsKeeps ==
    ASSUME RuntimeInv, NEW t \in Thread, DestructorReturns(t)
    PROVE  RuntimeInv' /\ (QueueAlive' <=> QueueAlive)
<1>1. /\ Busy(t) /\ Top(t).at = "destroy" /\ Return(t)
      /\ UNCHANGED <<owner, queue, stage, abandoned, fault>>
  BY DEF DestructorReturns, At
<1>2. "destroy" \notin DeathAt \cup ArcAt \cup CollectAt \cup {"drain", "set_flag"}
  BY DEF ArcAt, CollectAt, DeathAt
<1>3. QED
  BY <1>1, <1>2, ReturnedKeeps

(* The destructor of the queue has emptied it.                             *)
LEMMA DrainedKeeps ==
    ASSUME RuntimeInv, NEW t \in Thread, Drained(t)
    PROVE  RuntimeInv' /\ (QueueAlive' <=> QueueAlive)
<1>1. /\ Busy(t) /\ Top(t).at = "drain" /\ queue = <<>> /\ Return(t)
      /\ UNCHANGED <<owner, queue, stage, abandoned, fault>>
  BY DEF Drained, At
<1>2. "drain" \notin DeathAt \cup ArcAt
  BY DEF ArcAt, CollectAt, DeathAt
<1>3. QED
  BY <1>1, <1>2, ReturnedKeeps

(* The upgraded Arc is dropped: another one remains, and the queue lives   *)
(* on, or this was the last, and its thread drains the queue.              *)
LEMMA ReleaseKeeps ==
    ASSUME RuntimeInv, NEW t \in Thread, Release(t)
    PROVE  /\ RuntimeInv'
           /\ QueueAlive /\ (QueueAlive' \/ (~QueueAlive' /\ status # "Active"))
<1>1. /\ Busy(t) /\ Top(t).at = "release"
      /\ IF handle \/ ArcCalls # {<<t, Len(stack[t])>>} THEN Return(t) ELSE Goto(t, "drain")
      /\ UNCHANGED <<owner, queue, stage, abandoned, fault>>
  BY DEF Release, At
<1>2. TypeOK /\ stack \in [Thread -> Seq(Call)] /\ StackAgrees
  BY DEF RuntimeInv, TypeOK
<1>3. /\ Len(stack[t]) \in 1..Len(stack[t]) /\ Len(stack[t]) =< MaxDepth + 3
      /\ stack[t][Len(stack[t])].at = "release"
      /\ stack[t][Len(stack[t])] \in Call
      /\ InCall(t, "release")
      /\ ~stack[t][Len(stack[t])].unwinds
      /\ Len(stack[t]) =< MaxDepth + 2
  BY <1>1, <1>2, Innermost DEF TypeOK, CollectAt, MergeAt
<1>4. /\ "release" \in ArcAt
      /\ "release" \notin DeathAt \cup HandAt \cup CollectAt \cup {"drain", "set_flag"}
      /\ "drain" \in CallAt
      /\ "drain" \notin DeathAt \cup HandAt \cup CollectAt \cup MergeAt \cup ArcAt
  BY DEF ArcAt, DeathAt, HandAt, CollectAt, CallAt, MergeAt
<1>5. QueueAlive
  BY <1>2, <1>3, <1>4, Alive
<1>6. ASSUME handle
      PROVE  RuntimeInv' /\ QueueAlive'
  <2>1. QueueAlive' /\ Return(t)
    BY <1>1, <1>6 DEF QueueAlive, owner
  <2>2. QED
    BY <1>1, <1>4, <2>1, ReturnedKeeps
<1>7. ASSUME ~handle, ArcCalls # {<<t, Len(stack[t])>>}
      PROVE  RuntimeInv' /\ QueueAlive'
  <2>1. <<t, Len(stack[t])>> \in ArcCalls
    <3>1. Len(stack[t]) \in 1..(MaxDepth + 3)
      BY <1>3, RuntimeAssumption
    <3>2. QED
      BY <1>3, <3>1 DEF ArcCalls, HoldsArc
  <2>2. PICK c \in ArcCalls : c # <<t, Len(stack[t])>>
    BY <1>7, <2>1
  <2>3. /\ c[1] \in Thread /\ c[2] \in 1..(MaxDepth + 3)
        /\ c = <<c[1], c[2]>>
        /\ c[2] =< Len(stack[c[1]])
        /\ HoldsArc(stack[c[1]][c[2]])
    BY <2>2 DEF ArcCalls
  <2>4. Returned(t)
    BY <1>1, <1>2, <1>7, Returning
  <2>5. c[1] # t \/ c[2] # Len(stack[t])
    BY <2>2, <2>3
  <2>6. c[2] =< Len(stack'[c[1]]) /\ stack'[c[1]][c[2]] = stack[c[1]][c[2]]
    BY <1>2, <1>3, <2>3, <2>4, <2>5, RuntimeAssumption, Stacks DEF Returned
  <2>7. c \in ArcCalls'
    BY <2>3, <2>6 DEF ArcCalls, HoldsArc
  <2>8. QueueAlive' /\ Return(t)
    BY <1>1, <1>7, <2>7 DEF QueueAlive
  <2>9. QED
    BY <1>1, <1>4, <2>8, ReturnedKeeps
<1>8. ASSUME ~handle, ArcCalls = {<<t, Len(stack[t])>>}
      PROVE  RuntimeInv' /\ ~QueueAlive' /\ status # "Active"
  <2>1. Goto(t, "drain") /\ Moved(t, "drain")
    BY <1>1, <1>2, <1>4, <1>8, Going
  <2>2. StackAgrees' /\ \A s \in Thread : Len(stack'[s]) =< MaxDepth + 3
    BY <1>1, <1>2, <1>3, <1>4, <2>1, MovedStack DEF owner
  <2>3. TypeOK'
    BY <1>1, <1>2, <2>1, <2>2, TypeKeeps DEF Moved
  <2>4. OwnerAgrees'
    BY <1>1, <1>2, <1>3, <1>4, <2>1, MovedDying, OwnerKeeps DEF RuntimeInv
  <2>5. ~QueueAlive'
    <3>1. ASSUME NEW s \in Thread, NEW i \in 1..Len(stack'[s]), stack'[s][i].at \in ArcAt
          PROVE  FALSE
      <4>1. s # t \/ i # Len(stack[t])
        BY <1>3, <1>4, <2>1, <3>1 DEF Moved
      <4>2. i \in 1..Len(stack[s]) /\ stack[s][i] = stack'[s][i]
        BY <1>3, <2>1, <4>1 DEF Moved
      <4>3. i \in 1..(MaxDepth + 3)
        BY <1>2, <4>2, RuntimeAssumption, Stacks DEF TypeOK
      <4>4. i =< Len(stack[s]) /\ HoldsArc(stack[s][i])
        BY <1>2, <3>1, <4>2, Stacks DEF HoldsArc, ArcAt
      <4>5. <<s, i>> \in ArcCalls
        BY <4>3, <4>4 DEF ArcCalls
      <4>6. QED
        BY <1>8, <4>1, <4>5
    <3>2. ~handle'
      BY <1>1, <1>8 DEF owner
    <3>3. QED
      BY <2>3, <3>1, <3>2, ArcsNext
  <2>6. ClosedAgrees'
    BY <2>5 DEF ClosedAgrees
  <2>7. TicketsAgree'
    BY <1>1, <1>2, <1>3, <1>4, <2>1, MovedTickets DEF RuntimeInv, HandAt
  <2>8. status # "Active" /\ status' # "Active"
    BY <1>1, <1>8, ActiveAlive DEF owner
  <2>9. NothingStranded' /\ NoLostWakeup' /\ AssertionsHold'
    <3>1. InCall(t, "drain")'
      BY <1>2, <1>4, <2>1, MovedCalls
    <3>2. QED
      BY <1>1, <2>8, <3>1
         DEF RuntimeInv, NothingStranded, NoLostWakeup, QueuedIsFlagged, AssertionsHold, Running
  <2>10. QED
    BY <2>2, <2>3, <2>4, <2>5, <2>6, <2>7, <2>8, <2>9 DEF RuntimeInv
<1>9. QED
  BY <1>5, <1>6, <1>7, <1>8

(* A collection begins, in the owner alone.                                *)
LEMMA CollectingKeeps ==
    ASSUME RuntimeInv, MayCall(Owner), status = "Active",
           NEW u \in BOOLEAN, Enter(Owner, [NewCall("pop", NoObject) EXCEPT !.unwinds = u]),
           UNCHANGED <<owner, queue, stage, abandoned, fault>>
    PROVE  RuntimeInv' /\ (QueueAlive' <=> QueueAlive)
<1>1. TypeOK /\ stack \in [Thread -> Seq(Call)] /\ StackAgrees /\ Owner \in Thread
  BY RuntimeAssumption DEF RuntimeInv, TypeOK
<1>2. /\ "pop" \in CallAt
      /\ "pop" \notin DeathAt \cup HandAt \cup MergeAt \cup {"drain", "check_dead", "merge"}
      /\ "pop" \in CollectAt
      /\ "drain" \in CallAt /\ "check_dead" \in CallAt /\ "merge" \in CallAt
      /\ "set_flag" \in CallAt /\ CollectAt \subseteq CallAt
  BY DEF CallAt, DeathAt, HandAt, MergeAt, CollectAt, QueueObjectAt
<1>3. PICK call \in Call : /\ call = [NewCall("pop", NoObject) EXCEPT !.unwinds = u]
                           /\ call.at = "pop"
  BY <1>2, Calls DEF NewCall
<1>4. Entered(Owner, call)
  BY <1>1, <1>3, Entering
<1>5. /\ Len(stack[Owner]) \in Nat
      /\ Len(stack[Owner]) # 0 => /\ stack[Owner][Len(stack[Owner])].at = "destroy"
                                  /\ Len(stack[Owner]) =< MaxDepth
  BY <1>1, Stacks DEF MayCall
<1>6. StackAgrees' /\ \A s \in Thread : Len(stack'[s]) =< MaxDepth + 3
  <2>1. Len(stack[Owner]) + 1 =< MaxDepth + 2 /\ Len(stack[Owner]) + 1 =< MaxDepth + 3
    BY <1>5, RuntimeAssumption
  <2>2. UNCHANGED status
    BY DEF owner
  <2>3. QED
    BY <1>1, <1>2, <1>3, <1>4, <1>5, <2>1, <2>2, EnteredStack
<1>7. TypeOK'
  BY <1>1, <1>4, <1>6, TypeKeeps DEF Entered
<1>8. OwnerAgrees'
  BY <1>1, <1>2, <1>3, <1>4, EnteredDying, OwnerKeeps DEF RuntimeInv
<1>9. QueueAlive' /\ QueueAlive
  BY ActiveAlive DEF QueueAlive, owner
<1>10. ClosedAgrees'
  BY <1>1, <1>2, <1>3, <1>4, <1>9, EnteredCalls DEF RuntimeInv, ClosedAgrees
<1>11. TicketsAgree'
  BY <1>1, <1>2, <1>3, <1>4, EnteredTickets DEF RuntimeInv
<1>12. NothingStranded' /\ NoLostWakeup' /\ AssertionsHold'
  <2>1. InCall(Owner, "pop")'
    BY <1>1, <1>2, <1>3, <1>4, EnteredCalls
  <2>2. QED
    BY <1>2, <1>9, <2>1
       DEF RuntimeInv, NothingStranded, NoLostWakeup, QueuedIsFlagged, AssertionsHold, Running
<1>13. QED
  BY <1>6, <1>7, <1>8, <1>9, <1>10, <1>11, <1>12 DEF RuntimeInv

-----------------------------------------------------------------------------
(* queue_object is called.                                                 *)
LEMMA QueueObjectKeeps ==
    ASSUME RuntimeInv, NEW t \in Thread, NEW x \in Object, QueueObject(t, x)
    PROVE  RuntimeInv' /\ (QueueAlive' <=> QueueAlive)
<1>1. TypeOK /\ stack \in [Thread -> Seq(Call)] /\ StackAgrees
  BY DEF RuntimeInv, TypeOK
<1>2. /\ MayCall(t) /\ stage[x] = "biased"
      /\ stage' = [stage EXCEPT ![x] = "asked"]
      /\ UNCHANGED <<owner, queue, abandoned, fault>>
  BY DEF QueueObject, Advance
<1>3. /\ "upgrade" \in CallAt
      /\ "upgrade" \notin DeathAt \cup MergeAt \cup CollectAt \cup ArcAt
      /\ "upgrade" \in HandAt
      /\ {"drain", "check_dead", "merge", "set_flag"} \subseteq CallAt
      /\ CollectAt \subseteq CallAt
  BY DEF CallAt, DeathAt, HandAt, MergeAt, CollectAt, QueueObjectAt, ArcAt
<1>4. PICK call \in Call : /\ call = NewCall("upgrade", x)
                           /\ call.at = "upgrade" /\ call.object = x /\ ~call.unwinds
  <2>1. NewCall("upgrade", x) \in Call
    BY <1>3, Calls
  <2>2. QED
    BY <2>1 DEF NewCall
<1>5. Entered(t, call)
  BY <1>1, <1>4, Entering DEF QueueObject
<1>6. /\ Len(stack[t]) \in Nat
      /\ Len(stack[t]) # 0 => /\ stack[t][Len(stack[t])].at = "destroy"
                              /\ Len(stack[t]) =< MaxDepth
  BY <1>1, <1>2, Stacks DEF MayCall
<1>7. StackAgrees' /\ \A s \in Thread : Len(stack'[s]) =< MaxDepth + 3
  <2>1. Len(stack[t]) + 1 =< MaxDepth + 2 /\ Len(stack[t]) + 1 =< MaxDepth + 3
    BY <1>6, RuntimeAssumption
  <2>2. UNCHANGED status
    BY <1>2 DEF owner
  <2>3. QED
    BY <1>1, <1>3, <1>4, <1>5, <1>6, <2>1, <2>2, EnteredStack
<1>8. TypeOK'
  BY <1>1, <1>2, <1>5, <1>7 DEF TypeOK, Entered, owner
<1>9. OwnerAgrees'
  BY <1>1, <1>2, <1>3, <1>4, <1>5, EnteredDying, OwnerKeeps DEF RuntimeInv
<1>10. QueueAlive' <=> QueueAlive
  BY <1>1, <1>2, <1>3, <1>4, <1>5, <1>8, EnteredAlive DEF owner
<1>11. ClosedAgrees'
  BY <1>1, <1>3, <1>4, <1>5, <1>10, EnteredCalls DEF RuntimeInv, ClosedAgrees
<1>12. TicketsAgree'
  <2>1. ASSUME NEW s \in Thread, NEW i \in 1..Len(stack'[s]), stack'[s][i].at \in HandAt
        PROVE  \/ s = t /\ i = Len(stack[t]) + 1 /\ stack'[s][i] = call
               \/ /\ i \in 1..Len(stack[s])
                  /\ stack'[s][i] = stack[s][i]
                  /\ stack[s][i].object \in Object \ {x}
    <3>1. CASE s = t /\ i = Len(stack[t]) + 1
      BY <1>5, <3>1 DEF Entered
    <3>2. CASE ~(s = t /\ i = Len(stack[t]) + 1)
      <4>1. i \in 1..Len(stack[s]) /\ stack'[s][i] = stack[s][i]
        BY <1>5, <1>6, <3>2 DEF Entered
      <4>2. stack[s][i].object \in Object
        BY <1>1, <2>1, <4>1 DEF StackAgrees
      <4>3. stage[stack[s][i].object] # "biased"
        BY <2>1, <4>1 DEF RuntimeInv, TicketsAgree
      <4>4. QED
        BY <1>2, <4>1, <4>2, <4>3
    <3>3. QED
      BY <3>1, <3>2
  <2>2. \A i \in 1..Len(queue') : stage'[queue'[i]] = "queued"
    <3>1. ASSUME NEW i \in 1..Len(queue)
          PROVE  queue[i] \in Object /\ queue[i] # x /\ stage[queue[i]] = "queued"
      BY <1>1, <1>2, ElementOfSeq DEF TypeOK, RuntimeInv, TicketsAgree
    <3>2. QED
      BY <1>1, <1>2, <3>1 DEF TypeOK
  <2>3. \A s \in Thread : \A i \in 1..Len(stack'[s]) : stack'[s][i].at \in HandAt =>
          stage'[stack'[s][i].object] =
            IF stack'[s][i].at = "merge" THEN "merging" ELSE "asked"
    BY <1>1, <1>2, <1>4, <2>1 DEF TypeOK, RuntimeInv, TicketsAgree
  <2>4. \A s, r \in Thread : \A i \in 1..Len(stack'[s]), j \in 1..Len(stack'[r]) :
          /\ stack'[s][i].at \in HandAt
          /\ stack'[r][j].at \in HandAt
          /\ stack'[s][i].object = stack'[r][j].object
          => s = r /\ i = j
    <3>1. SUFFICES ASSUME NEW s \in Thread, NEW r \in Thread,
                          NEW i \in 1..Len(stack'[s]), NEW j \in 1..Len(stack'[r]),
                          stack'[s][i].at \in HandAt, stack'[r][j].at \in HandAt,
                          stack'[s][i].object = stack'[r][j].object
                   PROVE  s = r /\ i = j
      OBVIOUS
    <3>2. CASE stack'[s][i].object = x
      <4>1. s = t /\ i = Len(stack[t]) + 1
        BY <2>1, <3>1, <3>2
      <4>2. r = t /\ j = Len(stack[t]) + 1
        <5>1. stack'[r][j].object = x
          BY <3>1, <3>2
        <5>2. QED
          BY <2>1, <3>1, <5>1
      <4>3. QED
        BY <4>1, <4>2
    <3>3. CASE stack'[s][i].object # x
      <4>1. /\ i \in 1..Len(stack[s]) /\ stack'[s][i] = stack[s][i]
            /\ j \in 1..Len(stack[r]) /\ stack'[r][j] = stack[r][j]
        BY <1>4, <2>1, <3>1, <3>3
      <4>2. QED
        BY <3>1, <4>1 DEF RuntimeInv, TicketsAgree
    <3>4. QED
      BY <3>2, <3>3
  <2>5. \A i, j \in 1..Len(queue') : queue'[i] = queue'[j] => i = j
    BY <1>2 DEF RuntimeInv, TicketsAgree
  <2>6. QED
    BY <2>2, <2>3, <2>4, <2>5 DEF TicketsAgree
<1>13. NothingStranded' /\ NoLostWakeup' /\ AssertionsHold'
  <2>1. \A s \in Thread : \A a \in CollectAt \cup {"drain", "set_flag"} :
          InCall(s, a) => InCall(s, a)'
    BY <1>1, <1>3, <1>5, EnteredCalls
  <2>2. QED
    BY <1>2, <1>10, <2>1, RuntimeAssumption
       DEF RuntimeInv, NothingStranded, NoLostWakeup, QueuedIsFlagged, AssertionsHold, Running, owner
<1>14. QED
  BY <1>7, <1>8, <1>9, <1>10, <1>11, <1>12, <1>13 DEF RuntimeInv

(* The object is pushed.                                                   *)
LEMMA PushKeeps ==
    ASSUME RuntimeInv, NEW t \in Thread, Push(t)
    PROVE  RuntimeInv' /\ QueueAlive' /\ QueueAlive
<1>1. TypeOK /\ stack \in [Thread -> Seq(Call)] /\ StackAgrees
  BY DEF RuntimeInv, TypeOK
<1>2. PICK x \in Object : x = Top(t).object /\ x = stack[t][Len(stack[t])].object
  BY Innermost DEF Push, At, HandAt
<1>3. /\ Busy(t) /\ Top(t).at = "push" /\ Goto(t, "set_flag")
      /\ queue' = Append(queue, x)
      /\ stage' = [stage EXCEPT ![x] = "queued"]
      /\ UNCHANGED <<owner, abandoned, fault>>
  BY <1>2 DEF Push, At, Advance
<1>4. /\ "set_flag" \in CallAt
      /\ {"push", "set_flag"} \subseteq ArcAt
      /\ "set_flag" \notin DeathAt \cup MergeAt \cup CollectAt \cup HandAt
      /\ "push" \notin DeathAt \cup MergeAt \cup CollectAt
      /\ "push" \in HandAt
      /\ {"drain", "check_dead", "merge"} \subseteq CallAt
  BY DEF CallAt, DeathAt, HandAt, MergeAt, CollectAt, QueueObjectAt, ArcAt
<1>5. /\ Len(stack[t]) \in 1..Len(stack[t]) /\ Len(stack[t]) =< MaxDepth + 2
      /\ stack[t][Len(stack[t])].at = "push"
      /\ ~stack[t][Len(stack[t])].unwinds
      /\ InCall(t, "push")
  BY <1>3, <1>4, Innermost
<1>6. Moved(t, "set_flag")
  BY <1>1, <1>3, <1>4, Going
<1>7. StackAgrees' /\ \A s \in Thread : Len(stack'[s]) =< MaxDepth + 3
  BY <1>1, <1>3, <1>4, <1>5, <1>6, MovedStack DEF owner
<1>8. TypeOK'
  <2>1. queue' \in Seq(Object) /\ stage' \in [Object -> {"biased", "asked", "queued", "merging", "merged"}]
    BY <1>1, <1>3, AppendProperties DEF TypeOK
  <2>2. QED
    BY <1>1, <1>3, <1>6, <1>7, <2>1 DEF TypeOK, Moved, owner
<1>9. OwnerAgrees'
  BY <1>1, <1>3, <1>4, <1>5, <1>6, MovedDying, OwnerKeeps DEF RuntimeInv
<1>10. QueueAlive' /\ QueueAlive
  BY <1>1, <1>3, <1>4, <1>5, <1>6, <1>8, MovedAlive, Alive DEF owner
<1>11. ClosedAgrees'
  BY <1>1, <1>4, <1>6, <1>10, MovedCalls DEF RuntimeInv, ClosedAgrees
<1>12. TicketsAgree'
  <2>1. ASSUME NEW s \in Thread, NEW i \in 1..Len(stack'[s]), stack'[s][i].at \in HandAt
        PROVE  /\ i \in 1..Len(stack[s])
               /\ stack'[s][i] = stack[s][i]
               /\ stack[s][i].object \in Object \ {x}
    <3>1. ~(s = t /\ i = Len(stack[t]))
      BY <1>4, <1>6, <2>1 DEF Moved
    <3>2. i \in 1..Len(stack[s]) /\ stack'[s][i] = stack[s][i]
      BY <1>5, <1>6, <3>1 DEF Moved
    <3>3. stack[s][i].object \in Object
      BY <1>1, <2>1, <3>2 DEF StackAgrees
    <3>4. stack[s][i].object # x
      BY <1>2, <1>4, <1>5, <2>1, <3>1, <3>2 DEF RuntimeInv, TicketsAgree
    <3>5. QED
      BY <3>2, <3>3, <3>4
  <2>2. stage[x] = "asked"
    BY <1>2, <1>4, <1>5 DEF RuntimeInv, TicketsAgree
  <2>3. ASSUME NEW i \in 1..Len(queue)
        PROVE  queue[i] \in Object /\ queue[i] # x /\ stage[queue[i]] = "queued"
    BY <1>1, <2>2, ElementOfSeq DEF TypeOK, RuntimeInv, TicketsAgree
  <2>4. /\ Len(queue) \in Nat
        /\ Len(queue') = Len(queue) + 1
        /\ \A i \in 1..Len(queue) : queue'[i] = queue[i]
        /\ queue'[Len(queue) + 1] = x
    BY <1>1, <1>3, AppendProperties, LenProperties DEF TypeOK
  <2>5. \A i \in 1..Len(queue') : stage'[queue'[i]] = "queued"
    BY <1>1, <1>3, <2>3, <2>4 DEF TypeOK
  <2>6. \A i, j \in 1..Len(queue') : queue'[i] = queue'[j] => i = j
    BY <2>3, <2>4 DEF RuntimeInv, TicketsAgree
  <2>7. \A s \in Thread : \A i \in 1..Len(stack'[s]) : stack'[s][i].at \in HandAt =>
          stage'[stack'[s][i].object] =
            IF stack'[s][i].at = "merge" THEN "merging" ELSE "asked"
    BY <1>1, <1>3, <2>1 DEF TypeOK, RuntimeInv, TicketsAgree
  <2>8. \A s, r \in Thread : \A i \in 1..Len(stack'[s]), j \in 1..Len(stack'[r]) :
          /\ stack'[s][i].at \in HandAt
          /\ stack'[r][j].at \in HandAt
          /\ stack'[s][i].object = stack'[r][j].object
          => s = r /\ i = j
    <3>1. SUFFICES ASSUME NEW s \in Thread, NEW r \in Thread,
                          NEW i \in 1..Len(stack'[s]), NEW j \in 1..Len(stack'[r]),
                          stack'[s][i].at \in HandAt, stack'[r][j].at \in HandAt,
                          stack'[s][i].object = stack'[r][j].object
                   PROVE  s = r /\ i = j
      OBVIOUS
    <3>2. /\ i \in 1..Len(stack[s]) /\ stack'[s][i] = stack[s][i]
          /\ j \in 1..Len(stack[r]) /\ stack'[r][j] = stack[r][j]
      BY <2>1, <3>1
    <3>3. QED
      BY <3>1, <3>2 DEF RuntimeInv, TicketsAgree
  <2>9. QED
    BY <2>5, <2>6, <2>7, <2>8 DEF TicketsAgree
<1>13. NothingStranded' /\ NoLostWakeup' /\ AssertionsHold'
  <2>1. InCall(t, "set_flag")'
    BY <1>1, <1>4, <1>6, MovedCalls
  <2>2. QED
    BY <1>3, <1>10, <2>1
       DEF RuntimeInv, NothingStranded, NoLostWakeup, QueuedIsFlagged, AssertionsHold, Running
<1>14. QED
  BY <1>7, <1>8, <1>9, <1>10, <1>11, <1>12, <1>13 DEF RuntimeInv

(* The assertion of queue_object: who does not find the queue any more     *)
(* finds its owner dying or dead.                                          *)
LEMMA ClosedIsDead ==
    ASSUME RuntimeInv, NEW t \in Thread, InCall(t, "check_dead")
    PROVE  state_flag \in {"Dying", "Dead"} /\ ~QueueAlive
<1>1. ~QueueAlive
  BY DEF RuntimeInv, ClosedAgrees
<1>2. ~handle
  BY <1>1 DEF QueueAlive
<1>3. QED
  BY <1>1, <1>2 DEF RuntimeInv, OwnerAgrees, TypeOK

(* Without a queue, the thread that asked is to merge.                     *)
LEMMA CheckDeadKeeps ==
    ASSUME RuntimeInv, NEW t \in Thread, CheckDead(t)
    PROVE  RuntimeInv' /\ ~QueueAlive' /\ ~QueueAlive
<1>1. TypeOK /\ stack \in [Thread -> Seq(Call)] /\ StackAgrees
  BY DEF RuntimeInv, TypeOK
<1>2. PICK x \in Object : x = Top(t).object /\ x = stack[t][Len(stack[t])].object
  BY Innermost DEF CheckDead, At, HandAt
<1>3. Busy(t) /\ Top(t).at = "check_dead"
  BY DEF CheckDead, At
<1>4. /\ {"check_dead", "merge", "drain", "set_flag"} \subseteq CallAt
      /\ "merge" \notin DeathAt \cup CollectAt \cup ArcAt
      /\ "check_dead" \notin DeathAt \cup CollectAt \cup ArcAt \cup MergeAt
      /\ {"check_dead", "merge"} \subseteq HandAt
      /\ "merge" \in MergeAt
      /\ CollectAt \subseteq CallAt
  BY DEF CallAt, DeathAt, HandAt, MergeAt, CollectAt, QueueObjectAt, ArcAt
<1>5. /\ Len(stack[t]) \in 1..Len(stack[t]) /\ Len(stack[t]) =< MaxDepth + 2
      /\ stack[t][Len(stack[t])].at = "check_dead"
      /\ InCall(t, "check_dead")
  BY <1>3, <1>4, Innermost
<1>6. /\ Goto(t, "merge")
      /\ stage' = [stage EXCEPT ![x] = "merging"]
      /\ UNCHANGED <<owner, queue, abandoned, fault>>
  BY <1>2, <1>5, ClosedIsDead DEF CheckDead, Advance
<1>7. Moved(t, "merge")
  BY <1>1, <1>3, <1>4, <1>6, Going
<1>8. StackAgrees' /\ \A s \in Thread : Len(stack'[s]) =< MaxDepth + 3
  BY <1>1, <1>2, <1>4, <1>5, <1>6, <1>7, MovedStack DEF owner
<1>9. TypeOK'
  BY <1>1, <1>6, <1>7, <1>8 DEF TypeOK, Moved, owner
<1>10. OwnerAgrees'
  BY <1>1, <1>4, <1>5, <1>6, <1>7, MovedDying, OwnerKeeps DEF RuntimeInv
<1>11. ~QueueAlive' /\ ~QueueAlive
  BY <1>1, <1>4, <1>5, <1>6, <1>7, <1>9, MovedAlive, ClosedIsDead DEF owner
<1>12. ClosedAgrees'
  BY <1>11 DEF ClosedAgrees
<1>13. TicketsAgree'
  <2>1. ASSUME NEW s \in Thread, NEW i \in 1..Len(stack'[s]), stack'[s][i].at \in HandAt
        PROVE  /\ i \in 1..Len(stack[s])
               /\ stack[s][i].at \in HandAt
               /\ stack'[s][i].object = stack[s][i].object
               /\ \/ s = t /\ i = Len(stack[t]) /\ stack'[s][i].at = "merge" /\ stack[s][i].object = x
                  \/ stack'[s][i].at = stack[s][i].at /\ stack[s][i].object \in Object \ {x}
    <3>1. CASE s = t /\ i = Len(stack[t])
      BY <1>2, <1>4, <1>5, <1>7, <3>1 DEF Moved
    <3>2. CASE ~(s = t /\ i = Len(stack[t]))
      <4>1. i \in 1..Len(stack[s]) /\ stack'[s][i] = stack[s][i]
        BY <1>5, <1>7, <3>2 DEF Moved
      <4>2. stack[s][i].object \in Object
        BY <1>1, <2>1, <4>1 DEF StackAgrees
      <4>3. stack[s][i].object # x
        BY <1>2, <1>4, <1>5, <2>1, <3>2, <4>1 DEF RuntimeInv, TicketsAgree
      <4>4. QED
        BY <2>1, <4>1, <4>2, <4>3
    <3>3. QED
      BY <3>1, <3>2
  <2>2. stage[x] = "asked"
    BY <1>2, <1>4, <1>5 DEF RuntimeInv, TicketsAgree
  <2>3. \A i \in 1..Len(queue') : stage'[queue'[i]] = "queued"
    <3>1. ASSUME NEW i \in 1..Len(queue)
          PROVE  queue[i] \in Object /\ queue[i] # x /\ stage[queue[i]] = "queued"
      BY <1>1, <2>2, ElementOfSeq DEF TypeOK, RuntimeInv, TicketsAgree
    <3>2. QED
      BY <1>1, <1>6, <3>1 DEF TypeOK
  <2>4. \A i, j \in 1..Len(queue') : queue'[i] = queue'[j] => i = j
    BY <1>6 DEF RuntimeInv, TicketsAgree
  <2>5. \A s \in Thread : \A i \in 1..Len(stack'[s]) : stack'[s][i].at \in HandAt =>
          stage'[stack'[s][i].object] =
            IF stack'[s][i].at = "merge" THEN "merging" ELSE "asked"
    <3>1. SUFFICES ASSUME NEW s \in Thread, NEW i \in 1..Len(stack'[s]), stack'[s][i].at \in HandAt
                   PROVE  stage'[stack'[s][i].object] =
                            IF stack'[s][i].at = "merge" THEN "merging" ELSE "asked"
      OBVIOUS
    <3>2. CASE s = t /\ i = Len(stack[t]) /\ stack'[s][i].at = "merge" /\ stack[s][i].object = x
      BY <1>1, <1>6, <2>1, <3>1, <3>2 DEF TypeOK
    <3>3. CASE stack'[s][i].at = stack[s][i].at /\ stack[s][i].object \in Object \ {x}
      <4>1. stage[stack[s][i].object] = IF stack[s][i].at = "merge" THEN "merging" ELSE "asked"
        BY <2>1, <3>1 DEF RuntimeInv, TicketsAgree
      <4>2. stage'[stack[s][i].object] = stage[stack[s][i].object]
        BY <1>1, <1>6, <3>3 DEF TypeOK
      <4>3. stack'[s][i].object = stack[s][i].object
        BY <2>1, <3>1
      <4>4. QED
        BY <3>3, <4>1, <4>2, <4>3
    <3>4. QED
      BY <2>1, <3>1, <3>2, <3>3
  <2>6. \A s, r \in Thread : \A i \in 1..Len(stack'[s]), j \in 1..Len(stack'[r]) :
          /\ stack'[s][i].at \in HandAt
          /\ stack'[r][j].at \in HandAt
          /\ stack'[s][i].object = stack'[r][j].object
          => s = r /\ i = j
    <3>1. SUFFICES ASSUME NEW s \in Thread, NEW r \in Thread,
                          NEW i \in 1..Len(stack'[s]), NEW j \in 1..Len(stack'[r]),
                          stack'[s][i].at \in HandAt, stack'[r][j].at \in HandAt,
                          stack'[s][i].object = stack'[r][j].object
                   PROVE  s = r /\ i = j
      OBVIOUS
    <3>2. /\ i \in 1..Len(stack[s]) /\ stack[s][i].at \in HandAt
          /\ j \in 1..Len(stack[r]) /\ stack[r][j].at \in HandAt
          /\ stack[s][i].object = stack[r][j].object
      BY <2>1, <3>1
    <3>3. QED
      BY <3>2 DEF RuntimeInv, TicketsAgree
  <2>7. QED
    BY <2>3, <2>4, <2>5, <2>6 DEF TicketsAgree
<1>14. NothingStranded' /\ NoLostWakeup' /\ AssertionsHold'
  <2>1. \A s \in Thread : \A a \in CollectAt \cup {"drain", "set_flag"} :
          InCall(s, a) => InCall(s, a)'
    BY <1>1, <1>4, <1>5, <1>7, MovedCalls
  <2>2. QED
    BY <1>6, <1>11, <2>1, RuntimeAssumption
       DEF RuntimeInv, NothingStranded, NoLostWakeup, QueuedIsFlagged, AssertionsHold, Running, owner
<1>15. QED
  BY <1>8, <1>9, <1>10, <1>11, <1>12, <1>13, <1>14 DEF RuntimeInv

(* A panic unwinds out of all the calls of its thread.                     *)
LEMMA DestructorPanicsKeeps ==
    ASSUME RuntimeInv, NEW t \in Thread, DestructorPanics(t)
    PROVE  RuntimeInv' /\ (QueueAlive' <=> QueueAlive)
<1>1. TypeOK /\ stack \in [Thread -> Seq(Call)] /\ StackAgrees
  BY DEF RuntimeInv, TypeOK
<1>2. /\ Busy(t) /\ Top(t).at = "destroy"
      /\ \A i \in 1..Len(stack[t]) : stack[t][i].unwinds
      /\ stack' = [stack EXCEPT ![t] = <<>>]
      /\ abandoned' = IF state_flag = "Live" THEN ToSet(queue) ELSE {}
      /\ UNCHANGED <<owner, queue, stage, fault>>
  BY DEF DestructorPanics, At
<1>3. \A i \in 1..Len(stack[t]) :
        /\ stack[t][i].at \in CollectAt \cup {"merge", "destroy"}
        /\ stack[t][i].at \in CollectAt => status = "Active"
  BY <1>1, <1>2 DEF StackAgrees, MergeAt
<1>4. /\ stack' \in [Thread -> Seq(Call)]
      /\ stack'[t] = <<>>
      /\ \A s \in Thread \ {t} : stack'[s] = stack[s]
      /\ Len(stack'[t]) = 0
  BY <1>1, <1>2, EmptySeq
<1>5. \A s \in Thread : \A i \in 1..Len(stack'[s]) :
        s # t /\ i \in 1..Len(stack[s]) /\ stack'[s][i] = stack[s][i]
  BY <1>4
<1>6. \A s \in Thread : Len(stack'[s]) \in Nat /\ Len(stack'[s]) =< MaxDepth + 3
  <2>1. \A s \in Thread : Len(stack[s]) \in Nat /\ Len(stack[s]) =< MaxDepth + 3
    BY <1>1, Stacks DEF TypeOK
  <2>2. 0 =< MaxDepth + 3
    BY RuntimeAssumption
  <2>3. \A s \in Thread : Len(stack'[s]) = IF s = t THEN 0 ELSE Len(stack[s])
    BY <1>4
  <2>4. QED
    BY <2>1, <2>2, <2>3
<1>7. TypeOK'
  <2>1. abandoned' \subseteq Object
    BY <1>1, <1>2 DEF TypeOK, ToSet
  <2>2. QED
    BY <1>1, <1>2, <1>4, <1>6, <2>1 DEF TypeOK, owner
<1>8. StackAgrees'
  <2>1. \A s \in Thread : s # t => Len(stack'[s]) = Len(stack[s])
    BY <1>4
  <2>2. QED
    BY <1>1, <1>2, <1>5, <2>1 DEF StackAgrees, owner
<1>9. \A a \in DeathAt : Dying(a)' <=> Dying(a)
  <2>1. \A a \in DeathAt : Dying(a) <=> Len(stack[Owner]) # 0 /\ stack[Owner][1].at = a
    BY <1>1, RuntimeAssumption, Stacks DEF Dying
  <2>2. \A a \in DeathAt : Dying(a)' <=> Len(stack'[Owner]) # 0 /\ stack'[Owner][1].at = a
    BY <1>4, RuntimeAssumption, StacksNext DEF Dying
  <2>3. CASE t # Owner
    BY <1>4, <2>1, <2>2, <2>3, RuntimeAssumption
  <2>4. CASE t = Owner
    <3>1. Len(stack[t]) \in Nat
      BY <1>1, Stacks
    <3>2. \A a \in DeathAt : ~(Len(stack[t]) # 0 /\ stack[t][1].at = a)
      BY <1>3, <3>1 DEF DeathAt, CollectAt
    <3>3. QED
      BY <1>4, <2>1, <2>2, <2>4, <3>2
  <2>5. QED
    BY <2>3, <2>4
<1>10. OwnerAgrees'
  BY <1>2, <1>9, OwnerKeeps DEF RuntimeInv
<1>11. QueueAlive' <=> QueueAlive
  <2>1. ASSUME QueueAlive PROVE QueueAlive'
    <3>1. CASE handle
      BY <1>2, <3>1 DEF QueueAlive, owner
    <3>2. ASSUME NEW s \in Thread, NEW i \in 1..Len(stack[s]), stack[s][i].at \in ArcAt, ~handle
          PROVE  QueueAlive'
      <4>1. s # t
        BY <1>3, <3>2, ActiveAlive DEF ArcAt, CollectAt
      <4>2. i \in 1..Len(stack'[s]) /\ stack'[s][i].at \in ArcAt
        BY <1>4, <3>2, <4>1
      <4>3. QED
        BY <1>7, <4>2, ArcsNext
    <3>3. QED
      BY <1>1, <2>1, <3>1, <3>2, Arcs
  <2>2. ASSUME QueueAlive' PROVE QueueAlive
    BY <1>1, <1>2, <1>5, <1>7, <2>2, Arcs, ArcsNext DEF owner
  <2>3. QED
    BY <2>1, <2>2
<1>12. \A s \in Thread : \A a \in CallAt : InCall(s, a)' => InCall(s, a)
  BY <1>5 DEF InCall
<1>13. ClosedAgrees'
  BY <1>11, <1>12 DEF RuntimeInv, ClosedAgrees, CallAt, QueueObjectAt, MergeAt
<1>14. TicketsAgree'
  BY <1>2, <1>5 DEF RuntimeInv, TicketsAgree
<1>15. NothingStranded' /\ NoLostWakeup' /\ AssertionsHold'
  <2>1. ASSUME NEW s \in Thread, InCall(s, "drain") PROVE InCall(s, "drain")'
    <3>1. PICK i \in 1..Len(stack[s]) : stack[s][i].at = "drain"
      BY <2>1 DEF InCall
    <3>2. s # t
      BY <1>3, <3>1 DEF CollectAt
    <3>3. QED
      BY <1>4, <3>1, <3>2 DEF InCall
  <2>2. NoLostWakeup'
    <3>1. CASE state_flag = "Live"
      <4>1. \A i \in 1..Len(queue') : queue'[i] \in abandoned'
        BY <1>1, <1>2, <3>1 DEF TypeOK, ToSet
      <4>2. QED
        BY <4>1 DEF NoLostWakeup
    <3>2. CASE state_flag # "Live"
      BY <1>2, <3>2 DEF NoLostWakeup, QueuedIsFlagged, owner
    <3>3. QED
      BY <3>1, <3>2
  <2>3. QED
    BY <1>2, <1>11, <2>1, <2>2
       DEF RuntimeInv, NothingStranded, AssertionsHold, Running
<1>16. QED
  BY <1>7, <1>8, <1>10, <1>11, <1>13, <1>14, <1>15 DEF RuntimeInv

(* An object is merged: references remain, or its value is destroyed.      *)
LEMMA MergeKeeps ==
    ASSUME RuntimeInv, NEW t \in Thread, Merge(t)
    PROVE  RuntimeInv' /\ (QueueAlive' <=> QueueAlive)
<1>1. TypeOK /\ stack \in [Thread -> Seq(Call)] /\ StackAgrees
  BY DEF RuntimeInv, TypeOK
<1>2. PICK x \in Object : x = Top(t).object /\ x = stack[t][Len(stack[t])].object
  BY Innermost DEF Merge, At, HandAt
<1>3. /\ Busy(t) /\ Top(t).at = "merge"
      /\ Return(t) \/ Goto(t, "destroy")
      /\ stage' = [stage EXCEPT ![x] = "merged"]
      /\ UNCHANGED <<owner, queue, abandoned, fault>>
  BY <1>2 DEF Merge, At, Advance
<1>4. /\ {"check_dead", "merge", "drain", "set_flag", "destroy"} \subseteq CallAt
      /\ "merge" \notin DeathAt \cup CollectAt \cup ArcAt \cup {"drain", "set_flag"}
      /\ "destroy" \notin DeathAt \cup CollectAt \cup ArcAt \cup HandAt \cup {"drain"}
      /\ {"merge", "destroy"} = MergeAt
      /\ "merge" \in HandAt
      /\ CollectAt \subseteq CallAt
  BY DEF CallAt, DeathAt, HandAt, MergeAt, CollectAt, QueueObjectAt, ArcAt
<1>5. /\ Len(stack[t]) \in 1..Len(stack[t])
      /\ stack[t][Len(stack[t])].at = "merge"
  BY <1>3, <1>4, Innermost
<1>6. Returned(t) \/ Moved(t, "destroy")
  BY <1>1, <1>3, <1>4, Going, Returning
<1>7. StackAgrees' /\ \A s \in Thread : Len(stack'[s]) =< MaxDepth + 3
  <2>1. UNCHANGED status
    BY <1>3 DEF owner
  <2>2. CASE Returned(t)
    BY <1>1, <2>1, <2>2, ReturnedStack
  <2>3. CASE Moved(t, "destroy")
    BY <1>1, <1>4, <1>5, <2>1, <2>3, MovedStack
  <2>4. QED
    BY <1>6, <2>2, <2>3
<1>8. stack' \in [Thread -> Seq(Call)]
  BY <1>6 DEF Returned, Moved
<1>9. TypeOK'
  BY <1>1, <1>3, <1>7, <1>8 DEF TypeOK, owner
<1>10. OwnerAgrees'
  <2>1. \A a \in DeathAt : Dying(a)' <=> Dying(a)
    <3>1. CASE Returned(t)
      BY <1>1, <1>4, <1>5, <3>1, ReturnedDying
    <3>2. CASE Moved(t, "destroy")
      BY <1>1, <1>4, <1>5, <3>2, MovedDying
    <3>3. QED
      BY <1>6, <3>1, <3>2
  <2>2. QED
    BY <1>3, <2>1, OwnerKeeps DEF RuntimeInv
<1>11. QueueAlive' <=> QueueAlive
  <2>1. UNCHANGED handle
    BY <1>3 DEF owner
  <2>2. CASE Returned(t)
    BY <1>1, <1>4, <1>5, <1>9, <2>1, <2>2, ReturnedAlive
  <2>3. CASE Moved(t, "destroy")
    BY <1>1, <1>4, <1>5, <1>9, <2>1, <2>3, MovedAlive
  <2>4. QED
    BY <1>6, <2>2, <2>3
<1>12. \A s \in Thread : \A a \in CallAt \ {"merge", "destroy"} : InCall(s, a)' <=> InCall(s, a)
  <2>1. CASE Returned(t)
    BY <1>1, <1>5, <2>1, ReturnedCalls
  <2>2. CASE Moved(t, "destroy")
    BY <1>1, <1>4, <1>5, <2>2, MovedCalls
  <2>3. QED
    BY <1>6, <2>1, <2>2
<1>13. \A s \in Thread : InCall(s, "merge")' => InCall(s, "merge")
  <2>1. CASE Returned(t)
    BY <1>1, <1>4, <2>1, ReturnedCalls
  <2>2. CASE Moved(t, "destroy")
    BY <1>1, <1>4, <2>2, MovedCalls
  <2>3. QED
    BY <1>6, <2>1, <2>2
<1>14. ClosedAgrees'
  <2>1. \A s \in Thread : /\ InCall(s, "drain")' => InCall(s, "drain")
                          /\ InCall(s, "check_dead")' => InCall(s, "check_dead")
    BY <1>4, <1>12 DEF InCall
  <2>2. \A s \in Thread : InCall(s, "drain")' \/ InCall(s, "check_dead")'
                            \/ (s # Owner /\ InCall(s, "merge")') => ~QueueAlive
    BY <1>13, <2>1 DEF RuntimeInv, ClosedAgrees
  <2>3. QED
    BY <1>11, <2>2 DEF ClosedAgrees
<1>15. TicketsAgree'
  <2>1. ASSUME NEW s \in Thread, NEW i \in 1..Len(stack'[s]), stack'[s][i].at \in HandAt
        PROVE  /\ i \in 1..Len(stack[s])
               /\ stack'[s][i] = stack[s][i]
               /\ stack[s][i].object \in Object \ {x}
    <3>1. /\ ~(s = t /\ i = Len(stack[t]))
          /\ i \in 1..Len(stack[s])
          /\ stack'[s][i] = stack[s][i]
      <4>1. CASE Returned(t)
        BY <1>5, <2>1, <4>1 DEF Returned
      <4>2. CASE Moved(t, "destroy")
        <5>1. ~(s = t /\ i = Len(stack[t]))
          BY <1>4, <2>1, <4>2 DEF Moved
        <5>2. QED
          BY <1>5, <4>2, <5>1 DEF Moved
      <4>3. QED
        BY <1>6, <4>1, <4>2
    <3>2. stack[s][i].object \in Object
      BY <1>1, <2>1, <3>1 DEF StackAgrees
    <3>3. stack[s][i].object # x
      BY <1>2, <1>4, <1>5, <2>1, <3>1 DEF RuntimeInv, TicketsAgree
    <3>4. QED
      BY <3>1, <3>2, <3>3
  <2>2. stage[x] = "merging"
    BY <1>2, <1>4, <1>5 DEF RuntimeInv, TicketsAgree
  <2>3. \A i \in 1..Len(queue') : stage'[queue'[i]] = "queued"
    <3>1. ASSUME NEW i \in 1..Len(queue)
          PROVE  queue[i] \in Object /\ queue[i] # x /\ stage[queue[i]] = "queued"
      BY <1>1, <2>2, ElementOfSeq DEF TypeOK, RuntimeInv, TicketsAgree
    <3>2. QED
      BY <1>1, <1>3, <3>1 DEF TypeOK
  <2>4. \A i, j \in 1..Len(queue') : queue'[i] = queue'[j] => i = j
    BY <1>3 DEF RuntimeInv, TicketsAgree
  <2>5. \A s \in Thread : \A i \in 1..Len(stack'[s]) : stack'[s][i].at \in HandAt =>
          stage'[stack'[s][i].object] =
            IF stack'[s][i].at = "merge" THEN "merging" ELSE "asked"
    <3>1. SUFFICES ASSUME NEW s \in Thread, NEW i \in 1..Len(stack'[s]), stack'[s][i].at \in HandAt
                   PROVE  stage'[stack'[s][i].object] =
                            IF stack'[s][i].at = "merge" THEN "merging" ELSE "asked"
      OBVIOUS
    <3>2. /\ i \in 1..Len(stack[s])
          /\ stack'[s][i] = stack[s][i]
          /\ stack[s][i].object \in Object \ {x}
      BY <2>1, <3>1
    <3>3. stage'[stack[s][i].object] = stage[stack[s][i].object]
      BY <1>1, <1>3, <3>2 DEF TypeOK
    <3>4. QED
      BY <3>1, <3>2, <3>3 DEF RuntimeInv, TicketsAgree
  <2>6. \A s, r \in Thread : \A i \in 1..Len(stack'[s]), j \in 1..Len(stack'[r]) :
          /\ stack'[s][i].at \in HandAt
          /\ stack'[r][j].at \in HandAt
          /\ stack'[s][i].object = stack'[r][j].object
          => s = r /\ i = j
    <3>1. SUFFICES ASSUME NEW s \in Thread, NEW r \in Thread,
                          NEW i \in 1..Len(stack'[s]), NEW j \in 1..Len(stack'[r]),
                          stack'[s][i].at \in HandAt, stack'[r][j].at \in HandAt,
                          stack'[s][i].object = stack'[r][j].object
                   PROVE  s = r /\ i = j
      OBVIOUS
    <3>2. /\ i \in 1..Len(stack[s]) /\ stack'[s][i] = stack[s][i]
          /\ j \in 1..Len(stack[r]) /\ stack'[r][j] = stack[r][j]
      BY <2>1, <3>1
    <3>3. QED
      BY <3>1, <3>2 DEF RuntimeInv, TicketsAgree
  <2>7. QED
    BY <2>3, <2>4, <2>5, <2>6 DEF TicketsAgree
<1>16. NothingStranded' /\ NoLostWakeup' /\ AssertionsHold'
  <2>1. \A s \in Thread : \A a \in CollectAt \cup {"drain", "set_flag"} :
          InCall(s, a) => InCall(s, a)'
    BY <1>4, <1>12
  <2>2. QED
    BY <1>3, <1>11, <2>1, RuntimeAssumption
       DEF RuntimeInv, NothingStranded, NoLostWakeup, QueuedIsFlagged, AssertionsHold, Running, owner
<1>17. QED
  BY <1>7, <1>9, <1>10, <1>11, <1>14, <1>15, <1>16 DEF RuntimeInv

(* An object comes out of the queue, in a collection of the owner or when  *)
(* the queue is destroyed, and is merged by whoever took it.               *)
LEMMA PopKeeps ==
    ASSUME RuntimeInv, NEW t \in Thread, NEW at \in {"pop", "drain"}, Pop(t, at)
    PROVE  /\ RuntimeInv' /\ (QueueAlive' <=> QueueAlive)
           /\ (t = Owner /\ status = "Active") \/ ~QueueAlive
<1>1. TypeOK /\ stack \in [Thread -> Seq(Call)] /\ StackAgrees
  BY DEF RuntimeInv, TypeOK
<1>2. PICK x \in Object : x = Head(queue)
  BY <1>1, HeadTailProperties DEF Pop, TypeOK
<1>3. /\ Busy(t) /\ Top(t).at = at /\ queue # <<>>
      /\ Enter(t, [NewCall("merge", x) EXCEPT !.unwinds = Top(t).unwinds])
      /\ queue' = Tail(queue) /\ abandoned' = abandoned \ {x}
      /\ stage' = [stage EXCEPT ![x] = "merging"]
      /\ UNCHANGED <<owner, fault>>
  BY <1>2 DEF Pop, At, Advance
<1>4. /\ {"check_dead", "merge", "drain", "set_flag", "pop"} \subseteq CallAt
      /\ "merge" \notin DeathAt \cup CollectAt \cup ArcAt \cup {"drain", "set_flag"}
      /\ at \notin DeathAt \cup MergeAt
      /\ "merge" \in HandAt /\ "merge" \in MergeAt
      /\ "pop" \in CollectAt
      /\ CollectAt \subseteq CallAt
  BY DEF CallAt, DeathAt, HandAt, MergeAt, CollectAt, QueueObjectAt, ArcAt
<1>5. /\ Len(stack[t]) \in 1..Len(stack[t]) /\ Len(stack[t]) =< MaxDepth + 2
      /\ stack[t][Len(stack[t])].at = at
      /\ InCall(t, at)
      /\ at = "pop" => t = Owner /\ status = "Active"
  BY <1>3, <1>4, Innermost
<1>6. PICK call \in Call : /\ call = [NewCall("merge", x) EXCEPT !.unwinds = Top(t).unwinds]
                           /\ call.at = "merge" /\ call.object = x
  <2>1. Top(t).unwinds \in BOOLEAN
    BY <1>3, Innermost, Calls
  <2>2. [NewCall("merge", x) EXCEPT !.unwinds = Top(t).unwinds] \in Call
    BY <1>4, <2>1, Calls
  <2>3. QED
    BY <2>2 DEF NewCall
<1>7. Entered(t, call)
  BY <1>1, <1>3, <1>6, Entering
<1>8. StackAgrees' /\ \A s \in Thread : Len(stack'[s]) =< MaxDepth + 3
  <2>1. /\ stack[t][Len(stack[t])].at \in {"destroy", "pop", "drain", "die_dead"}
        /\ Len(stack[t]) + 1 =< MaxDepth + 3
    BY <1>5, RuntimeAssumption
  <2>2. UNCHANGED status
    BY <1>3 DEF owner
  <2>3. QED
    BY <1>1, <1>4, <1>6, <1>7, <2>1, <2>2, EnteredStack
<1>9. /\ Tail(queue) \in Seq(Object)
      /\ Len(queue) \in Nat
      /\ Len(Tail(queue)) = Len(queue) - 1
      /\ \A i \in 1..Len(Tail(queue)) : Tail(queue)[i] = queue[i + 1]
      /\ 1 \in 1..Len(queue) /\ queue[1] = x
  BY <1>1, <1>2, <1>3, HeadTailProperties, EmptySeq, LenProperties DEF TypeOK
<1>10. TypeOK'
  BY <1>1, <1>3, <1>7, <1>8, <1>9 DEF TypeOK, Entered, owner
<1>11. OwnerAgrees'
  BY <1>1, <1>3, <1>4, <1>6, <1>7, EnteredDying, OwnerKeeps DEF RuntimeInv
<1>12. QueueAlive' <=> QueueAlive
  BY <1>1, <1>3, <1>4, <1>6, <1>7, <1>10, EnteredAlive DEF owner
<1>13. at = "drain" => ~QueueAlive
  BY <1>5 DEF RuntimeInv, ClosedAgrees
<1>14. ClosedAgrees'
  <2>1. \A s \in Thread : \A a \in CallAt : InCall(s, a)' => InCall(s, a) \/ (s = t /\ a = "merge")
    BY <1>1, <1>6, <1>7, EnteredCalls
  <2>2. t = Owner \/ ~QueueAlive
    BY <1>5, <1>13
  <2>3. QED
    BY <1>4, <1>12, <2>1, <2>2 DEF RuntimeInv, ClosedAgrees
<1>15. TicketsAgree'
  <2>1. stage[x] = "queued"
    BY <1>9 DEF RuntimeInv, TicketsAgree
  <2>2. ASSUME NEW s \in Thread, NEW i \in 1..Len(stack'[s]), stack'[s][i].at \in HandAt
        PROVE  \/ s = t /\ i = Len(stack[t]) + 1 /\ stack'[s][i] = call
               \/ /\ i \in 1..Len(stack[s])
                  /\ stack'[s][i] = stack[s][i]
                  /\ stack[s][i].object \in Object \ {x}
    <3>1. CASE s = t /\ i = Len(stack[t]) + 1
      BY <1>7, <3>1 DEF Entered
    <3>2. CASE ~(s = t /\ i = Len(stack[t]) + 1)
      <4>1. i \in 1..Len(stack[s]) /\ stack'[s][i] = stack[s][i]
        BY <1>5, <1>7, <3>2 DEF Entered
      <4>2. stack[s][i].object \in Object
        BY <1>1, <2>2, <4>1 DEF StackAgrees
      <4>3. stage[stack[s][i].object] # "queued"
        BY <2>2, <4>1 DEF RuntimeInv, TicketsAgree
      <4>4. QED
        BY <2>1, <4>1, <4>2, <4>3
    <3>3. QED
      BY <3>1, <3>2
  <2>3. ASSUME NEW i \in 1..Len(queue')
        PROVE  /\ i + 1 \in 1..Len(queue) /\ queue'[i] = queue[i + 1]
               /\ queue[i + 1] \in Object \ {x}
               /\ stage[queue[i + 1]] = "queued"
    <3>1. i + 1 \in 1..Len(queue) /\ queue'[i] = queue[i + 1]
      BY <1>3, <1>9
    <3>2. queue[i + 1] \in Object
      BY <1>1, <3>1, ElementOfSeq DEF TypeOK
    <3>3. i + 1 # 1
      OBVIOUS
    <3>4. queue[i + 1] # x /\ stage[queue[i + 1]] = "queued"
      BY <1>9, <3>1, <3>3 DEF RuntimeInv, TicketsAgree
    <3>5. QED
      BY <3>1, <3>2, <3>4
  <2>4. \A i \in 1..Len(queue') : stage'[queue'[i]] = "queued"
    BY <1>1, <1>3, <2>3 DEF TypeOK
  <2>5. \A i, j \in 1..Len(queue') : queue'[i] = queue'[j] => i = j
    <3>1. ASSUME NEW i \in 1..Len(queue'), NEW j \in 1..Len(queue'), queue'[i] = queue'[j]
          PROVE  i = j
      <4>1. i + 1 = j + 1
        BY <2>3, <3>1 DEF RuntimeInv, TicketsAgree
      <4>2. QED
        BY <4>1
    <3>2. QED
      BY <3>1
  <2>6. \A s \in Thread : \A i \in 1..Len(stack'[s]) : stack'[s][i].at \in HandAt =>
          stage'[stack'[s][i].object] =
            IF stack'[s][i].at = "merge" THEN "merging" ELSE "asked"
    <3>1. SUFFICES ASSUME NEW s \in Thread, NEW i \in 1..Len(stack'[s]), stack'[s][i].at \in HandAt
                   PROVE  stage'[stack'[s][i].object] =
                            IF stack'[s][i].at = "merge" THEN "merging" ELSE "asked"
      OBVIOUS
    <3>2. CASE s = t /\ i = Len(stack[t]) + 1 /\ stack'[s][i] = call
      BY <1>1, <1>3, <1>6, <3>2 DEF TypeOK
    <3>3. CASE /\ i \in 1..Len(stack[s])
               /\ stack'[s][i] = stack[s][i]
               /\ stack[s][i].object \in Object \ {x}
      BY <1>1, <1>3, <3>1, <3>3 DEF TypeOK, RuntimeInv, TicketsAgree
    <3>4. QED
      BY <2>2, <3>1, <3>2, <3>3
  <2>7. \A s, r \in Thread : \A i \in 1..Len(stack'[s]), j \in 1..Len(stack'[r]) :
          /\ stack'[s][i].at \in HandAt
          /\ stack'[r][j].at \in HandAt
          /\ stack'[s][i].object = stack'[r][j].object
          => s = r /\ i = j
    <3>1. SUFFICES ASSUME NEW s \in Thread, NEW r \in Thread,
                          NEW i \in 1..Len(stack'[s]), NEW j \in 1..Len(stack'[r]),
                          stack'[s][i].at \in HandAt, stack'[r][j].at \in HandAt,
                          stack'[s][i].object = stack'[r][j].object
                   PROVE  s = r /\ i = j
      OBVIOUS
    <3>2. CASE stack'[s][i].object = x
      <4>1. s = t /\ i = Len(stack[t]) + 1
        BY <2>2, <3>1, <3>2
      <4>2. r = t /\ j = Len(stack[t]) + 1
        <5>1. stack'[r][j].object = x
          BY <3>1, <3>2
        <5>2. QED
          BY <2>2, <3>1, <5>1
      <4>3. QED
        BY <4>1, <4>2
    <3>3. CASE stack'[s][i].object # x
      <4>1. /\ i \in 1..Len(stack[s]) /\ stack'[s][i] = stack[s][i]
            /\ j \in 1..Len(stack[r]) /\ stack'[r][j] = stack[r][j]
        BY <1>6, <2>2, <3>1, <3>3
      <4>2. QED
        BY <3>1, <4>1 DEF RuntimeInv, TicketsAgree
    <3>4. QED
      BY <3>2, <3>3
  <2>8. QED
    BY <2>4, <2>5, <2>6, <2>7 DEF TicketsAgree
<1>16. NothingStranded' /\ NoLostWakeup' /\ AssertionsHold'
  <2>1. \A s \in Thread : \A a \in CollectAt \cup {"drain", "set_flag"} :
          InCall(s, a) => InCall(s, a)'
    BY <1>1, <1>4, <1>7, EnteredCalls
  <2>2. CASE at = "pop"
    <3>1. InCall(Owner, "pop")'
      BY <1>4, <1>5, <2>1, <2>2
    <3>2. QED
      BY <1>3, <1>4, <1>12, <2>1, <3>1
         DEF RuntimeInv, NothingStranded, NoLostWakeup, QueuedIsFlagged, AssertionsHold, Running
  <2>3. CASE at = "drain"
    <3>1. status' # "Active"
      BY <1>3, <1>13, <2>3, ActiveAlive DEF owner
    <3>2. QED
      BY <1>3, <1>12, <2>1, <3>1
         DEF RuntimeInv, NothingStranded, NoLostWakeup, QueuedIsFlagged, AssertionsHold, Running
  <2>4. QED
    BY <2>2, <2>3
<1>17. QED
  BY <1>5, <1>8, <1>10, <1>11, <1>12, <1>13, <1>14, <1>15, <1>16 DEF RuntimeInv

-----------------------------------------------------------------------------
(* Where the owner is in its death, as its stack says it.                  *)
LEMMA DyingIs ==
    ASSUME stack \in [Thread -> Seq(Call)]
    PROVE  \A a \in DeathAt : Dying(a) <=> Len(stack[Owner]) # 0 /\ stack[Owner][1].at = a
BY RuntimeAssumption, Stacks DEF Dying

(* The same after a step.                                                  *)
LEMMA DyingIsNext ==
    ASSUME stack' \in [Thread -> Seq(Call)]
    PROVE  \A a \in DeathAt : Dying(a)' <=> Len(stack'[Owner]) # 0 /\ stack'[Owner][1].at = a
BY RuntimeAssumption, StacksNext DEF Dying

(* LocalThreadState::drop begins.                                          *)
LEMMA DieKeeps ==
    ASSUME RuntimeInv, Die
    PROVE  RuntimeInv' /\ QueueAlive' /\ QueueAlive
<1>1. /\ TypeOK /\ stack \in [Thread -> Seq(Call)] /\ StackAgrees /\ Owner \in Thread
      /\ MaxDepth \in Nat
  BY RuntimeAssumption DEF RuntimeInv, TypeOK
<1>2. /\ ~Busy(Owner) /\ status = "Active" /\ status' = "DeadOrDying"
      /\ Enter(Owner, NewCall("die_flag", NoObject))
      /\ UNCHANGED <<state_flag, handle, queue, stage, abandoned, fault>>
  BY DEF Die
<1>3. /\ {"check_dead", "merge", "drain", "die_flag"} \subseteq CallAt
      /\ "die_flag" \notin MergeAt \cup CollectAt \cup ArcAt \cup HandAt
      /\ {"die_flag", "die_queue", "die_dead"} = DeathAt
  BY DEF CallAt, DeathAt, HandAt, MergeAt, CollectAt, QueueObjectAt, ArcAt
<1>4. PICK call \in Call : /\ call = NewCall("die_flag", NoObject)
                           /\ call.at = "die_flag" /\ ~call.unwinds
  <2>1. NewCall("die_flag", NoObject) \in Call
    BY <1>3, Calls
  <2>2. QED
    BY <2>1 DEF NewCall
<1>5. Entered(Owner, call)
  BY <1>1, <1>2, <1>4, Entering
<1>6. Len(stack[Owner]) = 0 /\ Len(stack'[Owner]) = 1 /\ stack'[Owner][1] = call
  <2>1. Len(stack[Owner]) = 0
    BY <1>1, <1>2, Stacks
  <2>2. QED
    BY <1>5, <2>1 DEF Entered
<1>7. \A s \in Thread : \A i \in 1..Len(stack'[s]) :
        \/ s = Owner /\ i = 1 /\ stack'[s][i] = call
        \/ /\ s # Owner /\ i \in 1..Len(stack[s])
           /\ stack'[s][i] = stack[s][i] /\ Len(stack'[s]) = Len(stack[s])
  BY <1>5, <1>6 DEF Entered
<1>8. StackAgrees'
  <2>1. ASSUME NEW s \in Thread, NEW i \in 1..Len(stack'[s])
        PROVE  LET c == stack'[s][i] IN
               /\ i < Len(stack'[s]) => c.at \in {"destroy", "pop", "drain", "die_dead"}
               /\ c.at \in DeathAt => s = Owner /\ i = 1
               /\ c.at \notin MergeAt => i =< MaxDepth + 2
               /\ c.at \in HandAt => c.object \in Object
               /\ c.unwinds => c.at \in CollectAt \cup MergeAt
               /\ c.at \in CollectAt => s = Owner /\ status' = "Active"
    <3>1. CASE s = Owner /\ i = 1 /\ stack'[s][i] = call
      <4>1. Len(stack'[s]) = 1 /\ stack'[s][i].at = "die_flag" /\ ~stack'[s][i].unwinds
        BY <1>4, <1>6, <3>1
      <4>2. 1 =< MaxDepth + 2
        BY <1>1
      <4>3. QED
        BY <1>3, <3>1, <4>1, <4>2
    <3>2. CASE /\ s # Owner /\ i \in 1..Len(stack[s])
               /\ stack'[s][i] = stack[s][i] /\ Len(stack'[s]) = Len(stack[s])
      BY <1>1, <3>2 DEF StackAgrees
    <3>3. QED
      BY <1>7, <3>1, <3>2
  <2>2. QED
    BY <2>1 DEF StackAgrees
<1>9. \A s \in Thread : Len(stack'[s]) =< MaxDepth + 3
  <2>1. 1 =< MaxDepth + 3
    BY <1>1
  <2>2. \A s \in Thread \ {Owner} : Len(stack'[s]) =< MaxDepth + 3
    BY <1>1, <1>5 DEF TypeOK, Entered
  <2>3. QED
    BY <1>6, <2>1, <2>2
<1>10. TypeOK'
  BY <1>1, <1>2, <1>5, <1>9 DEF TypeOK, Entered
<1>11. OwnerAgrees'
  <2>1. Dying("die_flag")' /\ ~Dying("die_queue")' /\ ~Dying("die_dead")'
    <3>1. \A a \in DeathAt : Dying(a)' <=> a = "die_flag"
      BY <1>4, <1>5, <1>6, DyingIsNext DEF Entered
    <3>2. QED
      BY <1>3, <3>1 DEF Dying
  <2>2. handle /\ state_flag \in {"Live", "QueuedObjects"}
    BY <1>2 DEF RuntimeInv, OwnerAgrees
  <2>3. QED
    BY <1>2, <2>1, <2>2 DEF OwnerAgrees
<1>12. QueueAlive' /\ QueueAlive
  BY <1>2, ActiveAlive DEF QueueAlive
<1>13. ClosedAgrees'
  BY <1>1, <1>3, <1>4, <1>5, <1>12, EnteredCalls DEF RuntimeInv, ClosedAgrees
<1>14. TicketsAgree'
  BY <1>1, <1>2, <1>3, <1>4, <1>5, EnteredTickets DEF RuntimeInv
<1>15. NothingStranded' /\ NoLostWakeup' /\ AssertionsHold'
  BY <1>2, <1>12
     DEF RuntimeInv, NothingStranded, NoLostWakeup, QueuedIsFlagged, AssertionsHold, Running
<1>16. QED
  BY <1>8, <1>10, <1>11, <1>12, <1>13, <1>14, <1>15 DEF RuntimeInv

(* The first assertion of LocalThreadState::drop: the flag was alive.      *)
LEMMA DieFlagKeeps ==
    ASSUME RuntimeInv, DieFlag
    PROVE  /\ RuntimeInv' /\ (QueueAlive' <=> QueueAlive)
           /\ status # "Active" /\ status' # "Active"
<1>1. /\ TypeOK /\ stack \in [Thread -> Seq(Call)] /\ StackAgrees /\ Owner \in Thread
      /\ MaxDepth \in Nat
  BY RuntimeAssumption DEF RuntimeInv, TypeOK
<1>2. Busy(Owner) /\ Top(Owner).at = "die_flag" /\ UNCHANGED <<status, handle, queue, stage, abandoned>>
  BY DEF DieFlag, At
<1>3. /\ {"check_dead", "merge", "drain", "die_queue"} \subseteq CallAt
      /\ "die_flag" \notin MergeAt \cup CollectAt \cup ArcAt \cup HandAt
      /\ "die_queue" \notin MergeAt \cup CollectAt \cup ArcAt \cup HandAt
      /\ {"die_flag", "die_queue", "die_dead"} = DeathAt
  BY DEF CallAt, DeathAt, HandAt, MergeAt, CollectAt, QueueObjectAt, ArcAt
<1>4. /\ Len(stack[Owner]) = 1 /\ stack[Owner][1].at = "die_flag"
      /\ stack[Owner][Len(stack[Owner])].at = "die_flag"
      /\ ~stack[Owner][Len(stack[Owner])].unwinds
  BY <1>1, <1>2, <1>3, Innermost
<1>5. /\ Dying("die_flag") /\ status # "Active" /\ handle
      /\ state_flag \in {"Live", "QueuedObjects"}
  <2>1. Dying("die_flag")
    BY <1>2, <1>4 DEF Dying
  <2>2. QED
    BY <1>3, <2>1 DEF RuntimeInv, OwnerAgrees
<1>6. state_flag' = "Dying" /\ Goto(Owner, "die_queue") /\ UNCHANGED fault
  BY <1>5 DEF DieFlag
<1>7. Moved(Owner, "die_queue")
  BY <1>1, <1>2, <1>3, <1>6, Going
<1>8. StackAgrees' /\ \A s \in Thread : Len(stack'[s]) =< MaxDepth + 3
  <2>1. Len(stack[Owner]) =< MaxDepth + 2 /\ UNCHANGED status
    BY <1>1, <1>2, <1>4
  <2>2. QED
    BY <1>1, <1>3, <1>4, <1>7, <2>1, MovedStack
<1>9. TypeOK'
  BY <1>1, <1>2, <1>6, <1>7, <1>8 DEF TypeOK, Moved
<1>10. OwnerAgrees'
  <2>1. stack'[Owner][1].at = "die_queue" /\ Len(stack'[Owner]) = 1
    BY <1>4, <1>7 DEF Moved
  <2>2. \A a \in DeathAt : Dying(a)' <=> a = "die_queue"
    BY <1>7, <2>1, DyingIsNext DEF Moved
  <2>3. Dying("die_queue")' /\ ~Dying("die_flag")' /\ ~Dying("die_dead")'
    BY <1>3, <2>2 DEF Dying
  <2>4. QED
    BY <1>2, <1>5, <1>6, <2>3 DEF OwnerAgrees
<1>11. QueueAlive' <=> QueueAlive
  BY <1>1, <1>2, <1>3, <1>4, <1>7, <1>9, MovedAlive
<1>12. ClosedAgrees'
  BY <1>1, <1>3, <1>7, <1>11, MovedCalls DEF RuntimeInv, ClosedAgrees
<1>13. TicketsAgree'
  BY <1>1, <1>2, <1>3, <1>4, <1>7, MovedTickets DEF RuntimeInv
<1>14. NothingStranded' /\ NoLostWakeup' /\ AssertionsHold'
  <2>1. QueueAlive'
    BY <1>5, <1>11 DEF QueueAlive
  <2>2. QED
    BY <1>2, <1>5, <1>6, <2>1
       DEF RuntimeInv, NothingStranded, NoLostWakeup, QueuedIsFlagged, AssertionsHold, Running
<1>15. QED
  BY <1>2, <1>5, <1>8, <1>9, <1>10, <1>11, <1>12, <1>13, <1>14 DEF RuntimeInv

(* The second assertion: the flag is still "Dying" when the queue is gone. *)
LEMMA DieDeadKeeps ==
    ASSUME RuntimeInv, DieDead
    PROVE  RuntimeInv' /\ (QueueAlive' <=> QueueAlive)
<1>1. /\ TypeOK /\ stack \in [Thread -> Seq(Call)] /\ StackAgrees /\ Owner \in Thread
      /\ MaxDepth \in Nat
  BY RuntimeAssumption DEF RuntimeInv, TypeOK
<1>2. Busy(Owner) /\ Top(Owner).at = "die_dead" /\ UNCHANGED <<status, handle, queue, stage, abandoned>>
  BY DEF DieDead, At
<1>3. /\ {"check_dead", "merge", "drain"} \subseteq CallAt
      /\ "die_dead" \notin MergeAt \cup CollectAt \cup ArcAt \cup HandAt \cup {"drain"}
      /\ {"die_flag", "die_queue", "die_dead"} = DeathAt
  BY DEF CallAt, DeathAt, HandAt, MergeAt, CollectAt, QueueObjectAt, ArcAt
<1>4. /\ Len(stack[Owner]) = 1 /\ stack[Owner][1].at = "die_dead"
      /\ stack[Owner][Len(stack[Owner])].at = "die_dead"
  BY <1>1, <1>2, <1>3, Innermost
<1>5. status # "Active" /\ ~handle /\ state_flag = "Dying"
  <2>1. Dying("die_dead") /\ ~Dying("die_flag") /\ ~Dying("die_queue")
    BY <1>2, <1>4 DEF Dying
  <2>2. QED
    BY <1>3, <2>1 DEF RuntimeInv, OwnerAgrees
<1>6. state_flag' = "Dead" /\ Return(Owner) /\ UNCHANGED fault
  BY <1>5 DEF DieDead
<1>7. Returned(Owner)
  BY <1>1, <1>2, <1>6, Returning
<1>8. StackAgrees' /\ \A s \in Thread : Len(stack'[s]) =< MaxDepth + 3
  BY <1>1, <1>2, <1>7, ReturnedStack
<1>9. TypeOK'
  BY <1>1, <1>2, <1>6, <1>7, <1>8 DEF TypeOK, Returned
<1>10. OwnerAgrees'
  <2>1. Len(stack'[Owner]) = 0
    BY <1>4, <1>7 DEF Returned
  <2>2. \A a \in DeathAt : ~Dying(a)'
    BY <1>7, <2>1, DyingIsNext DEF Returned
  <2>3. ~Dying("die_queue")' /\ ~Dying("die_flag")' /\ ~Dying("die_dead")'
    BY <1>3, <2>2 DEF Dying
  <2>4. QED
    BY <1>2, <1>5, <1>6, <2>3 DEF OwnerAgrees
<1>11. QueueAlive' <=> QueueAlive
  BY <1>1, <1>2, <1>3, <1>4, <1>7, <1>9, ReturnedAlive
<1>12. ClosedAgrees'
  BY <1>1, <1>3, <1>7, <1>11, ReturnedCalls DEF RuntimeInv, ClosedAgrees
<1>13. TicketsAgree'
  BY <1>1, <1>2, <1>7, ReturnedTickets DEF RuntimeInv
<1>14. NothingStranded' /\ NoLostWakeup' /\ AssertionsHold'
  <2>1. \A s \in Thread : InCall(s, "drain") => InCall(s, "drain")'
    BY <1>1, <1>3, <1>4, <1>7, ReturnedCalls
  <2>2. QED
    BY <1>2, <1>5, <1>6, <1>11, <2>1
       DEF RuntimeInv, NothingStranded, NoLostWakeup, QueuedIsFlagged, AssertionsHold, Running
<1>15. QED
  BY <1>8, <1>9, <1>10, <1>11, <1>12, <1>13, <1>14 DEF RuntimeInv

(* A stack of one call or of two.                                          *)
LEMMA Stacked ==
    ASSUME NEW S, NEW a \in S, NEW b \in S
    PROVE  <<a>> \o <<b>> = <<a, b>> /\ <<a>> \o <<>> = <<a>>
<1>1. /\ <<a>> \in Seq(S) /\ <<b>> \in Seq(S) /\ <<a, b>> \in Seq(S)
      /\ Len(<<a>>) = 1 /\ Len(<<b>>) = 1 /\ Len(<<a, b>>) = 2
      /\ <<a>>[1] = a /\ <<b>>[1] = b /\ <<a, b>>[1] = a /\ <<a, b>>[2] = b
  OBVIOUS
<1>2. /\ <<a>> \o <<b>> \in Seq(S)
      /\ Len(<<a>> \o <<b>>) = 2
      /\ \A i \in 1..2 : (<<a>> \o <<b>>)[i] = IF i <= 1 THEN <<a>>[i] ELSE <<b>>[i - 1]
  BY <1>1, ConcatProperties
<1>3. (<<a>> \o <<b>>)[1] = a /\ (<<a>> \o <<b>>)[2] = b
  BY <1>1, <1>2
<1>4. \A i \in 1..Len(<<a>> \o <<b>>) : (<<a>> \o <<b>>)[i] = <<a, b>>[i]
  BY <1>1, <1>2, <1>3
<1>5. <<a>> \o <<b>> = <<a, b>>
  BY <1>1, <1>2, <1>4, SeqEqual
<1>6. QED
  BY <1>1, <1>5, ConcatEmptySeq

(* The owner's Arc goes: the owner drains the queue, unless somebody has   *)
(* upgraded meanwhile and keeps it alive.                                  *)
LEMMA DieQueueKeeps ==
    ASSUME RuntimeInv, DieQueue
    PROVE  RuntimeInv' /\ QueueAlive /\ status # "Active" /\ status' # "Active"
<1>1. /\ TypeOK /\ stack \in [Thread -> Seq(Call)] /\ StackAgrees /\ Owner \in Thread
      /\ MaxDepth \in Nat
  BY RuntimeAssumption DEF RuntimeInv, TypeOK
<1>2. /\ Busy(Owner) /\ Top(Owner).at = "die_queue" /\ handle' = FALSE
      /\ UNCHANGED <<status, state_flag, queue, stage, abandoned, fault>>
  BY DEF DieQueue, At
<1>3. /\ {"check_dead", "merge", "drain", "die_dead"} \subseteq CallAt
      /\ "die_dead" \notin MergeAt \cup CollectAt \cup ArcAt \cup HandAt
      /\ "drain" \notin MergeAt \cup CollectAt \cup ArcAt \cup HandAt \cup DeathAt
      /\ "die_queue" \notin MergeAt \cup CollectAt \cup ArcAt \cup HandAt
      /\ {"die_flag", "die_queue", "die_dead"} = DeathAt
  BY DEF CallAt, DeathAt, HandAt, MergeAt, CollectAt, QueueObjectAt, ArcAt
<1>4. Len(stack[Owner]) = 1 /\ stack[Owner][1].at = "die_queue"
  BY <1>1, <1>2, <1>3, Innermost
<1>5. status # "Active" /\ handle /\ state_flag = "Dying" /\ QueueAlive
  <2>1. Dying("die_queue")
    BY <1>2, <1>4 DEF Dying
  <2>2. QED
    BY <1>3, <2>1 DEF RuntimeInv, OwnerAgrees, QueueAlive
<1> DEFINE dead == NewCall("die_dead", NoObject)
           drain == NewCall("drain", NoObject)
<1>6. /\ dead \in Call /\ dead.at = "die_dead" /\ ~dead.unwinds
      /\ drain \in Call /\ drain.at = "drain" /\ ~drain.unwinds
  <2>1. dead \in Call /\ drain \in Call
    BY <1>3, Calls
  <2>2. QED
    BY <2>1 DEF NewCall
<1>7. /\ stack' \in [Thread -> Seq(Call)]
      /\ \A s \in Thread \ {Owner} : stack'[s] = stack[s]
      /\ stack'[Owner] = IF ArcCalls = {} THEN <<dead, drain>> ELSE <<dead>>
  <2>1. <<dead>> \o <<drain>> = <<dead, drain>> /\ <<dead>> \o <<>> = <<dead>>
    BY <1>6, Stacked
  <2>2. stack' = [stack EXCEPT ![Owner] = IF ArcCalls = {} THEN <<dead, drain>> ELSE <<dead>>]
    BY <2>1 DEF DieQueue
  <2>3. <<dead, drain>> \in Seq(Call) /\ <<dead>> \in Seq(Call)
    BY <1>6
  <2>4. QED
    BY <1>1, <2>2, <2>3
<1>8. /\ stack'[Owner][1] = dead
      /\ Len(stack'[Owner]) = IF ArcCalls = {} THEN 2 ELSE 1
      /\ ArcCalls = {} => stack'[Owner][2] = drain
  BY <1>7
<1> HIDE DEF dead, drain
<1>9. \A s \in Thread : \A i \in 1..Len(stack'[s]) :
        \/ s = Owner /\ i = 1 /\ stack'[s][i] = dead
        \/ s = Owner /\ i = 2 /\ Len(stack'[s]) = 2 /\ ArcCalls = {} /\ stack'[s][i] = drain
        \/ /\ s # Owner /\ i \in 1..Len(stack[s])
           /\ stack'[s][i] = stack[s][i] /\ Len(stack'[s]) = Len(stack[s])
  <2>1. ASSUME NEW i \in 1..Len(stack'[Owner])
        PROVE  \/ i = 1 /\ stack'[Owner][i] = dead
               \/ i = 2 /\ Len(stack'[Owner]) = 2 /\ ArcCalls = {} /\ stack'[Owner][i] = drain
    BY <1>8
  <2>2. ASSUME NEW s \in Thread \ {Owner}, NEW i \in 1..Len(stack'[s])
        PROVE  i \in 1..Len(stack[s]) /\ stack'[s][i] = stack[s][i] /\ Len(stack'[s]) = Len(stack[s])
    BY <1>7
  <2>3. QED
    BY <2>1, <2>2
<1>10. StackAgrees'
  <2>1. ASSUME NEW s \in Thread, NEW i \in 1..Len(stack'[s])
        PROVE  LET c == stack'[s][i] IN
               /\ i < Len(stack'[s]) => c.at \in {"destroy", "pop", "drain", "die_dead"}
               /\ c.at \in DeathAt => s = Owner /\ i = 1
               /\ c.at \notin MergeAt => i =< MaxDepth + 2
               /\ c.at \in HandAt => c.object \in Object
               /\ c.unwinds => c.at \in CollectAt \cup MergeAt
               /\ c.at \in CollectAt => s = Owner /\ status' = "Active"
    <3>1. CASE s = Owner /\ i = 1 /\ stack'[s][i] = dead
      <4>1. stack'[s][i].at = "die_dead" /\ ~stack'[s][i].unwinds /\ 1 =< MaxDepth + 2
        BY <1>1, <1>6, <3>1
      <4>2. QED
        BY <1>3, <3>1, <4>1
    <3>2. CASE s = Owner /\ i = 2 /\ Len(stack'[s]) = 2 /\ ArcCalls = {} /\ stack'[s][i] = drain
      <4>1. stack'[s][i].at = "drain" /\ ~stack'[s][i].unwinds /\ 2 =< MaxDepth + 2
        BY <1>1, <1>6, <3>2
      <4>2. QED
        BY <1>3, <3>2, <4>1
    <3>3. CASE /\ s # Owner /\ i \in 1..Len(stack[s])
               /\ stack'[s][i] = stack[s][i] /\ Len(stack'[s]) = Len(stack[s])
      BY <1>1, <1>2, <3>3 DEF StackAgrees
    <3>4. QED
      BY <1>9, <3>1, <3>2, <3>3
  <2>2. QED
    BY <2>1 DEF StackAgrees
<1>11. \A s \in Thread : Len(stack'[s]) =< MaxDepth + 3
  <2>1. 1 =< MaxDepth + 3 /\ 2 =< MaxDepth + 3
    BY <1>1
  <2>2. \A s \in Thread \ {Owner} : Len(stack'[s]) =< MaxDepth + 3
    BY <1>1, <1>7 DEF TypeOK
  <2>3. QED
    BY <1>8, <2>1, <2>2
<1>12. TypeOK'
  BY <1>1, <1>2, <1>7, <1>11 DEF TypeOK
<1>13. OwnerAgrees'
  <2>1. \A a \in DeathAt : Dying(a)' <=> a = "die_dead"
    BY <1>6, <1>7, <1>8, DyingIsNext
  <2>2. Dying("die_dead")' /\ ~Dying("die_flag")' /\ ~Dying("die_queue")'
    BY <1>3, <2>1 DEF Dying
  <2>3. QED
    BY <1>2, <1>5, <2>2 DEF OwnerAgrees
<1>14. QueueAlive' <=> ArcCalls # {}
  <2>1. ASSUME NEW s \in Thread, NEW i \in 1..Len(stack'[s]), stack'[s][i].at \in ArcAt
        PROVE  ArcCalls # {}
    <3>1. s # Owner /\ i \in 1..Len(stack[s]) /\ stack[s][i].at \in ArcAt
      BY <1>3, <1>6, <1>9, <2>1
    <3>2. i \in 1..(MaxDepth + 3) /\ i =< Len(stack[s]) /\ HoldsArc(stack[s][i])
      BY <1>1, <3>1, Stacks DEF TypeOK, HoldsArc, ArcAt
    <3>3. <<s, i>> \in ArcCalls
      BY <3>2 DEF ArcCalls
    <3>4. QED
      BY <3>3
  <2>2. ASSUME ArcCalls # {}
        PROVE  \E s \in Thread : \E i \in 1..Len(stack'[s]) : stack'[s][i].at \in ArcAt
    <3>1. PICK c \in ArcCalls : TRUE
      BY <2>2
    <3>2. /\ c[1] \in Thread /\ c[2] \in 1..Len(stack[c[1]])
          /\ stack[c[1]][c[2]].at \in ArcAt
      BY <1>1, <3>1, Stacks DEF ArcCalls, HoldsArc, ArcAt
    <3>3. c[1] # Owner
      BY <1>3, <1>4, <3>2
    <3>4. QED
      BY <1>7, <3>2, <3>3
  <2>3. QED
    BY <1>2, <1>12, <2>1, <2>2, ArcsNext
<1>15. ClosedAgrees'
  <2>1. ASSUME NEW s \in Thread, QueueAlive'
        PROVE  ~(InCall(s, "drain")' \/ InCall(s, "check_dead")' \/ (s # Owner /\ InCall(s, "merge")'))
    <3>1. ArcCalls # {}
      BY <1>14, <2>1
    <3>2. CASE s = Owner
      BY <1>3, <1>6, <1>9, <3>1, <3>2 DEF InCall
    <3>3. CASE s # Owner
      <4>1. ~InCall(s, "drain") /\ ~InCall(s, "check_dead") /\ ~InCall(s, "merge")
        BY <1>5, <3>3 DEF RuntimeInv, ClosedAgrees
      <4>2. QED
        BY <1>7, <3>3, <4>1 DEF InCall
    <3>4. QED
      BY <3>2, <3>3
  <2>2. QED
    BY <2>1 DEF ClosedAgrees
<1>16. TicketsAgree'
  <2>1. ASSUME NEW s \in Thread, NEW i \in 1..Len(stack'[s]), stack'[s][i].at \in HandAt
        PROVE  i \in 1..Len(stack[s]) /\ stack'[s][i] = stack[s][i]
    BY <1>3, <1>6, <1>9, <2>1
  <2>2. \A s, r \in Thread : \A i \in 1..Len(stack'[s]), j \in 1..Len(stack'[r]) :
          /\ stack'[s][i].at \in HandAt
          /\ stack'[r][j].at \in HandAt
          /\ stack'[s][i].object = stack'[r][j].object
          => s = r /\ i = j
    <3>1. SUFFICES ASSUME NEW s \in Thread, NEW r \in Thread,
                          NEW i \in 1..Len(stack'[s]), NEW j \in 1..Len(stack'[r]),
                          stack'[s][i].at \in HandAt, stack'[r][j].at \in HandAt,
                          stack'[s][i].object = stack'[r][j].object
                   PROVE  s = r /\ i = j
      OBVIOUS
    <3>2. /\ i \in 1..Len(stack[s]) /\ stack'[s][i] = stack[s][i]
          /\ j \in 1..Len(stack[r]) /\ stack'[r][j] = stack[r][j]
      BY <2>1, <3>1
    <3>3. QED
      BY <3>1, <3>2 DEF RuntimeInv, TicketsAgree
  <2>3. \A s \in Thread : \A i \in 1..Len(stack'[s]) : stack'[s][i].at \in HandAt =>
          stage'[stack'[s][i].object] =
            IF stack'[s][i].at = "merge" THEN "merging" ELSE "asked"
    BY <1>2, <2>1 DEF RuntimeInv, TicketsAgree
  <2>4. QED
    BY <1>2, <2>2, <2>3 DEF RuntimeInv, TicketsAgree
<1>17. NothingStranded' /\ NoLostWakeup' /\ AssertionsHold'
  <2>1. CASE ArcCalls = {}
    <3>1. InCall(Owner, "drain")'
      BY <1>6, <1>8, <2>1 DEF InCall
    <3>2. QED
      BY <1>1, <1>2, <1>5, <3>1
         DEF RuntimeInv, NothingStranded, NoLostWakeup, QueuedIsFlagged, AssertionsHold, Running
  <2>2. CASE ArcCalls # {}
    BY <1>2, <1>5, <1>14, <2>2
       DEF RuntimeInv, NothingStranded, NoLostWakeup, QueuedIsFlagged, AssertionsHold, Running
  <2>3. QED
    BY <2>1, <2>2
<1>18. QED
  BY <1>2, <1>5, <1>10, <1>12, <1>13, <1>15, <1>16, <1>17 DEF RuntimeInv

-----------------------------------------------------------------------------
(* The owner lives, and nothing is queued, called or asked for yet.        *)
LEMMA RuntimeInit ==
    ASSUME Init
    PROVE  RuntimeInv
<1>1. /\ status = "Active" /\ state_flag = "Live" /\ queue = <<>> /\ handle = TRUE
      /\ stage = [x \in Object |-> "biased"]
      /\ stack = [t \in Thread |-> <<>>]
      /\ abandoned = {} /\ fault = "none"
  BY DEF Init
<1>2. \A t \in Thread : stack[t] = <<>> /\ Len(stack[t]) = 0 /\ ~Busy(t)
  BY <1>1 DEF Busy
<1>3. TypeOK
  <2>1. stack \in [Thread -> Seq(Call)] /\ queue \in Seq(Object)
    BY <1>1
  <2>2. \A t \in Thread : Len(stack[t]) =< MaxDepth + 3
    BY <1>2, RuntimeAssumption
  <2>3. QED
    BY <1>1, <2>1, <2>2 DEF TypeOK
<1>4. StackAgrees /\ TicketsAgree
  BY <1>1, <1>2 DEF StackAgrees, TicketsAgree
<1>5. OwnerAgrees
  BY <1>1, <1>2, RuntimeAssumption DEF OwnerAgrees, Dying
<1>6. ClosedAgrees /\ NothingStranded /\ NoLostWakeup /\ AssertionsHold
  BY <1>1, <1>2
     DEF ClosedAgrees, InCall, NothingStranded, NoLostWakeup, QueuedIsFlagged, AssertionsHold, Running
<1>7. QED
  BY <1>3, <1>4, <1>5, <1>6 DEF RuntimeInv

(* Nothing changes, and neither does whether the queue lives.              *)
LEMMA Stutters ==
    ASSUME RuntimeInv, UNCHANGED vars
    PROVE  RuntimeInv' /\ (QueueAlive' <=> QueueAlive)
<1>1. UNCHANGED <<status, state_flag, handle, queue, stage, stack, abandoned, fault>>
  BY DEF vars, owner
<1>2. TypeOK' /\ StackAgrees' /\ TicketsAgree'
  BY <1>1 DEF RuntimeInv, TypeOK, StackAgrees, TicketsAgree
<1>3. OwnerAgrees'
  BY <1>1 DEF RuntimeInv, OwnerAgrees, Dying, Busy
<1>4. QueueAlive' <=> QueueAlive
  BY <1>1 DEF QueueAlive, ArcCalls, HoldsArc
<1>5. ClosedAgrees' /\ NothingStranded'
  BY <1>1, <1>4 DEF RuntimeInv, ClosedAgrees, InCall, NothingStranded
<1>6. NoLostWakeup' /\ AssertionsHold'
  BY <1>1
     DEF RuntimeInv, NoLostWakeup, QueuedIsFlagged, InCall, AssertionsHold, Running
<1>7. QED
  BY <1>2, <1>3, <1>4, <1>5, <1>6 DEF RuntimeInv

(* Every step keeps the invariant.                                         *)
LEMMA RuntimeStep ==
    ASSUME RuntimeInv, [Next]_vars
    PROVE  RuntimeInv'
<1>1. ASSUME NEW t \in Thread, NEW x \in Object, QueueObject(t, x)
      PROVE  RuntimeInv'
  BY <1>1, QueueObjectKeeps
<1>2. ASSUME NEW t \in Thread, Continue(t)
      PROVE  RuntimeInv'
  <2>1. CASE Upgrade(t)
    BY <2>1, UpgradeKeeps
  <2>2. CASE Push(t)
    BY <2>2, PushKeeps
  <2>3. CASE SetFlag(t)
    BY <2>3, SetFlagKeeps
  <2>4. CASE Release(t)
    BY <2>4, ReleaseKeeps
  <2>5. CASE CheckDead(t)
    BY <2>5, CheckDeadKeeps
  <2>6. CASE Merge(t)
    BY <2>6, MergeKeeps
  <2>7. CASE DestructorReturns(t)
    BY <2>7, DestructorReturnsKeeps
  <2>8. CASE Pop(t, "pop") \/ Pop(t, "drain")
    BY <2>8, PopKeeps
  <2>9. CASE Drained(t)
    BY <2>9, DrainedKeeps
  <2>10. QED
    BY <1>2, <2>1, <2>2, <2>3, <2>4, <2>5, <2>6, <2>7, <2>8, <2>9 DEF Continue
<1>3. ASSUME NEW t \in Thread, DestructorPanics(t)
      PROVE  RuntimeInv'
  BY <1>3, DestructorPanicsKeeps
<1>4. CASE ContinueOwner
  BY <1>4, EmptiedKeeps, ClearFlagKeeps, RecheckKeeps, DieFlagKeeps, DieQueueKeeps, DieDeadKeeps
     DEF ContinueOwner
<1>5. ASSUME NEW u \in BOOLEAN, Collect(u)
      PROVE  RuntimeInv'
  BY <1>5, CollectingKeeps DEF Collect
<1>6. CASE CollectForce
  BY <1>6, CollectingKeeps DEF CollectForce
<1>7. CASE Die
  BY <1>7, DieKeeps
<1>8. CASE UNCHANGED vars
  BY <1>8, Stutters
<1>9. QED
  BY <1>1, <1>2, <1>3, <1>4, <1>5, <1>6, <1>7, <1>8 DEF Next

(* The runtime keeps its inductive invariant.                              *)
THEOREM Invariance == Spec => []RuntimeInv
<1>1. Init => RuntimeInv
  BY RuntimeInit
<1>2. RuntimeInv /\ [Next]_vars => RuntimeInv'
  BY RuntimeStep
<1>3. QED
  BY <1>1, <1>2, PTL DEF Spec

(* The variables keep their types, and no stack outgrows the deepest one   *)
(* from which a destructor calls by more than three calls: the collections *)
(* loop, and do not call themselves.                                       *)
THEOREM TypeCorrect == Spec => []TypeOK
<1>1. RuntimeInv => TypeOK
  BY DEF RuntimeInv
<1>2. QED
  BY <1>1, Invariance, PTL

(* Neither the assertion of queue_object, that an owner without a queue is *)
(* dying or dead, nor those of LocalThreadState::drop ever fail.           *)
THEOREM AssertionsCorrect == Spec => []AssertionsHold
<1>1. RuntimeInv => AssertionsHold
  BY DEF RuntimeInv
<1>2. QED
  BY <1>1, Invariance, PTL

(* Nobody but a live owner merges its objects, and nobody drains a queue   *)
(* that somebody still holds.                                              *)
THEOREM MergedAlone == Spec => []OwnerMergesAlone
<1>1. RuntimeInv => OwnerMergesAlone
  <2>1. ASSUME RuntimeInv PROVE OwnerMergesAlone
    <3>1. status = "Active" => QueueAlive
      BY <2>1, ActiveAlive
    <3>2. QED
      BY <2>1, <3>1 DEF RuntimeInv, ClosedAgrees, OwnerMergesAlone
  <2>2. QED
    BY <2>1
<1>2. QED
  BY <1>1, Invariance, PTL

(* No object stays behind in the queue of a dead owner.                    *)
THEOREM Unstranded == Spec => []NothingStranded
<1>1. RuntimeInv => NothingStranded
  BY DEF RuntimeInv
<1>2. QED
  BY <1>1, Invariance, PTL

(* No interleaving of queue_object with a collection leaves an object in   *)
(* the queue behind a flag that says there is none.                        *)
THEOREM WakeupsKept == Spec => []NoLostWakeup
<1>1. RuntimeInv => NoLostWakeup
  BY DEF RuntimeInv
<1>2. QED
  BY <1>1, Invariance, PTL

-----------------------------------------------------------------------------
(* What a thread has in its hands: the objects of its calls that do.       *)
LEMMA HandIs ==
    \A t \in Thread : \A x :
      x \in Hand(t) <=>
        \E i \in 1..Len(stack[t]) : stack[t][i].at \in HandAt /\ stack[t][i].object = x
BY DEF Hand

(* The same after a step.                                                  *)
LEMMA HandIsNext ==
    \A t \in Thread : \A x :
      x \in Hand(t)' <=>
        \E i \in 1..Len(stack'[t]) : stack'[t][i].at \in HandAt /\ stack'[t][i].object = x
BY DEF Hand

(* A call that returns puts its object down,                               *)
LEMMA ReturnedHand ==
    ASSUME RuntimeInv, NEW t \in Thread, Returned(t)
    PROVE  /\ \A s \in Thread \ {t} : Hand(s)' = Hand(s)
           /\ stack[t][Len(stack[t])].at \notin HandAt => Hand(t)' = Hand(t)
           /\ stack[t][Len(stack[t])].at \in HandAt =>
                Hand(t)' = Hand(t) \ {stack[t][Len(stack[t])].object}
<1>1. \A s \in Thread \ {t} : stack'[s] = stack[s]
  BY DEF Returned
<1>2. \A s \in Thread \ {t} : Hand(s)' = Hand(s)
  BY <1>1 DEF Hand
<1>3. Len(stack[t]) \in 1..Len(stack[t])
  BY DEF Returned
<1>4. ASSUME NEW x
      PROVE  x \in Hand(t)' <=>
               \E i \in 1..(Len(stack[t]) - 1) : stack[t][i].at \in HandAt /\ stack[t][i].object = x
  <2>1. /\ 1..Len(stack'[t]) = 1..(Len(stack[t]) - 1)
        /\ \A i \in 1..(Len(stack[t]) - 1) : stack'[t][i] = stack[t][i]
    BY DEF Returned
  <2>2. QED
    BY <2>1, HandIsNext
<1>5. ASSUME NEW x
      PROVE  x \in Hand(t) <=>
               \/ \E i \in 1..(Len(stack[t]) - 1) : stack[t][i].at \in HandAt /\ stack[t][i].object = x
               \/ /\ stack[t][Len(stack[t])].at \in HandAt
                  /\ stack[t][Len(stack[t])].object = x
  BY <1>3, HandIs
<1>6. ASSUME stack[t][Len(stack[t])].at \notin HandAt PROVE Hand(t)' = Hand(t)
  BY <1>4, <1>5, <1>6
<1>7. ASSUME stack[t][Len(stack[t])].at \in HandAt
      PROVE  Hand(t)' = Hand(t) \ {stack[t][Len(stack[t])].object}
  <2>1. \A i \in 1..(Len(stack[t]) - 1) :
          stack[t][i].at \in HandAt => stack[t][i].object # stack[t][Len(stack[t])].object
    BY <1>3, <1>7 DEF RuntimeInv, TicketsAgree
  <2>2. QED
    BY <1>4, <1>5, <2>1
<1>8. QED
  BY <1>2, <1>6, <1>7

(* one that goes on keeps it or puts it down,                              *)
LEMMA MovedHand ==
    ASSUME RuntimeInv, NEW t \in Thread, NEW at \in CallAt, Moved(t, at),
           at \in HandAt => stack[t][Len(stack[t])].at \in HandAt
    PROVE  /\ \A s \in Thread \ {t} : Hand(s)' = Hand(s)
           /\ (stack[t][Len(stack[t])].at \in HandAt <=> at \in HandAt) => Hand(t)' = Hand(t)
           /\ stack[t][Len(stack[t])].at \in HandAt /\ at \notin HandAt =>
                Hand(t)' = Hand(t) \ {stack[t][Len(stack[t])].object}
<1>1. \A s \in Thread \ {t} : stack'[s] = stack[s]
  BY DEF Moved
<1>2. \A s \in Thread \ {t} : Hand(s)' = Hand(s)
  BY <1>1 DEF Hand
<1>3. Len(stack[t]) \in 1..Len(stack[t])
  BY DEF Moved
<1>4. ASSUME NEW x
      PROVE  x \in Hand(t)' <=>
               \/ \E i \in 1..(Len(stack[t]) - 1) : stack[t][i].at \in HandAt /\ stack[t][i].object = x
               \/ at \in HandAt /\ stack[t][Len(stack[t])].object = x
  <2>1. \A i \in 1..Len(stack[t]) : i \in 1..(Len(stack[t]) - 1) \/ i = Len(stack[t])
    BY <1>3
  <2>2. QED
    BY <1>3, <2>1, HandIsNext DEF Moved
<1>5. ASSUME NEW x
      PROVE  x \in Hand(t) <=>
               \/ \E i \in 1..(Len(stack[t]) - 1) : stack[t][i].at \in HandAt /\ stack[t][i].object = x
               \/ /\ stack[t][Len(stack[t])].at \in HandAt
                  /\ stack[t][Len(stack[t])].object = x
  BY <1>3, HandIs
<1>6. ASSUME stack[t][Len(stack[t])].at \in HandAt <=> at \in HandAt PROVE Hand(t)' = Hand(t)
  BY <1>4, <1>5, <1>6
<1>7. ASSUME stack[t][Len(stack[t])].at \in HandAt, at \notin HandAt
      PROVE  Hand(t)' = Hand(t) \ {stack[t][Len(stack[t])].object}
  <2>1. \A i \in 1..(Len(stack[t]) - 1) :
          stack[t][i].at \in HandAt => stack[t][i].object # stack[t][Len(stack[t])].object
    BY <1>3, <1>7 DEF RuntimeInv, TicketsAgree
  <2>2. QED
    BY <1>4, <1>5, <1>7, <2>1
<1>8. QED
  BY <1>2, <1>6, <1>7

(* and one that is entered takes it up.                                    *)
LEMMA EnteredHand ==
    ASSUME NEW t \in Thread, NEW call \in Call, Entered(t, call)
    PROVE  /\ \A s \in Thread \ {t} : Hand(s)' = Hand(s)
           /\ call.at \notin HandAt => Hand(t)' = Hand(t)
           /\ call.at \in HandAt => Hand(t)' = Hand(t) \cup {call.object}
<1>1. \A s \in Thread \ {t} : stack'[s] = stack[s]
  BY DEF Entered
<1>2. \A s \in Thread \ {t} : Hand(s)' = Hand(s)
  BY <1>1 DEF Hand
<1>3. ASSUME NEW x
      PROVE  x \in Hand(t)' <=>
               \/ \E i \in 1..Len(stack[t]) : stack[t][i].at \in HandAt /\ stack[t][i].object = x
               \/ call.at \in HandAt /\ call.object = x
  <2>1. \A i \in 1..(Len(stack[t]) + 1) : i \in 1..Len(stack[t]) \/ i = Len(stack[t]) + 1
    BY DEF Entered
  <2>2. Len(stack[t]) + 1 \in 1..Len(stack'[t])
    BY DEF Entered
  <2>3. QED
    BY <2>1, <2>2, HandIsNext DEF Entered
<1>4. QED
  BY <1>2, <1>3, HandIs

(* Nobody's hands change, nor the owner's state: the abstract queue        *)
(* stutters.                                                               *)
LEMMA TicketsStay ==
    ASSUME UNCHANGED <<status, stage>>, QueueAlive' <=> QueueAlive,
           \A s \in Thread : Hand(s)' = Hand(s)
    PROVE  UNCHANGED Tickets!vars
<1>1. OwnerState' = OwnerState
  BY DEF OwnerState
<1>2. [s \in Thread |-> Hand(s)]' = [s \in Thread |-> Hand(s)]
  OBVIOUS
<1>3. QED
  BY <1>1, <1>2 DEF Tickets!vars

(* A thread takes an object up or puts it down, of the abstract queue too. *)
LEMMA TicketsMove ==
    ASSUME NEW t \in Thread, NEW x, \A s \in Thread \ {t} : Hand(s)' = Hand(s)
    PROVE  /\ Hand(t)' = Hand(t) \cup {x} => Tickets!TakeUp(t, x)
           /\ Hand(t)' = Hand(t) \ {x} => Tickets!PutDown(t, x)
           /\ Hand(t)' = Hand(t) =>
                [s \in Thread |-> Hand(s)]' = [s \in Thread |-> Hand(s)]
BY DEF Tickets!TakeUp, Tickets!PutDown

(* queue_object asks for the merge.                                        *)
LEMMA QueueObjectAsks ==
    ASSUME RuntimeInv, NEW t \in Thread, NEW x \in Object, QueueObject(t, x)
    PROVE  Tickets!Ask(t, x)
<1>1. stack \in [Thread -> Seq(Call)] /\ TypeOK
  BY DEF RuntimeInv, TypeOK
<1>2. PICK call \in Call : /\ call = NewCall("upgrade", x)
                           /\ call.at \in HandAt /\ call.object = x
  <2>1. NewCall("upgrade", x) \in Call
    BY Calls DEF CallAt, QueueObjectAt
  <2>2. QED
    BY <2>1 DEF NewCall, HandAt
<1>3. Entered(t, call)
  BY <1>1, <1>2, Entering DEF QueueObject
<1>4. Tickets!TakeUp(t, x)
  BY <1>2, <1>3, EnteredHand, TicketsMove
<1>5. /\ stage[x] = "biased" /\ stage' = [stage EXCEPT ![x] = "asked"]
      /\ UNCHANGED status /\ (t = Owner => status # "Active")
  BY DEF QueueObject, Advance, owner
<1>6. UNCHANGED OwnerState
  BY <1>5, QueueObjectKeeps DEF OwnerState
<1>7. t = Owner => OwnerState # "active"
  BY <1>5 DEF OwnerState
<1>8. QED
  BY <1>4, <1>5, <1>6, <1>7 DEF Tickets!Ask, Tickets!Advance

(* The object is pushed: it is in the queue.                               *)
LEMMA PushEnqueues ==
    ASSUME RuntimeInv, NEW t \in Thread, Push(t)
    PROVE  \E x \in Object : Tickets!Enqueue(t, x)
<1>1. stack \in [Thread -> Seq(Call)] /\ TypeOK
  BY DEF RuntimeInv, TypeOK
<1>2. PICK x \in Object : x = Top(t).object /\ x = stack[t][Len(stack[t])].object
  BY Innermost DEF Push, At, HandAt
<1>3. /\ Busy(t) /\ Top(t).at = "push" /\ Goto(t, "set_flag")
      /\ stage' = [stage EXCEPT ![x] = "queued"] /\ UNCHANGED status
  BY <1>2 DEF Push, At, Advance, owner
<1>4. /\ Len(stack[t]) \in 1..Len(stack[t])
      /\ stack[t][Len(stack[t])].at \in HandAt
      /\ stack[t][Len(stack[t])].at = "push"
  BY <1>3, Innermost DEF HandAt
<1>5. Moved(t, "set_flag") /\ "set_flag" \in CallAt /\ "set_flag" \notin HandAt
  BY <1>1, <1>3, Going DEF CallAt, QueueObjectAt, HandAt
<1>6. Tickets!PutDown(t, x)
  BY <1>2, <1>4, <1>5, MovedHand, TicketsMove
<1>7. x \in Hand(t) /\ stage[x] = "asked"
  BY <1>2, <1>4, HandIs DEF RuntimeInv, TicketsAgree
<1>8. UNCHANGED OwnerState /\ OwnerState # "closed"
  BY <1>3, PushKeeps DEF OwnerState
<1>9. QED
  BY <1>3, <1>6, <1>7, <1>8 DEF Tickets!Enqueue, Tickets!Advance

(* There is no queue, and the thread that asked keeps the object.          *)
LEMMA CheckDeadKeepsIt ==
    ASSUME RuntimeInv, NEW t \in Thread, CheckDead(t)
    PROVE  \E x \in Object : Tickets!Keep(t, x)
<1>1. stack \in [Thread -> Seq(Call)] /\ TypeOK
  BY DEF RuntimeInv, TypeOK
<1>2. PICK x \in Object : x = Top(t).object /\ x = stack[t][Len(stack[t])].object
  BY Innermost DEF CheckDead, At, HandAt
<1>3. Busy(t) /\ Top(t).at = "check_dead"
  BY DEF CheckDead, At
<1>4. /\ Len(stack[t]) \in 1..Len(stack[t])
      /\ stack[t][Len(stack[t])].at \in HandAt
      /\ stack[t][Len(stack[t])].at = "check_dead"
      /\ InCall(t, "check_dead")
  BY <1>3, Innermost DEF HandAt
<1>5. /\ Goto(t, "merge")
      /\ stage' = [stage EXCEPT ![x] = "merging"] /\ UNCHANGED status
  BY <1>2, <1>4, ClosedIsDead DEF CheckDead, Advance, owner
<1>6. Moved(t, "merge") /\ "merge" \in CallAt /\ "merge" \in HandAt
  BY <1>1, <1>3, <1>5, Going DEF CallAt, MergeAt, HandAt
<1>7. [s \in Thread |-> Hand(s)]' = [s \in Thread |-> Hand(s)]
  BY <1>4, <1>6, MovedHand, TicketsMove
<1>8. x \in Hand(t) /\ stage[x] = "asked"
  BY <1>2, <1>4, HandIs DEF RuntimeInv, TicketsAgree
<1>9. UNCHANGED OwnerState /\ OwnerState = "closed"
  BY <1>5, CheckDeadKeeps, ActiveAlive DEF OwnerState
<1>10. QED
  BY <1>5, <1>7, <1>8, <1>9 DEF Tickets!Keep, Tickets!Advance

(* An object is merged.                                                    *)
LEMMA MergeMerges ==
    ASSUME RuntimeInv, NEW t \in Thread, Merge(t)
    PROVE  \E x \in Object : Tickets!Merge(t, x)
<1>1. stack \in [Thread -> Seq(Call)] /\ TypeOK
  BY DEF RuntimeInv, TypeOK
<1>2. PICK x \in Object : x = Top(t).object /\ x = stack[t][Len(stack[t])].object
  BY Innermost DEF Merge, At, HandAt
<1>3. /\ Busy(t) /\ Top(t).at = "merge"
      /\ Return(t) \/ Goto(t, "destroy")
      /\ stage' = [stage EXCEPT ![x] = "merged"] /\ UNCHANGED status
  BY <1>2 DEF Merge, At, Advance, owner
<1>4. /\ Len(stack[t]) \in 1..Len(stack[t])
      /\ stack[t][Len(stack[t])].at \in HandAt
      /\ stack[t][Len(stack[t])].at = "merge"
  BY <1>3, Innermost DEF Merge, At, HandAt
<1>5. "destroy" \in CallAt /\ "destroy" \notin HandAt
  BY DEF CallAt, MergeAt, HandAt
<1>6. Returned(t) \/ Moved(t, "destroy")
  BY <1>1, <1>3, <1>5, Going, Returning DEF Merge, At
<1>7. Tickets!PutDown(t, x)
  <2>1. CASE Returned(t)
    BY <1>2, <1>4, <2>1, ReturnedHand, TicketsMove
  <2>2. CASE Moved(t, "destroy")
    BY <1>2, <1>4, <1>5, <2>2, MovedHand, TicketsMove
  <2>3. QED
    BY <1>6, <2>1, <2>2
<1>8. x \in Hand(t) /\ stage[x] = "merging"
  BY <1>2, <1>4, HandIs DEF RuntimeInv, TicketsAgree
<1>9. UNCHANGED OwnerState
  BY <1>3, MergeKeeps DEF OwnerState
<1>10. QED
  BY <1>3, <1>7, <1>8, <1>9 DEF Tickets!Merge, Tickets!Advance

(* An object comes out of the queue.                                       *)
LEMMA PopTakes ==
    ASSUME RuntimeInv, NEW t \in Thread, NEW at \in {"pop", "drain"}, Pop(t, at)
    PROVE  \E x \in Object : Tickets!Take(t, x)
<1>1. stack \in [Thread -> Seq(Call)] /\ TypeOK
  BY DEF RuntimeInv, TypeOK
<1>2. PICK x \in Object : x = Head(queue)
  BY <1>1, HeadTailProperties DEF Pop, TypeOK
<1>3. /\ Busy(t) /\ Top(t).at = at /\ queue # <<>>
      /\ Enter(t, [NewCall("merge", x) EXCEPT !.unwinds = Top(t).unwinds])
      /\ stage' = [stage EXCEPT ![x] = "merging"] /\ UNCHANGED status
  BY <1>2 DEF Pop, At, Advance, owner
<1>4. PICK call \in Call : /\ call = [NewCall("merge", x) EXCEPT !.unwinds = Top(t).unwinds]
                           /\ call.at \in HandAt /\ call.object = x
  <2>1. Top(t).unwinds \in BOOLEAN
    BY <1>3, Innermost, Calls
  <2>2. [NewCall("merge", x) EXCEPT !.unwinds = Top(t).unwinds] \in Call
    BY <2>1, Calls DEF CallAt, MergeAt
  <2>3. QED
    BY <2>2 DEF NewCall, HandAt
<1>5. Entered(t, call)
  BY <1>1, <1>3, <1>4, Entering
<1>6. Tickets!TakeUp(t, x)
  BY <1>4, <1>5, EnteredHand, TicketsMove
<1>7. stage[x] = "queued"
  <2>1. 1 \in 1..Len(queue) /\ queue[1] = x
    BY <1>1, <1>2, <1>3, EmptySeq DEF TypeOK
  <2>2. QED
    BY <2>1 DEF RuntimeInv, TicketsAgree
<1>8. (t = Owner /\ OwnerState = "active") \/ OwnerState = "closed"
  BY PopKeeps, ActiveAlive DEF OwnerState
<1>9. UNCHANGED OwnerState
  BY <1>3, PopKeeps DEF OwnerState
<1>10. QED
  BY <1>3, <1>6, <1>7, <1>8, <1>9 DEF Tickets!Take, Tickets!Advance

(* A call that has no object and goes on as one that has none, or returns: *)
(* the abstract queue stutters, unless the queue is closed.                *)
LEMMA EmptyHanded ==
    ASSUME RuntimeInv, NEW t \in Thread, Busy(t), UNCHANGED <<status, stage>>,
           Top(t).at \notin HandAt,
           Return(t) \/ \E at \in CallAt \ HandAt : Goto(t, at)
    PROVE  /\ \A s \in Thread : Hand(s)' = Hand(s)
           /\ (QueueAlive' <=> QueueAlive) => UNCHANGED Tickets!vars
<1>1. stack \in [Thread -> Seq(Call)]
  BY DEF RuntimeInv, TypeOK
<1>2. stack[t][Len(stack[t])].at \notin HandAt
  BY Innermost
<1>3. CASE Return(t)
  BY <1>1, <1>2, <1>3, Returning, ReturnedHand, TicketsStay
<1>4. ASSUME NEW at \in CallAt \ HandAt, Goto(t, at)
      PROVE  /\ \A s \in Thread : Hand(s)' = Hand(s)
             /\ (QueueAlive' <=> QueueAlive) => UNCHANGED Tickets!vars
  BY <1>1, <1>2, <1>4, Going, MovedHand, TicketsStay
<1>5. QED
  BY <1>3, <1>4

(* Weak::upgrade: the thread keeps the object it asked for.                *)
LEMMA UpgradeStutters ==
    ASSUME RuntimeInv, NEW t \in Thread, Upgrade(t)
    PROVE  UNCHANGED Tickets!vars
<1>1. stack \in [Thread -> Seq(Call)]
  BY DEF RuntimeInv, TypeOK
<1>2. PICK next \in {"push", "check_dead"} :
        /\ Busy(t) /\ Top(t).at = "upgrade" /\ Goto(t, next)
        /\ UNCHANGED <<status, stage>>
  BY DEF Upgrade, At, owner
<1>3. next \in CallAt /\ next \in HandAt /\ stack[t][Len(stack[t])].at \in HandAt
  BY <1>2, Innermost DEF CallAt, QueueObjectAt, HandAt
<1>4. \A s \in Thread : Hand(s)' = Hand(s)
  BY <1>1, <1>2, <1>3, Going, MovedHand
<1>5. QED
  BY <1>2, <1>4, UpgradeKeeps, TicketsStay

(* The last Arc but the owner's: with it the queue closes.                 *)
LEMMA ReleaseCloses ==
    ASSUME RuntimeInv, NEW t \in Thread, Release(t)
    PROVE  Tickets!CloseQueue \/ UNCHANGED Tickets!vars
<1>1. /\ Busy(t) /\ Top(t).at = "release"
      /\ Return(t) \/ Goto(t, "drain")
      /\ UNCHANGED <<status, stage>>
  BY DEF Release, At, owner
<1>2. "release" \notin HandAt /\ "drain" \in CallAt \ HandAt
  BY DEF HandAt, CallAt
<1>3. \A s \in Thread : Hand(s)' = Hand(s)
  BY <1>1, <1>2, EmptyHanded
<1>4. QueueAlive /\ (QueueAlive' \/ (~QueueAlive' /\ status # "Active"))
  BY ReleaseKeeps
<1>5. CASE QueueAlive'
  BY <1>1, <1>3, <1>4, <1>5, TicketsStay
<1>6. CASE ~QueueAlive'
  <2>1. OwnerState = "dying" /\ OwnerState' = "closed"
    BY <1>1, <1>4, <1>6 DEF OwnerState
  <2>2. [s \in Thread |-> Hand(s)]' = [s \in Thread |-> Hand(s)]
    BY <1>3
  <2>3. QED
    BY <1>1, <2>1, <2>2 DEF Tickets!CloseQueue
<1>7. QED
  BY <1>5, <1>6

(* The owner starts to die with nothing in its hands.                      *)
LEMMA DieDies ==
    ASSUME RuntimeInv, Die
    PROVE  Tickets!OwnerDies
<1>1. stack \in [Thread -> Seq(Call)] /\ Owner \in Thread
  BY RuntimeAssumption DEF RuntimeInv, TypeOK
<1>2. /\ ~Busy(Owner) /\ status = "Active" /\ status' = "DeadOrDying"
      /\ Enter(Owner, NewCall("die_flag", NoObject)) /\ UNCHANGED stage
  BY DEF Die
<1>3. PICK call \in Call : call = NewCall("die_flag", NoObject) /\ call.at \notin HandAt
  <2>1. NewCall("die_flag", NoObject) \in Call
    BY Calls DEF CallAt, DeathAt
  <2>2. QED
    BY <2>1 DEF NewCall, HandAt
<1>4. Entered(Owner, call)
  BY <1>1, <1>2, <1>3, Entering
<1>5. [s \in Thread |-> Hand(s)]' = [s \in Thread |-> Hand(s)]
  BY <1>1, <1>3, <1>4, EnteredHand, TicketsMove
<1>6. Hand(Owner) = {}
  <2>1. Len(stack[Owner]) = 0
    BY <1>1, <1>2, Stacks
  <2>2. QED
    BY <1>1, <2>1, HandIs
<1>7. OwnerState = "active" /\ OwnerState' = "dying"
  BY <1>2, DieKeeps DEF OwnerState
<1>8. QED
  BY <1>1, <1>2, <1>5, <1>6, <1>7 DEF Tickets!OwnerDies

(* The owner's Arc goes, and the queue closes unless somebody has another. *)
LEMMA DieQueueCloses ==
    ASSUME RuntimeInv, DieQueue
    PROVE  Tickets!CloseQueue \/ UNCHANGED Tickets!vars
<1>1. stack \in [Thread -> Seq(Call)] /\ Owner \in Thread
  BY RuntimeAssumption DEF RuntimeInv, TypeOK
<1>2. /\ Busy(Owner) /\ Top(Owner).at = "die_queue" /\ UNCHANGED <<status, stage>>
      /\ stack' = [stack EXCEPT ![Owner] =
                     <<NewCall("die_dead", NoObject)>>
                       \o (IF ArcCalls = {} THEN <<NewCall("drain", NoObject)>> ELSE <<>>)]
  BY DEF DieQueue, At
<1>3. \A x : x \notin Hand(Owner)
  <2>1. Len(stack[Owner]) = 1 /\ stack[Owner][1].at = "die_queue"
    BY <1>1, <1>2, Innermost DEF DeathAt
  <2>2. QED
    BY <1>1, <2>1, HandIs DEF HandAt
<1>4. \A x : x \notin Hand(Owner)'
  <2>1. stack'[Owner] = <<NewCall("die_dead", NoObject)>>
                          \o (IF ArcCalls = {} THEN <<NewCall("drain", NoObject)>> ELSE <<>>)
    BY <1>1, <1>2
  <2>2. /\ NewCall("die_dead", NoObject) \in Call /\ NewCall("drain", NoObject) \in Call
        /\ NewCall("die_dead", NoObject).at \notin HandAt
        /\ NewCall("drain", NoObject).at \notin HandAt
    <3>1. NewCall("die_dead", NoObject) \in Call /\ NewCall("drain", NoObject) \in Call
      BY Calls DEF CallAt, DeathAt
    <3>2. QED
      BY <3>1 DEF NewCall, HandAt
  <2>3. stack'[Owner] = IF ArcCalls = {}
                        THEN <<NewCall("die_dead", NoObject), NewCall("drain", NoObject)>>
                        ELSE <<NewCall("die_dead", NoObject)>>
    BY <2>1, <2>2, Stacked
  <2>4. \A i \in 1..Len(stack'[Owner]) : stack'[Owner][i].at \notin HandAt
    BY <2>2, <2>3
  <2>5. QED
    BY <1>1, <2>4, HandIsNext
<1>5. \A s \in Thread : Hand(s)' = Hand(s)
  <2>1. \A s \in Thread \ {Owner} : stack'[s] = stack[s]
    BY <1>1, <1>2
  <2>2. \A s \in Thread \ {Owner} : Hand(s)' = Hand(s)
    BY <2>1 DEF Hand
  <2>3. Hand(Owner)' = Hand(Owner)
    BY <1>3, <1>4
  <2>4. QED
    BY <2>2, <2>3 DEF Hand
<1>6. QueueAlive /\ status # "Active" /\ status' # "Active"
  BY DieQueueKeeps
<1>7. CASE QueueAlive'
  BY <1>2, <1>5, <1>6, <1>7, TicketsStay
<1>8. CASE ~QueueAlive'
  <2>1. OwnerState = "dying" /\ OwnerState' = "closed"
    BY <1>2, <1>6, <1>8 DEF OwnerState
  <2>2. [s \in Thread |-> Hand(s)]' = [s \in Thread |-> Hand(s)]
    BY <1>5
  <2>3. QED
    BY <1>2, <2>1, <2>2 DEF Tickets!CloseQueue
<1>9. QED
  BY <1>7, <1>8

(* A panic unwinds out of calls that have nothing in their hands: what was *)
(* being merged was merged before its value was destroyed.                 *)
LEMMA DestructorPanicsStutters ==
    ASSUME RuntimeInv, NEW t \in Thread, DestructorPanics(t)
    PROVE  UNCHANGED Tickets!vars
<1>1. stack \in [Thread -> Seq(Call)]
  BY DEF RuntimeInv, TypeOK
<1>2. /\ Busy(t) /\ Top(t).at = "destroy"
      /\ \A i \in 1..Len(stack[t]) : stack[t][i].unwinds
      /\ stack' = [stack EXCEPT ![t] = <<>>]
      /\ UNCHANGED <<status, stage>>
  BY DEF DestructorPanics, At, owner
<1>3. \A i \in 1..Len(stack[t]) : stack[t][i].at \notin HandAt
  <2>1. \A i \in 1..Len(stack[t]) :
          /\ stack[t][i].at \in CollectAt \cup MergeAt
          /\ i < Len(stack[t]) => stack[t][i].at # "merge"
    BY <1>2 DEF RuntimeInv, StackAgrees
  <2>2. stack[t][Len(stack[t])].at = "destroy" /\ Len(stack[t]) \in 1..Len(stack[t])
    BY <1>2, Innermost
  <2>3. \A i \in 1..Len(stack[t]) : i < Len(stack[t]) \/ i = Len(stack[t])
    BY <2>2
  <2>4. QED
    BY <2>1, <2>2, <2>3 DEF HandAt, CollectAt, MergeAt
<1>4. \A x : x \notin Hand(t)
  BY <1>3, HandIs
<1>5. stack'[t] = <<>> /\ \A s \in Thread \ {t} : stack'[s] = stack[s]
  BY <1>1, <1>2
<1>6. \A x : x \notin Hand(t)'
  BY <1>5, HandIsNext
<1>7. \A s \in Thread : Hand(s)' = Hand(s)
  <2>1. \A s \in Thread \ {t} : Hand(s)' = Hand(s)
    BY <1>5 DEF Hand
  <2>2. Hand(t)' = Hand(t)
    BY <1>4, <1>6
  <2>3. QED
    BY <2>1, <2>2
<1>8. QED
  BY <1>2, <1>7, DestructorPanicsKeeps, TicketsStay

(* Every step of the runtime is a step of the abstract queue, or none.     *)
LEMMA TicketsStep ==
    ASSUME RuntimeInv, [Next]_vars
    PROVE  [Tickets!Next]_(Tickets!vars)
<1>1. ASSUME NEW t \in Thread, NEW x \in Object, QueueObject(t, x)
      PROVE  Tickets!Next
  BY <1>1, QueueObjectAsks DEF Tickets!Next
<1>2. ASSUME NEW t \in Thread, Continue(t)
      PROVE  Tickets!Next \/ UNCHANGED Tickets!vars
  <2>1. CASE Upgrade(t)
    BY <2>1, UpgradeStutters
  <2>2. CASE Push(t)
    BY <2>2, PushEnqueues DEF Tickets!Next
  <2>3. CASE SetFlag(t)
    <3>1. /\ Busy(t) /\ Top(t).at \notin HandAt /\ Goto(t, "release")
          /\ "release" \in CallAt \ HandAt /\ UNCHANGED <<status, stage>>
      BY <2>3 DEF SetFlag, At, HandAt, CallAt, QueueObjectAt
    <3>2. QED
      BY <2>3, <3>1, SetFlagKeeps, EmptyHanded
  <2>4. CASE Release(t)
    BY <2>4, ReleaseCloses DEF Tickets!Next
  <2>5. CASE CheckDead(t)
    BY <2>5, CheckDeadKeepsIt DEF Tickets!Next
  <2>6. CASE Merge(t)
    BY <2>6, MergeMerges DEF Tickets!Next
  <2>7. CASE DestructorReturns(t)
    <3>1. /\ Busy(t) /\ Top(t).at \notin HandAt /\ Return(t)
          /\ UNCHANGED <<status, stage>>
      BY <2>7 DEF DestructorReturns, At, HandAt, owner
    <3>2. QED
      BY <2>7, <3>1, DestructorReturnsKeeps, EmptyHanded
  <2>8. CASE Pop(t, "pop") \/ Pop(t, "drain")
    BY <2>8, PopTakes DEF Tickets!Next
  <2>9. CASE Drained(t)
    <3>1. /\ Busy(t) /\ Top(t).at \notin HandAt /\ Return(t)
          /\ UNCHANGED <<status, stage>>
      BY <2>9 DEF Drained, At, HandAt, owner
    <3>2. QED
      BY <2>9, <3>1, DrainedKeeps, EmptyHanded
  <2>10. QED
    BY <1>2, <2>1, <2>2, <2>3, <2>4, <2>5, <2>6, <2>7, <2>8, <2>9 DEF Continue
<1>3. ASSUME NEW t \in Thread, DestructorPanics(t)
      PROVE  UNCHANGED Tickets!vars
  BY <1>3, DestructorPanicsStutters
<1>4. ASSUME ContinueOwner
      PROVE  Tickets!Next \/ UNCHANGED Tickets!vars
  <2>1. Owner \in Thread
    BY RuntimeAssumption
  <2>2. {"clear_flag", "recheck", "pop", "die_queue"} \subseteq CallAt \ HandAt
    BY DEF CallAt, HandAt, CollectAt, DeathAt
  <2>3. CASE Emptied
    <3>1. /\ Busy(Owner) /\ Top(Owner).at \notin HandAt /\ Goto(Owner, "clear_flag")
          /\ UNCHANGED <<status, stage>>
      BY <2>3 DEF Emptied, At, HandAt, owner
    <3>2. QED
      BY <2>1, <2>2, <2>3, <3>1, EmptiedKeeps, EmptyHanded
  <2>4. CASE ClearFlag
    <3>1. /\ Busy(Owner) /\ Top(Owner).at \notin HandAt /\ Goto(Owner, "recheck")
          /\ UNCHANGED <<status, stage>>
      BY <2>4 DEF ClearFlag, At, HandAt
    <3>2. QED
      BY <2>1, <2>2, <2>4, <3>1, ClearFlagKeeps, EmptyHanded
  <2>5. CASE Recheck
    <3>1. /\ Busy(Owner) /\ Top(Owner).at \notin HandAt
          /\ Return(Owner) \/ Goto(Owner, "pop")
          /\ UNCHANGED <<status, stage>>
      BY <2>5 DEF Recheck, At, HandAt, owner
    <3>2. QED
      BY <2>1, <2>2, <2>5, <3>1, RecheckKeeps, EmptyHanded
  <2>6. CASE DieFlag
    <3>1. /\ Busy(Owner) /\ Top(Owner).at \notin HandAt /\ Goto(Owner, "die_queue")
          /\ UNCHANGED <<status, stage>>
      <4>1. Running'
        BY <2>6, DieFlagKeeps DEF RuntimeInv, AssertionsHold
      <4>2. QED
        BY <2>6, <4>1 DEF DieFlag, At, HandAt, Running
    <3>2. QED
      BY <2>1, <2>2, <2>6, <3>1, DieFlagKeeps, EmptyHanded
  <2>7. CASE DieQueue
    BY <2>7, DieQueueCloses DEF Tickets!Next
  <2>8. CASE DieDead
    <3>1. /\ Busy(Owner) /\ Top(Owner).at \notin HandAt /\ Return(Owner)
          /\ UNCHANGED <<status, stage>>
      <4>1. Running'
        BY <2>8, DieDeadKeeps DEF RuntimeInv, AssertionsHold
      <4>2. QED
        BY <2>8, <4>1 DEF DieDead, At, HandAt, Running
    <3>2. QED
      BY <2>1, <2>8, <3>1, DieDeadKeeps, EmptyHanded
  <2>9. QED
    BY <1>4, <2>3, <2>4, <2>5, <2>6, <2>7, <2>8 DEF ContinueOwner
<1>5. ASSUME NEW u \in BOOLEAN, MayCall(Owner), status = "Active",
             Enter(Owner, [NewCall("pop", NoObject) EXCEPT !.unwinds = u]),
             UNCHANGED <<owner, queue, stage, abandoned, fault>>
      PROVE  UNCHANGED Tickets!vars
  <2>1. stack \in [Thread -> Seq(Call)] /\ Owner \in Thread
    BY RuntimeAssumption DEF RuntimeInv, TypeOK
  <2>2. PICK call \in Call : /\ call = [NewCall("pop", NoObject) EXCEPT !.unwinds = u]
                             /\ call.at \notin HandAt
    <3>1. [NewCall("pop", NoObject) EXCEPT !.unwinds = u] \in Call
      BY Calls DEF CallAt, CollectAt
    <3>2. QED
      BY <3>1 DEF NewCall, HandAt
  <2>3. Entered(Owner, call)
    BY <1>5, <2>1, <2>2, Entering
  <2>4. \A s \in Thread : Hand(s)' = Hand(s)
    BY <2>1, <2>2, <2>3, EnteredHand
  <2>5. QED
    BY <1>5, <2>4, CollectingKeeps, TicketsStay DEF owner
<1>6. ASSUME NEW u \in BOOLEAN, Collect(u)
      PROVE  UNCHANGED Tickets!vars
  BY <1>5, <1>6 DEF Collect
<1>7. CollectForce => UNCHANGED Tickets!vars
  BY <1>5 DEF CollectForce
<1>8. Die => Tickets!Next
  BY DieDies DEF Tickets!Next
<1>9. ASSUME UNCHANGED vars PROVE UNCHANGED Tickets!vars
  <2>1. UNCHANGED <<status, stage, stack>>
    BY <1>9 DEF vars, owner
  <2>2. \A s \in Thread : Hand(s)' = Hand(s)
    BY <2>1 DEF Hand
  <2>3. QED
    BY <1>9, <2>1, <2>2, Stutters, TicketsStay
<1>10. QED
  BY <1>1, <1>2, <1>3, <1>4, <1>6, <1>7, <1>8, <1>9 DEF Next

(* The runtime implements the abstract queue: each object handed over is   *)
(* merged once, by its owner as long as there is one, and by somebody else *)
(* only when the queue is closed.                                          *)
THEOREM QueueImplemented == Spec => RefinesMergeQueue
<1>1. Init => Tickets!Init
  <2>1. SUFFICES ASSUME Init PROVE Tickets!Init
    OBVIOUS
  <2>2. status = "Active" /\ stage = [x \in Object |-> "biased"] /\ stack = [t \in Thread |-> <<>>]
    BY <2>1 DEF Init
  <2>3. \A t \in Thread : Hand(t) = {}
    BY <2>2 DEF Hand
  <2>4. QED
    BY <2>2, <2>3 DEF Tickets!Init, OwnerState
<1>2. RuntimeInv /\ [Next]_vars => [Tickets!Next]_(Tickets!vars)
  BY TicketsStep
<1>3. QED
  BY <1>1, <1>2, Invariance, PTL DEF Spec, RefinesMergeQueue, Tickets!Spec
=============================================================================
