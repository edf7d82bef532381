--------------------------- MODULE BlockQueueProof ----------------------------
(***************************************************************************)
(* Proofs about BlockQueue for any number of producers and customers and   *)
(* any capacity.  NoLostWakeup is inductive together with the types: an    *)
(* element that comes brings the step of its notification with it, a       *)
(* notification that is spent turns a sleeping thread into a woken one,    *)
(* and a thread that was woken leaves only with an element, or when there  *)
(* is none.  The same holds of the free slots.                             *)
(***************************************************************************)
EXTENDS BlockQueue, FiniteSetTheorems, TLAPS

Value == 0 .. Mod - 1

TypeOK == /\ pc \in [Threads -> {"load", "enqueue", "dequeue", "wait", "inc",
                                 "tell_not_empty", "tell_not_full"}]
          /\ e \in Value
          /\ arg \in [Producers -> Value]
          /\ queue \in Seq(Value) /\ Len(queue) <= Capacity
          /\ notFull \subseteq {p \in Producers : pc[p] = "wait"}
          /\ notEmpty \subseteq {c \in Customers : pc[c] = "wait"}

\* The parts of Coming, with f for pc: the notifications to come, and the threads
\* that have been woken and have not looked yet.
Telling(f, step) == {t \in Threads : f[t] = step}
Woken(f, group, blocked) == {t \in group : f[t] = "wait" /\ t \notin blocked}

EmptySide == notEmpty # {} => Len(queue) <= Coming(Customers, notEmpty, "tell_not_empty")
FullSide == notFull # {} => Capacity - Len(queue) <= Coming(Producers, notFull, "tell_not_full")

IInv == TypeOK /\ EmptySide /\ FullSide

USE BlockQueueAssumption

\* The type invariant, one step at a time.
LEMMA Typing == Spec => []TypeOK
<1>1. Init => TypeOK
  BY DEF Init, TypeOK, Threads, Value
<1>2. TypeOK /\ [Next]_vars => TypeOK'
  <2> SUFFICES ASSUME TypeOK, [Next]_vars PROVE TypeOK'
    OBVIOUS
  <2> USE DEF TypeOK, Threads
  <2>1. ASSUME NEW p \in Producers, Load(p) PROVE TypeOK'
    BY <2>1 DEF Load, Goto
  <2>2. ASSUME NEW p \in Producers, Enqueue(p) PROVE TypeOK'
    BY <2>2 DEF Enqueue, Runnable
  <2>3. ASSUME NEW p \in Producers, BlockFull(p) PROVE TypeOK'
    BY <2>3 DEF BlockFull, Runnable
  <2>4. ASSUME NEW p \in Producers, TellNotEmpty(p) PROVE TypeOK'
    BY <2>4 DEF TellNotEmpty, Goto
  <2>5. ASSUME NEW p \in Producers, Inc(p) PROVE TypeOK'
    BY <2>5 DEF Inc, Goto, Value
  <2>6. ASSUME NEW c \in Customers, Dequeue(c) PROVE TypeOK'
    BY <2>6 DEF Dequeue, Runnable
  <2>7. ASSUME NEW c \in Customers, BlockEmpty(c) PROVE TypeOK'
    BY <2>7 DEF BlockEmpty, Runnable
  <2>8. ASSUME NEW c \in Customers, TellNotFull(c) PROVE TypeOK'
    BY <2>8 DEF TellNotFull, Goto
  <2>9. CASE SpuriousWakeup
    BY <2>9 DEF SpuriousWakeup
  <2>10. CASE UNCHANGED vars
    BY <2>10 DEF vars
  <2> QED
    BY <2>1, <2>2, <2>3, <2>4, <2>5, <2>6, <2>7, <2>8, <2>9, <2>10 DEF Next, Step
<1> QED
  BY <1>1, <1>2, PTL DEF Spec

-----------------------------------------------------------------------------
\* The sets that Coming counts are finite.
LEMMA CountedFinite ==
  ASSUME NEW f, NEW group \in {Producers, Customers}, NEW blocked, NEW step
  PROVE  /\ IsFiniteSet(Telling(f, step)) /\ Cardinality(Telling(f, step)) \in Nat
         /\ IsFiniteSet(Woken(f, group, blocked)) /\ Cardinality(Woken(f, group, blocked)) \in Nat
<1>1. IsFiniteSet(Threads) /\ IsFiniteSet(group)
  BY FS_Union DEF Threads
<1>2. Telling(f, step) \subseteq Threads /\ Woken(f, group, blocked) \subseteq group
  BY DEF Telling, Woken
<1>3. IsFiniteSet(Telling(f, step)) /\ IsFiniteSet(Woken(f, group, blocked))
  BY <1>1, <1>2, FS_Subset
<1> QED
  BY <1>3, FS_CardinalityType

\* At most one element is lost.
LEMMA CardinalityWithout ==
  ASSUME NEW S, IsFiniteSet(S), NEW x
  PROVE  /\ Cardinality(S \ {x}) >= Cardinality(S) - 1
         /\ x \in S => Cardinality(S \ {x}) = Cardinality(S) - 1
<1>1. Cardinality(S) \in Nat
  BY FS_CardinalityType
<1>2. Cardinality(S \ {x}) = IF x \in S THEN Cardinality(S) - 1 ELSE Cardinality(S)
  BY FS_RemoveElement
<1> QED
  BY <1>1, <1>2

\* Coming before and after a step, as the sum of the two cardinalities.
LEMMA ComingIsSum ==
  /\ Coming(Customers, notEmpty, "tell_not_empty")
       = Cardinality(Telling(pc, "tell_not_empty")) + Cardinality(Woken(pc, Customers, notEmpty))
  /\ Coming(Producers, notFull, "tell_not_full")
       = Cardinality(Telling(pc, "tell_not_full")) + Cardinality(Woken(pc, Producers, notFull))
  /\ Coming(Customers, notEmpty, "tell_not_empty")'
       = Cardinality(Telling(pc', "tell_not_empty")) + Cardinality(Woken(pc', Customers, notEmpty'))
  /\ Coming(Producers, notFull, "tell_not_full")'
       = Cardinality(Telling(pc', "tell_not_full")) + Cardinality(Woken(pc', Producers, notFull'))
  BY DEF Coming, Telling, Woken

\* A step that leaves one side's sets alone, and does not make it worse.
LEMMA EmptySideKept ==
  ASSUME TypeOK, TypeOK', EmptySide, Len(queue') <= Len(queue), notEmpty' = notEmpty,
         Telling(pc', "tell_not_empty") = Telling(pc, "tell_not_empty"),
         Woken(pc', Customers, notEmpty') = Woken(pc, Customers, notEmpty)
  PROVE  EmptySide'
<1>1. Len(queue) \in Nat /\ Len(queue') \in Nat
  BY DEF TypeOK
<1> QED
  BY <1>1, CountedFinite, ComingIsSum DEF EmptySide

LEMMA FullSideKept ==
  ASSUME TypeOK, TypeOK', FullSide, Len(queue') >= Len(queue), notFull' = notFull,
         Telling(pc', "tell_not_full") = Telling(pc, "tell_not_full"),
         Woken(pc', Producers, notFull') = Woken(pc, Producers, notFull)
  PROVE  FullSide'
<1>1. Len(queue) \in Nat /\ Len(queue') \in Nat
  BY DEF TypeOK
<1> QED
  BY <1>1, CountedFinite, ComingIsSum DEF FullSide

-----------------------------------------------------------------------------
\* One element more: its notification is one more to come.  One slot less: if p
\* had been woken for it, p is one less to come.
LEMMA EnqueueIInv ==
  ASSUME IInv, TypeOK', NEW p \in Producers, Enqueue(p)
  PROVE  EmptySide' /\ FullSide'
<1> USE DEF IInv, Threads
<1>1. /\ Telling(pc', "tell_not_empty") = Telling(pc, "tell_not_empty") \cup {p}
      /\ p \notin Telling(pc, "tell_not_empty")
      /\ Telling(pc', "tell_not_full") = Telling(pc, "tell_not_full")
  BY DEF Enqueue, Runnable, Telling, TypeOK
<1>2. /\ Woken(pc', Customers, notEmpty') = Woken(pc, Customers, notEmpty)
      /\ Woken(pc', Producers, notFull') = Woken(pc, Producers, notFull) \ {p}
  BY DEF Enqueue, Runnable, Woken, TypeOK
<1>3. Len(queue') = Len(queue) + 1 /\ Len(queue) \in Nat
  BY DEF Enqueue, TypeOK
<1>4. EmptySide'
  <2>1. Cardinality(Telling(pc', "tell_not_empty")) = Cardinality(Telling(pc, "tell_not_empty")) + 1
    BY <1>1, CountedFinite, FS_AddElement
  <2> QED
    BY <2>1, <1>2, <1>3, CountedFinite, ComingIsSum DEF EmptySide, Enqueue
<1>5. FullSide'
  <2>1. Cardinality(Woken(pc', Producers, notFull')) >= Cardinality(Woken(pc, Producers, notFull)) - 1
    BY <1>2, CountedFinite, CardinalityWithout
  <2> QED
    BY <2>1, <1>1, <1>3, CountedFinite, ComingIsSum DEF FullSide, Enqueue
<1> QED
  BY <1>4, <1>5

\* The same with the sides exchanged.
LEMMA DequeueIInv ==
  ASSUME IInv, TypeOK', NEW c \in Customers, Dequeue(c)
  PROVE  EmptySide' /\ FullSide'
<1> USE DEF IInv, Threads
<1>1. /\ Telling(pc', "tell_not_full") = Telling(pc, "tell_not_full") \cup {c}
      /\ c \notin Telling(pc, "tell_not_full")
      /\ Telling(pc', "tell_not_empty") = Telling(pc, "tell_not_empty")
  BY DEF Dequeue, Runnable, Telling, TypeOK
<1>2. /\ Woken(pc', Producers, notFull') = Woken(pc, Producers, notFull)
      /\ Woken(pc', Customers, notEmpty') = Woken(pc, Customers, notEmpty) \ {c}
  BY DEF Dequeue, Runnable, Woken, TypeOK
<1>3. Len(queue') = Len(queue) - 1 /\ Len(queue) \in Nat
  BY DEF Dequeue, TypeOK
<1>4. FullSide'
  <2>1. Cardinality(Telling(pc', "tell_not_full")) = Cardinality(Telling(pc, "tell_not_full")) + 1
    BY <1>1, CountedFinite, FS_AddElement
  <2> QED
    BY <2>1, <1>2, <1>3, CountedFinite, ComingIsSum DEF FullSide, Dequeue
<1>5. EmptySide'
  <2>1. Cardinality(Woken(pc', Customers, notEmpty')) >= Cardinality(Woken(pc, Customers, notEmpty)) - 1
    BY <1>2, CountedFinite, CardinalityWithout
  <2> QED
    BY <2>1, <1>1, <1>3, CountedFinite, ComingIsSum DEF EmptySide, Dequeue
<1> QED
  BY <1>4, <1>5

\* A producer goes to sleep only when the queue is full: no slot needs anybody.
LEMMA BlockFullIInv ==
  ASSUME IInv, TypeOK', NEW p \in Producers, BlockFull(p)
  PROVE  EmptySide' /\ FullSide'
<1> USE DEF IInv, Threads
<1>1. /\ Telling(pc', "tell_not_empty") = Telling(pc, "tell_not_empty")
      /\ Woken(pc', Customers, notEmpty') = Woken(pc, Customers, notEmpty)
  BY DEF BlockFull, Runnable, Telling, Woken, TypeOK
<1>2. queue' = queue /\ notEmpty' = notEmpty /\ Len(queue) = Capacity /\ Len(queue) \in Nat
  BY DEF BlockFull, TypeOK
<1>3. EmptySide'
  BY <1>1, <1>2, EmptySideKept
<1>4. FullSide'
  BY <1>2, CountedFinite, ComingIsSum DEF FullSide
<1> QED
  BY <1>3, <1>4

LEMMA BlockEmptyIInv ==
  ASSUME IInv, TypeOK', NEW c \in Customers, BlockEmpty(c)
  PROVE  EmptySide' /\ FullSide'
<1> USE DEF IInv, Threads
<1>1. /\ Telling(pc', "tell_not_full") = Telling(pc, "tell_not_full")
      /\ Woken(pc', Producers, notFull') = Woken(pc, Producers, notFull)
  BY DEF BlockEmpty, Runnable, Telling, Woken, TypeOK
<1>2. queue' = queue /\ notFull' = notFull /\ Len(queue) = 0
  BY DEF BlockEmpty, TypeOK
<1>3. FullSide'
  BY <1>1, <1>2, FullSideKept
<1>4. EmptySide'
  BY <1>2, CountedFinite, ComingIsSum DEF EmptySide
<1> QED
  BY <1>3, <1>4

\* A notification that meets a sleeping customer turns into a woken one; where
\* nobody sleeps, nobody is owed anything.
LEMMA TellNotEmptyIInv ==
  ASSUME IInv, TypeOK', NEW p \in Producers, TellNotEmpty(p)
  PROVE  EmptySide' /\ FullSide'
<1> USE DEF IInv, Threads
<1>1. /\ Telling(pc', "tell_not_full") = Telling(pc, "tell_not_full")
      /\ Woken(pc', Producers, notFull') = Woken(pc, Producers, notFull)
      /\ queue' = queue /\ notFull' = notFull
  BY DEF TellNotEmpty, Goto, Telling, Woken, TypeOK
<1>2. FullSide'
  BY <1>1, FullSideKept DEF TypeOK
<1>3. EmptySide'
  <2>1. CASE notEmpty = {}
    BY <2>1 DEF TellNotEmpty, EmptySide
  <2>2. ASSUME NEW c \in notEmpty, notEmpty' = notEmpty \ {c} PROVE EmptySide'
    <3>1. /\ p \in Telling(pc, "tell_not_empty")
          /\ Telling(pc', "tell_not_empty") = Telling(pc, "tell_not_empty") \ {p}
      BY DEF TellNotEmpty, Goto, Telling, TypeOK
    <3>2. /\ c \notin Woken(pc, Customers, notEmpty)
          /\ Woken(pc', Customers, notEmpty') = Woken(pc, Customers, notEmpty) \cup {c}
      BY <2>2 DEF TellNotEmpty, Goto, Woken, TypeOK
    <3>3. Cardinality(Telling(pc', "tell_not_empty")) = Cardinality(Telling(pc, "tell_not_empty")) - 1
      BY <3>1, CountedFinite, CardinalityWithout
    <3>4. Cardinality(Woken(pc', Customers, notEmpty')) = Cardinality(Woken(pc, Customers, notEmpty)) + 1
      BY <3>2, CountedFinite, FS_AddElement
    <3>5. Len(queue) \in Nat /\ notEmpty # {}
      BY <2>2 DEF TypeOK
    <3> QED
      BY <1>1, <3>3, <3>4, <3>5, CountedFinite, ComingIsSum DEF EmptySide
  <2> QED
    BY <2>1, <2>2 DEF TellNotEmpty
<1> QED
  BY <1>2, <1>3

LEMMA TellNotFullIInv ==
  ASSUME IInv, TypeOK', NEW c \in Customers, TellNotFull(c)
  PROVE  EmptySide' /\ FullSide'
<1> USE DEF IInv, Threads
<1>1. /\ Telling(pc', "tell_not_empty") = Telling(pc, "tell_not_empty")
      /\ Woken(pc', Customers, notEmpty') = Woken(pc, Customers, notEmpty)
      /\ queue' = queue /\ notEmpty' = notEmpty
  BY DEF TellNotFull, Goto, Telling, Woken, TypeOK
<1>2. EmptySide'
  BY <1>1, EmptySideKept DEF TypeOK
<1>3. FullSide'
  <2>1. CASE notFull = {}
    BY <2>1 DEF TellNotFull, FullSide
  <2>2. ASSUME NEW p \in notFull, notFull' = notFull \ {p} PROVE FullSide'
    <3>1. /\ c \in Telling(pc, "tell_not_full")
          /\ Telling(pc', "tell_not_full") = Telling(pc, "tell_not_full") \ {c}
      BY DEF TellNotFull, Goto, Telling, TypeOK
    <3>2. /\ p \notin Woken(pc, Producers, notFull)
          /\ Woken(pc', Producers, notFull') = Woken(pc, Producers, notFull) \cup {p}
      BY <2>2 DEF TellNotFull, Goto, Woken, TypeOK
    <3>3. Cardinality(Telling(pc', "tell_not_full")) = Cardinality(Telling(pc, "tell_not_full")) - 1
      BY <3>1, CountedFinite, CardinalityWithout
    <3>4. Cardinality(Woken(pc', Producers, notFull')) = Cardinality(Woken(pc, Producers, notFull)) + 1
      BY <3>2, CountedFinite, FS_AddElement
    <3>5. Len(queue) \in Nat /\ notFull # {}
      BY <2>2 DEF TypeOK
    <3> QED
      BY <1>1, <3>3, <3>4, <3>5, CountedFinite, ComingIsSum DEF FullSide
  <2> QED
    BY <2>1, <2>2 DEF TellNotFull
<1> QED
  BY <1>2, <1>3

\* A spurious wake-up makes a woken thread out of a sleeping one.
LEMMA SpuriousIInv ==
  ASSUME IInv, TypeOK', SpuriousWakeup
  PROVE  EmptySide' /\ FullSide'
<1> USE DEF IInv
<1>1. /\ Telling(pc', "tell_not_empty") = Telling(pc, "tell_not_empty")
      /\ Telling(pc', "tell_not_full") = Telling(pc, "tell_not_full")
      /\ queue' = queue /\ Len(queue) \in Nat
  BY DEF SpuriousWakeup, Telling, TypeOK
<1>2. ASSUME NEW p \in notFull, notFull' = notFull \ {p}, notEmpty' = notEmpty
      PROVE  EmptySide' /\ FullSide'
  <2>1. /\ Woken(pc', Customers, notEmpty') = Woken(pc, Customers, notEmpty)
        /\ Woken(pc', Producers, notFull') = Woken(pc, Producers, notFull) \cup {p}
        /\ p \notin Woken(pc, Producers, notFull)
    BY <1>2 DEF SpuriousWakeup, Woken, TypeOK
  <2>2. Cardinality(Woken(pc', Producers, notFull')) = Cardinality(Woken(pc, Producers, notFull)) + 1
    BY <2>1, CountedFinite, FS_AddElement
  <2>3. EmptySide'
    BY <1>1, <1>2, <2>1, EmptySideKept
  <2>4. FullSide'
    BY <1>1, <1>2, <2>2, CountedFinite, ComingIsSum DEF FullSide
  <2> QED
    BY <2>3, <2>4
<1>3. ASSUME NEW c \in notEmpty, notEmpty' = notEmpty \ {c}, notFull' = notFull
      PROVE  EmptySide' /\ FullSide'
  <2>1. /\ Woken(pc', Producers, notFull') = Woken(pc, Producers, notFull)
        /\ Woken(pc', Customers, notEmpty') = Woken(pc, Customers, notEmpty) \cup {c}
        /\ c \notin Woken(pc, Customers, notEmpty)
    BY <1>3 DEF SpuriousWakeup, Woken, TypeOK
  <2>2. Cardinality(Woken(pc', Customers, notEmpty')) = Cardinality(Woken(pc, Customers, notEmpty)) + 1
    BY <2>1, CountedFinite, FS_AddElement
  <2>3. FullSide'
    BY <1>1, <1>3, <2>1, FullSideKept
  <2>4. EmptySide'
    BY <1>1, <1>3, <2>2, CountedFinite, ComingIsSum DEF EmptySide
  <2> QED
    BY <2>3, <2>4
<1> QED
  BY <1>2, <1>3 DEF SpuriousWakeup

\* The steps that move a producer between its calls, and the stutter, leave all
\* that the two sides are about alone.
LEMMA BetweenCallsIInv ==
  ASSUME IInv, TypeOK', UNCHANGED vars \/ \E p \in Producers : Load(p) \/ Inc(p)
  PROVE  EmptySide' /\ FullSide'
<1> USE DEF IInv
<1>1. UNCHANGED <<queue, notFull, notEmpty>>
  BY DEF Load, Inc, vars
<1>2. /\ Telling(pc', "tell_not_empty") = Telling(pc, "tell_not_empty")
      /\ Telling(pc', "tell_not_full") = Telling(pc, "tell_not_full")
      /\ Woken(pc', Customers, notEmpty) = Woken(pc, Customers, notEmpty)
      /\ Woken(pc', Producers, notFull) = Woken(pc, Producers, notFull)
  BY DEF Load, Inc, Goto, vars, Telling, Woken, TypeOK, Threads
<1> QED
  BY <1>1, <1>2, EmptySideKept, FullSideKept DEF TypeOK

-----------------------------------------------------------------------------
\* The inductive invariant holds in every state BlockQueue reaches.
THEOREM Invariance == Spec => []IInv
<1>1. Init => IInv
  <2>1. Init => EmptySide /\ FullSide
    BY DEF Init, EmptySide, FullSide
  <2>2. Init => TypeOK
    BY DEF Init, TypeOK, Threads, Value
  <2> QED
    BY <2>1, <2>2 DEF IInv
<1>2. IInv /\ TypeOK' /\ [Next]_vars => IInv'
  <2> SUFFICES ASSUME IInv, TypeOK', [Next]_vars PROVE EmptySide' /\ FullSide'
    BY DEF IInv
  <2> QED
    BY EnqueueIInv, DequeueIInv, BlockFullIInv, BlockEmptyIInv, TellNotEmptyIInv,
       TellNotFullIInv, SpuriousIInv, BetweenCallsIInv DEF Next, Step
<1> QED
  BY <1>1, <1>2, Typing, PTL DEF Spec

\* block_queue.cpp loses no wake-up, although it notifies one thread only and
\* after the unlock: while a customer sleeps there is a notification or a woken
\* customer for every element, and so on the other side.
THEOREM WakeupsKept == Spec => []NoLostWakeup
  BY Invariance, PTL DEF IInv, EmptySide, FullSide, NoLostWakeup

\* With a thread on either side, it never happens that all of them sleep.
THEOREM SomebodyAwake ==
  ASSUME Producers # {}, Customers # {}
  PROVE  Spec => [](notFull \cup notEmpty # Threads)
<1>1. IInv => notFull \cup notEmpty # Threads
  <2> SUFFICES ASSUME IInv, notFull \cup notEmpty = Threads PROVE FALSE
    OBVIOUS
  <2>1. notFull = Producers /\ notEmpty = Customers
    BY DEF IInv, TypeOK, Threads
  <2>2. /\ Telling(pc, "tell_not_empty") = {} /\ Telling(pc, "tell_not_full") = {}
        /\ Woken(pc, Customers, notEmpty) = {} /\ Woken(pc, Producers, notFull) = {}
    BY <2>1 DEF IInv, TypeOK, Threads, Telling, Woken
  <2>3. /\ Coming(Customers, notEmpty, "tell_not_empty") = 0
        /\ Coming(Producers, notFull, "tell_not_full") = 0
    <3>1. Cardinality({}) = 0
      BY FS_EmptySet
    <3> QED
      BY <2>2, <3>1, ComingIsSum
  <2>4. Len(queue) <= 0 /\ Capacity - Len(queue) <= 0
    BY <2>1, <2>3 DEF IInv, EmptySide, FullSide
  <2> QED
    BY <2>4 DEF IInv, TypeOK
<1> QED
  BY <1>1, Invariance, PTL
=============================================================================
