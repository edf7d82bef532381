------------------------------ MODULE BlockQueue ------------------------------
(***************************************************************************)
(* condition_variable/block_queue.cpp: a bounded queue with one condition  *)
(* variable per direction, and the work_threads of its program, which      *)
(* enqueue and dequeue for ever.  A block under mutex_ is one step, the    *)
(* notification that follows it another; a thread whose predicate is false *)
(* joins the wait set, and one that has been removed from it, notified or  *)
(* spuriously, evaluates the predicate again.                              *)
(*                                                                         *)
(* The global e is read for the call and incremented after it, in steps of *)
(* its own: two producers may enqueue the same number.                     *)
(***************************************************************************)
EXTENDS Integers, Sequences, FiniteSets

CONSTANTS Producers, Customers,
          Capacity,             \* capacity_
          Mod                   \* number of values of e, 2^64 in the program

ASSUME BlockQueueAssumption == /\ Producers \cap Customers = {}
                               /\ IsFiniteSet(Producers) /\ IsFiniteSet(Customers)
                               /\ Capacity \in Nat \ {0}
                               /\ Mod \in Nat \ {0}

Threads == Producers \cup Customers

VARIABLES pc,           \* next step of each thread
          e,            \* the global counter
          arg,          \* the argument of each producer's enqueue
          queue,        \* queue_
          notFull,      \* the threads blocked in cv_not_full_.wait
          notEmpty      \* the threads blocked in cv_not_empty_.wait

vars == <<pc, e, arg, queue, notFull, notEmpty>>

Goto(t, from, to) == pc[t] = from /\ pc' = [pc EXCEPT ![t] = to]

Init == /\ pc = [t \in Threads |-> IF t \in Producers THEN "load" ELSE "dequeue"]
        /\ e = 0
        /\ arg = [p \in Producers |-> 0]
        /\ queue = <<>>
        /\ notFull = {} /\ notEmpty = {}

\* queue.enqueue(e): e is loaded for the call.
Load(p) == /\ Goto(p, "load", "enqueue")
           /\ arg' = [arg EXCEPT ![p] = e]
           /\ UNCHANGED <<e, queue, notFull, notEmpty>>

\* t gets the mutex and evaluates the predicate of its wait.
Runnable(t) == pc[t] \in {"enqueue", "dequeue"} \/ (pc[t] = "wait" /\ t \notin notFull \cup notEmpty)

Enqueue(p) == /\ Runnable(p)
              /\ Len(queue) < Capacity
              /\ queue' = Append(queue, arg[p])
              /\ pc' = [pc EXCEPT ![p] = "tell_not_empty"]
              /\ UNCHANGED <<e, arg, notFull, notEmpty>>

BlockFull(p) == /\ Runnable(p)
                /\ Len(queue) >= Capacity
                /\ pc' = [pc EXCEPT ![p] = "wait"]
                /\ notFull' = notFull \cup {p}
                /\ UNCHANGED <<e, arg, queue, notEmpty>>

Dequeue(c) == /\ Runnable(c)
              /\ queue # <<>>
              /\ queue' = Tail(queue)
              /\ pc' = [pc EXCEPT ![c] = "tell_not_full"]
              /\ UNCHANGED <<e, arg, notFull, notEmpty>>

BlockEmpty(c) == /\ Runnable(c)
                 /\ queue = <<>>
                 /\ pc' = [pc EXCEPT ![c] = "wait"]
                 /\ notEmpty' = notEmpty \cup {c}
                 /\ UNCHANGED <<e, arg, queue, notFull>>

\* A faulty variant: only the element that ends the emptiness is announced.
TellNotEmptyOnce(p) == /\ Goto(p, "tell_not_empty", "inc")
                       /\ \/ notEmpty = {} /\ UNCHANGED notEmpty
                          \/ Len(queue) # 1 /\ UNCHANGED notEmpty
                          \/ Len(queue) = 1 /\ \E c \in notEmpty : notEmpty' = notEmpty \ {c}
                       /\ UNCHANGED <<e, arg, queue, notFull>>

\* cv_not_empty_.notify_one()
TellNotEmpty(p) == /\ Goto(p, "tell_not_empty", "inc")
                   /\ \/ notEmpty = {} /\ UNCHANGED notEmpty
                      \/ \E c \in notEmpty : notEmpty' = notEmpty \ {c}
                   /\ UNCHANGED <<e, arg, queue, notFull>>

\* A faulty variant: both directions notify the same condition variable.
TellNotFullWrong(c) == /\ Goto(c, "tell_not_full", "dequeue")
                       /\ \/ notEmpty = {} /\ UNCHANGED notEmpty
                          \/ \E u \in notEmpty : notEmpty' = notEmpty \ {u}
                       /\ UNCHANGED <<e, arg, queue, notFull>>

\* cv_not_full_.notify_one()
TellNotFull(c) == /\ Goto(c, "tell_not_full", "dequeue")
                  /\ \/ notFull = {} /\ UNCHANGED notFull
                     \/ \E p \in notFull : notFull' = notFull \ {p}
                  /\ UNCHANGED <<e, arg, queue, notEmpty>>

\* ++e
Inc(p) == /\ Goto(p, "inc", "load")
          /\ e' = (e + 1) % Mod
          /\ UNCHANGED <<arg, queue, notFull, notEmpty>>

SpuriousWakeup == /\ \/ \E p \in notFull : notFull' = notFull \ {p} /\ UNCHANGED notEmpty
                     \/ \E c \in notEmpty : notEmpty' = notEmpty \ {c} /\ UNCHANGED notFull
                  /\ UNCHANGED <<pc, e, arg, queue>>

Step(t) == \/ t \in Producers /\ \/ Load(t) \/ Enqueue(t) \/ BlockFull(t)
                                 \/ TellNotEmpty(t) \/ Inc(t)
           \/ t \in Customers /\ (Dequeue(t) \/ BlockEmpty(t) \/ TellNotFull(t))

Next == (\E t \in Threads : Step(t)) \/ SpuriousWakeup

Spec == Init /\ [][Next]_vars

\* Every thread runs; nothing is assumed of spurious wake-ups or of whom a
\* notify_one picks.
FairSpec == Spec /\ \A t \in Threads : WF_vars(Step(t))

-----------------------------------------------------------------------------
\* The threads that are going to look into the queue: `blocked` is a wait set,
\* `group` its threads, `telling` the step of the other side's notification.
Coming(group, blocked, telling) ==
    Cardinality({t \in Threads : pc[t] = telling})
    + Cardinality({t \in group : pc[t] = "wait" /\ t \notin blocked})

\* notify_one, issued after the unlock, loses no wake-up: while a customer sleeps
\* there is a notification or a woken customer for every element, and while a
\* producer sleeps there is one for every free slot.
NoLostWakeup ==
    /\ notEmpty # {} => Len(queue) <= Coming(Customers, notEmpty, "tell_not_empty")
    /\ notFull # {} => Capacity - Len(queue) <= Coming(Producers, notFull, "tell_not_full")

\* The two sides never end up waiting for one another: elements are put in and
\* taken out again and again.
KeepsFlowing == /\ []<>(\E p \in Producers : pc[p] = "tell_not_empty")
                /\ []<>(\E c \in Customers : pc[c] = "tell_not_full")
=============================================================================
