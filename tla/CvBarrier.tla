------------------------------ MODULE CvBarrier -------------------------------
(***************************************************************************)
(* condition_variable/barrier.cpp: a barrier under a mutex.  main starts a *)
(* thread per cpu, waits for all of them, and does so for Rounds           *)
(* generations with the same barrier; a thread here is the one with its    *)
(* number in every generation.  wait() is one block up to the point where  *)
(* it blocks, and one step each time the blocked thread has been woken.    *)
(***************************************************************************)
EXTENDS Integers, FiniteSets

CONSTANTS Threads, Rounds

VARIABLES pc, stage,    \* next step of each thread, and main's generation
          current,      \* current_count_
          generation,   \* generation_
          gen,          \* the local gen of wait()
          waiting       \* the threads blocked in condition_.wait

vars == <<pc, stage, current, generation, gen, waiting>>

N == Cardinality(Threads)
Goto(t, from, to) == pc[t] = from /\ pc' = [pc EXCEPT ![t] = to]

Init == /\ pc = [t \in Threads |-> "arrive"]
        /\ stage = [t \in Threads |-> 0]
        /\ current = N
        /\ generation = 0
        /\ gen = [t \in Threads |-> 0]
        /\ waiting = {}

\* wait() of a thread that is not the last
ArriveFirst(t) == /\ current # 1
                  /\ Goto(t, "arrive", "wait")
                  /\ gen' = [gen EXCEPT ![t] = generation]
                  /\ current' = current - 1
                  /\ waiting' = waiting \cup {t}
                  /\ UNCHANGED <<stage, generation>>

\* A faulty variant: the count of the next generation is not set up.
ArriveLastNoReset(t) == /\ current = 1
                        /\ Goto(t, "arrive", "joined")
                        /\ stage' = [stage EXCEPT ![t] = @ + 1]
                        /\ gen' = [gen EXCEPT ![t] = generation]
                        /\ current' = 0
                        /\ generation' = generation + 1
                        /\ waiting' = {}

\* wait() of the last: reset, next generation, notify_all
ArriveLast(t) == /\ current = 1
                 /\ Goto(t, "arrive", "joined")
                 /\ stage' = [stage EXCEPT ![t] = @ + 1]
                 /\ gen' = [gen EXCEPT ![t] = generation]
                 /\ current' = N
                 /\ generation' = generation + 1
                 /\ waiting' = {}

\* A faulty variant: wait() without a predicate.
WakeUnchecked(t) == /\ t \notin waiting
                    /\ Goto(t, "wait", "joined")
                    /\ stage' = [stage EXCEPT ![t] = @ + 1]
                    /\ UNCHANGED <<current, generation, gen, waiting>>

\* A thread that is not blocked any more evaluates gen != generation_.
Wake(t) == /\ t \notin waiting
           /\ IF gen[t] # generation
              THEN /\ Goto(t, "wait", "joined")
                   /\ stage' = [stage EXCEPT ![t] = @ + 1]
                   /\ UNCHANGED waiting
              ELSE /\ pc[t] = "wait" /\ waiting' = waiting \cup {t}
                   /\ UNCHANGED <<pc, stage>>
           /\ UNCHANGED <<current, generation, gen>>

SpuriousWakeup == /\ \E t \in waiting : waiting' = waiting \ {t}
                  /\ UNCHANGED <<pc, stage, current, generation, gen>>

\* main: all futures are ready; the threads of the next generation are started.
AllJoined == \A t \in Threads : pc[t] = "joined"
NextGeneration == /\ AllJoined
                  /\ \A t \in Threads : stage[t] < Rounds
                  /\ pc' = [t \in Threads |-> "arrive"]
                  /\ UNCHANGED <<stage, current, generation, gen, waiting>>

AllDone == AllJoined /\ \A t \in Threads : stage[t] = Rounds

Step(t) == ArriveFirst(t) \/ ArriveLast(t) \/ Wake(t)

Next == \/ \E t \in Threads : Step(t)
        \/ SpuriousWakeup
        \/ NextGeneration
        \/ AllDone /\ UNCHANGED vars

Spec == Init /\ [][Next]_vars

\* How often each thread has arrived
Arrived == [t \in Threads |-> stage[t] + IF pc[t] = "wait" THEN 1 ELSE 0]
=============================================================================
