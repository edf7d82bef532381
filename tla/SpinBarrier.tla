----------------------------- MODULE SpinBarrier ------------------------------
(***************************************************************************)
(* atomic/barrier.cpp: a barrier on two atomics, and the work_threads that *)
(* push the number of their stage to `results` and wait for the others     *)
(* before the next stage.  A load that does not end the spin changes       *)
(* nothing and is a stutter.                                               *)
(***************************************************************************)
EXTENDS Integers, Sequences, FiniteSets

CONSTANTS Threads,
          Rounds        \* stages

VARIABLES pc, stage,    \* next step and loop counter s of each thread
          results,      \* the shared vector
          notArrived,   \* not_arrived_
          generation,   \* generation_
          gen           \* the local gen of wait()

vars == <<pc, stage, results, notArrived, generation, gen>>

N == Cardinality(Threads)
Goto(t, from, to) == pc[t] = from /\ pc' = [pc EXCEPT ![t] = to]

Init == /\ pc = [t \in Threads |-> "work"]
        /\ stage = [t \in Threads |-> 0]
        /\ results = <<>>
        /\ notArrived = N
        /\ generation = 0
        /\ gen = [t \in Threads |-> 0]

\* The block under iomutex
Work(t) == /\ Goto(t, "work", "load")
           /\ results' = Append(results, stage[t])
           /\ UNCHANGED <<stage, notArrived, generation, gen>>

\* gen = generation_.load()
Load(t) == /\ Goto(t, "load", "arrive")
           /\ gen' = [gen EXCEPT ![t] = generation]
           /\ UNCHANGED <<stage, results, notArrived, generation>>

\* A faulty variant: the comparison is with the value after the subtraction.
ArriveAfter(t) == /\ Goto(t, "arrive", IF notArrived - 1 = 1 THEN "reset" ELSE "spin")
                  /\ notArrived' = notArrived - 1
                  /\ UNCHANGED <<stage, results, generation, gen>>

\* not_arrived_.fetch_sub(1) == 1: the last to arrive
Arrive(t) == /\ Goto(t, "arrive", IF notArrived = 1 THEN "reset" ELSE "spin")
             /\ notArrived' = notArrived - 1
             /\ UNCHANGED <<stage, results, generation, gen>>

\* not_arrived_.store(count_)
Reset(t) == /\ Goto(t, "reset", "open")
            /\ notArrived' = N
            /\ UNCHANGED <<stage, results, generation, gen>>

\* The end of wait(), and of an iteration
NextStage(t, from) == /\ Goto(t, from, IF stage[t] + 1 < Rounds THEN "work" ELSE "done")
                      /\ stage' = [stage EXCEPT ![t] = @ + 1]

\* generation_.store(gen + 1)
Open(t) == /\ NextStage(t, "open")
           /\ generation' = gen[t] + 1
           /\ UNCHANGED <<results, notArrived, gen>>

\* The load that finds another generation
Leave(t) == /\ generation # gen[t]
            /\ NextStage(t, "spin")
            /\ UNCHANGED <<results, notArrived, generation, gen>>

Step(t) == Work(t) \/ Load(t) \/ Arrive(t) \/ Reset(t) \/ Open(t) \/ Leave(t)

\* The waits of main
AllDone == \A t \in Threads : pc[t] = "done"

Next == \/ \E t \in Threads : Step(t)
        \/ AllDone /\ UNCHANGED vars

Spec == Init /\ [][Next]_vars

\* How often each thread has arrived
Arrived == [t \in Threads |-> stage[t] + IF pc[t] \in {"spin", "reset", "open"} THEN 1 ELSE 0]

-----------------------------------------------------------------------------
\* barrier.cpp:106 asserts that results are the stages in order, each once per
\* thread: nobody starts a stage before all have ended the one before.
ResultsInOrder ==
    /\ \A k \in 1 .. Len(results) : results[k] = (k - 1) \div N
    /\ AllDone => Len(results) = N * Rounds
=============================================================================
