------------------------------ MODULE ReadyFlag -------------------------------
(***************************************************************************)
(* condition_variable/condition_variable.cpp: main sets ready, notifies    *)
(* and waits for work_thread, which waits for ready under the mutex.  The  *)
(* line `std::lock_guard<std::mutex> lock(std::mutex);` of main declares a *)
(* function and locks nothing, so that main's steps may come between the   *)
(* predicate and the wait of work_thread.  Then main waits on a condition  *)
(* variable of its own until the time is out.                              *)
(***************************************************************************)
EXTENDS Naturals

VARIABLES mainPc, workPc,
          ready,
          blocked       \* work_thread is blocked in cv.wait

vars == <<mainPc, workPc, ready, blocked>>

Init == /\ mainPc = "set" /\ workPc = "lock"
        /\ ready = FALSE /\ blocked = FALSE

\* std::unique_lock<std::mutex> lock(mutex): nobody else locks it.
Lock == /\ workPc = "lock" /\ workPc' = "test"
        /\ UNCHANGED <<mainPc, ready, blocked>>

Test == /\ workPc = "test"
        /\ workPc' = IF ready THEN "done" ELSE "block"
        /\ UNCHANGED <<mainPc, ready, blocked>>

Block == /\ workPc = "block" /\ workPc' = "wait"
         /\ blocked' = TRUE
         /\ UNCHANGED <<mainPc, ready>>

Wake == /\ workPc = "wait" /\ ~blocked
        /\ workPc' = "test"
        /\ UNCHANGED <<mainPc, ready, blocked>>

Set == /\ mainPc = "set" /\ mainPc' = "notify"
       /\ ready' = TRUE
       /\ UNCHANGED <<workPc, blocked>>

Notify == /\ mainPc = "notify" /\ mainPc' = "join"
          /\ blocked' = FALSE
          /\ UNCHANGED <<workPc, ready>>

\* fut.wait()
Join == /\ mainPc = "join" /\ workPc = "done"
        /\ mainPc' = "wait_for"
        /\ UNCHANGED <<workPc, ready, blocked>>

\* cv.wait_for(lock, 1000 ms, false): rv is false when the time is out.
TimeOut == /\ mainPc = "wait_for" /\ mainPc' = "ended"
           /\ UNCHANGED <<workPc, ready, blocked>>

SpuriousWakeup == blocked /\ blocked' = FALSE /\ UNCHANGED <<mainPc, workPc, ready>>

WorkStep == Lock \/ Test \/ Block \/ Wake
MainStep == Set \/ Notify \/ Join \/ TimeOut

Next == WorkStep \/ MainStep \/ SpuriousWakeup

Spec == Init /\ [][Next]_vars

\* Both threads run; nobody promises a spurious wake-up.
FairSpec == Spec /\ WF_vars(WorkStep) /\ WF_vars(MainStep)

-----------------------------------------------------------------------------
\* What the messages of the program announce, "wait ready true" and "ready true":
\* work_thread, which waits for ready, gets to see it.
ReadySeen == (workPc # "done" /\ ready) ~> (workPc = "done")
=============================================================================
