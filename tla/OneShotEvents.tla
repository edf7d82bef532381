---------------------------- MODULE OneShotEvents -----------------------------
(***************************************************************************)
(* The two programs in which threads wait for something that happens once. *)
(* They share no variable; Demos keeps those of one still while it runs    *)
(* the other.                                                              *)
(*                                                                         *)
(* item39.cpp: main tells reacting tasks of an event, in six ways, one     *)
(* after another.  In each block main starts its tasks, announces the      *)
(* event and waits for the tasks in the destructor of a future or of a     *)
(* ThreadRAII:                                                             *)
(*   1  a condition variable, waited for without a predicate               *)
(*   2  an atomic flag, which the task polls                               *)
(*   3  a condition variable and a flag under the mutex                    *)
(*   4  a promise<void>          5  the same, detect()                     *)
(*   6  a promise whose shared_future several tasks wait for, detect1()    *)
(* The sleeps of the program order nothing.                                *)
(*                                                                         *)
(* condition_variable/count_down_latch.cpp: every work_thread counts down  *)
(* once, main waits for the count to be 0 and then for the futures.        *)
(* count_down() is one block under mutex_, notify_all() included.          *)
(***************************************************************************)
EXTENDS Integers, FiniteSets

CONSTANTS Tasks,        \* of detect1(); the other blocks have one
          Threads       \* the work_threads of the latch

VARIABLES block,        \* 1 .. 6, or 7 at the end of main
          mainPc,       \* where main is in the block
          task,         \* where each task of the block is
          m,            \* who holds the mutex: a task, "main" or "nobody"
          waiting,      \* the tasks blocked in cv.wait
          event,        \* flag, flag1 or the promise of the block has been set
          pc,           \* next step of each work_thread
          main,         \* of main: "wait" before or in cdl.wait(), "join", "end"
          count,        \* count_
          asleep        \* main is blocked in cv_.wait

Blocks == 1 .. 6
OneTask == CHOOSE t \in Tasks : TRUE
Running(b) == IF b = 6 THEN Tasks ELSE {OneTask}

Begin(b) == [t \in Tasks |-> IF t \in Running(b) THEN "begin" ELSE "none"]

Init == /\ block = 1 /\ mainPc = "announce"
        /\ task = Begin(1)
        /\ m = "nobody" /\ waiting = {}
        /\ event = FALSE

\* The task takes the mutex, and cv.wait releases it.
WaitBlindly(t) == /\ block = 1 /\ task[t] = "begin" /\ m = "nobody"
                  /\ task' = [task EXCEPT ![t] = "wait"]
                  /\ waiting' = waiting \cup {t}
                  /\ UNCHANGED <<block, mainPc, m, event>>

\* The wait without a predicate returns for whatever reason it was woken.
ReturnBlindly(t) == /\ block = 1 /\ task[t] = "wait" /\ t \notin waiting /\ m = "nobody"
                    /\ task' = [task EXCEPT ![t] = "done"]
                    /\ UNCHANGED <<block, mainPc, m, waiting, event>>

\* while(!flag), or a wait for the promise's future
SeeEvent(t) == /\ block \notin {1, 3} /\ task[t] = "begin" /\ event
               /\ task' = [task EXCEPT ![t] = "done"]
               /\ UNCHANGED <<block, mainPc, m, waiting, event>>

\* A faulty variant: the predicate is evaluated before the first wait only.
WaitForFlagOnce(t) ==
    /\ block = 3 /\ m = "nobody"
    /\ \/ task[t] = "begin" /\ ~event
          /\ task' = [task EXCEPT ![t] = "wait"] /\ waiting' = waiting \cup {t}
       \/ /\ (task[t] = "begin" /\ event) \/ (task[t] = "wait" /\ t \notin waiting)
          /\ task' = [task EXCEPT ![t] = "done"] /\ UNCHANGED waiting
    /\ UNCHANGED <<block, mainPc, m, event>>

\* cv.wait(lk, [](){return flag1;}): the predicate before every wait
WaitForFlag(t) ==
    /\ block = 3 /\ m = "nobody"
    /\ task[t] = "begin" \/ (task[t] = "wait" /\ t \notin waiting)
    /\ IF event
       THEN task' = [task EXCEPT ![t] = "done"] /\ UNCHANGED waiting
       ELSE task' = [task EXCEPT ![t] = "wait"] /\ waiting' = waiting \cup {t}
    /\ UNCHANGED <<block, mainPc, m, event>>

NotifyOne == IF waiting = {} THEN UNCHANGED waiting
                             ELSE \E t \in waiting : waiting' = waiting \ {t}

\* Block 1: cv.notify_one() and nothing else
Notify == /\ block = 1 /\ mainPc = "announce"
          /\ mainPc' = "join"
          /\ NotifyOne
          /\ UNCHANGED <<block, task, m, event>>

\* flag = true, set_value()
SetEvent == /\ block \notin {1, 3} /\ mainPc = "announce"
            /\ mainPc' = "join"
            /\ event' = TRUE
            /\ UNCHANGED <<block, task, m, waiting>>

\* Block 3: std::lock_guard<std::mutex> g(m), flag1 = true
SetFlag == /\ block = 3 /\ mainPc = "announce" /\ m = "nobody"
           /\ mainPc' = "notify"
           /\ m' = "main"
           /\ event' = TRUE
           /\ UNCHANGED <<block, task, waiting>>

NotifyLocked == /\ mainPc = "notify"
                /\ mainPc' = "unlock"
                /\ NotifyOne
                /\ UNCHANGED <<block, task, m, event>>

\* A faulty variant: g is declared before the future and so outlives it.
UnlockAfterJoin == /\ mainPc = "unlock"
                   /\ \A t \in Running(block) : task[t] = "done"
                   /\ mainPc' = "join"
                   /\ m' = "nobody"
                   /\ UNCHANGED <<block, task, waiting, event>>

\* g, declared after the future, is destroyed before it.
Unlock == /\ mainPc = "unlock"
          /\ mainPc' = "join"
          /\ m' = "nobody"
          /\ UNCHANGED <<block, task, waiting, event>>

\* The destructor of the future or the ThreadRAII has joined the tasks.
Join == /\ mainPc = "join"
        /\ \A t \in Running(block) : task[t] = "done"
        /\ block' = block + 1
        /\ mainPc' = IF block = 6 THEN "ended" ELSE "announce"
        /\ task' = Begin(block')
        /\ event' = FALSE
        /\ UNCHANGED <<m, waiting>>

MainStep == Notify \/ SetEvent \/ SetFlag \/ NotifyLocked \/ Unlock \/ Join
TaskStep(t) == WaitBlindly(t) \/ ReturnBlindly(t) \/ SeeEvent(t) \/ WaitForFlag(t)
SpuriousWakeup == /\ \E t \in waiting : waiting' = waiting \ {t}
                  /\ UNCHANGED <<block, mainPc, task, m, event>>

Ended == mainPc = "ended"

\* The loss that the program's heading announces ("code smell: wait forever"):
\* the notification of block 1 came before the wait.
LostInBlock1 == block = 1 /\ mainPc = "join" /\ waiting # {}

\* With a flag or a future no task goes on before its event.
ReactsAfterEvent == block \in 2 .. 6 =>
                        \A t \in Running(block) : task[t] = "done" => event

-----------------------------------------------------------------------------
LatchInit == /\ pc = [t \in Threads |-> "count_down"]
             /\ main = "wait"
             /\ count = Cardinality(Threads)
             /\ asleep = FALSE

\* count_down()
CountDown(t) == /\ pc[t] = "count_down"
                /\ pc' = [pc EXCEPT ![t] = "done"]
                /\ count' = IF count > 0 THEN count - 1 ELSE count
                /\ asleep' = (asleep /\ count' # 0)
                /\ UNCHANGED main

\* A faulty variant: wait() lets main go on with one thread still to come.
WaitForCountShort == /\ main = "wait" /\ ~asleep
                     /\ IF count <= 1 THEN main' = "join" /\ UNCHANGED asleep
                                      ELSE asleep' = TRUE /\ UNCHANGED main
                     /\ UNCHANGED <<pc, count>>

\* main evaluates the predicate of wait(), at first or when it has been woken.
WaitForCount == /\ main = "wait" /\ ~asleep
                /\ IF count = 0 THEN main' = "join" /\ UNCHANGED asleep
                                ELSE asleep' = TRUE /\ UNCHANGED main
                /\ UNCHANGED <<pc, count>>

LatchWakeup == asleep /\ asleep' = FALSE /\ UNCHANGED <<pc, main, count>>

JoinWorkers == /\ main = "join" /\ \A t \in Threads : pc[t] = "done"
               /\ main' = "end"
               /\ UNCHANGED <<pc, count, asleep>>

LatchMainStep == WaitForCount \/ JoinWorkers

\* main goes on only when every work_thread has counted down.
NoEarlyRelease == main # "wait" => \A t \in Threads : pc[t] = "done"
=============================================================================
