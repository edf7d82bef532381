------------------------------ MODULE CvRWLock -------------------------------
(***************************************************************************)
(* rwlock<M> of condition_variable/cv_rwlock.cpp: a counter and one        *)
(* condition variable under a mutex, in the benchmark RWBench.             *)
(*                                                                         *)
(* A block under mutex_ touches nothing that is used outside the mutex, so *)
(* it is one step; the notification that follows the block is a step of    *)
(* its own.  A thread that finds its predicate false joins `waiters`; one  *)
(* that has been removed from `waiters`, by a notification or spuriously,  *)
(* evaluates the predicate again when it gets the mutex.                   *)
(***************************************************************************)
EXTENDS RWBench

VARIABLES readers,      \* readers_
          waiters       \* the threads blocked in read_queue_.wait

vars == <<benchVars, readers, waiters>>

Init == BenchInit /\ readers = 0 /\ waiters = {}

\* t holds the mutex and evaluates the predicate of its wait.
Runnable(t) == pc[t] = "lock" \/ (pc[t] = "wait" /\ t \notin waiters)
EnterInside(t) == pc' = [pc EXCEPT ![t] = "inside"] /\ UNCHANGED <<number, waiters>>
Block(t) == /\ pc' = [pc EXCEPT ![t] = "wait"]
            /\ waiters' = waiters \cup {t}
            /\ UNCHANGED <<number, readers>>

Lock(w) == /\ Runnable(w)
           /\ \/ readers = 0 /\ readers' = -1 /\ EnterInside(w)
              \/ readers # 0 /\ Block(w)

\* A faulty variant: the predicate of lock() in lock_shared().
LockSharedBarring(r) == /\ Runnable(r)
                        /\ \/ readers \in {0, -1} /\ readers' = readers + 1 /\ EnterInside(r)
                           \/ readers > 0 /\ Block(r)

LockShared(r) == /\ Runnable(r)
                 /\ \/ readers >= 0 /\ readers' = readers + 1 /\ EnterInside(r)
                    \/ readers < 0 /\ Block(r)

Unlock(w) == /\ Goto(w, "inside", "notify_all")
             /\ readers' = 0
             /\ UNCHANGED <<number, waiters>>

\* A faulty variant: the count before the decrement is compared with 0.
UnlockSharedSilent(r) == /\ Goto(r, "inside", IF readers = 0 THEN "notify_one" ELSE "left")
                         /\ readers' = readers - 1
                         /\ UNCHANGED <<number, waiters>>

UnlockShared(r) == /\ Goto(r, "inside", IF readers = 1 THEN "notify_one" ELSE "left")
                   /\ readers' = readers - 1
                   /\ UNCHANGED <<number, waiters>>

NotifyAll(t) == /\ Goto(t, "notify_all", "left")
                /\ waiters' = {}
                /\ UNCHANGED <<number, readers>>

NotifyOne(t) == /\ Goto(t, "notify_one", "left")
                /\ \/ waiters = {} /\ UNCHANGED waiters
                   \/ \E u \in waiters : waiters' = waiters \ {u}
                /\ UNCHANGED <<number, readers>>

\* condition_variable::wait may return unasked.
SpuriousWakeup == /\ \E u \in waiters : waiters' = waiters \ {u}
                  /\ UNCHANGED <<benchVars, readers>>

Step(t) == \/ BenchStep(t) /\ UNCHANGED <<readers, waiters>>
           \/ t \in Writers /\ (Lock(t) \/ Unlock(t))
           \/ t \in Readers /\ (LockShared(t) \/ UnlockShared(t))
           \/ NotifyAll(t) \/ NotifyOne(t)

Next == \/ \E t \in Threads : Step(t)
        \/ SpuriousWakeup
        \/ Terminated /\ UNCHANGED <<readers, waiters>>

Spec == Init /\ [][Next]_vars

-----------------------------------------------------------------------------
\* readers_ tells who is inside, and no wake-up is lost: whoever waits for a
\* condition that holds has a notification on its way.
NoLostWakeup ==
    /\ readers = IF WritersInside # {} THEN -1 ELSE Cardinality(ReadersInside)
    /\ readers = 0 /\ waiters # {} =>
          \/ \E t \in Threads : pc[t] \in {"notify_all", "notify_one"}
          \/ \E t \in Threads : pc[t] = "wait" /\ t \notin waiters
=============================================================================
