-------------------------- MODULE WriteFirstRWLock ---------------------------
(***************************************************************************)
(* rwlock_write_first of condition_variable/cv_rwlock.cpp, in the          *)
(* benchmark RWBench: a writer announces itself in writer_entered_ and     *)
(* then waits for the readers inside to leave.  Steps as in CvRWLock.      *)
(* pc: "wait"    in write_queue_.wait (readers, and writers at first)      *)
(*     "drain"   announced, in read_queue_.wait                            *)
(***************************************************************************)
EXTENDS RWBench

VARIABLES readers,      \* readers_
          entered,      \* writer_entered_
          readQ,        \* the threads blocked in read_queue_.wait
          writeQ        \* the threads blocked in write_queue_.wait

lockVars == <<readers, entered, readQ, writeQ>>
vars == <<benchVars, lockVars>>

Init == BenchInit /\ readers = 0 /\ entered = FALSE /\ readQ = {} /\ writeQ = {}

\* t holds the mutex and evaluates the predicate of write_queue_.wait.
Runnable(t) == pc[t] = "lock" \/ (pc[t] = "wait" /\ t \notin writeQ)
BlockOnWriteQ(t) == /\ entered
                    /\ pc' = [pc EXCEPT ![t] = "wait"]
                    /\ writeQ' = writeQ \cup {t}
                    /\ UNCHANGED <<number, readers, entered, readQ>>

\* A faulty variant: the writer does not announce itself before it waits.
AnnounceLate(w) == /\ Runnable(w)
                   /\ ~entered
                   /\ \/ readers = 0 /\ pc' = [pc EXCEPT ![w] = "inside"] /\ entered' = TRUE
                         /\ UNCHANGED readQ
                      \/ readers # 0 /\ pc' = [pc EXCEPT ![w] = "drain"] /\ readQ' = readQ \cup {w}
                         /\ UNCHANGED entered
                   /\ UNCHANGED <<number, readers, writeQ>>

\* lock(): writer_entered_ = true, and then in, or into read_queue_.wait.
Announce(w) == /\ Runnable(w)
               /\ ~entered
               /\ entered' = TRUE
               /\ \/ readers = 0 /\ pc' = [pc EXCEPT ![w] = "inside"] /\ UNCHANGED readQ
                  \/ readers # 0 /\ pc' = [pc EXCEPT ![w] = "drain"] /\ readQ' = readQ \cup {w}
               /\ UNCHANGED <<number, readers, writeQ>>

\* lock(): awake in read_queue_.wait
Drained(w) == /\ pc[w] = "drain" /\ w \notin readQ
              /\ \/ readers = 0 /\ pc' = [pc EXCEPT ![w] = "inside"] /\ UNCHANGED readQ
                 \/ readers # 0 /\ readQ' = readQ \cup {w} /\ UNCHANGED pc
              /\ UNCHANGED <<number, readers, entered, writeQ>>

LockShared(r) == /\ Runnable(r)
                 /\ ~entered
                 /\ readers' = readers + 1
                 /\ pc' = [pc EXCEPT ![r] = "inside"]
                 /\ UNCHANGED <<number, entered, readQ, writeQ>>

Unlock(w) == /\ Goto(w, "inside", "notify_all")
             /\ entered' = FALSE
             /\ UNCHANGED <<number, readers, readQ, writeQ>>

\* unlock(): write_queue_.notify_all()
NotifyAll(w) == /\ Goto(w, "notify_all", "left")
                /\ writeQ' = {}
                /\ UNCHANGED <<number, readers, entered, readQ>>

\* A faulty variant: the decision to notify is inverted for the last reader.
UnlockSharedSilent(r) == /\ Goto(r, "inside", IF entered /\ readers > 1
                                              THEN "notify_one" ELSE "left")
                         /\ readers' = readers - 1
                         /\ UNCHANGED <<number, entered, readQ, writeQ>>

\* unlock_shared(): what the block read decides about the notification after it.
UnlockShared(r) == /\ Goto(r, "inside", IF entered /\ readers = 1
                                        THEN "notify_one" ELSE "left")
                   /\ readers' = readers - 1
                   /\ UNCHANGED <<number, entered, readQ, writeQ>>

\* unlock_shared(): read_queue_.notify_one()
NotifyOne(r) == /\ Goto(r, "notify_one", "left")
                /\ \/ readQ = {} /\ UNCHANGED readQ
                   \/ \E u \in readQ : readQ' = readQ \ {u}
                /\ UNCHANGED <<number, readers, entered, writeQ>>

SpuriousWakeup == /\ \/ \E u \in readQ : readQ' = readQ \ {u} /\ UNCHANGED writeQ
                     \/ \E u \in writeQ : writeQ' = writeQ \ {u} /\ UNCHANGED readQ
                  /\ UNCHANGED <<benchVars, readers, entered>>

Step(t) == \/ BenchStep(t) /\ UNCHANGED lockVars
           \/ Runnable(t) /\ BlockOnWriteQ(t)
           \/ t \in Writers /\ (Announce(t) \/ Drained(t) \/ Unlock(t) \/ NotifyAll(t))
           \/ t \in Readers /\ (LockShared(t) \/ UnlockShared(t) \/ NotifyOne(t))

Next == \/ \E t \in Threads : Step(t)
        \/ SpuriousWakeup
        \/ Terminated /\ UNCHANGED lockVars

Spec == Init /\ [][Next]_vars

-----------------------------------------------------------------------------
\* At most one writer has announced itself, and when the readers it waits for
\* are gone a notification reaches it.  Whoever is blocked in write_queue_.wait
\* waits for a writer to leave, or for one that has left to notify.
SleepersAreWoken ==
    /\ Cardinality({w \in Writers : pc[w] \in {"drain", "inside"}}) <= 1
    /\ \A w \in readQ : readers = 0 => \E r \in Readers : pc[r] = "notify_one"
    /\ writeQ = {} \/ entered \/ \E w \in Writers : pc[w] = "notify_all"
=============================================================================
