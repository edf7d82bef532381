------------------------------- MODULE TestLock -------------------------------
(***************************************************************************)
(* main of lockfree/test_lock.cpp: the program of TicketLock, first        *)
(* with a ticketlock (the module extended here) and then with a spinlock,  *)
(* lockfree/spinlock.h (the class of cppreference's spinlock.cpp, too).  A *)
(* test_and_set that finds the flag set leaves everything as it was and is *)
(* a stutter.  Each call of test_lock has a lock of its own and leaves     *)
(* data at 0 for the next.  The invariants of TicketLock are stated with   *)
(* the client's variables and are checked for both locks.                  *)
(***************************************************************************)
EXTENDS TicketLock

VARIABLES mutexType,    \* the Mutex of the current call
          flag          \* flag_ of the spinlock

mainVars == <<vars, mutexType, flag>>

MainInit == mutexType = "ticketlock" /\ Init /\ flag = FALSE

\* spinlock::lock(): the test_and_set that returns false
SpinLock(t) == /\ ~flag
               /\ flag' = TRUE
               /\ Goto(t, "take", "load")
               /\ UNCHANGED <<i, tmp, data, main>>

\* A faulty variant: the flag stays set.
SpinUnlockForgets(t) == NextIteration(t, "unlock", "take") /\ UNCHANGED <<tmp, data, main, flag>>

\* spinlock::unlock(): flag_.clear()
SpinUnlock(t) == /\ NextIteration(t, "unlock", "take")
                 /\ flag' = FALSE
                 /\ UNCHANGED <<tmp, data, main>>

SpinStep(t) == \/ SpinLock(t)
               \/ LoadData(t) /\ UNCHANGED flag
               \/ StoreData(t) /\ UNCHANGED flag
               \/ SpinUnlock(t)

WorkerStep(t) == /\ \/ mutexType = "ticketlock" /\ Step(t) /\ UNCHANGED flag
                    \/ mutexType = "spinlock" /\ SpinStep(t) /\ UNCHANGED lockVars
                 /\ UNCHANGED mutexType

JoinAll == Join /\ UNCHANGED <<mutexType, lockVars, flag>>

\* test_lock<ticketlock>() has returned; test_lock<spinlock>() is called.
NextType == /\ main = "passed" /\ mutexType = "ticketlock"
            /\ mutexType' = "spinlock"
            /\ pc' = [t \in Threads |-> "take"]
            /\ i' = [t \in Threads |-> 0]
            /\ tmp' = [t \in Threads |-> 0]
            /\ main' = "waiting"
            /\ UNCHANGED <<data, lockVars, flag>>

Finished == main = "passed" /\ mutexType = "spinlock"

MainNext == \/ \E t \in Threads : WorkerStep(t)
            \/ JoinAll
            \/ NextType
            \/ Finished /\ UNCHANGED mainVars

MainSpec == MainInit /\ [][MainNext]_mainVars

\* The scheduler runs main and every worker that can take a step.  Weak fairness
\* does not keep a worker from always testing the spinlock's flag while another
\* one holds it, and the code promises no more; the loops are finite, so the
\* others run out of iterations.
FairSpec == /\ MainSpec
            /\ \A t \in Threads : WF_mainVars(WorkerStep(t))
            /\ WF_mainVars(JoinAll) /\ WF_mainVars(NextType)

-----------------------------------------------------------------------------
\* main comes to "All tests passed.": no worker waits for its turn for ever.
MainEnds == <>Finished

WhileTicket(S) == IF mutexType = "ticketlock" THEN S ELSE {}
TicketFifo == INSTANCE FifoMutex WITH waiting <- WhileTicket(Spinning),
                                      before <- WhileTicket(Order),
                                      owner <- WhileTicket({t \in Threads : Holding(t)})

\* The comments on the copies of ticketlock (atomic/rwlock.cpp:16,
\* atomic_int.cpp:15): the lock is granted in the order of the fetch_adds and
\* nobody starves, also across the wrap of the counters.
ImplementsFifoMutex == TicketFifo!FairSpec
=============================================================================
