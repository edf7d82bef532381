----------------------------- MODULE RWBenchMain ------------------------------
(***************************************************************************)
(* Two programs that run the benchmark RWBench with one lock after         *)
(* another, number_reading being reset in between; the behaviour chooses   *)
(* the program at the start.                                               *)
(*                                                                         *)
(* "cv" is condition_variable/cv_rwlock.cpp.  Two of its seven locks are   *)
(* followed, rwlock (which rwlock<ticketlock> is too: the parameter is not *)
(* used) and rwlock_write_first.  atomic_rwlock has a specification of its *)
(* own in WordRWLock; the rest are locks of the system.                    *)
(*                                                                         *)
(* "atomic" is atomic/rwlock.cpp with its rwlock and its ticketlock; its   *)
(* third lock is std::mutex.                                               *)
(***************************************************************************)
EXTENDS RWBench

CONSTANT Mod                                    \* values of the ticket counters

ASSUME ModAssumption == Mod \in Nat /\ Cardinality(Threads) < Mod

VARIABLES program, lock,                        \* the program, the lock of its round
          readers, waiters,                     \* of mutex1, an rwlock
          readers2, entered, readQ, writeQ,     \* of mutex2, an rwlock_write_first
          count, expected,                      \* of mutex, an rwlock of "atomic"
          turn, ticket, me                      \* of mutex1, its ticketlock

CvLock == INSTANCE CvRWLock
WriteFirst == INSTANCE WriteFirstRWLock WITH readers <- readers2
Word == INSTANCE WordRWLock

cvVars == <<readers, waiters>>
writeFirstVars == <<readers2, entered, readQ, writeQ>>
wordVars == <<count, expected>>
ticketVars == <<turn, ticket, me>>
vars == <<benchVars, program, lock, cvVars, writeFirstVars, wordVars, ticketVars>>

Init == /\ \/ program = "cv" /\ lock = "rwlock"
           \/ program = "atomic" /\ lock = "word"
        /\ CvLock!Init /\ WriteFirst!Init /\ Word!WordInit /\ Word!TicketInit

Step(t) == /\ \/ /\ lock = "rwlock" /\ CvLock!Step(t)
                 /\ UNCHANGED <<writeFirstVars, wordVars, ticketVars>>
              \/ /\ lock = "rwlock_write_first" /\ WriteFirst!Step(t)
                 /\ UNCHANGED <<cvVars, wordVars, ticketVars>>
              \/ /\ lock = "word" /\ Word!WordStep(t)
                 /\ UNCHANGED <<cvVars, writeFirstVars, ticketVars>>
              \/ /\ lock = "ticketlock" /\ Word!TicketStep(t)
                 /\ UNCHANGED <<cvVars, writeFirstVars, wordVars>>
           /\ UNCHANGED <<program, lock>>

CasSucceeds(t) == /\ lock = "word" /\ Word!CasSucceeds(t)
                  /\ UNCHANGED <<program, lock, cvVars, writeFirstVars, ticketVars>>

SpuriousWakeup ==
    /\ \/ CvLock!SpuriousWakeup /\ UNCHANGED writeFirstVars
       \/ WriteFirst!SpuriousWakeup /\ UNCHANGED cvVars
    /\ UNCHANGED <<program, lock, wordVars, ticketVars>>

\* All the futures are ready: number_reading.store(0), and the next lock
NextLock == /\ AllDone
            /\ \/ lock = "rwlock" /\ lock' = "rwlock_write_first"
               \/ lock = "word" /\ lock' = "ticketlock"
            /\ pc' = [t \in Threads |-> "test"]
            /\ number' = 0
            /\ UNCHANGED <<program, cvVars, writeFirstVars, wordVars, ticketVars>>

Finished == AllDone /\ lock \in {"rwlock_write_first", "ticketlock"}

Next == \/ \E t \in Threads : Step(t)
        \/ SpuriousWakeup
        \/ NextLock
        \/ Finished /\ UNCHANGED vars

Spec == Init /\ [][Next]_vars

\* Every thread runs, and main goes on when its futures are ready.  A thread that
\* gets to its compare_exchange again and again while it could succeed succeeds
\* at last.  Nothing is assumed of spurious wake-ups: a thread that nobody
\* notifies may sleep for ever.
FairSpec == /\ Spec
            /\ \A t \in Threads : WF_vars(Step(t)) /\ SF_vars(CasSucceeds(t))
            /\ WF_vars(NextLock)

-----------------------------------------------------------------------------
\* readers_ and the wait set of rwlock agree with who is inside and who waits, and
\* rwlock_write_first wakes its writer, and all who wait for the writer.
NoLostWakeup == /\ lock = "rwlock" => CvLock!NoLostWakeup
                /\ lock = "rwlock_write_first" => WriteFirst!SleepersAreWoken

\* The writers that wait in lock() of rwlock_write_first for readers to leave
Draining == {w \in Writers : pc[w] = "drain"}

\* The name's promise: while a writer waits for the readers inside to leave, asleep,
\* notified or woken for nothing, nobody overtakes it.  The readers inside only get
\* fewer, and the next to get in is this writer and no other.
WritersFirst == [][lock = "rwlock_write_first" /\ Draining # {} =>
                       /\ ReadersInside' \subseteq ReadersInside
                       /\ WritersInside' \subseteq Draining]_vars

\* Every fut.get() of main returns and main ends, unless a writer keeps coming
\* back for ever: while number_reading stands at a multiple of PER_NUMBER the
\* writer loops through the lock, and nothing makes it let a reader in between
\* (the class comment at cv_rwlock.cpp:55 admits a starvation, of the writers).
\* No thread stays blocked in a lock nobody is using, and no stream of readers
\* starves a writer of rwlock_write_first that waits for them to leave.
MainEnds == /\ <>Finished \/ []<>(WritersInside # {})
            /\ Draining # {} ~> WritersInside # {}
=============================================================================
