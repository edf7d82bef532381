------------------------------- MODULE RWBench -------------------------------
(***************************************************************************)
(* The benchmark of condition_variable/cv_rwlock.cpp without its locks.    *)
(* Readers lock_shared, copy and unlock_shared until number_reading        *)
(* reaches MAX_NUMBER; the writer runs until then too and writes whenever  *)
(* it sees a multiple of PER_NUMBER.  The program has one writer (id 0);   *)
(* the lock classes allow several, so Writers is a set.  The lock modules  *)
(* that extend this one supply the steps between "lock" and "inside" and   *)
(* between "inside" and "left".                                            *)
(***************************************************************************)
EXTENDS Integers, FiniteSets

CONSTANTS Readers, Writers,
          MaxNumber, PerNumber  \* MAX_NUMBER and PER_NUMBER

ASSUME BenchAssumption == /\ Readers \cap Writers = {}
                          /\ IsFiniteSet(Readers) /\ IsFiniteSet(Writers)
                          /\ MaxNumber \in Nat \ {0}
                          /\ PerNumber \in Nat \ {0}

Threads == Readers \cup Writers

VARIABLES pc,           \* next step of each thread
          number        \* number_reading

benchVars == <<pc, number>>

Goto(t, from, to) == pc[t] = from /\ pc' = [pc EXCEPT ![t] = to]

BenchInit == pc = [t \in Threads |-> "test"] /\ number = 0

\* while(number_reading.load() < MAX_NUMBER)
TestReading(t) == /\ Goto(t, "test", IF number >= MaxNumber THEN "done"
                                     ELSE IF t \in Readers THEN "lock" ELSE "turn")
                  /\ UNCHANGED number

\* if(number_reading.load() % PER_NUMBER == 0): a second load
TestTurn(w) == /\ Goto(w, "turn", IF number % PerNumber = 0 THEN "lock" ELSE "test")
               /\ UNCHANGED number

\* After the guard's scope: number_reading.fetch_add(1), readers only.
Count(t) == /\ Goto(t, "left", "test")
            /\ number' = IF t \in Readers THEN number + 1 ELSE number

BenchStep(t) == TestReading(t) \/ (t \in Writers /\ TestTurn(t)) \/ Count(t)

\* main's loop over fut.get() has ended.
AllDone == \A t \in Threads : pc[t] = "done"
Terminated == AllDone /\ UNCHANGED benchVars

ReadersInside == {r \in Readers : pc[r] = "inside"}
WritersInside == {w \in Writers : pc[w] = "inside"}

-----------------------------------------------------------------------------
RW == INSTANCE RWMutex WITH reading <- ReadersInside, writing <- WritersInside

\* Readers together or one writer alone, entering and leaving one at a time.
ImplementsRWMutex == RW!Spec
=============================================================================
