------------------------------ MODULE CasRWLock ------------------------------
(***************************************************************************)
(* lockfree/rwlock.h (rte_rwlock.h is the same algorithm in C), driven by  *)
(* the program of lockfree/test_rwlock.cpp.                                *)
(*                                                                         *)
(* The program: writers assign one of the two strings of `strs` to the     *)
(* shared std::string `data`, readers copy it and assert that the copy is  *)
(* one of the two.  A string assignment and a string copy are not atomic:  *)
(* `data` has two halves here, written and read one after the other.       *)
(*                                                                         *)
(* The lock: readers_ is -1 for a writer, else the number of readers.      *)
(* Both lock operations load it, try again while the value bars them, and  *)
(* compare_exchange_weak on the loaded value.  A load that bars the caller *)
(* changes only the dead local `expected` and is a stutter.                *)
(*                                                                         *)
(* pc: "lock" about to load readers_, "cas" about to compare and exchange, *)
(*     then the client's steps, "unlock" about to run unlock[_shared]().   *)
(***************************************************************************)
EXTENDS Integers, FiniteSets

CONSTANTS Readers, Writers,     \* the read_threads and the write_threads
          Loops                 \* LOOPS

ASSUME RWAssumption == /\ IsFiniteSet(Readers)
                       /\ Readers \cap Writers = {}
                       /\ Loops \in Nat \ {0}

Threads == Readers \cup Writers

VARIABLES pc, i,        \* next step and loop counter of each thread
          s,            \* the local string of each reader
          data          \* the shared string

clientVars == <<pc, i, s, data>>

Goto(t, from, to) == pc[t] = from /\ pc' = [pc EXCEPT ![t] = to]

ClientInit == /\ pc = [t \in Threads |-> "lock"]
              /\ i = [t \in Threads |-> 0]
              /\ s = [r \in Readers |-> [h \in 1..2 |-> 0]]
              /\ data = [h \in 1..2 |-> 0]

\* s = data
CopyHalf(r, h, from, to) == /\ Goto(r, from, to)
                            /\ s' = [s EXCEPT ![r][h] = data[h]]
                            /\ UNCHANGED <<i, data>>
CopyFirst(r) == CopyHalf(r, 1, "copy1", "copy2")
CopySecond(r) == CopyHalf(r, 2, "copy2", "unlock")

\* data = strs[i % 2]
AssignHalf(w, h, from, to) == /\ Goto(w, from, to)
                              /\ data' = [data EXCEPT ![h] = i[w] % 2]
                              /\ UNCHANGED <<i, s>>
AssignFirst(w) == AssignHalf(w, 1, "assign1", "assign2")
AssignSecond(w) == AssignHalf(w, 2, "assign2", "unlock")

\* The end of an iteration: the guard's destructor has run the unlock.
NextIteration(t) == /\ i' = [i EXCEPT ![t] = @ + 1]
                    /\ Goto(t, "unlock", IF i[t] + 1 < Loops THEN "lock" ELSE "done")
                    /\ UNCHANGED <<s, data>>

\* All futures have been waited for.
AllDone == \A t \in Threads : pc[t] = "done"
Terminated == AllDone /\ UNCHANGED clientVars

ReadersInside == {r \in Readers : pc[r] \in {"copy1", "copy2", "unlock"}}
WritersInside == {w \in Writers : pc[w] \in {"assign1", "assign2", "unlock"}}

\* test_rwlock.cpp:69 asserts that a reader's copy is one of the two strings: no
\* reader ever has halves of different assignments.
NoTornCopy == \A r \in Readers : pc[r] = "unlock" => s[r][1] = s[r][2]

\* A reader that is inside the lock sees the shared string frozen: no step changes
\* data while anybody reads.
FrozenWhileRead == [][ReadersInside # {} => UNCHANGED data]_clientVars

\* test_rwlock() returns: the lock lets all threads through all their iterations.
AllThreadsEnd == <>AllDone

-----------------------------------------------------------------------------
\* The lock
VARIABLES readers,      \* readers_
          expected      \* the local expected of each lock operation

lockVars == <<readers, expected>>
vars == <<clientVars, lockVars>>

Init == /\ ClientInit
        /\ readers = 0
        /\ expected = [t \in Threads |-> 0]

LoadReaders(t) == /\ expected' = [expected EXCEPT ![t] = readers]
                  /\ Goto(t, "lock", "cas")
                  /\ UNCHANGED <<i, s, data, readers>>

\* compare_exchange_weak fails: another value, or spuriously
CasFails(t) == /\ Goto(t, "cas", "lock")
               /\ expected' = [expected EXCEPT ![t] = readers]
               /\ UNCHANGED <<i, s, data, readers>>

\* compare_exchange_weak succeeds and stores `new`
CasSucceeds(t, new, to) == /\ readers = expected[t]
                           /\ readers' = new
                           /\ Goto(t, "cas", to)
                           /\ UNCHANGED <<i, s, data, expected>>

\* A faulty variant: a writer only looks for other writers.
LoadToLockIgnoringReaders(w) == readers >= 0 /\ LoadReaders(w)

\* lock(): the load that finds nobody inside, and the exchange 0 -> -1
LoadToLock(w) == readers = 0 /\ LoadReaders(w)
Lock(w) == CasSucceeds(w, -1, "assign1")

\* A faulty variant: the bar of lock() is lifted one value too far down.
LoadToLockSharedUnguarded(r) == LoadReaders(r)

\* lock_shared(): the load that finds no writer, and the exchange n -> n + 1
LoadToLockShared(r) == readers >= 0 /\ LoadReaders(r)

\* A faulty variant: the sum is stored without comparing.
LockSharedBlind(r) == /\ readers' = expected[r] + 1
                      /\ Goto(r, "cas", "copy1")
                      /\ UNCHANGED <<i, s, data, expected>>
LockShared(r) == CasSucceeds(r, expected[r] + 1, "copy1")

\* A faulty variant: unlock() subtracts like unlock_shared().
UnlockSubtracts(w) == /\ NextIteration(w)
                      /\ readers' = readers - 1
                      /\ UNCHANGED expected

\* unlock(): readers_.store(0)
Unlock(w) == /\ NextIteration(w)
             /\ readers' = 0
             /\ UNCHANGED expected

\* unlock_shared(): readers_.fetch_sub(1)
UnlockShared(r) == /\ NextIteration(r)
                   /\ readers' = readers - 1
                   /\ UNCHANGED expected

ReaderStep(r) == \/ LoadToLockShared(r) \/ LockShared(r) \/ CasFails(r)
                 \/ (CopyFirst(r) \/ CopySecond(r)) /\ UNCHANGED lockVars
                 \/ UnlockShared(r)

WriterStep(w) == \/ LoadToLock(w) \/ Lock(w) \/ CasFails(w)
                 \/ (AssignFirst(w) \/ AssignSecond(w)) /\ UNCHANGED lockVars
                 \/ Unlock(w)

Next == \/ \E r \in Readers : ReaderStep(r)
        \/ \E w \in Writers : WriterStep(w)
        \/ Terminated /\ UNCHANGED lockVars

Spec == Init /\ [][Next]_vars

\* Every thread runs, and a weak exchange does not fail spuriously for ever.
FairSpec == /\ Spec
            /\ \A r \in Readers : WF_vars(ReaderStep(r)) /\ SF_vars(LockShared(r))
            /\ \A w \in Writers : WF_vars(WriterStep(w)) /\ SF_vars(Lock(w))

-----------------------------------------------------------------------------
TypeOK == /\ pc \in [Threads -> {"lock", "cas", "copy1", "copy2", "assign1", "assign2",
                                 "unlock", "done"}]
          /\ i \in [Threads -> Nat]
          /\ s \in [Readers -> [1..2 -> {0, 1}]]
          /\ data \in [1..2 -> {0, 1}]
          /\ readers \in Int /\ readers >= -1
          /\ expected \in [Threads -> Int]

\* rte_rwlock.h:17 and rwlock.h's comments: the word is -1 while the write lock is
\* held, and else it counts the readers.
WordCountsHolders ==
    \/ readers = -1 /\ ReadersInside = {} /\ Cardinality(WritersInside) = 1
    \/ readers = Cardinality(ReadersInside) /\ WritersInside = {}

RW == INSTANCE RWMutex WITH reading <- ReadersInside, writing <- WritersInside

\* rwlock is a reader/writer lock: threads enter and leave as RWMutex allows.
ImplementsRWMutex == RW!Spec
=============================================================================
