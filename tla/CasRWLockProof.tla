--------------------------- MODULE CasRWLockProof ----------------------------
(***************************************************************************)
(* Proofs about CasRWLock for any sets of readers and writers and any      *)
(* number of loops.  The argument: the word tells who is inside, the value *)
(* a thread compares with is one that admits it, and so an exchange        *)
(* succeeds only in a state that RWMutex allows it in.                     *)
(***************************************************************************)
EXTENDS CasRWLock, FiniteSetTheorems, TLAPS

WordTells ==
    \/ readers = -1 /\ ReadersInside = {} /\ \E w \in Writers : WritersInside = {w}
    \/ readers = Cardinality(ReadersInside) /\ WritersInside = {}

ExpectedAdmits ==
    /\ \A r \in Readers : pc[r] = "cas" => expected[r] >= 0
    /\ \A w \in Writers : pc[w] = "cas" => expected[w] = 0

\* The two halves of data differ only while a writer is between them, and a
\* reader's first half is current until it copies the second.
Halves ==
    /\ (\A w \in Writers : pc[w] # "assign2") => data[1] = data[2]
    /\ \A w \in Writers : pc[w] = "assign2" => data[1] = i[w] % 2
    /\ \A r \in Readers : pc[r] = "copy2" => s[r][1] = data[1]
    /\ NoTornCopy

IInv == TypeOK /\ WordTells /\ ExpectedAdmits /\ Halves

USE RWAssumption

LEMMA InsideFinite == /\ IsFiniteSet(ReadersInside)
                      /\ Cardinality(ReadersInside) \in Nat
                      /\ (Cardinality(ReadersInside) = 0 <=> ReadersInside = {})
  BY FS_Subset, FS_CardinalityType, FS_EmptySet DEF ReadersInside

LEMMA InitIInv == Init => IInv
<1> SUFFICES ASSUME Init PROVE IInv
  OBVIOUS
<1>1. ReadersInside = {} /\ WritersInside = {}
  BY DEF Init, ClientInit, ReadersInside, WritersInside, Threads
<1> QED
  BY <1>1, FS_EmptySet DEF Init, ClientInit, IInv, TypeOK, WordTells, ExpectedAdmits,
                           Halves, NoTornCopy, Threads

\* The steps that leave the word and everybody's place in or out of the lock alone.
LEMMA WordUnchanged ==
  ASSUME IInv, readers' = readers, ReadersInside' = ReadersInside,
         WritersInside' = WritersInside
  PROVE  WordTells'
  BY DEF IInv, WordTells

LEMMA LoadIInv ==
  ASSUME IInv, NEW t \in Threads, LoadReaders(t),
         t \in Readers => readers >= 0, t \in Writers => readers = 0
  PROVE  IInv'
<1> USE DEF IInv, LoadReaders, Goto
<1>1. TypeOK'
  BY DEF TypeOK
<1>2. ReadersInside' = ReadersInside /\ WritersInside' = WritersInside
  BY DEF ReadersInside, WritersInside, TypeOK, Threads
<1>3. WordTells'
  BY <1>2, WordUnchanged
<1>4. ExpectedAdmits' /\ Halves'
  BY DEF ExpectedAdmits, Halves, NoTornCopy, TypeOK, Threads
<1> QED
  BY <1>1, <1>3, <1>4

LEMMA CasFailsIInv ==
  ASSUME IInv, NEW t \in Threads, CasFails(t)
  PROVE  IInv'
<1> USE DEF IInv, CasFails, Goto
<1>1. TypeOK'
  BY DEF TypeOK
<1>2. ReadersInside' = ReadersInside /\ WritersInside' = WritersInside
  BY DEF ReadersInside, WritersInside, TypeOK, Threads
<1>3. WordTells'
  BY <1>2, WordUnchanged
<1>4. ExpectedAdmits' /\ Halves'
  BY DEF ExpectedAdmits, Halves, NoTornCopy, TypeOK, Threads
<1> QED
  BY <1>1, <1>3, <1>4

\* A writer's exchange finds 0 in the word: nobody is inside.
LEMMA LockEffect ==
  ASSUME IInv, NEW w \in Writers, Lock(w)
  PROVE  /\ ReadersInside = {} /\ WritersInside = {}
         /\ ReadersInside' = {} /\ WritersInside' = {w}
<1> USE DEF IInv, Lock, CasSucceeds, Goto
<1>1. readers = 0
  BY DEF ExpectedAdmits
<1>2. ReadersInside = {} /\ WritersInside = {}
  BY <1>1, InsideFinite DEF WordTells
<1> QED
  BY <1>2 DEF ReadersInside, WritersInside, TypeOK, Threads

LEMMA LockIInv ==
  ASSUME IInv, NEW w \in Writers, Lock(w)
  PROVE  IInv'
<1> USE DEF IInv, Lock, CasSucceeds, Goto
<1>1. TypeOK'
  BY DEF TypeOK, Threads
<1>2. WordTells'
  BY LockEffect DEF WordTells
<1>3. ExpectedAdmits' /\ Halves'
  BY DEF ExpectedAdmits, Halves, NoTornCopy, TypeOK, Threads
<1> QED
  BY <1>1, <1>2, <1>3

\* A reader's exchange finds a count in the word: no writer is inside.
LEMMA LockSharedEffect ==
  ASSUME IInv, NEW r \in Readers, LockShared(r)
  PROVE  /\ WritersInside = {} /\ WritersInside' = {} /\ r \notin ReadersInside
         /\ ReadersInside' = ReadersInside \cup {r}
         /\ readers = Cardinality(ReadersInside) /\ readers' = readers + 1
<1> USE DEF IInv, LockShared, CasSucceeds, Goto
<1>1. readers >= 0 /\ readers' = readers + 1
  BY DEF ExpectedAdmits
<1>2. WritersInside = {} /\ readers = Cardinality(ReadersInside)
  BY <1>1 DEF WordTells
<1>3. WritersInside' = WritersInside /\ r \notin ReadersInside
      /\ ReadersInside' = ReadersInside \cup {r}
  BY DEF ReadersInside, WritersInside, TypeOK, Threads
<1> QED
  BY <1>1, <1>2, <1>3

LEMMA LockSharedIInv ==
  ASSUME IInv, NEW r \in Readers, LockShared(r)
  PROVE  IInv'
<1> USE DEF IInv, LockShared, CasSucceeds, Goto
<1>1. TypeOK'
  BY DEF TypeOK, Threads
<1>2. Cardinality(ReadersInside') = Cardinality(ReadersInside) + 1
  <2>1. r \notin ReadersInside /\ ReadersInside' = ReadersInside \cup {r}
    BY LockSharedEffect
  <2> QED
    BY <2>1, InsideFinite, FS_AddElement
<1>3. WordTells'
  BY <1>2, LockSharedEffect DEF WordTells
<1>4. ExpectedAdmits' /\ Halves'
  BY DEF ExpectedAdmits, Halves, NoTornCopy, TypeOK, Threads
<1> QED
  BY <1>1, <1>3, <1>4

\* No writer is inside while a reader is.
LEMMA ReaderExcludes ==
  ASSUME IInv, NEW r \in ReadersInside
  PROVE  WritersInside = {} /\ readers = Cardinality(ReadersInside)
  BY DEF IInv, WordTells

LEMMA WriterAlone ==
  ASSUME IInv, NEW w \in WritersInside
  PROVE  WritersInside = {w} /\ ReadersInside = {}
  BY DEF IInv, WordTells

LEMMA CopyFirstIInv ==
  ASSUME IInv, NEW r \in Readers, CopyFirst(r), UNCHANGED lockVars
  PROVE  IInv'
<1> USE DEF IInv, CopyFirst, CopyHalf, Goto, lockVars
<1>1. TypeOK'
  BY DEF TypeOK, Threads
<1>2. ReadersInside' = ReadersInside /\ WritersInside' = WritersInside
  BY DEF ReadersInside, WritersInside, TypeOK, Threads
<1>3. WordTells'
  BY <1>2, WordUnchanged
<1>4. ExpectedAdmits' /\ Halves'
  BY DEF ExpectedAdmits, Halves, NoTornCopy, TypeOK, Threads
<1> QED
  BY <1>1, <1>3, <1>4

LEMMA CopySecondIInv ==
  ASSUME IInv, NEW r \in Readers, CopySecond(r), UNCHANGED lockVars
  PROVE  IInv'
<1> USE DEF IInv, CopySecond, CopyHalf, Goto, lockVars
<1>1. TypeOK'
  BY DEF TypeOK, Threads
<1>2. ReadersInside' = ReadersInside /\ WritersInside' = WritersInside
  BY DEF ReadersInside, WritersInside, TypeOK, Threads
<1>3. WordTells'
  BY <1>2, WordUnchanged
<1>4. ExpectedAdmits'
  BY DEF ExpectedAdmits, TypeOK, Threads
<1>5. Halves'
  \* No writer is inside with r, so the halves of data agree.
  <2>1. WritersInside = {}
    BY ReaderExcludes DEF ReadersInside
  <2>2. data[1] = data[2] /\ s[r][1] = data[1]
    BY <2>1 DEF Halves, WritersInside
  <2> QED
    BY <2>2 DEF Halves, NoTornCopy, TypeOK, Threads
<1> QED
  BY <1>1, <1>3, <1>4, <1>5

\* A writer between its first and its last step inside.
LEMMA AssignIInv ==
  ASSUME IInv, NEW w \in Writers, AssignFirst(w) \/ AssignSecond(w), UNCHANGED lockVars
  PROVE  IInv'
<1> USE DEF IInv, AssignFirst, AssignSecond, AssignHalf, Goto, lockVars
<1>1. TypeOK'
  <2>1. i[w] % 2 \in {0, 1}
    BY DEF TypeOK, Threads
  <2> QED
    BY <2>1 DEF TypeOK, Threads
<1>2. ReadersInside' = ReadersInside /\ WritersInside' = WritersInside
  BY DEF ReadersInside, WritersInside, TypeOK, Threads
<1>3. WordTells'
  BY <1>2, WordUnchanged
<1>4. ExpectedAdmits'
  BY DEF ExpectedAdmits, TypeOK, Threads
<1>5. Halves'
  <2>1. WritersInside = {w} /\ ReadersInside = {}
    BY WriterAlone DEF WritersInside
  <2>2. /\ \A r \in Readers : pc'[r] \notin {"copy2", "unlock"}
        /\ \A v \in Writers \ {w} : pc'[v] # "assign2"
    BY <2>1, <1>2 DEF ReadersInside, WritersInside
  <2>3. CASE AssignFirst(w)
    BY <2>2, <2>3 DEF Halves, NoTornCopy, TypeOK, Threads
  <2>4. CASE AssignSecond(w)
    BY <2>2, <2>4 DEF Halves, NoTornCopy, TypeOK, Threads
  <2> QED
    BY <2>3, <2>4
<1> QED
  BY <1>1, <1>3, <1>4, <1>5

LEMMA UnlockEffect ==
  ASSUME IInv, NEW w \in Writers, Unlock(w)
  PROVE  /\ ReadersInside = {} /\ WritersInside = {w}
         /\ ReadersInside' = {} /\ WritersInside' = {}
<1> USE DEF IInv, Unlock, NextIteration, Goto
<1>1. WritersInside = {w} /\ ReadersInside = {}
  BY WriterAlone DEF WritersInside
<1> QED
  BY <1>1 DEF ReadersInside, WritersInside, TypeOK, Threads

LEMMA UnlockIInv ==
  ASSUME IInv, NEW w \in Writers, Unlock(w)
  PROVE  IInv'
<1> USE DEF IInv, Unlock, NextIteration, Goto
<1>1. TypeOK'
  BY DEF TypeOK, Threads
<1>2. WordTells'
  BY UnlockEffect, FS_EmptySet DEF WordTells
<1>3. ExpectedAdmits'
  BY DEF ExpectedAdmits, TypeOK, Threads
<1>4. Halves'
  <2>1. \A v \in Writers : pc[v] # "assign2" /\ pc'[v] # "assign2"
    BY UnlockEffect DEF WritersInside
  <2> QED
    BY <2>1 DEF Halves, NoTornCopy, TypeOK, Threads
<1> QED
  BY <1>1, <1>2, <1>3, <1>4

LEMMA UnlockSharedEffect ==
  ASSUME IInv, NEW r \in Readers, UnlockShared(r)
  PROVE  /\ r \in ReadersInside /\ WritersInside = {} /\ WritersInside' = {}
         /\ ReadersInside' = ReadersInside \ {r}
         /\ readers = Cardinality(ReadersInside) /\ readers' = readers - 1
<1> USE DEF IInv, UnlockShared, NextIteration, Goto
<1>1. r \in ReadersInside
  BY DEF ReadersInside
<1>2. WritersInside' = WritersInside /\ ReadersInside' = ReadersInside \ {r}
  BY DEF ReadersInside, WritersInside, TypeOK, Threads
<1> QED
  BY <1>1, <1>2, ReaderExcludes

LEMMA UnlockSharedIInv ==
  ASSUME IInv, NEW r \in Readers, UnlockShared(r)
  PROVE  IInv'
<1> USE DEF IInv, UnlockShared, NextIteration, Goto
<1>1. TypeOK'
  <2>1. readers' \in Int /\ readers' >= -1
    <3>1. readers = Cardinality(ReadersInside) /\ readers' = readers - 1
      BY UnlockSharedEffect
    <3> QED
      BY <3>1, InsideFinite
  <2> QED
    BY <2>1 DEF TypeOK, Threads
<1>2. Cardinality(ReadersInside') = Cardinality(ReadersInside) - 1
  <2>1. r \in ReadersInside /\ ReadersInside' = ReadersInside \ {r}
    BY UnlockSharedEffect
  <2> QED
    BY <2>1, InsideFinite, FS_RemoveElement
<1>3. WordTells'
  BY <1>2, UnlockSharedEffect DEF WordTells
<1>4. ExpectedAdmits' /\ Halves'
  BY DEF ExpectedAdmits, Halves, NoTornCopy, TypeOK, Threads
<1> QED
  BY <1>1, <1>3, <1>4

LEMMA StutterIInv ==
  ASSUME IInv, UNCHANGED vars
  PROVE  IInv'
<1> USE DEF vars, clientVars, lockVars
<1>1. ReadersInside' = ReadersInside /\ WritersInside' = WritersInside
  BY DEF ReadersInside, WritersInside
<1> QED
  BY <1>1 DEF IInv, TypeOK, WordTells, ExpectedAdmits, Halves, NoTornCopy

LEMMA StepIInv == IInv /\ [Next]_vars => IInv'
<1> SUFFICES ASSUME IInv, [Next]_vars PROVE IInv'
  OBVIOUS
<1>1. ASSUME NEW r \in Readers, ReaderStep(r) PROVE IInv'
  <2>1. r \in Threads /\ r \notin Writers
    BY DEF Threads
  <2>2. CASE LoadToLockShared(r)
    BY <2>1, <2>2, LoadIInv DEF LoadToLockShared
  <2> QED
    BY <1>1, <2>1, <2>2, LockSharedIInv, CasFailsIInv, CopyFirstIInv, CopySecondIInv,
       UnlockSharedIInv DEF ReaderStep
<1>2. ASSUME NEW w \in Writers, WriterStep(w) PROVE IInv'
  <2>1. w \in Threads /\ w \notin Readers
    BY DEF Threads
  <2>2. CASE LoadToLock(w)
    BY <2>1, <2>2, LoadIInv DEF LoadToLock
  <2> QED
    BY <1>2, <2>1, <2>2, LockIInv, CasFailsIInv, AssignIInv, UnlockIInv DEF WriterStep
<1>3. CASE UNCHANGED vars
  BY <1>3, StutterIInv
<1> QED
  BY <1>1, <1>2, <1>3 DEF Next, Terminated, vars

\* The inductive invariant holds in every state CasRWLock reaches.
THEOREM Invariance == Spec => []IInv
  BY InitIInv, StepIInv, PTL DEF Spec

\* The word is -1 exactly while a writer is inside and else counts the readers.
THEOREM WordCounts == Spec => []WordCountsHolders
<1>1. IInv => WordCountsHolders
  BY FS_Singleton DEF IInv, WordTells, WordCountsHolders
<1> QED
  BY <1>1, Invariance, PTL

\* The assertion of test_rwlock.cpp:69 holds: no reader has a torn copy.
THEOREM NeverTorn == Spec => []NoTornCopy
<1>1. IInv => NoTornCopy
  BY DEF IInv, Halves
<1> QED
  BY <1>1, Invariance, PTL

\* rwlock.h implements the reader/writer lock RWMutex.
THEOREM Refinement == Spec => ImplementsRWMutex
<1>1. Init => RW!Init
  BY DEF Init, ClientInit, RW!Init, ReadersInside, WritersInside, Threads
<1>2. IInv /\ [Next]_vars => [RW!Next]_(RW!vars)
  <2> SUFFICES ASSUME IInv, [Next]_vars PROVE [RW!Next]_(RW!vars)
    OBVIOUS
  <2> DEFINE Same == ReadersInside' = ReadersInside /\ WritersInside' = WritersInside
  <2>1. Same => UNCHANGED RW!vars
    BY DEF RW!vars
  <2>2. ASSUME NEW r \in Readers, ReaderStep(r) PROVE RW!Next \/ Same
    <3>1. CASE LockShared(r)
      BY <3>1, LockSharedEffect DEF RW!Next, RW!LockShared
    <3>2. CASE UnlockShared(r)
      BY <3>2, UnlockSharedEffect DEF RW!Next, RW!UnlockShared
    <3>3. CASE LoadToLockShared(r) \/ CasFails(r) \/ CopyFirst(r) \/ CopySecond(r)
      BY <3>3 DEF LoadToLockShared, LoadReaders, CasFails, CopyFirst, CopySecond, CopyHalf,
                  Goto, ReadersInside, WritersInside, IInv, TypeOK, Threads
    <3> QED
      BY <2>2, <3>1, <3>2, <3>3 DEF ReaderStep
  <2>3. ASSUME NEW w \in Writers, WriterStep(w) PROVE RW!Next \/ Same
    <3>1. CASE Lock(w)
      BY <3>1, LockEffect DEF RW!Next, RW!Lock
    <3>2. CASE Unlock(w)
      BY <3>2, UnlockEffect DEF RW!Next, RW!Unlock
    <3>3. CASE LoadToLock(w) \/ CasFails(w) \/ AssignFirst(w) \/ AssignSecond(w)
      BY <3>3 DEF LoadToLock, LoadReaders, CasFails, AssignFirst, AssignSecond, AssignHalf,
                  Goto, ReadersInside, WritersInside, IInv, TypeOK, Threads
    <3> QED
      BY <2>3, <3>1, <3>2, <3>3 DEF WriterStep
  <2>4. UNCHANGED vars => Same
    BY DEF vars, clientVars, ReadersInside, WritersInside
  <2> QED
    BY <2>1, <2>2, <2>3, <2>4 DEF Next, Terminated, vars
<1> QED
  BY <1>1, <1>2, Invariance, PTL DEF Spec, ImplementsRWMutex, RW!Spec

\* No step changes data while a reader is inside.
THEOREM Frozen == Spec => FrozenWhileRead
<1>1. IInv /\ [Next]_vars => [ReadersInside # {} => UNCHANGED data]_clientVars
  <2> SUFFICES ASSUME IInv, [Next]_vars, ReadersInside # {} PROVE UNCHANGED data
    OBVIOUS
  <2>1. \A w \in Writers : pc[w] \notin {"assign1", "assign2"}
    BY ReaderExcludes DEF WritersInside
  <2> QED
    BY <2>1 DEF Next, ReaderStep, WriterStep, LoadToLockShared, LoadToLock, LoadReaders,
       CasFails, LockShared, Lock, CasSucceeds, CopyFirst, CopySecond, CopyHalf,
       AssignFirst, AssignSecond, AssignHalf, UnlockShared, Unlock, NextIteration, Goto,
       Terminated, vars, clientVars
<1> QED
  BY <1>1, Invariance, PTL DEF Spec, FrozenWhileRead
=============================================================================
