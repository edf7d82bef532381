--------------------------- MODULE RWBenchMainProof ---------------------------
(***************************************************************************)
(* Proofs about RWBenchMain for any finite sets of readers and writers,    *)
(* any length of the benchmark and, for the ticket lock, any number of     *)
(* ticket values greater than the number of threads.                       *)
(*                                                                         *)
(* The invariant IInv says for each of the four locks, while it is the one *)
(* in use, how its words tell who is inside:                               *)
(*   RwInv          readers_ is -1 or the number of readers; whoever       *)
(*                  sleeps while it is 0 has a notification or a woken     *)
(*                  thread coming                                          *)
(*   WriteFirstInv  readers_ is the number of readers, writer_entered_     *)
(*                  says that exactly one writer has announced itself,     *)
(*                  and that writer sleeps on readers_ = 0 only while the  *)
(*                  last reader is about to notify it; the threads that    *)
(*                  sleep behind it wait for it to leave, or to notify     *)
(*   WordInv        the word is -1 or the number of readers, and no reader *)
(*                  attempts its exchange on a negative value              *)
(*   TicketInv      the numbers of the threads with a ticket are different *)
(*                  and lie in the circular interval from turn to ticket,  *)
(*                  whose length is their number                           *)
(* and that a lock whose round has not come is as it was made (Unused).    *)
(* Every lemma about an action proves two things at once, that the action  *)
(* keeps IInv and that it is a step of RWMutex or leaves it alone.         *)
(***************************************************************************)
EXTENDS RWBenchMain, FiniteSetTheorems, TLAPS

\* The places of the threads under any of the locks
Places == {"test", "turn", "lock", "wait", "drain", "cas", "spin", "inside", "pass",
           "notify_all", "notify_one", "left", "done"}

TypeOK ==
    /\ lock \in {"rwlock", "rwlock_write_first", "word", "ticketlock"}
    /\ pc \in [Threads -> Places]
    /\ readers \in Int /\ waiters \subseteq Threads
    /\ readers2 \in Int /\ entered \in BOOLEAN /\ readQ \subseteq Threads /\ writeQ \subseteq Threads
    /\ count \in Int /\ expected \in [Readers -> Int]
    /\ turn \in 0 .. Mod - 1 /\ ticket \in 0 .. Mod - 1 /\ me \in [Threads -> 0 .. Mod - 1]

\* A lock that is not in use is as its constructor has left it; rwlock, when it is
\* done with, has no waiters.
Unused ==
    /\ lock # "rwlock" => waiters = {}
    /\ lock # "rwlock_write_first" => readers2 = 0 /\ ~entered /\ readQ = {} /\ writeQ = {}
    /\ lock = "word" => turn = 0 /\ ticket = 0 /\ me = [t \in Threads |-> 0]

\* A writer is inside alone.
OneWriter == \A w \in WritersInside : WritersInside = {w} /\ ReadersInside = {}

\* A word that tells who is inside
Tells(word) == word = IF WritersInside = {} THEN Cardinality(ReadersInside) ELSE -1

\* rwlock of cv_rwlock.cpp
RwInv ==
    /\ Tells(readers)
    /\ waiters \subseteq {t \in Threads : pc[t] = "wait"}
    /\ readers = 0 /\ waiters # {} =>
          \E t \in Threads : \/ pc[t] \in {"notify_all", "notify_one"}
                             \/ pc[t] = "wait" /\ t \notin waiters

\* The writers that have announced themselves and not left
Announced == {w \in Writers : pc[w] \in {"drain", "inside"}}

\* Who sleeps on write_queue_ waits for a writer to leave, or to notify.
WriteQueueWoken == writeQ = {} \/ entered \/ \E w \in Writers : pc[w] = "notify_all"

\* rwlock_write_first of cv_rwlock.cpp
WriteFirstInv ==
    /\ readers2 = Cardinality(ReadersInside)
    /\ IF entered THEN \E w \in Writers : Announced = {w} ELSE Announced = {}
    /\ readQ \subseteq {w \in Writers : pc[w] = "drain"}
    /\ \A w \in readQ : readers2 = 0 => \E r \in Readers : pc[r] = "notify_one"
    /\ WriteQueueWoken

\* rwlock of atomic/rwlock.cpp
WordInv == Tells(count) /\ \A r \in Readers : pc[r] = "cas" => expected[r] >= 0

\* The length of the circular interval from a up to b
Dist(a, b) == IF b >= a THEN b - a ELSE b - a + Mod

\* The threads with a ticket: some spin, one may hold the ticketlock.
Spinning == {t \in Threads : pc[t] = "spin"}
Holding == {t \in Threads : pc[t] \in {"inside", "pass"}}

\* ticketlock of atomic/rwlock.cpp
TicketInv ==
    /\ Dist(turn, ticket) = Cardinality(Spinning \cup Holding)
    /\ \A t \in Spinning : Dist(turn, me[t]) < Dist(turn, ticket)
    /\ \A t, u \in Spinning : me[t] = me[u] => t = u
    /\ \A t \in Holding : Holding = {t} /\ \A u \in Spinning : me[u] # turn
    /\ \A t \in Threads : pc[t] = "pass" => me[t] = turn

IInv == /\ TypeOK /\ Unused /\ OneWriter
        /\ lock = "rwlock" => RwInv
        /\ lock = "rwlock_write_first" => WriteFirstInv
        /\ lock = "word" => WordInv
        /\ lock = "ticketlock" => TicketInv

USE BenchAssumption, ModAssumption

\* The readers inside are a finite set.
LEMMA InsideFinite ==
  /\ IsFiniteSet(ReadersInside) /\ Cardinality(ReadersInside) \in Nat
  /\ Cardinality(ReadersInside) = 0 <=> ReadersInside = {}
  BY FS_Subset, FS_CardinalityType, FS_EmptySet DEF ReadersInside

\* One more reader inside raises their number by one.
LEMMA EnterCounts ==
  ASSUME NEW r \in Readers, r \notin ReadersInside
  PROVE  Cardinality(ReadersInside \cup {r}) = Cardinality(ReadersInside) + 1
  BY InsideFinite, FS_AddElement

\* One reader less lowers it by one.
LEMMA LeaveCounts ==
  ASSUME NEW r \in ReadersInside
  PROVE  Cardinality(ReadersInside \ {r}) = Cardinality(ReadersInside) - 1
  BY InsideFinite, FS_RemoveElement

\* The threads are finitely many, and there is at least one ticket value.
LEMMA ThreadsFinite == IsFiniteSet(Threads) /\ Cardinality(Threads) \in Nat /\ Mod \in Nat /\ Mod >= 1
  BY FS_Union, FS_CardinalityType DEF Threads

\* The constructors establish the invariant, for either program.
LEMMA InitIInv == Init => IInv
<1> SUFFICES ASSUME Init PROVE IInv
  OBVIOUS
<1>1. pc = [t \in Threads |-> "test"]
  BY DEF Init, CvLock!Init, CvLock!BenchInit, CvLock!Threads, Threads
<1>2. ReadersInside = {} /\ WritersInside = {} 
  BY <1>1 DEF ReadersInside, WritersInside, Threads
<1>3. TypeOK
  <2>1. 0 \in 0 .. Mod - 1
    BY ThreadsFinite
  <2>2. me \in [Threads -> 0 .. Mod - 1] /\ turn \in 0 .. Mod - 1 /\ ticket \in 0 .. Mod - 1
    BY <2>1 DEF Init, Word!TicketInit, Word!Threads, Threads
  <2>3. expected \in [Readers -> Int] /\ count \in Int
    BY DEF Init, Word!WordInit
  <2>4. readers \in Int /\ waiters \subseteq Threads
    BY DEF Init, CvLock!Init
  <2>5. readers2 \in Int /\ readQ \subseteq Threads /\ writeQ \subseteq Threads
    BY DEF Init, WriteFirst!Init
  <2>6. entered \in BOOLEAN
    BY Zenon DEF Init, WriteFirst!Init
  <2> QED
    BY <1>1, <2>2, <2>3, <2>4, <2>5, <2>6 DEF Init, TypeOK, Places
<1>4. Unused
  BY DEF Init, Unused, CvLock!Init, WriteFirst!Init, Word!TicketInit, Word!Threads, Threads
<1>5. Cardinality({}) = 0
  BY FS_EmptySet
<1>6. OneWriter /\ RwInv /\ WordInv
  BY <1>1, <1>2, <1>5 DEF Init, OneWriter, RwInv, WordInv, Tells, CvLock!Init, Word!WordInit, Threads
<1> QED
  BY <1>3, <1>4, <1>6 DEF IInv, Init

-----------------------------------------------------------------------------
\* A step between two places that are not inside changes nobody's presence.
LEMMA NobodyMoves ==
  ASSUME TypeOK, NEW t \in Threads, NEW to, pc[t] # "inside", to # "inside",
         pc' = [pc EXCEPT ![t] = to]
  PROVE  ReadersInside' = ReadersInside /\ WritersInside' = WritersInside
  BY DEF TypeOK, ReadersInside, WritersInside, Threads

\* A reader that gets in while no writer is inside makes RWMutex's LockShared.
LEMMA ReaderComes ==
  ASSUME TypeOK, NEW r \in Readers, pc[r] # "inside", pc' = [pc EXCEPT ![r] = "inside"],
         WritersInside = {}
  PROVE  RW!LockShared(r) /\ Cardinality(ReadersInside)' = Cardinality(ReadersInside) + 1
<1>1. ReadersInside' = ReadersInside \cup {r} /\ r \notin ReadersInside /\ WritersInside' = {}
  BY DEF TypeOK, ReadersInside, WritersInside, Threads
<1> QED
  BY <1>1, EnterCounts DEF RW!LockShared

\* A reader that leaves makes RWMutex's UnlockShared.
LEMMA ReaderLeaves ==
  ASSUME TypeOK, NEW r \in Readers, NEW to, pc[r] = "inside", to # "inside",
         pc' = [pc EXCEPT ![r] = to]
  PROVE  /\ RW!UnlockShared(r) /\ Cardinality(ReadersInside)' = Cardinality(ReadersInside) - 1
         /\ ReadersInside # {}
<1>1. ReadersInside' = ReadersInside \ {r} /\ r \in ReadersInside /\ WritersInside' = WritersInside
  BY DEF TypeOK, ReadersInside, WritersInside, Threads
<1> QED
  BY <1>1, LeaveCounts DEF RW!UnlockShared

\* A writer that gets in while nobody is inside makes RWMutex's Lock.
LEMMA WriterComes ==
  ASSUME TypeOK, NEW w \in Writers, pc[w] # "inside", pc' = [pc EXCEPT ![w] = "inside"],
         ReadersInside = {}, WritersInside = {}
  PROVE  RW!Lock(w)
  BY DEF TypeOK, ReadersInside, WritersInside, Threads, RW!Lock

\* A writer that leaves, who was alone, makes RWMutex's Unlock.
LEMMA WriterLeaves ==
  ASSUME TypeOK, OneWriter, NEW w \in Writers, NEW to, pc[w] = "inside", to # "inside",
         pc' = [pc EXCEPT ![w] = to]
  PROVE  RW!Unlock(w) /\ WritersInside = {w} /\ ReadersInside = {}
<1>1. WritersInside = {w} /\ ReadersInside = {}
  BY DEF OneWriter, WritersInside
<1> QED
  BY <1>1 DEF TypeOK, ReadersInside, WritersInside, Threads, RW!Unlock

\* The steps of RWMutex keep a writer alone.
LEMMA MovesKeepOneWriter ==
  ASSUME OneWriter, [RW!Next]_(RW!vars) PROVE OneWriter'
  BY DEF OneWriter, RW!Next, RW!vars, RW!LockShared, RW!UnlockShared, RW!Lock, RW!Unlock

\* A step that only moves a thread within the benchmark
LEMMA BenchStepMoves ==
  ASSUME TypeOK, NEW t \in Threads, BenchStep(t)
  PROVE  /\ pc' \in [Threads -> Places]
         /\ ReadersInside' = ReadersInside /\ WritersInside' = WritersInside
         /\ \E from \in {"test", "turn", "left"}, to \in {"test", "turn", "lock", "done"} :
               pc[t] = from /\ pc' = [pc EXCEPT ![t] = to]
<1>1. \E from \in {"test", "turn", "left"}, to \in {"test", "turn", "lock", "done"} :
               pc[t] = from /\ pc' = [pc EXCEPT ![t] = to]
  BY DEF BenchStep, TestReading, TestTurn, Count, Goto
<1> QED
  BY <1>1, NobodyMoves DEF TypeOK, Places

-----------------------------------------------------------------------------
\* rwlock of cv_rwlock.cpp
RwFrame == lock = "rwlock" /\ UNCHANGED <<program, lock, writeFirstVars, wordVars, ticketVars>>

\* What an action of rwlock (cv_rwlock.cpp) has to establish: its own part of the
\* invariant and a step of RWMutex.
LEMMA RwKeeps ==
  ASSUME IInv, RwFrame, pc' \in [Threads -> Places], readers' \in Int, waiters' \subseteq Threads,
         RwInv', [RW!Next]_(RW!vars)
  PROVE  IInv'
<1>1. OneWriter'
  BY MovesKeepOneWriter DEF IInv
<1>2. TypeOK' /\ Unused'
  BY DEF IInv, TypeOK, Unused, RwFrame, writeFirstVars, wordVars, ticketVars
<1> QED
  BY <1>1, <1>2 DEF IInv, RwFrame

\* rwlock::lock(): the writer enters with readers_ 0, or goes to sleep with somebody
\* inside, whose unlock is still to come.
LEMMA RwLock ==
  ASSUME IInv, RwFrame, NEW w \in Writers, CvLock!Lock(w)
  PROVE  IInv' /\ [RW!Next]_(RW!vars)
<1> USE DEF CvLock!Lock, CvLock!Runnable
<1>1. TypeOK /\ OneWriter /\ RwInv /\ w \in Threads /\ pc[w] \in {"lock", "wait"}
  BY DEF IInv, RwFrame, Threads
<1>2. CASE readers = 0 /\ readers' = -1 /\ CvLock!EnterInside(w)
  <2> USE DEF CvLock!EnterInside
  <2>1. ReadersInside = {} /\ WritersInside = {}
    BY <1>1, <1>2, InsideFinite DEF RwInv, Tells
  <2>2. RW!Lock(w)
    BY <1>1, <1>2, <2>1, WriterComes
  <2>3. RwInv'
    BY <1>1, <1>2, <2>2 DEF RwInv, Tells, RW!Lock, TypeOK
  <2>4. pc' \in [Threads -> Places]
    BY <1>1, <1>2 DEF TypeOK, Places
  <2> QED
    BY <1>1, <1>2, <2>2, <2>3, <2>4, RwKeeps DEF RW!Next, TypeOK
<1>3. CASE readers # 0 /\ CvLock!Block(w)
  <2> USE DEF CvLock!Block
  <2>1. ReadersInside' = ReadersInside /\ WritersInside' = WritersInside
    BY <1>1, <1>3, NobodyMoves
  <2>2. RwInv'
    BY <1>1, <1>3, <2>1 DEF RwInv, Tells, TypeOK
  <2>3. pc' \in [Threads -> Places]
    BY <1>1, <1>3 DEF TypeOK, Places
  <2> QED
    BY <1>1, <1>3, <2>1, <2>2, <2>3, RwKeeps DEF RW!vars, TypeOK
<1> QED
  BY <1>2, <1>3

\* rwlock::lock_shared(): likewise, with readers_ not -1.
LEMMA RwLockShared ==
  ASSUME IInv, RwFrame, NEW r \in Readers, CvLock!LockShared(r)
  PROVE  IInv' /\ [RW!Next]_(RW!vars)
<1> USE DEF CvLock!LockShared, CvLock!Runnable
<1>1. TypeOK /\ OneWriter /\ RwInv /\ r \in Threads /\ pc[r] \in {"lock", "wait"}
  BY DEF IInv, RwFrame, Threads
<1>2. CASE readers >= 0 /\ readers' = readers + 1 /\ CvLock!EnterInside(r)
  <2> USE DEF CvLock!EnterInside
  <2>1. WritersInside = {}
    BY <1>1, <1>2 DEF RwInv, Tells
  <2>2. RW!LockShared(r) /\ Cardinality(ReadersInside)' = Cardinality(ReadersInside) + 1
    BY <1>1, <1>2, <2>1, ReaderComes
  <2>3. RwInv'
    BY <1>1, <1>2, <2>1, <2>2, InsideFinite DEF RwInv, Tells, RW!LockShared, TypeOK
  <2>4. pc' \in [Threads -> Places]
    BY <1>1, <1>2 DEF TypeOK, Places
  <2> QED
    BY <1>1, <1>2, <2>2, <2>3, <2>4, RwKeeps DEF RW!Next, TypeOK
<1>3. CASE readers < 0 /\ CvLock!Block(r)
  <2> USE DEF CvLock!Block
  <2>1. ReadersInside' = ReadersInside /\ WritersInside' = WritersInside
    BY <1>1, <1>3, NobodyMoves
  <2>2. RwInv'
    BY <1>1, <1>3, <2>1 DEF RwInv, Tells, TypeOK
  <2>3. pc' \in [Threads -> Places]
    BY <1>1, <1>3 DEF TypeOK, Places
  <2> QED
    BY <1>1, <1>3, <2>1, <2>2, <2>3, RwKeeps DEF RW!vars, TypeOK
<1> QED
  BY <1>2, <1>3

\* rwlock::unlock(): readers_ becomes 0 and the notification is still to be made.
LEMMA RwUnlock ==
  ASSUME IInv, RwFrame, NEW w \in Writers, CvLock!Unlock(w)
  PROVE  IInv' /\ [RW!Next]_(RW!vars)
<1> USE DEF CvLock!Unlock, CvLock!Goto
<1>1. TypeOK /\ OneWriter /\ RwInv /\ w \in Threads
  BY DEF IInv, RwFrame, Threads
<1>2. RW!Unlock(w) /\ ReadersInside = {}
  BY <1>1, WriterLeaves
<1>3. RwInv'
  <2>1. Tells(readers)'
    BY <1>2, FS_EmptySet DEF RW!Unlock, Tells
  <2> QED
    BY <1>1, <2>1 DEF RwInv, TypeOK
<1>4. pc' \in [Threads -> Places]
  BY <1>1 DEF TypeOK, Places
<1> QED
  BY <1>1, <1>2, <1>3, <1>4, RwKeeps DEF RW!Next, TypeOK

\* rwlock::unlock_shared(): the last reader takes readers_ to 0 and is about to notify.
LEMMA RwUnlockShared ==
  ASSUME IInv, RwFrame, NEW r \in Readers, CvLock!UnlockShared(r)
  PROVE  IInv' /\ [RW!Next]_(RW!vars)
<1> USE DEF CvLock!UnlockShared, CvLock!Goto
<1>1. TypeOK /\ OneWriter /\ RwInv /\ r \in Threads /\ pc[r] = "inside"
  BY DEF IInv, RwFrame, Threads
<1>2. /\ RW!UnlockShared(r) /\ Cardinality(ReadersInside)' = Cardinality(ReadersInside) - 1
      /\ ReadersInside # {}
  <2>1. PICK to \in {"notify_one", "left"} : pc' = [pc EXCEPT ![r] = to]
    OBVIOUS
  <2> QED
    BY <1>1, <2>1, ReaderLeaves
<1>3. RwInv'
  <2>1. WritersInside = {} /\ WritersInside' = {}
    BY <1>1, <1>2 DEF OneWriter, RW!UnlockShared
  <2>2. Tells(readers)'
    BY <1>1, <1>2, <2>1, InsideFinite DEF RwInv, Tells
  <2> QED
    BY <1>1, <2>2 DEF RwInv, TypeOK
<1>4. pc' \in [Threads -> Places]
  BY <1>1 DEF TypeOK, Places
<1> QED
  BY <1>1, <1>2, <1>3, <1>4, RwKeeps DEF RW!Next, TypeOK

\* notify_all() and notify_one() spend the notification and wake somebody, if anybody
\* sleeps.
LEMMA RwNotify ==
  ASSUME IInv, RwFrame, NEW t \in Threads, CvLock!NotifyAll(t) \/ CvLock!NotifyOne(t)
  PROVE  IInv' /\ [RW!Next]_(RW!vars)
<1> USE DEF CvLock!NotifyAll, CvLock!NotifyOne, CvLock!Goto
<1>1. TypeOK /\ OneWriter /\ RwInv
  BY DEF IInv, RwFrame
<1>2. ReadersInside' = ReadersInside /\ WritersInside' = WritersInside
  BY <1>1, NobodyMoves
<1>3. waiters' \subseteq waiters /\ (waiters' = {} \/ \E u \in waiters : waiters' = waiters \ {u})
  OBVIOUS
<1>4. RwInv'
  BY <1>1, <1>2, <1>3 DEF RwInv, Tells, TypeOK
<1>5. pc' \in [Threads -> Places]
  BY <1>1 DEF TypeOK, Places
<1> QED
  BY <1>1, <1>2, <1>3, <1>4, <1>5, RwKeeps DEF RW!vars, TypeOK

\* A spurious wake-up only makes a sleeper a woken thread.
LEMMA RwSpurious ==
  ASSUME IInv, RwFrame, CvLock!SpuriousWakeup
  PROVE  IInv' /\ [RW!Next]_(RW!vars)
<1> USE DEF CvLock!SpuriousWakeup, CvLock!benchVars
<1>1. TypeOK /\ OneWriter /\ RwInv
  BY DEF IInv, RwFrame
<1>2. ReadersInside' = ReadersInside /\ WritersInside' = WritersInside
  BY DEF ReadersInside, WritersInside
<1>3. RwInv'
  BY <1>1, <1>2 DEF RwInv, Tells, TypeOK
<1> QED
  BY <1>1, <1>2, <1>3, RwKeeps DEF RW!vars, TypeOK

\* Every step of a thread under rwlock.
LEMMA RwStep ==
  ASSUME IInv, RwFrame, NEW t \in Threads, CvLock!Step(t)
  PROVE  IInv' /\ [RW!Next]_(RW!vars)
<1>1. CASE BenchStep(t) /\ UNCHANGED <<readers, waiters>>
  <2>1. TypeOK /\ OneWriter /\ RwInv
    BY DEF IInv, RwFrame
  <2>2. /\ pc' \in [Threads -> Places]
        /\ ReadersInside' = ReadersInside /\ WritersInside' = WritersInside
        /\ \E from \in {"test", "turn", "left"}, to \in {"test", "turn", "lock", "done"} :
               pc[t] = from /\ pc' = [pc EXCEPT ![t] = to]
    BY <1>1, <2>1, BenchStepMoves
  <2>3. RwInv'
    BY <1>1, <2>1, <2>2 DEF RwInv, Tells, TypeOK
  <2> QED
    BY <1>1, <2>1, <2>2, <2>3, RwKeeps DEF RW!vars, TypeOK
<1>2. CvLock!BenchStep(t) <=> BenchStep(t)
  BY DEF CvLock!BenchStep, BenchStep, CvLock!TestReading, TestReading, CvLock!TestTurn, TestTurn,
         CvLock!Count, Count, CvLock!Goto, Goto
<1> QED
  BY <1>1, <1>2, RwLock, RwLockShared, RwUnlock, RwUnlockShared, RwNotify DEF CvLock!Step

-----------------------------------------------------------------------------
\* rwlock_write_first of cv_rwlock.cpp
WfFrame == lock = "rwlock_write_first" /\ UNCHANGED <<program, lock, cvVars, wordVars, ticketVars>>

\* What an action of rwlock_write_first has to establish.
LEMMA WfKeeps ==
  ASSUME IInv, WfFrame, pc' \in [Threads -> Places], readers2' \in Int, entered' \in BOOLEAN,
         readQ' \subseteq Threads, writeQ' \subseteq Threads, WriteFirstInv',
         [RW!Next]_(RW!vars)
  PROVE  IInv'
<1>1. OneWriter'
  BY MovesKeepOneWriter DEF IInv
<1>2. TypeOK' /\ Unused'
  BY DEF IInv, TypeOK, Unused, WfFrame, cvVars, wordVars, ticketVars
<1> QED
  BY <1>1, <1>2 DEF IInv, WfFrame

\* What a step of write-first needs to know
LEMMA WfFacts ==
  ASSUME IInv, WfFrame
  PROVE  /\ TypeOK /\ OneWriter /\ WriteFirstInv
         /\ WritersInside \subseteq Announced /\ readQ \subseteq Announced
         /\ \A w \in Announced : entered /\ Announced = {w}
         /\ entered \/ Announced = {}
         /\ readers2 = 0 <=> ReadersInside = {}
         /\ readers2 \in Nat /\ readers2 = Cardinality(ReadersInside)
<1>1. TypeOK /\ OneWriter /\ WriteFirstInv
  BY DEF IInv, WfFrame
<1>2. WritersInside \subseteq Announced /\ readQ \subseteq Announced
  BY <1>1 DEF WriteFirstInv, WritersInside, Announced
<1>3. (\A w \in Announced : entered /\ Announced = {w}) /\ (entered \/ Announced = {})
  BY <1>1 DEF WriteFirstInv
<1> QED
  BY <1>1, <1>2, <1>3, InsideFinite DEF WriteFirstInv

\* The steps that concern write_queue_: all but those that set writer_entered_ or are
\* about to notify leave it as it was, or empty it.
LEMMA WfQueue ==
  ASSUME IInv, WfFrame, NEW t \in Threads, NEW to, pc' = [pc EXCEPT ![t] = to],
         \/ entered'
         \/ writeQ' = {}
         \/ t \in Writers /\ to = "notify_all"
         \/ writeQ' \subseteq writeQ /\ entered' = entered /\ pc[t] # "notify_all"
  PROVE  WriteQueueWoken'
<1>1. TypeOK /\ WriteQueueWoken
  BY WfFacts DEF WriteFirstInv
<1> QED
  BY <1>1 DEF TypeOK, WriteQueueWoken, Threads

\* lock() up to writer_entered_ = true: no other writer has announced itself.
LEMMA WfAnnounce ==
  ASSUME IInv, WfFrame, NEW w \in Writers, WriteFirst!Announce(w)
  PROVE  IInv' /\ [RW!Next]_(RW!vars)
<1> USE DEF WriteFirst!Announce, WriteFirst!Runnable
<1>1. TypeOK /\ w \in Threads /\ pc[w] \in {"lock", "wait"} /\ ~entered /\ entered'
  BY WfFacts DEF Threads
<1>2. Announced = {} /\ WritersInside = {} /\ readQ = {}
  BY <1>1, WfFacts
<1>3. pc' \in [Threads -> Places]
  BY <1>1 DEF TypeOK, Places
<1>4. Announced' = {w}
  BY <1>1, <1>2 DEF TypeOK, Announced, Threads
<1>5. CASE readers2 = 0 /\ pc' = [pc EXCEPT ![w] = "inside"] /\ UNCHANGED readQ
  <2>1. RW!Lock(w)
    BY <1>1, <1>2, <1>5, WfFacts, WriterComes
  <2>2. WriteFirstInv'
    BY <1>1, <1>2, <1>4, <1>5, <2>1, WfFacts DEF WriteFirstInv, WriteQueueWoken, RW!Lock
  <2> QED
    BY <1>1, <1>3, <1>5, <2>1, <2>2, WfKeeps DEF TypeOK, RW!Next
<1>6. CASE readers2 # 0 /\ pc' = [pc EXCEPT ![w] = "drain"] /\ readQ' = readQ \cup {w}
  <2>1. ReadersInside' = ReadersInside /\ WritersInside' = WritersInside
    BY <1>1, <1>6, NobodyMoves
  <2>2. readQ' = {w} /\ pc'[w] = "drain"
    BY <1>1, <1>2, <1>6 DEF TypeOK
  <2>3. WriteFirstInv'
    BY <1>1, <1>4, <1>6, <2>1, <2>2, WfFacts DEF WriteFirstInv, WriteQueueWoken
  <2> QED
    BY <1>1, <1>3, <1>6, <2>1, <2>2, <2>3, WfKeeps DEF TypeOK, RW!vars
<1> QED
  BY <1>5, <1>6

\* lock() once the readers have left: the writer that announced itself is alone.
LEMMA WfDrained ==
  ASSUME IInv, WfFrame, NEW w \in Writers, WriteFirst!Drained(w)
  PROVE  IInv' /\ [RW!Next]_(RW!vars)
<1> USE DEF WriteFirst!Drained
<1>1. TypeOK /\ w \in Threads /\ pc[w] = "drain" /\ UNCHANGED entered
  BY WfFacts DEF Threads
<1>2. Announced = {w} /\ entered /\ WritersInside = {} /\ readQ = {}
  <2>1. w \in Announced /\ w \notin WritersInside
    BY <1>1 DEF Announced, WritersInside
  <2> QED
    BY <2>1, WfFacts
<1>3. pc' \in [Threads -> Places]
  BY <1>1 DEF TypeOK, Places
<1>4. Announced' = {w}
  BY <1>1, <1>2 DEF TypeOK, Announced, Threads
<1>5. CASE readers2 = 0 /\ pc' = [pc EXCEPT ![w] = "inside"] /\ UNCHANGED readQ
  <2>1. RW!Lock(w)
    BY <1>1, <1>2, <1>5, WfFacts, WriterComes
  <2>2. WriteFirstInv'
    BY <1>1, <1>2, <1>4, <1>5, <2>1, WfFacts DEF WriteFirstInv, WriteQueueWoken, RW!Lock
  <2> QED
    BY <1>1, <1>3, <1>5, <2>1, <2>2, WfKeeps DEF TypeOK, RW!Next
<1>6. CASE readers2 # 0 /\ readQ' = readQ \cup {w} /\ UNCHANGED pc
  <2>1. ReadersInside' = ReadersInside /\ WritersInside' = WritersInside
    BY <1>6 DEF ReadersInside, WritersInside
  <2>2. readQ' = {w}
    BY <1>2, <1>6
  <2>3. WriteFirstInv'
    BY <1>1, <1>2, <1>4, <1>6, <2>1, <2>2, WfFacts DEF WriteFirstInv, WriteQueueWoken
  <2> QED
    BY <1>1, <1>3, <1>6, <2>1, <2>2, <2>3, WfKeeps DEF TypeOK, RW!vars
<1> QED
  BY <1>5, <1>6

\* lock_shared() gets in only while no writer has announced itself.
LEMMA WfLockShared ==
  ASSUME IInv, WfFrame, NEW r \in Readers, WriteFirst!LockShared(r)
  PROVE  IInv' /\ [RW!Next]_(RW!vars)
<1> USE DEF WriteFirst!LockShared, WriteFirst!Runnable
<1>1. TypeOK /\ r \in Threads /\ pc[r] \in {"lock", "wait"} /\ ~entered /\ UNCHANGED entered
  BY WfFacts DEF Threads
<1>2. Announced = {} /\ WritersInside = {} /\ readQ = {}
  BY <1>1, WfFacts
<1>3. pc' \in [Threads -> Places]
  BY <1>1 DEF TypeOK, Places
<1>4. Announced' = {}
  BY <1>1, <1>2 DEF TypeOK, Announced, Threads
<1>5. RW!LockShared(r) /\ Cardinality(ReadersInside)' = Cardinality(ReadersInside) + 1
  BY <1>1, <1>2, ReaderComes
<1>q. WriteQueueWoken'
  BY <1>1, WfQueue
<1>6. WriteFirstInv'
  BY <1>q, <1>1, <1>2, <1>4, <1>5, WfFacts DEF WriteFirstInv
<1> QED
  BY <1>1, <1>3, <1>5, <1>6, WfKeeps DEF TypeOK, RW!Next

\* unlock() takes the announcement back.
LEMMA WfUnlock ==
  ASSUME IInv, WfFrame, NEW w \in Writers, WriteFirst!Unlock(w)
  PROVE  IInv' /\ [RW!Next]_(RW!vars)
<1> USE DEF WriteFirst!Unlock, WriteFirst!Goto
<1>1. TypeOK /\ OneWriter /\ w \in Threads /\ pc[w] = "inside" /\ entered' = FALSE
  BY WfFacts DEF Threads
<1>2. Announced = {w} /\ readQ = {}
  <2>1. w \in Announced /\ \A u \in readQ : pc[u] = "drain"
    BY <1>1, WfFacts DEF Announced, WriteFirstInv
  <2> QED
    BY <1>1, <2>1, WfFacts
<1>3. pc' \in [Threads -> Places]
  BY <1>1 DEF TypeOK, Places
<1>4. Announced' = {}
  BY <1>1, <1>2 DEF TypeOK, Announced, Threads
<1>5. RW!Unlock(w)
  BY <1>1, WriterLeaves
<1>q. WriteQueueWoken'
  BY <1>1, WfQueue
<1>6. WriteFirstInv'
  BY <1>q, <1>1, <1>2, <1>4, <1>5, WfFacts DEF WriteFirstInv, RW!Unlock
<1> QED
  BY <1>1, <1>3, <1>5, <1>6, WfKeeps DEF TypeOK, RW!Next

\* unlock_shared(): the last reader notifies if a writer has announced itself, and so
\* the writer that sleeps has its notification coming.
LEMMA WfUnlockShared ==
  ASSUME IInv, WfFrame, NEW r \in Readers, WriteFirst!UnlockShared(r)
  PROVE  IInv' /\ [RW!Next]_(RW!vars)
<1> USE DEF WriteFirst!UnlockShared, WriteFirst!Goto
<1>1. TypeOK /\ r \in Threads /\ r \notin Writers /\ pc[r] = "inside" /\ UNCHANGED <<entered, readQ>>
  BY WfFacts DEF Threads
<1>2. PICK to \in {"notify_one", "left"} : /\ pc' = [pc EXCEPT ![r] = to]
                                           /\ entered /\ readers2 = 1 => to = "notify_one"
  OBVIOUS
<1>3. pc' \in [Threads -> Places] /\ pc'[r] = to /\ \A t \in Threads \ {r} : pc'[t] = pc[t]
  BY <1>1, <1>2 DEF TypeOK, Places
<1>4. Announced' = Announced
  BY <1>1, <1>3 DEF Announced, Threads
<1>5. RW!UnlockShared(r) /\ Cardinality(ReadersInside)' = Cardinality(ReadersInside) - 1
  BY <1>1, <1>2, ReaderLeaves
<1>6. readers2' = Cardinality(ReadersInside)'
  BY <1>5, WfFacts
<1>7. readQ' \subseteq {u \in Writers : pc'[u] = "drain"}
  BY <1>1, <1>3, WfFacts DEF WriteFirstInv, Threads
<1>8. ASSUME NEW u \in readQ, readers2' = 0 PROVE pc'[r] = "notify_one"
  BY <1>2, <1>3, <1>8, WfFacts
<1>q. WriteQueueWoken'
  BY <1>1, <1>2, WfQueue
<1>9. WriteFirstInv'
  BY <1>q, <1>1, <1>4, <1>6, <1>7, <1>8, WfFacts DEF WriteFirstInv
<1> QED
  BY <1>1, <1>3, <1>5, <1>9, WfKeeps, WfFacts DEF TypeOK, RW!Next

\* The notifications, made outside the mutex on what was read under it.
LEMMA WfNotify ==
  ASSUME IInv, WfFrame, NEW t \in Threads,
         WriteFirst!NotifyAll(t) \/ (t \in Readers /\ WriteFirst!NotifyOne(t))
  PROVE  IInv' /\ [RW!Next]_(RW!vars)
<1> USE DEF WriteFirst!NotifyAll, WriteFirst!NotifyOne, WriteFirst!Goto
<1>1. /\ TypeOK /\ pc[t] \in {"notify_all", "notify_one"} /\ pc' = [pc EXCEPT ![t] = "left"]
      /\ UNCHANGED <<readers2, entered>>
  BY WfFacts
<1>2. ReadersInside' = ReadersInside /\ WritersInside' = WritersInside
  BY <1>1, NobodyMoves
<1>3. Announced' = Announced
  BY <1>1 DEF TypeOK, Announced, Threads
<1>4. pc' \in [Threads -> Places]
  BY <1>1 DEF TypeOK, Places
<1>5. readQ' \subseteq readQ /\ (pc[t] = "notify_one" => readQ' = {})
  BY WfFacts
<1>q. WriteQueueWoken'
  BY <1>1, WfQueue
<1>6. WriteFirstInv'
  BY <1>q, <1>1, <1>2, <1>3, <1>5, WfFacts DEF WriteFirstInv, TypeOK, Threads
<1> QED
  BY <1>1, <1>2, <1>4, <1>5, <1>6, WfKeeps DEF TypeOK, RW!vars

\* A thread that blocks on write_q_ waits for somebody else's writer_entered_.
LEMMA WfBlock ==
  ASSUME IInv, WfFrame, NEW t \in Threads, WriteFirst!Runnable(t) /\ WriteFirst!BlockOnWriteQ(t)
  PROVE  IInv' /\ [RW!Next]_(RW!vars)
<1> USE DEF WriteFirst!Runnable, WriteFirst!BlockOnWriteQ
<1>1. /\ TypeOK /\ pc[t] \in {"lock", "wait"} /\ pc' = [pc EXCEPT ![t] = "wait"]
      /\ UNCHANGED <<readers2, entered, readQ>> /\ writeQ' = writeQ \cup {t}
  BY WfFacts
<1>2. ReadersInside' = ReadersInside /\ WritersInside' = WritersInside
  BY <1>1, NobodyMoves
<1>3. Announced' = Announced
  BY <1>1 DEF TypeOK, Announced, Threads
<1>4. pc' \in [Threads -> Places]
  BY <1>1 DEF TypeOK, Places
<1>q. WriteQueueWoken'
  BY <1>1 DEF WriteQueueWoken
<1>5. WriteFirstInv'
  BY <1>q, <1>1, <1>2, <1>3, WfFacts DEF WriteFirstInv, TypeOK, Threads
<1> QED
  BY <1>1, <1>2, <1>4, <1>5, WfKeeps DEF TypeOK, RW!vars

\* A spurious wake-up only takes a sleeper out of its wait set.
LEMMA WfSpurious ==
  ASSUME IInv, WfFrame, WriteFirst!SpuriousWakeup
  PROVE  IInv' /\ [RW!Next]_(RW!vars)
<1> USE DEF WriteFirst!SpuriousWakeup, WriteFirst!benchVars
<1>1. /\ TypeOK /\ UNCHANGED <<pc, readers2, entered>>
      /\ readQ' \subseteq readQ /\ writeQ' \subseteq writeQ
  BY WfFacts
<1>2. ReadersInside' = ReadersInside /\ WritersInside' = WritersInside /\ Announced' = Announced
  BY <1>1 DEF ReadersInside, WritersInside, Announced
<1>q. WriteQueueWoken'
  BY <1>1, WfFacts DEF WriteFirstInv, WriteQueueWoken
<1>3. WriteFirstInv'
  BY <1>q, <1>1, <1>2, WfFacts DEF WriteFirstInv
<1> QED
  BY <1>1, <1>2, <1>3, WfKeeps DEF TypeOK, RW!vars

\* Every step of a thread under rwlock_write_first.
LEMMA WfStep ==
  ASSUME IInv, WfFrame, NEW t \in Threads, WriteFirst!Step(t)
  PROVE  IInv' /\ [RW!Next]_(RW!vars)
<1>1. CASE BenchStep(t) /\ UNCHANGED <<readers2, entered, readQ, writeQ>>
  <2>1. TypeOK
    BY WfFacts
  <2>2. /\ pc' \in [Threads -> Places]
        /\ ReadersInside' = ReadersInside /\ WritersInside' = WritersInside
        /\ \E from \in {"test", "turn", "left"}, to \in {"test", "turn", "lock", "done"} :
               pc[t] = from /\ pc' = [pc EXCEPT ![t] = to]
    BY <1>1, <2>1, BenchStepMoves
  <2>3. Announced' = Announced
    BY <2>1, <2>2 DEF TypeOK, Announced, Threads
  <2>q. WriteQueueWoken'
    BY <1>1, <2>2, WfQueue
  <2>4. WriteFirstInv'
    BY <2>q, <1>1, <2>1, <2>2, <2>3, WfFacts DEF WriteFirstInv, TypeOK, Threads
  <2> QED
    BY <1>1, <2>1, <2>2, <2>4, WfKeeps DEF RW!vars, TypeOK
<1>2. WriteFirst!BenchStep(t) <=> BenchStep(t)
  BY DEF WriteFirst!BenchStep, BenchStep, WriteFirst!TestReading, TestReading,
         WriteFirst!TestTurn, TestTurn, WriteFirst!Count, Count, WriteFirst!Goto, Goto
<1> QED
  BY <1>1, <1>2, WfAnnounce, WfDrained, WfUnlock, WfLockShared, WfUnlockShared, WfNotify, WfBlock
     DEF WriteFirst!Step, WriteFirst!lockVars

-----------------------------------------------------------------------------
\* rwlock of atomic/rwlock.cpp
WordFrame == lock = "word" /\ UNCHANGED <<program, lock, cvVars, writeFirstVars, ticketVars>>

\* What an action of rwlock (atomic/rwlock.cpp) has to establish.
LEMMA WordKeeps ==
  ASSUME IInv, WordFrame, pc' \in [Threads -> Places], count' \in Int,
         expected' \in [Readers -> Int], WordInv', [RW!Next]_(RW!vars)
  PROVE  IInv'
<1>1. OneWriter'
  BY MovesKeepOneWriter DEF IInv
<1>2. TypeOK' /\ Unused'
  BY DEF IInv, TypeOK, Unused, WordFrame, cvVars, writeFirstVars, ticketVars
<1> QED
  BY <1>1, <1>2 DEF IInv, WordFrame

\* What the word says to whoever exchanges it.
LEMMA WordFacts ==
  ASSUME IInv, WordFrame
  PROVE  /\ TypeOK /\ OneWriter /\ WordInv
         /\ count = 0 => ReadersInside = {} /\ WritersInside = {}
         /\ count >= 0 => WritersInside = {} /\ count = Cardinality(ReadersInside)
         /\ ReadersInside # {} => WritersInside = {}
  BY InsideFinite DEF IInv, WordFrame, WordInv, Tells, OneWriter

\* write_lock(): the exchange of 0 by -1 lets the writer in alone.
LEMMA WordLock ==
  ASSUME IInv, WordFrame, NEW w \in Writers, Word!Lock(w)
  PROVE  IInv' /\ [RW!Next]_(RW!vars)
<1> USE DEF Word!Lock, Word!Goto
<1>1. TypeOK /\ w \in Threads /\ w \notin Readers
  BY WordFacts DEF Threads
<1>2. RW!Lock(w)
  BY <1>1, WordFacts, WriterComes
<1>3. pc' \in [Threads -> Places] /\ \A r \in Readers : pc'[r] = pc[r]
  BY <1>1 DEF TypeOK, Places, Threads
<1>4. WordInv'
  BY <1>1, <1>2, <1>3, WordFacts DEF WordInv, Tells, RW!Lock
<1> QED
  BY <1>1, <1>2, <1>3, <1>4, WordKeeps DEF TypeOK, RW!Next

\* write_unlock() stores 0 when the writer, who was alone, leaves.
LEMMA WordUnlock ==
  ASSUME IInv, WordFrame, NEW w \in Writers, Word!Unlock(w)
  PROVE  IInv' /\ [RW!Next]_(RW!vars)
<1> USE DEF Word!Unlock, Word!Goto
<1>1. TypeOK /\ OneWriter /\ w \in Threads /\ w \notin Readers
  BY WordFacts DEF Threads
<1>2. RW!Unlock(w) /\ ReadersInside = {}
  BY <1>1, WriterLeaves
<1>3. pc' \in [Threads -> Places] /\ \A r \in Readers : pc'[r] = pc[r]
  BY <1>1 DEF TypeOK, Places, Threads
<1>4. WordInv'
  BY <1>1, <1>2, <1>3, WordFacts, FS_EmptySet DEF WordInv, Tells, RW!Unlock
<1> QED
  BY <1>1, <1>2, <1>3, <1>4, WordKeeps DEF TypeOK, RW!Next

\* read_lock(): the exchange succeeds only on the number of readers inside, and no
\* writer is there.
LEMMA WordLockShared ==
  ASSUME IInv, WordFrame, NEW r \in Readers, Word!LockShared(r)
  PROVE  IInv' /\ [RW!Next]_(RW!vars)
<1> USE DEF Word!LockShared, Word!Goto
<1>1. TypeOK /\ r \in Threads /\ count >= 0 /\ expected[r] = count
  BY WordFacts DEF Threads, WordInv
<1>2. RW!LockShared(r) /\ Cardinality(ReadersInside)' = Cardinality(ReadersInside) + 1
  BY <1>1, WordFacts, ReaderComes
<1>3. pc' \in [Threads -> Places] /\ pc'[r] = "inside" /\ \A u \in Readers \ {r} : pc'[u] = pc[u]
  BY <1>1 DEF TypeOK, Places, Threads
<1>4. count' \in Int /\ expected' \in [Readers -> Int]
      /\ \A u \in Readers \ {r} : expected'[u] = expected[u]
  BY <1>1 DEF TypeOK
<1>5. WordInv'
  BY <1>1, <1>2, <1>3, <1>4, WordFacts DEF WordInv, Tells, RW!LockShared
<1> QED
  BY <1>2, <1>3, <1>4, <1>5, WordKeeps DEF RW!Next

\* read_unlock() subtracts the reader that leaves.
LEMMA WordUnlockShared ==
  ASSUME IInv, WordFrame, NEW r \in Readers, Word!UnlockShared(r)
  PROVE  IInv' /\ [RW!Next]_(RW!vars)
<1> USE DEF Word!UnlockShared, Word!Goto
<1>1. TypeOK /\ r \in Threads
  BY WordFacts DEF Threads
<1>2. /\ RW!UnlockShared(r) /\ Cardinality(ReadersInside)' = Cardinality(ReadersInside) - 1
      /\ ReadersInside # {}
  BY <1>1, WordFacts, ReaderLeaves
<1>3. pc' \in [Threads -> Places] /\ pc'[r] = "left" /\ \A u \in Readers \ {r} : pc'[u] = pc[u]
  BY <1>1 DEF TypeOK, Places, Threads
<1>4. WordInv'
  BY <1>1, <1>2, <1>3, WordFacts DEF WordInv, Tells, RW!UnlockShared
<1> QED
  BY <1>1, <1>2, <1>3, <1>4, WordKeeps DEF RW!Next, TypeOK

\* A reader that loads the word, or whose exchange fails
LEMMA WordTry ==
  ASSUME IInv, WordFrame, NEW r \in Readers, Word!LoadCount(r) \/ Word!CasFails(r)
  PROVE  IInv' /\ [RW!Next]_(RW!vars)
<1> USE DEF Word!LoadCount, Word!CasFails, Word!Goto
<1>1. TypeOK /\ r \in Threads /\ UNCHANGED count
  BY WordFacts DEF Threads
<1>2. ReadersInside' = ReadersInside /\ WritersInside' = WritersInside
  BY <1>1, NobodyMoves
<1>3. /\ pc' \in [Threads -> Places] /\ expected' \in [Readers -> Int]
      /\ expected'[r] >= 0
      /\ \A u \in Readers \ {r} : pc'[u] = pc[u] /\ expected'[u] = expected[u]
  BY <1>1 DEF TypeOK, Places, Threads
<1>4. WordInv'
  BY <1>1, <1>2, <1>3, WordFacts DEF WordInv, Tells
<1> QED
  BY <1>1, <1>2, <1>3, <1>4, WordKeeps DEF RW!vars, TypeOK

\* Every step of a thread under that lock.
LEMMA WordStepKeeps ==
  ASSUME IInv, WordFrame, NEW t \in Threads, Word!WordStep(t)
  PROVE  IInv' /\ [RW!Next]_(RW!vars)
<1>1. CASE BenchStep(t) /\ UNCHANGED <<count, expected>>
  <2>1. TypeOK
    BY WordFacts
  <2>2. /\ pc' \in [Threads -> Places]
        /\ ReadersInside' = ReadersInside /\ WritersInside' = WritersInside
        /\ \E from \in {"test", "turn", "left"}, to \in {"test", "turn", "lock", "done"} :
               pc[t] = from /\ pc' = [pc EXCEPT ![t] = to]
    BY <1>1, <2>1, BenchStepMoves
  <2>3. WordInv'
    BY <1>1, <2>1, <2>2, WordFacts DEF WordInv, Tells, TypeOK, Threads
  <2> QED
    BY <1>1, <2>1, <2>2, <2>3, WordKeeps DEF RW!vars, TypeOK
<1>2. Word!BenchStep(t) <=> BenchStep(t)
  BY DEF Word!BenchStep, BenchStep, Word!TestReading, TestReading, Word!TestTurn, TestTurn,
         Word!Count, Count, Word!Goto, Goto
<1> QED
  BY <1>1, <1>2, WordLock, WordUnlock, WordLockShared, WordUnlockShared, WordTry
     DEF Word!WordStep, Word!CasSucceeds, Word!wordVars

-----------------------------------------------------------------------------
\* ticketlock of atomic/rwlock.cpp
TicketFrame == lock = "ticketlock" /\ UNCHANGED <<program, lock, cvVars, writeFirstVars, wordVars>>

\* fetch_add wraps to 0 after the last value.
LEMMA Wraps ==
  ASSUME NEW n \in 0 .. Mod - 1
  PROVE  (n + 1) % Mod = IF n = Mod - 1 THEN 0 ELSE n + 1
  BY ThreadsFinite

\* What an action of ticketlock (atomic/rwlock.cpp) has to establish.
LEMMA TicketKeeps ==
  ASSUME IInv, TicketFrame, pc' \in [Threads -> Places], turn' \in 0 .. Mod - 1,
         ticket' \in 0 .. Mod - 1, me' \in [Threads -> 0 .. Mod - 1], TicketInv',
         [RW!Next]_(RW!vars)
  PROVE  IInv'
<1>1. OneWriter'
  BY MovesKeepOneWriter DEF IInv
<1>2. TypeOK' /\ Unused'
  BY DEF IInv, TypeOK, Unused, TicketFrame, cvVars, writeFirstVars, wordVars
<1> QED
  BY <1>1, <1>2 DEF IInv, TicketFrame

\* What a step of the ticket lock needs to know.
LEMMA TicketFacts ==
  ASSUME IInv, TicketFrame
  PROVE  /\ TypeOK /\ OneWriter /\ TicketInv
         /\ turn \in 0 .. Mod - 1 /\ ticket \in 0 .. Mod - 1 /\ me \in [Threads -> 0 .. Mod - 1]
         /\ ReadersInside \cup WritersInside \subseteq Holding
  BY DEF IInv, TicketFrame, TypeOK, ReadersInside, WritersInside, Holding, Threads

\* There are fewer threads with a ticket than ticket values.
LEMMA QueueFinite ==
  /\ IsFiniteSet(Spinning \cup Holding) /\ Cardinality(Spinning \cup Holding) \in Nat
  /\ Cardinality(Spinning \cup Holding) < Mod
<1>1. Spinning \cup Holding \subseteq Threads
  BY DEF Spinning, Holding
<1> QED
  BY <1>1, ThreadsFinite, FS_Subset, FS_CardinalityType

\* There is room for one more, and the number that is drawn is nobody's.
LEMMA TicketTake ==
  ASSUME IInv, TicketFrame, NEW t \in Threads, Word!TakeTicket(t)
  PROVE  IInv' /\ [RW!Next]_(RW!vars)
<1> USE DEF Word!TakeTicket, Word!Goto
<1>1. TypeOK /\ TicketInv /\ pc[t] = "lock" /\ pc' = [pc EXCEPT ![t] = "spin"] /\ turn' = turn
      /\ turn \in 0 .. Mod - 1 /\ ticket \in 0 .. Mod - 1
  BY TicketFacts
<1>2. ReadersInside' = ReadersInside /\ WritersInside' = WritersInside
  BY <1>1, NobodyMoves
<1>3. pc' \in [Threads -> Places]
  BY <1>1 DEF TypeOK, Places
<1>4. Holding' = Holding /\ Spinning' = Spinning \cup {t} /\ t \notin Spinning \cup Holding
  BY <1>1 DEF TypeOK, Spinning, Holding
<1>5. Cardinality(Spinning \cup Holding)' = Cardinality(Spinning \cup Holding) + 1
  <2>1. (Spinning \cup Holding)' = (Spinning \cup Holding) \cup {t}
    BY <1>4
  <2> QED
    BY <1>4, <2>1, QueueFinite, FS_AddElement
<1>6. Cardinality(Spinning \cup Holding) + 1 < Mod
  <2>1. Spinning \cup Holding # Threads /\ Spinning \cup Holding \subseteq Threads
    BY <1>4 DEF Spinning, Holding
  <2>2. Cardinality(Spinning \cup Holding) < Cardinality(Threads)
    BY <2>1, ThreadsFinite, FS_Subset, FS_CardinalityType
  <2> QED
    BY <2>2, QueueFinite, ThreadsFinite
<1>7. Dist(turn, ticket) = Cardinality(Spinning \cup Holding)
  BY <1>1 DEF TicketInv
<1>8. ticket' = IF ticket = Mod - 1 THEN 0 ELSE ticket + 1
  BY <1>1, Wraps
<1>9. Dist(turn', ticket') = Dist(turn, ticket) + 1 /\ ticket' \in 0 .. Mod - 1
  BY <1>1, <1>6, <1>7, <1>8, ThreadsFinite, QueueFinite DEF Dist
<1>10. /\ me' \in [Threads -> 0 .. Mod - 1] /\ me'[t] = ticket
       /\ \A u \in Threads \ {t} : me'[u] = me[u]
  BY <1>1 DEF TypeOK
<1>11. TicketInv'
  <2>1. Dist(turn, ticket)' = Cardinality(Spinning \cup Holding)'
    BY <1>5, <1>7, <1>9 DEF Dist
  <2>2. \A u \in Spinning : Dist(turn, me[u]) < Dist(turn, ticket) /\ me'[u] = me[u]
                            /\ me[u] \in 0 .. Mod - 1
    BY <1>1, <1>4, <1>10 DEF TicketInv, TypeOK, Spinning
  <2>3. \A u \in Spinning : me[u] # ticket
    BY <2>2, <1>1, ThreadsFinite DEF Dist
  <2>4. \A u \in Spinning' : Dist(turn', me'[u]) < Dist(turn', ticket')
    BY <1>1, <1>4, <1>9, <1>10, <2>2, ThreadsFinite DEF Dist
  <2>5. \A u, v \in Spinning' : me'[u] = me'[v] => u = v
    BY <1>1, <1>4, <1>10, <2>2, <2>3 DEF TicketInv
  <2>6. ASSUME NEW h \in Holding PROVE ticket # turn
    <3>1. Cardinality(Spinning \cup Holding) # 0
      BY <2>6, QueueFinite, FS_EmptySet
    <3> QED
      BY <1>1, <1>7, <3>1 DEF Dist
  <2>7. \A h \in Holding' : Holding' = {h} /\ \A u \in Spinning' : me'[u] # turn'
    BY <1>1, <1>4, <1>10, <2>2, <2>6 DEF TicketInv
  <2>8. \A u \in Threads : pc'[u] = "pass" => me'[u] = turn'
    BY <1>1, <1>10 DEF TicketInv, TypeOK
  <2> QED
    BY <2>1, <2>4, <2>5, <2>7, <2>8 DEF TicketInv, Dist
<1> QED
  BY <1>1, <1>2, <1>3, <1>9, <1>10, <1>11, TicketKeeps DEF RW!vars

\* The spinner that finds its number is alone: nobody holds the lock.
LEMMA TicketEnter ==
  ASSUME IInv, TicketFrame, NEW t \in Threads, Word!Enter(t)
  PROVE  IInv' /\ [RW!Next]_(RW!vars)
<1> USE DEF Word!Enter, Word!Goto
<1>1. TypeOK /\ TicketInv /\ pc[t] = "spin" /\ pc' = [pc EXCEPT ![t] = "inside"]
      /\ UNCHANGED <<turn, ticket>> /\ me[t] = turn /\ turn \in 0 .. Mod - 1
  BY TicketFacts
<1>2. Holding = {} /\ Holding' = {t} /\ Spinning' = Spinning \ {t} /\ t \in Spinning
  <2>1. t \in Spinning /\ Holding = {}
    BY <1>1 DEF TicketInv, Spinning
  <2> QED
    BY <1>1, <2>1 DEF TypeOK, Spinning, Holding
<1>3. pc' \in [Threads -> Places]
  BY <1>1 DEF TypeOK, Places
<1>4. /\ me' \in [Threads -> 0 .. Mod - 1]
      /\ \A u \in Threads \ {t} : me'[u] = me[u]
  BY <1>1, ThreadsFinite DEF TypeOK
<1>5. (\E r \in Readers : RW!LockShared(r)) \/ (\E w \in Writers : RW!Lock(w))
  <2>1. ReadersInside = {} /\ WritersInside = {} /\ pc[t] # "inside"
    BY <1>1, <1>2, TicketFacts
  <2>2. CASE t \in Readers
    BY <1>1, <2>1, <2>2, ReaderComes
  <2>3. CASE t \in Writers
    BY <1>1, <2>1, <2>3, WriterComes
  <2> QED
    BY <2>2, <2>3 DEF Threads
<1>6. TicketInv'
  <2>1. (Spinning \cup Holding)' = Spinning \cup Holding
    BY <1>2
  <2>2. \A u \in Spinning' : me'[u] = me[u] /\ u \in Spinning
    BY <1>2, <1>4 DEF Spinning
  <2>3. \A u \in Spinning' : me'[u] # turn
    BY <1>1, <1>2, <2>2 DEF TicketInv
  <2>4. \A u \in Threads : pc'[u] # "pass"
    BY <1>2 DEF Holding
  <2> QED
    BY <1>1, <1>2, <2>1, <2>2, <2>3, <2>4 DEF TicketInv, Dist
<1> QED
  BY <1>1, <1>3, <1>4, <1>5, <1>6, TicketKeeps, TicketFacts DEF RW!Next

\* unlock() loads turn_, which nobody else writes while the lock is held.
LEMMA TicketLoad ==
  ASSUME IInv, TicketFrame, NEW t \in Threads, Word!LoadTurn(t)
  PROVE  IInv' /\ [RW!Next]_(RW!vars)
<1> USE DEF Word!LoadTurn, Word!Goto
<1>1. TypeOK /\ OneWriter /\ TicketInv /\ pc[t] = "inside" /\ pc' = [pc EXCEPT ![t] = "pass"]
      /\ UNCHANGED <<turn, ticket>> /\ turn \in 0 .. Mod - 1
  BY TicketFacts
<1>2. Holding' = Holding /\ Spinning' = Spinning /\ Holding = {t}
  <2>1. t \in Holding
    BY <1>1 DEF Holding
  <2> QED
    BY <1>1, <2>1 DEF TypeOK, TicketInv, Spinning, Holding
<1>3. pc' \in [Threads -> Places]
  BY <1>1 DEF TypeOK, Places
<1>4. /\ me' \in [Threads -> 0 .. Mod - 1] /\ me'[t] = turn
      /\ \A u \in Threads \ {t} : me'[u] = me[u]
  BY <1>1 DEF TypeOK
<1>5. [RW!Next]_(RW!vars)
  <2>1. CASE t \in Readers
    BY <1>1, <2>1, ReaderLeaves DEF RW!Next
  <2>2. CASE t \in Writers
    BY <1>1, <2>2, WriterLeaves DEF RW!Next
  <2> QED
    BY <2>1, <2>2 DEF Threads
<1>6. TicketInv'
  <2>1. \A u \in Spinning' : me'[u] = me[u]
    BY <1>1, <1>2, <1>4 DEF Spinning
  <2>2. \A u \in Threads : pc'[u] = "pass" => me'[u] = turn'
    BY <1>1, <1>2, <1>4 DEF Holding
  <2> QED
    BY <1>1, <1>2, <2>1, <2>2 DEF TicketInv, Dist
<1> QED
  BY <1>1, <1>3, <1>4, <1>5, <1>6, TicketKeeps, TicketFacts

\* The next number is called: everyone who spins comes one closer.
LEMMA TicketPass ==
  ASSUME IInv, TicketFrame, NEW t \in Threads, Word!PassTurn(t)
  PROVE  IInv' /\ [RW!Next]_(RW!vars)
<1> USE DEF Word!PassTurn, Word!Goto
<1>1. TypeOK /\ TicketInv /\ pc[t] = "pass" /\ pc' = [pc EXCEPT ![t] = "left"]
      /\ ticket' = ticket /\ turn \in 0 .. Mod - 1 /\ ticket \in 0 .. Mod - 1
  BY TicketFacts
<1>2. Holding = {t} /\ Holding' = {} /\ Spinning' = Spinning /\ t \notin Spinning
  <2>1. t \in Holding
    BY <1>1 DEF Holding
  <2>2. Holding = {t}
    BY <1>1, <2>1 DEF TicketInv
  <2> QED
    BY <1>1, <2>2 DEF TypeOK, Spinning, Holding
<1>3. pc' \in [Threads -> Places]
  BY <1>1 DEF TypeOK, Places
<1>4. ReadersInside' = ReadersInside /\ WritersInside' = WritersInside
  BY <1>1, NobodyMoves
<1>5. turn' = IF turn = Mod - 1 THEN 0 ELSE turn + 1
  BY <1>1, Wraps DEF TicketInv
<1>6. /\ me' \in [Threads -> 0 .. Mod - 1] /\ turn' \in 0 .. Mod - 1
      /\ \A u \in Spinning : me'[u] = me[u] /\ me[u] \in 0 .. Mod - 1 /\ me[u] # turn
  BY <1>1, <1>2, <1>5, ThreadsFinite DEF TypeOK, TicketInv, Spinning
<1>7. Cardinality(Spinning \cup Holding)' = Cardinality(Spinning \cup Holding) - 1
  <2>1. (Spinning \cup Holding)' = (Spinning \cup Holding) \ {t}
    BY <1>2
  <2> QED
    BY <1>2, <2>1, QueueFinite, FS_RemoveElement
<1>8. Dist(turn, ticket) = Cardinality(Spinning \cup Holding) /\ Dist(turn, ticket) # 0
  <2>1. Cardinality(Spinning \cup Holding) # 0
    BY <1>2, QueueFinite, FS_EmptySet
  <2> QED
    BY <1>1, <2>1 DEF TicketInv
<1>9. Dist(turn', ticket) = Dist(turn, ticket) - 1
  BY <1>1, <1>5, <1>8, ThreadsFinite DEF Dist
<1>10. \A u \in Spinning : Dist(turn', me[u]) = Dist(turn, me[u]) - 1 /\ Dist(turn, me[u]) \in Int
  BY <1>1, <1>5, <1>6, ThreadsFinite DEF Dist
<1>11. TicketInv'
  <2>1. Dist(turn', ticket') = Cardinality(Spinning \cup Holding)'
    BY <1>1, <1>7, <1>8, <1>9
  <2>2. \A u \in Spinning' : Dist(turn', me'[u]) < Dist(turn', ticket')
    BY <1>1, <1>2, <1>6, <1>8, <1>9, <1>10, QueueFinite DEF TicketInv
  <2>3. \A u, v \in Spinning' : me'[u] = me'[v] => u = v
    BY <1>1, <1>2, <1>6 DEF TicketInv
  <2>4. \A u \in Threads : pc'[u] # "pass"
    BY <1>2 DEF Holding
  <2> QED
    BY <1>2, <2>1, <2>2, <2>3, <2>4 DEF TicketInv, Dist
<1> QED
  BY <1>1, <1>3, <1>4, <1>6, <1>11, TicketKeeps DEF RW!vars

\* Every step of a thread under the ticket lock.
LEMMA TicketStepKeeps ==
  ASSUME IInv, TicketFrame, NEW t \in Threads, Word!TicketStep(t)
  PROVE  IInv' /\ [RW!Next]_(RW!vars)
<1>1. CASE BenchStep(t) /\ UNCHANGED <<turn, ticket, me>>
  <2>1. TypeOK /\ TicketInv /\ turn \in 0 .. Mod - 1 /\ ticket \in 0 .. Mod - 1
        /\ me \in [Threads -> 0 .. Mod - 1]
    BY TicketFacts
  <2>2. /\ pc' \in [Threads -> Places]
        /\ ReadersInside' = ReadersInside /\ WritersInside' = WritersInside
        /\ \E from \in {"test", "turn", "left"}, to \in {"test", "turn", "lock", "done"} :
               pc[t] = from /\ pc' = [pc EXCEPT ![t] = to]
    BY <1>1, <2>1, BenchStepMoves
  <2>3. Holding' = Holding /\ Spinning' = Spinning
        /\ \A u \in Threads : pc'[u] = "pass" => pc[u] = "pass"
    BY <2>1, <2>2 DEF Holding, Spinning, TypeOK
  <2>4. TicketInv'
    BY <1>1, <2>1, <2>3 DEF TicketInv, Dist
  <2> QED
    BY <1>1, <2>1, <2>2, <2>4, TicketKeeps DEF RW!vars
<1>2. Word!BenchStep(t) <=> BenchStep(t)
  BY DEF Word!BenchStep, BenchStep, Word!TestReading, TestReading, Word!TestTurn, TestTurn,
         Word!Count, Count, Word!Goto, Goto
<1> QED
  BY <1>1, <1>2, TicketTake, TicketEnter, TicketLoad, TicketPass
     DEF Word!TicketStep, Word!ticketVars

-----------------------------------------------------------------------------
\* main goes on to the next lock when all the threads are done.
LEMMA NextLockKeeps ==
  ASSUME IInv, NextLock
  PROVE  IInv' /\ [RW!Next]_(RW!vars)
<1> USE DEF NextLock
<1>1. TypeOK /\ Unused /\ OneWriter /\ \A t \in Threads : pc[t] = "done" /\ pc'[t] = "test"
  BY DEF IInv, AllDone
<1>2. /\ ReadersInside = {} /\ WritersInside = {} /\ ReadersInside' = {} /\ WritersInside' = {}
  BY <1>1 DEF ReadersInside, WritersInside, Threads
<1>3. TypeOK'
  <2>1. pc' \in [Threads -> Places]
    BY DEF Places
  <2> QED
    BY <1>1, <2>1 DEF TypeOK, cvVars, writeFirstVars, wordVars, ticketVars
<1>4. CASE lock = "rwlock" /\ lock' = "rwlock_write_first"
  <2>1. RwInv
    BY <1>4 DEF IInv
  <2>2. waiters = {}
    BY <1>1, <2>1 DEF RwInv, TypeOK
  <2>3. Announced' = {}
    BY <1>1 DEF Announced, Threads
  <2>4. readers2' = 0 /\ ~entered' /\ readQ' = {} /\ writeQ' = {} /\ waiters' = {}
    BY <1>1, <1>4, <2>2 DEF Unused, writeFirstVars, cvVars
  <2>5. WriteFirstInv' /\ Unused'
    BY <1>2, <1>4, <2>3, <2>4, FS_EmptySet DEF WriteFirstInv, WriteQueueWoken, Unused
  <2> QED
    BY <1>2, <1>3, <1>4, <2>5 DEF IInv, OneWriter, RW!vars
<1>5. CASE lock = "word" /\ lock' = "ticketlock"
  <2>1. turn' = 0 /\ ticket' = 0 /\ (Spinning \cup Holding)' = {} /\ Spinning' = {} /\ Holding' = {}
    BY <1>1, <1>5 DEF Unused, ticketVars, Spinning, Holding
  <2>2. TicketInv'
    BY <1>1, <2>1, FS_EmptySet DEF TicketInv, Dist
  <2>3. Unused'
    BY <1>1, <1>5 DEF Unused, cvVars, writeFirstVars
  <2> QED
    BY <1>2, <1>3, <1>5, <2>2, <2>3 DEF IInv, OneWriter, RW!vars
<1> QED
  BY <1>4, <1>5

\* The end of the program changes nothing.
LEMMA Stutters ==
  ASSUME IInv, UNCHANGED vars
  PROVE  IInv' /\ [RW!Next]_(RW!vars)
<1>1. ReadersInside' = ReadersInside /\ WritersInside' = WritersInside
      /\ Spinning' = Spinning /\ Holding' = Holding /\ Announced' = Announced
  BY DEF vars, benchVars, ReadersInside, WritersInside, Spinning, Holding, Announced
<1>2. TypeOK' /\ Unused' /\ OneWriter'
  BY <1>1 DEF IInv, vars, benchVars, TypeOK, Unused, OneWriter, cvVars, writeFirstVars, wordVars, ticketVars
<1>3. RwInv => RwInv'
  BY <1>1 DEF vars, benchVars, cvVars, RwInv, Tells
<1>4. WriteFirstInv => WriteFirstInv'
  BY <1>1 DEF vars, benchVars, writeFirstVars, WriteFirstInv, WriteQueueWoken
<1>5. WordInv => WordInv'
  BY <1>1 DEF vars, benchVars, wordVars, WordInv, Tells
<1>6. TicketInv => TicketInv'
  BY <1>1 DEF vars, benchVars, ticketVars, TicketInv, Dist
<1> QED
  BY <1>1, <1>2, <1>3, <1>4, <1>5, <1>6 DEF IInv, vars, RW!vars

\* Spurious wake-ups, of whichever lock is in use.
LEMMA SpuriousKeeps ==
  ASSUME IInv, SpuriousWakeup
  PROVE  IInv' /\ [RW!Next]_(RW!vars)
<1>1. Unused
  BY DEF IInv
<1>2. CASE CvLock!SpuriousWakeup /\ UNCHANGED writeFirstVars
  <2>1. lock = "rwlock"
    BY <1>1, <1>2 DEF Unused, CvLock!SpuriousWakeup
  <2> QED
    BY <1>2, <2>1, RwSpurious DEF SpuriousWakeup, RwFrame
<1>3. CASE WriteFirst!SpuriousWakeup /\ UNCHANGED cvVars
  <2>1. lock = "rwlock_write_first"
    BY <1>1, <1>3 DEF Unused, WriteFirst!SpuriousWakeup
  <2> QED
    BY <1>3, <2>1, WfSpurious DEF SpuriousWakeup, WfFrame
<1> QED
  BY <1>2, <1>3 DEF SpuriousWakeup

\* Every step of the program keeps the invariant and maps to RWMutex.
LEMMA NextKeeps ==
  ASSUME IInv, [Next]_vars
  PROVE  IInv' /\ [RW!Next]_(RW!vars)
<1>1. ASSUME NEW t \in Threads, Step(t) PROVE IInv' /\ [RW!Next]_(RW!vars)
  <2>1. CASE lock = "rwlock" /\ CvLock!Step(t) /\ UNCHANGED <<writeFirstVars, wordVars, ticketVars>>
    BY <1>1, <2>1, RwStep DEF Step, RwFrame
  <2>2. CASE /\ lock = "rwlock_write_first" /\ WriteFirst!Step(t)
             /\ UNCHANGED <<cvVars, wordVars, ticketVars>>
    BY <1>1, <2>2, WfStep DEF Step, WfFrame
  <2>3. CASE lock = "word" /\ Word!WordStep(t) /\ UNCHANGED <<cvVars, writeFirstVars, ticketVars>>
    BY <1>1, <2>3, WordStepKeeps DEF Step, WordFrame
  <2>4. CASE lock = "ticketlock" /\ Word!TicketStep(t) /\ UNCHANGED <<cvVars, writeFirstVars, wordVars>>
    BY <1>1, <2>4, TicketStepKeeps DEF Step, TicketFrame
  <2> QED
    BY <1>1, <2>1, <2>2, <2>3, <2>4 DEF Step
<1> QED
  BY <1>1, SpuriousKeeps, NextLockKeeps, Stutters DEF Next

\* The inductive invariant: the word, the counters and the wait sets of the lock in
\* use agree with the places of the threads, in every state of either program.
THEOREM Invariance == Spec => []IInv
<1>1. IInv /\ [Next]_vars => IInv'
  BY NextKeeps
<1> QED
  BY <1>1, InitIInv, PTL DEF Spec

\* No wake-up is lost.  In rwlock whoever sleeps while readers_ is 0 has a
\* notification coming, or a woken thread that will pass it on; in rwlock_write_first
\* a writer that sleeps although the readers have left is about to be notified by the
\* last of them, there is only one such writer, and whoever sleeps behind it waits for
\* it to leave or to notify.
THEOREM WakeupsKept == Spec => []NoLostWakeup
<1>1. IInv => NoLostWakeup
  <2> SUFFICES ASSUME IInv PROVE NoLostWakeup
    OBVIOUS
  <2>1. CvLock!WritersInside = WritersInside /\ CvLock!ReadersInside = ReadersInside
        /\ CvLock!Threads = Threads
        /\ CvLock!Cardinality(ReadersInside) = Cardinality(ReadersInside)
        /\ WriteFirst!Cardinality(Announced) = Cardinality(Announced)
    BY Zenon DEF CvLock!WritersInside, CvLock!ReadersInside, CvLock!Threads,
           WritersInside, ReadersInside, Threads,
           CvLock!Cardinality, WriteFirst!Cardinality, Cardinality
  <2>2. ASSUME lock = "rwlock" PROVE CvLock!NoLostWakeup
    <3>1. RwInv
      BY <2>2 DEF IInv
    <3>2. readers = IF WritersInside # {} THEN -1 ELSE Cardinality(ReadersInside)
      BY <3>1 DEF RwInv, Tells
    <3>3. readers = 0 /\ waiters # {} =>
             \/ \E t \in Threads : pc[t] \in {"notify_all", "notify_one"}
             \/ \E t \in Threads : pc[t] = "wait" /\ t \notin waiters
      BY <3>1 DEF RwInv
    <3> QED
      BY <2>1, <3>2, <3>3, Zenon DEF CvLock!NoLostWakeup
  <2>3. ASSUME lock = "rwlock_write_first" PROVE WriteFirst!SleepersAreWoken
    <3>1. WriteFirstInv
      BY <2>3 DEF IInv
    <3>2. Announced = {} \/ \E w \in Writers : Announced = {w}
      BY <3>1 DEF WriteFirstInv
    <3>3. Cardinality(Announced) <= 1
      BY <3>2, FS_EmptySet, FS_Singleton
    <3>4. \A w \in readQ : readers2 = 0 => \E r \in Readers : pc[r] = "notify_one"
      BY <3>1 DEF WriteFirstInv
    <3>5. writeQ = {} \/ entered \/ \E w \in Writers : pc[w] = "notify_all"
      BY <3>1 DEF WriteFirstInv, WriteQueueWoken
    <3> QED
      BY <2>1, <3>3, <3>4, <3>5, Zenon DEF WriteFirst!SleepersAreWoken, Announced
  <2> QED
    BY <2>2, <2>3 DEF NoLostWakeup
<1> QED
  BY <1>1, Invariance, PTL

\* The four locks let readers in together and a writer in alone, entering and leaving
\* one at a time: the benchmark, whichever lock is used, implements RWMutex.
THEOREM Refinement == Spec => ImplementsRWMutex
<1>1. Init => RW!Init
  BY DEF Init, CvLock!Init, CvLock!BenchInit, CvLock!Threads, RW!Init, ReadersInside,
         WritersInside, Threads
<1>2. IInv /\ [Next]_vars => [RW!Next]_(RW!vars)
  BY NextKeeps
<1> QED
  BY <1>1, <1>2, Invariance, PTL DEF Spec, ImplementsRWMutex, RW!Spec

\* While a writer drains it has announced itself, no other writer has, and none is inside.
LEMMA DrainerAnnounced ==
  ASSUME IInv, lock = "rwlock_write_first", Draining # {}
  PROVE  TypeOK /\ entered /\ WritersInside = {}
<1>1. Draining \subseteq Announced /\ WritersInside \subseteq Announced
      /\ Draining \cap WritersInside = {}
  BY DEF Draining, Announced, WritersInside
<1>2. TypeOK /\ IF entered THEN \E w \in Writers : Announced = {w} ELSE Announced = {}
  BY DEF IInv, WriteFirstInv
<1> QED
  BY <1>1, <1>2

\* rwlock_write_first keeps the promise of its name: a writer that waits for the readers
\* inside to leave is overtaken by no reader that comes later and by no writer.
THEOREM FirstWriters == Spec => WritersFirst
<1> DEFINE Overtaken == ~(ReadersInside' \subseteq ReadersInside /\ WritersInside' \subseteq Draining)
<1>1. ASSUME IInv, [Next]_vars, lock = "rwlock_write_first", Draining # {} PROVE ~Overtaken
  <2>1. TypeOK /\ entered /\ WritersInside = {}
    BY <1>1, DrainerAnnounced
  <2>2. ASSUME NEW t \in Threads, WriteFirst!Step(t) PROVE ~Overtaken
    <3>1. CASE WriteFirst!BenchStep(t)
      BY <2>1, <2>2, <3>1 DEF WriteFirst!BenchStep, WriteFirst!TestReading, WriteFirst!TestTurn,
         WriteFirst!Count, WriteFirst!Goto, TypeOK, ReadersInside, WritersInside, Threads
    <3>2. CASE WriteFirst!BlockOnWriteQ(t)
      BY <2>1, <3>2 DEF WriteFirst!BlockOnWriteQ, TypeOK, ReadersInside, WritersInside, Threads
    <3>3. CASE t \in Writers /\ WriteFirst!Drained(t)
      BY <2>1, <3>3 DEF WriteFirst!Drained, TypeOK, ReadersInside, WritersInside, Draining, Threads
    <3>4. CASE t \in Writers /\ (WriteFirst!Unlock(t) \/ WriteFirst!NotifyAll(t))
      BY <2>1, <3>4 DEF WriteFirst!Unlock, WriteFirst!NotifyAll,
         WriteFirst!Goto, TypeOK, ReadersInside, WritersInside, Threads
    <3>5. CASE t \in Readers /\ (WriteFirst!UnlockShared(t) \/ WriteFirst!NotifyOne(t))
      BY <2>1, <3>5 DEF WriteFirst!UnlockShared, WriteFirst!NotifyOne,
         WriteFirst!Goto, TypeOK, ReadersInside, WritersInside, Threads
    <3> HIDE DEF Overtaken
    <3> QED
      BY <2>1, <2>2, <3>1, <3>2, <3>3, <3>4, <3>5
      DEF WriteFirst!Step, WriteFirst!Announce, WriteFirst!LockShared
  <2>3. CASE \E t \in Threads : Step(t)
    BY <1>1, <2>2, <2>3 DEF Step
  <2>4. CASE SpuriousWakeup
    BY <2>1, <2>4 DEF SpuriousWakeup, CvLock!SpuriousWakeup, WriteFirst!SpuriousWakeup,
       CvLock!benchVars, WriteFirst!benchVars, ReadersInside, WritersInside
  <2>5. CASE NextLock
    BY <1>1, <2>5 DEF NextLock
  <2>6. CASE UNCHANGED vars
    BY <2>1, <2>6 DEF vars, benchVars, ReadersInside, WritersInside
  <2> HIDE DEF Overtaken
  <2> QED
    BY <1>1, <2>3, <2>4, <2>5, <2>6 DEF Next
<1>2. IInv /\ [Next]_vars =>
        [lock = "rwlock_write_first" /\ Draining # {} =>
           ReadersInside' \subseteq ReadersInside /\ WritersInside' \subseteq Draining]_vars
  BY <1>1
<1> QED
  BY <1>2, Invariance, PTL DEF Spec, WritersFirst
=============================================================================
