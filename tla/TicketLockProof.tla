--------------------------- MODULE TicketLockProof ---------------------------
(***************************************************************************)
(* Proofs about TicketLock, and TestLock with its second lock, for any     *)
(* number of threads, loops and ticket numbers.  The argument: the threads *)
(* between fetch_add and the end of unlock() hold pairwise different       *)
(* numbers, all in the circular interval from turn_ up to ticket_, whose   *)
(* length is the number of those threads.                                  *)
(***************************************************************************)
EXTENDS TestLock, FiniteSetTheorems, TLAPS

\* The threads that hold a number.
Queued == {t \in Threads : pc[t] \in {"spin", "load", "store", "unlock", "pass"}}

NumbersInUse == Dist(turn, ticket) = Cardinality(Queued)
NumbersInRange == \A t \in Queued : Dist(turn, me[t]) < Dist(turn, ticket)
NumbersDistinct == \A t, u \in Queued : me[t] = me[u] => t = u
HolderHasTurn == \A t \in Threads : Holding(t) => me[t] = turn
NewTurnCurrent == \A t \in Threads : pc[t] = "pass" => newTurn[t] = turn

\* A thread is done exactly after its last iteration.
LoopCount == \A t \in Threads : IF pc[t] = "done" THEN i[t] = Loops ELSE i[t] < Loops

\* The increments of data that have been stored, as pairs of a thread and the
\* number of the iteration; data counts them.
Stored(t) == i[t] + IF pc[t] \in {"unlock", "pass"} THEN 1 ELSE 0
Increments == {p \in Threads \X (1..Loops) : p[2] <= Stored(p[1])}
DataCounts == main = "waiting" => data = Cardinality(Increments)

MainLast == main = "passed" => data = 0 /\ \A t \in Threads : pc[t] = "done"

\* What holds of the client under either lock.
ClientInv == /\ TypeOK
             /\ LoopCount
             /\ DataCounts
             /\ MainLast
             /\ NoStaleStore

IInv == /\ ClientInv
        /\ NumbersInUse
        /\ NumbersInRange
        /\ NumbersDistinct
        /\ HolderHasTurn
        /\ NewTurnCurrent

USE ThreadsAssumption, LoopsAssumption, ModAssumption

\* Mod is positive.
LEMMA ModPositive == Mod \in Nat /\ Mod >= 1 /\ Cardinality(Threads) \in Nat
  BY FS_CardinalityType

\* Every step of a ticket lock keeps the variables in their types, and counts loops.
LEMMA StepTypes ==
  ASSUME TypeOK, LoopCount, [Next]_vars
  PROVE  (TypeOK /\ LoopCount)'
<1> USE ModPositive DEF TypeOK, LoopCount
<1>1. ASSUME NEW t \in Threads, TakeTicket(t) PROVE (TypeOK /\ LoopCount)'
  BY <1>1 DEF TakeTicket, Goto, Inc
<1>2. ASSUME NEW t \in Threads, Enter(t) PROVE (TypeOK /\ LoopCount)'
  BY <1>2 DEF Enter, Goto, lockVars
<1>3. ASSUME NEW t \in Threads, LoadData(t), UNCHANGED lockVars PROVE (TypeOK /\ LoopCount)'
  BY <1>3 DEF LoadData, Goto, lockVars
<1>4. ASSUME NEW t \in Threads, StoreData(t), UNCHANGED lockVars PROVE (TypeOK /\ LoopCount)'
  BY <1>4 DEF StoreData, Goto, lockVars
<1>5. ASSUME NEW t \in Threads, LoadTurn(t) PROVE (TypeOK /\ LoopCount)'
  BY <1>5 DEF LoadTurn, Goto
<1>6. ASSUME NEW t \in Threads, PassTurn(t) PROVE (TypeOK /\ LoopCount)'
  <2>1. i' \in [Threads -> 0..Loops]
    BY <1>6 DEF PassTurn, NextIteration, Goto
  <2> QED
    BY <1>6, <2>1 DEF PassTurn, NextIteration, Goto, Inc
<1>7. CASE Join /\ UNCHANGED lockVars
  BY <1>7 DEF Join, lockVars
<1>8. CASE UNCHANGED vars
  BY <1>8 DEF vars, clientVars, lockVars
<1> QED
  BY <1>1, <1>2, <1>3, <1>4, <1>5, <1>6, <1>7, <1>8
  DEF Next, Step, Terminated, vars

-----------------------------------------------------------------------------
\* Finiteness of the two sets that are counted.
LEMMA QueuedFinite == IsFiniteSet(Queued) /\ Cardinality(Queued) \in Nat
                      /\ Cardinality(Queued) <= Cardinality(Threads)
  BY FS_Subset, FS_CardinalityType DEF Queued

LEMMA IncrementsFinite == IsFiniteSet(Increments) /\ Cardinality(Increments) \in Nat
<1>1. IsFiniteSet(Threads \X (1..Loops))
  <2>1. IsFiniteSet(1..Loops)
    BY FS_Interval
  <2> QED
    BY <2>1, FS_Product
<1> QED
  BY <1>1, FS_Subset, FS_CardinalityType DEF Increments

LEMMA InitIInv == Init => IInv
<1> SUFFICES ASSUME Init PROVE IInv
  OBVIOUS
<1>1. TypeOK /\ LoopCount
  BY ModPositive DEF Init, ClientInit, TypeOK, LoopCount
<1>2. Queued = {} /\ Increments = {}
  BY DEF Init, ClientInit, Queued, Increments, Stored
<1> QED
  BY <1>1, <1>2, FS_EmptySet, ModPositive
  DEF Init, ClientInit, IInv, ClientInv, DataCounts, MainLast, NoStaleStore, NumbersInUse,
      NumbersInRange, NumbersDistinct, HolderHasTurn, NewTurnCurrent, Holding, Dist

\* A step of a running thread keeps the client's invariant if data, the registers and
\* the increments done stay and nobody comes to a store.
LEMMA ClientKept ==
  ASSUME ClientInv, TypeOK', LoopCount', UNCHANGED <<data, tmp, main>>,
         NEW t \in Threads, pc[t] # "done",
         \A u \in Threads : Stored(u)' = Stored(u) /\ (pc'[u] = "store" => pc[u] = "store")
  PROVE  ClientInv'
<1>1. Increments' = Increments
  BY DEF Increments
<1> QED
  BY <1>1 DEF ClientInv, DataCounts, MainLast, NoStaleStore

\* ++data, both halves, under a lock that excludes.
LEMMA LoadDataClient ==
  ASSUME ClientInv, TypeOK', LoopCount', NEW t \in Threads, LoadData(t)
  PROVE  ClientInv'
<1> USE DEF ClientInv
<1>1. \A u \in Threads : Stored(u)' = Stored(u)
  BY DEF LoadData, Goto, TypeOK, Stored
<1>2. Increments' = Increments
  BY <1>1 DEF Increments
<1> QED
  BY <1>2 DEF LoadData, Goto, TypeOK, NoStaleStore, MainLast, DataCounts

LEMMA StoreDataClient ==
  ASSUME ClientInv, MutualExclusion, TypeOK', LoopCount', NEW t \in Threads, StoreData(t)
  PROVE  ClientInv'
<1> USE DEF ClientInv
<1>1. MainLast'
  BY DEF StoreData, Goto, TypeOK, MainLast
<1>2. NoStaleStore'
  \* t is the only holder, so no other thread is about to store.
  <2>1. \A u \in Threads : pc[u] = "store" => u = t
    BY DEF MutualExclusion, Holding, StoreData, Goto
  <2> QED
    BY <2>1 DEF StoreData, Goto, TypeOK, NoStaleStore
<1>3. DataCounts'
  <2> DEFINE p == <<t, i[t] + 1>>
  <2>1. pc[t] = "store" /\ pc'[t] = "unlock" /\ i' = i /\ main' = main
    BY DEF StoreData, Goto, TypeOK
  <2>2. \A u \in Threads : Stored(u)' = IF u = t THEN i[t] + 1 ELSE Stored(u)
    BY <2>1 DEF StoreData, Goto, TypeOK, Stored
  <2>3. i[t] \in Nat /\ i[t] + 1 \in 1..Loops /\ Stored(t) = i[t]
    BY <2>1 DEF TypeOK, LoopCount, Stored
  <2>4. p \notin Increments
    BY <2>3 DEF Increments
  <2>5. Increments' = Increments \cup {p}
    BY <2>2, <2>3 DEF Increments
  <2>6. Cardinality(Increments') = Cardinality(Increments) + 1
    BY <2>4, <2>5, IncrementsFinite, FS_AddElement
  <2>7. data' = data + 1
    BY <2>1 DEF StoreData, NoStaleStore
  <2> QED
    BY <2>1, <2>6, <2>7 DEF DataCounts
<1> QED
  BY <1>1, <1>2, <1>3

LEMMA TakeTicketIInv ==
  ASSUME IInv, TypeOK', LoopCount', NEW t \in Threads, TakeTicket(t)
  PROVE  IInv'
<1> USE DEF IInv, ClientInv
<1>1. t \notin Queued /\ Queued' = Queued \cup {t}
  BY DEF TakeTicket, Goto, Queued, TypeOK
<1>2. Cardinality(Queued') = Cardinality(Queued) + 1
  BY <1>1, QueuedFinite, FS_AddElement
<1>3. Cardinality(Queued) < Cardinality(Threads)
  <2>1. Queued # Threads
    BY <1>1
  <2> QED
    BY <2>1, QueuedFinite, FS_Subset, FS_CardinalityType DEF Queued
<1>4. Dist(turn, ticket) = Cardinality(Queued) /\ Dist(turn, ticket) + 1 < Mod
  BY <1>3, QueuedFinite, ModPositive DEF NumbersInUse
<1>5. Dist(turn', ticket') = Dist(turn, ticket) + 1
  BY <1>4, ModPositive DEF TakeTicket, Dist, Inc, TypeOK
<1>6. me'[t] = ticket /\ \A u \in Threads \ {t} : me'[u] = me[u]
  BY DEF TakeTicket, TypeOK
<1>7. NumbersInUse'
  BY <1>2, <1>4, <1>5 DEF NumbersInUse
<1>8. NumbersInRange'
  BY <1>1, <1>5, <1>6, ModPositive DEF NumbersInRange, TakeTicket, Dist, TypeOK, Queued
<1>9. NumbersDistinct'
  <2>1. \A u \in Queued : me[u] # ticket
    BY <1>4, QueuedFinite DEF NumbersInRange
  <2> QED
    BY <1>1, <1>6, <2>1 DEF NumbersDistinct, NumbersInRange, Queued
<1>10. HolderHasTurn' /\ NewTurnCurrent'
  BY <1>6 DEF TakeTicket, Goto, TypeOK, HolderHasTurn, NewTurnCurrent, Holding
<1>11. ClientInv'
  BY ClientKept DEF TakeTicket, Goto, TypeOK, Stored
<1> QED
  BY <1>7, <1>8, <1>9, <1>10, <1>11

\* A step that changes neither the lock words nor who holds a number.
LEMMA QueueUnchanged ==
  ASSUME IInv, UNCHANGED <<turn, ticket, me>>, Queued' = Queued
  PROVE  NumbersInUse' /\ NumbersInRange' /\ NumbersDistinct'
  BY DEF IInv, NumbersInUse, NumbersInRange, NumbersDistinct, Dist

LEMMA EnterIInv ==
  ASSUME IInv, TypeOK', LoopCount', NEW t \in Threads, Enter(t)
  PROVE  IInv'
<1> USE DEF IInv, ClientInv
<1>1. Queued' = Queued
  BY DEF Enter, Goto, Queued, TypeOK
<1>2. NumbersInUse' /\ NumbersInRange' /\ NumbersDistinct'
  BY <1>1, QueueUnchanged DEF Enter, lockVars
<1>3. HolderHasTurn' /\ NewTurnCurrent'
  BY DEF Enter, Goto, TypeOK, lockVars, HolderHasTurn, NewTurnCurrent, Holding
<1>4. ClientInv'
  BY ClientKept DEF Enter, Goto, TypeOK, Stored
<1> QED
  BY <1>2, <1>3, <1>4

\* Two holders would have the same number.
LEMMA IInvExclusion == IInv => MutualExclusion
  BY DEF IInv, MutualExclusion, HolderHasTurn, NumbersDistinct, Holding, Queued

LEMMA LoadDataIInv ==
  ASSUME IInv, TypeOK', LoopCount', NEW t \in Threads, LoadData(t), UNCHANGED lockVars
  PROVE  IInv'
<1> USE DEF IInv, ClientInv
<1>1. Queued' = Queued
  BY DEF LoadData, Goto, Queued, TypeOK
<1>2. NumbersInUse' /\ NumbersInRange' /\ NumbersDistinct'
  BY <1>1, QueueUnchanged DEF lockVars
<1>3. HolderHasTurn' /\ NewTurnCurrent'
  BY DEF LoadData, Goto, TypeOK, lockVars, HolderHasTurn, NewTurnCurrent, Holding
<1>4. ClientInv'
  BY LoadDataClient
<1> QED
  BY <1>2, <1>3, <1>4

LEMMA StoreDataIInv ==
  ASSUME IInv, TypeOK', LoopCount', NEW t \in Threads, StoreData(t), UNCHANGED lockVars
  PROVE  IInv'
<1> USE DEF IInv, ClientInv
<1>1. Queued' = Queued
  BY DEF StoreData, Goto, Queued, TypeOK
<1>2. NumbersInUse' /\ NumbersInRange' /\ NumbersDistinct'
  BY <1>1, QueueUnchanged DEF lockVars
<1>3. HolderHasTurn' /\ NewTurnCurrent'
  BY DEF StoreData, Goto, TypeOK, lockVars, HolderHasTurn, NewTurnCurrent, Holding
<1>4. ClientInv'
  BY StoreDataClient, IInvExclusion
<1> QED
  BY <1>2, <1>3, <1>4

LEMMA LoadTurnIInv ==
  ASSUME IInv, TypeOK', LoopCount', NEW t \in Threads, LoadTurn(t)
  PROVE  IInv'
<1> USE DEF IInv, ClientInv
<1>1. Queued' = Queued
  BY DEF LoadTurn, Goto, Queued, TypeOK
<1>2. NumbersInUse' /\ NumbersInRange' /\ NumbersDistinct'
  BY <1>1, QueueUnchanged DEF LoadTurn
<1>3. HolderHasTurn' /\ NewTurnCurrent'
  BY DEF LoadTurn, Goto, TypeOK, HolderHasTurn, NewTurnCurrent, Holding
<1>4. ClientInv'
  BY ClientKept DEF LoadTurn, Goto, TypeOK, Stored
<1> QED
  BY <1>2, <1>3, <1>4

LEMMA PassTurnIInv ==
  ASSUME IInv, TypeOK', LoopCount', NEW t \in Threads, PassTurn(t)
  PROVE  IInv'
<1> USE DEF IInv, ClientInv
<1>1. pc[t] = "pass" /\ pc'[t] \in {"take", "done"}
      /\ \A u \in Threads \ {t} : pc'[u] = pc[u]
  BY DEF PassTurn, NextIteration, Goto, TypeOK
<1>2. t \in Queued /\ Queued' = Queued \ {t}
  BY <1>1 DEF Queued
<1>3. Cardinality(Queued') = Cardinality(Queued) - 1 /\ Cardinality(Queued) <= Mod - 1
  <2>1. Cardinality(Queued') = Cardinality(Queued) - 1
    BY <1>2, QueuedFinite, FS_RemoveElement
  <2> QED
    BY <2>1, QueuedFinite, ModPositive
<1>4. me[t] = turn /\ turn' = Inc(turn) /\ UNCHANGED <<ticket, me>>
  BY <1>1 DEF PassTurn, HolderHasTurn, NewTurnCurrent, Holding
<1>5. Dist(turn, ticket) >= 1
  BY <1>2, <1>4, ModPositive DEF NumbersInRange, Dist, TypeOK
<1>6. Dist(turn', ticket') = Dist(turn, ticket) - 1
  BY <1>4, <1>5, ModPositive DEF Dist, Inc, TypeOK
<1>7. NumbersInUse'
  BY <1>3, <1>6 DEF NumbersInUse
<1>8. \A u \in Queued' : Dist(turn', me[u]) = Dist(turn, me[u]) - 1
  <2> SUFFICES ASSUME NEW u \in Queued' PROVE Dist(turn', me[u]) = Dist(turn, me[u]) - 1
    OBVIOUS
  <2>1. me[u] # turn /\ me[u] \in 0..(Mod - 1)
    BY <1>2, <1>4 DEF NumbersDistinct, TypeOK, Queued
  <2> QED
    BY <1>4, <2>1, ModPositive DEF Dist, Inc, TypeOK
<1>9. NumbersInRange'
  BY <1>2, <1>4, <1>6, <1>8, ModPositive DEF NumbersInRange, Dist, TypeOK, Queued
<1>10. NumbersDistinct'
  BY <1>2, <1>4 DEF NumbersDistinct
<1>11. HolderHasTurn' /\ NewTurnCurrent'
  <2>1. \A u \in Threads \ {t} : ~Holding(u)
    BY <1>1, IInvExclusion DEF MutualExclusion, Holding
  <2> QED
    BY <1>1, <2>1 DEF HolderHasTurn, NewTurnCurrent, Holding
<1>12. ClientInv'
  BY <1>1, ClientKept DEF PassTurn, NextIteration, TypeOK, Stored
<1> QED
  BY <1>7, <1>9, <1>10, <1>11, <1>12

LEMMA JoinIInv ==
  ASSUME IInv, TypeOK', LoopCount', Join, UNCHANGED lockVars
  PROVE  IInv'
<1> USE DEF IInv, ClientInv
<1>1. Queued' = Queued
  BY DEF Join, Queued
<1>2. NumbersInUse' /\ NumbersInRange' /\ NumbersDistinct'
  BY <1>1, QueueUnchanged DEF lockVars
<1> QED
  BY <1>2 DEF Join, lockVars, HolderHasTurn, NewTurnCurrent, NoStaleStore, MainLast,
              DataCounts, Holding

LEMMA StutterIInv ==
  ASSUME IInv, UNCHANGED vars
  PROVE  IInv'
<1> USE DEF IInv, ClientInv
<1>1. \A u \in Threads : Stored(u)' = Stored(u)
  BY DEF vars, clientVars, Stored
<1> QED
  BY <1>1 DEF vars, clientVars, lockVars, TypeOK, LoopCount, DataCounts, Increments,
              MainLast, NoStaleStore, NumbersInUse, NumbersInRange, NumbersDistinct,
              HolderHasTurn, NewTurnCurrent, Queued, Dist, Holding

\* Every step of a ticket lock keeps the invariant.
LEMMA StepIInv ==
  ASSUME IInv, [Next]_vars
  PROVE  IInv'
<1>1. TypeOK' /\ LoopCount'
  BY StepTypes DEF IInv, ClientInv
<1>2. CASE \E t \in Threads : Step(t)
  BY <1>1, <1>2, TakeTicketIInv, EnterIInv, LoadDataIInv, StoreDataIInv, LoadTurnIInv,
     PassTurnIInv DEF Step
<1>3. CASE Join /\ UNCHANGED lockVars
  BY <1>1, <1>3, JoinIInv
<1>4. CASE UNCHANGED vars
  BY <1>4, StutterIInv
<1> QED
  BY <1>2, <1>3, <1>4 DEF Next, Terminated, vars

-----------------------------------------------------------------------------
\* The flag of the spinlock is set exactly while a thread holds it.
FlagTells == flag <=> \E t \in Threads : Holding(t)

\* Nobody has a ticket of the lock of the first call.
OnSpinlock == \A t \in Threads : pc[t] \in {"take", "load", "store", "unlock", "done"}

\* The whole program: a ticket lock first, with the spinlock's flag clear, then the
\* spinlock, with the counters of the ticket lock at rest.
MainInv == \/ mutexType = "ticketlock" /\ IInv /\ flag = FALSE
           \/ /\ mutexType = "spinlock"
              /\ ClientInv
              /\ MutualExclusion
              /\ OnSpinlock
              /\ flag \in BOOLEAN
              /\ FlagTells

\* The spinlock's steps keep the types.
LEMMA SpinTypes ==
  ASSUME ClientInv, OnSpinlock, NEW t \in Threads, SpinStep(t), UNCHANGED lockVars
  PROVE  TypeOK' /\ LoopCount' /\ OnSpinlock'
<1> USE DEF ClientInv, TypeOK, LoopCount, OnSpinlock
<1>1. CASE SpinLock(t)
  BY <1>1 DEF SpinLock, Goto, lockVars
<1>2. CASE LoadData(t)
  BY <1>2 DEF LoadData, Goto, lockVars
<1>3. CASE StoreData(t)
  BY <1>3 DEF StoreData, Goto, lockVars
<1>4. CASE SpinUnlock(t)
  <2>1. i' \in [Threads -> 0..Loops]
    BY <1>4 DEF SpinUnlock, NextIteration, Goto
  <2> QED
    BY <1>4, <2>1 DEF SpinUnlock, NextIteration, Goto, lockVars
<1> QED
  BY <1>1, <1>2, <1>3, <1>4 DEF SpinStep

\* One thread at most finds the flag clear, and unlock() clears the flag of that thread.
LEMMA SpinStepExcludes ==
  ASSUME ClientInv, MutualExclusion, OnSpinlock, FlagTells, flag \in BOOLEAN,
         NEW t \in Threads, SpinStep(t), UNCHANGED lockVars
  PROVE  MutualExclusion' /\ FlagTells' /\ flag' \in BOOLEAN
<1> USE DEF Holding
<1>1. CASE SpinLock(t)
  <2>1. \A u \in Threads : ~Holding(u)
    BY <1>1 DEF SpinLock, FlagTells
  <2>2. Holding(t)' /\ \A u \in Threads : Holding(u)' => u = t
    BY <1>1, <2>1 DEF SpinLock, Goto, ClientInv, TypeOK
  <2> QED
    BY <1>1, <2>2 DEF SpinLock, MutualExclusion, FlagTells
<1>2. CASE (LoadData(t) \/ StoreData(t)) /\ UNCHANGED flag
  <2>1. \A u \in Threads : Holding(u)' <=> Holding(u)
    BY <1>2 DEF LoadData, StoreData, Goto, ClientInv, TypeOK
  <2> QED
    BY <1>2, <2>1 DEF MutualExclusion, FlagTells
<1>3. CASE SpinUnlock(t)
  <2>1. Holding(t) /\ \A u \in Threads : Holding(u) => u = t
    BY <1>3 DEF SpinUnlock, NextIteration, Goto, MutualExclusion
  <2>2. \A u \in Threads : ~Holding(u)'
    BY <1>3, <2>1 DEF SpinUnlock, NextIteration, Goto, ClientInv, TypeOK
  <2> QED
    BY <1>3, <2>2 DEF SpinUnlock, MutualExclusion, FlagTells
<1> QED
  BY <1>1, <1>2, <1>3 DEF SpinStep

LEMMA SpinStepMainInv ==
  ASSUME ClientInv, MutualExclusion, OnSpinlock, FlagTells, flag \in BOOLEAN,
         NEW t \in Threads, SpinStep(t), UNCHANGED lockVars
  PROVE  ClientInv' /\ MutualExclusion' /\ OnSpinlock' /\ FlagTells' /\ flag' \in BOOLEAN
<1>1. TypeOK' /\ LoopCount' /\ OnSpinlock'
  BY SpinTypes
<1>2. MutualExclusion' /\ FlagTells' /\ flag' \in BOOLEAN
  BY SpinStepExcludes
<1>3. CASE SpinLock(t)
  <2>1. pc[t] # "done" /\ UNCHANGED <<data, tmp, main>>
    BY <1>3 DEF SpinLock, Goto
  <2>2. \A u \in Threads : Stored(u)' = Stored(u) /\ (pc'[u] = "store" => pc[u] = "store")
    BY <1>3 DEF SpinLock, Goto, ClientInv, TypeOK, Stored
  <2> QED
    BY <1>1, <1>2, <2>1, <2>2, ClientKept
<1>4. CASE LoadData(t)
  BY <1>1, <1>2, <1>4, LoadDataClient
<1>5. CASE StoreData(t)
  BY <1>1, <1>2, <1>5, StoreDataClient
<1>6. CASE SpinUnlock(t)
  BY <1>1, <1>2, <1>6, ClientKept DEF SpinUnlock, NextIteration, Goto, ClientInv, TypeOK, Stored
<1> QED
  BY <1>1, <1>2, <1>3, <1>4, <1>5, <1>6 DEF SpinStep

\* Each step of main while the ticket lock is in use is a step of TicketLock.
LEMMA TicketPhase ==
  ASSUME mutexType = "ticketlock", [MainNext]_mainVars
  PROVE  \/ [Next]_vars /\ UNCHANGED <<mutexType, flag>>
         \/ NextType
  BY DEF MainNext, WorkerStep, JoinAll, Finished, mainVars, Next

\* What test_lock() leaves behind is what the next call of it starts from.
LEMMA NextTypeMainInv ==
  ASSUME IInv, flag = FALSE, NextType
  PROVE  MainInv'
<1>1. TypeOK' /\ LoopCount'
  BY ModPositive DEF IInv, ClientInv, NextType, TypeOK, LoopCount, lockVars
<1>2. Increments' = {} /\ data' = 0
  BY DEF NextType, Increments, Stored, IInv, ClientInv, MainLast
<1>3. \A t \in Threads : ~Holding(t)'
  BY DEF NextType, Holding
<1> QED
  BY <1>1, <1>2, <1>3, FS_EmptySet
  DEF MainInv, NextType, ClientInv, DataCounts, MainLast, NoStaleStore, MutualExclusion,
      OnSpinlock, FlagTells

LEMMA StepMainInv ==
  ASSUME MainInv, [MainNext]_mainVars
  PROVE  MainInv'
<1>1. CASE mutexType = "ticketlock"
  BY <1>1, TicketPhase, StepIInv, NextTypeMainInv DEF MainInv
<1>2. CASE mutexType = "spinlock"
  <2> USE <1>2 DEF MainInv
  <2>1. ASSUME NEW t \in Threads, WorkerStep(t) PROVE MainInv'
    BY <2>1, SpinStepMainInv DEF WorkerStep
  <2>2. CASE JoinAll
    <3>1. TypeOK' /\ LoopCount'
      BY <2>2 DEF JoinAll, Join, ClientInv, TypeOK, LoopCount, lockVars
    <3>2. \A t \in Threads : Holding(t)' <=> Holding(t)
      BY <2>2 DEF JoinAll, Join, Holding
    <3> QED
      BY <2>2, <3>1, <3>2 DEF JoinAll, Join, ClientInv, DataCounts, MainLast, NoStaleStore,
         MutualExclusion, OnSpinlock, FlagTells
  <2>3. CASE UNCHANGED mainVars
    <3>1. UNCHANGED <<pc, i, tmp, data, main, lockVars, mutexType, flag>>
      BY <2>3 DEF mainVars, vars, clientVars
    <3>2. \A t \in Threads : (Holding(t)' <=> Holding(t)) /\ Stored(t)' = Stored(t)
      BY <3>1 DEF Holding, Stored
    <3>3. TypeOK' /\ LoopCount' /\ Increments' = Increments
      BY <3>1, <3>2 DEF ClientInv, TypeOK, LoopCount, lockVars, Increments
    <3> QED
      BY <3>1, <3>2, <3>3 DEF ClientInv, DataCounts, MainLast, NoStaleStore,
         MutualExclusion, OnSpinlock, FlagTells
  <2> QED
    BY <2>1, <2>2, <2>3 DEF MainNext, NextType, Finished
<1> QED
  BY <1>1, <1>2 DEF MainInv

\* The inductive invariant holds in every state main reaches.
THEOREM Invariance == MainSpec => []MainInv
<1>1. MainInit => MainInv
  BY InitIInv DEF MainInit, MainInv
<1> QED
  BY <1>1, StepMainInv, PTL DEF MainSpec

\* The atomics turn and ticket stay below the modulus of their width, and me, pc, data
\* and the main thread's place keep their types, however often the counters wrap.
THEOREM Types == MainSpec => []TypeOK
<1>1. MainInv => TypeOK
  BY DEF MainInv, IInv, ClientInv
<1> QED
  BY <1>1, Invariance, PTL

\* ticketlock and spinlock exclude: no two threads are ever both past lock() and before
\* the last store of unlock(), for any number of threads below the number of tickets.
THEOREM Exclusion == MainSpec => []MutualExclusion
<1>1. MainInv => MutualExclusion
  BY IInvExclusion DEF MainInv
<1> QED
  BY <1>1, Invariance, PTL

\* The assertion data == loops * cpus of test_lock.cpp holds, for both locks.
THEOREM NothingLost == MainSpec => []NoLostUpdate
<1>1. ClientInv => NoLostUpdate
  <2> SUFFICES ASSUME ClientInv, main = "waiting", \A t \in Threads : pc[t] = "done"
               PROVE  data = Loops * Cardinality(Threads)
    BY DEF NoLostUpdate
  <2>1. \A t \in Threads : Stored(t) = Loops
    BY DEF ClientInv, LoopCount, Stored
  <2>2. Increments = Threads \X (1..Loops)
    BY <2>1 DEF Increments
  <2>3. IsFiniteSet(1..Loops) /\ Cardinality(1..Loops) = Loops
    BY FS_Interval
  <2>4. Cardinality(Threads \X (1..Loops)) = Cardinality(Threads) * Cardinality(1..Loops)
    BY <2>3, FS_Product
  <2> QED
    BY <2>2, <2>3, <2>4, ModPositive DEF ClientInv, DataCounts
<1>2. MainInv => ClientInv
  BY DEF MainInv, IInv
<1> QED
  BY <1>1, <1>2, Invariance, PTL

\* The step of unlock() brings every other queued thread one closer to its turn.
LEMMA PassTurnShifts ==
  ASSUME IInv, NEW t \in Threads, PassTurn(t), NEW u \in Spinning
  PROVE  u # t /\ Dist(turn', me'[u]) = Dist(turn, me[u]) - 1
<1> USE DEF IInv, ClientInv
<1>1. u # t /\ u \in Queued /\ t \in Queued
  BY DEF PassTurn, NextIteration, Goto, Spinning, Queued
<1>2. me[t] = turn /\ turn' = Inc(turn) /\ me' = me
  BY DEF PassTurn, NextIteration, Goto, HolderHasTurn, NewTurnCurrent, Holding
<1>3. me[u] # turn /\ me[u] \in 0..(Mod - 1)
  BY <1>1, <1>2 DEF NumbersDistinct, TypeOK, Spinning
<1> QED
  BY <1>1, <1>2, <1>3, ModPositive DEF Dist, Inc, TypeOK

\* Each step of a ticket lock is one of the FIFO lock, or a stutter.
LEMMA StepFifo ==
  ASSUME IInv, [Next]_vars
  PROVE  [Fifo!Next]_(Fifo!vars)
<1> DEFINE Owner == {t \in Threads : Holding(t)}
           Same == Spinning' = Spinning /\ Order' = Order /\ Owner' = Owner
<1> USE DEF IInv, ClientInv
<1>1. ASSUME NEW t \in Threads, TakeTicket(t) PROVE Fifo!Arrive(t)
  <2>1. t \notin Spinning \cup Owner /\ Spinning' = Spinning \cup {t} /\ Owner' = Owner
    BY <1>1 DEF TakeTicket, Goto, Spinning, Holding, TypeOK
  <2>2. /\ me'[t] = ticket /\ turn' = turn
        /\ \A u \in Spinning : me'[u] = me[u]
    BY <1>1, <2>1 DEF TakeTicket, TypeOK, Spinning
  <2>3. /\ \A u \in Spinning : Dist(turn, me[u]) < Dist(turn, ticket)
        /\ Dist(turn, ticket) \in Int
        /\ \A u \in Spinning : Dist(turn, me[u]) \in Int
    BY ModPositive DEF NumbersInRange, Spinning, Queued, TypeOK, Dist
  <2>4. Order' = Order \cup (Spinning \X {t})
    BY <2>1, <2>2, <2>3 DEF Order, Dist
  <2> QED
    BY <2>1, <2>4 DEF Fifo!Arrive
<1>2. ASSUME NEW t \in Threads, Enter(t) PROVE Fifo!Grant(t)
  <2>1. t \in Spinning /\ Spinning' = Spinning \ {t} /\ Owner' = Owner \cup {t}
    BY <1>2 DEF Enter, Goto, Spinning, Holding, TypeOK
  <2>2. Owner = {}
    BY <1>2 DEF Enter, Goto, HolderHasTurn, NumbersDistinct, Holding, Queued
  <2>3. \A u \in Spinning : <<u, t>> \notin Order
    BY <1>2, ModPositive DEF Enter, Order, Spinning, Dist, TypeOK
  <2>4. Order' = {p \in Order : p[1] # t /\ p[2] # t}
    BY <1>2, <2>1 DEF Enter, lockVars, Order, Dist
  <2> QED
    BY <2>1, <2>2, <2>3, <2>4 DEF Fifo!Grant
<1>3. ASSUME NEW t \in Threads, PassTurn(t) PROVE Fifo!Release(t)
  <2>1. /\ Holding(t)
        /\ Spinning' = Spinning
        /\ Owner' = Owner \ {t}
    BY <1>3 DEF PassTurn, NextIteration, Goto, Spinning, Holding, TypeOK
  <2>2. Owner = {t}
    BY <2>1, IInvExclusion DEF MutualExclusion
  <2>3. \A u \in Spinning : Dist(turn', me'[u]) = Dist(turn, me[u]) - 1
    BY <1>3, PassTurnShifts
  <2>4. \A u \in Spinning : Dist(turn, me[u]) \in Int
    BY ModPositive DEF Spinning, TypeOK, Dist
  <2>5. Order' = Order
    BY <2>1, <2>3, <2>4 DEF Order
  <2> QED
    BY <2>1, <2>2, <2>5 DEF Fifo!Release
<1>4. ASSUME NEW t \in Threads,
             \/ (LoadData(t) \/ StoreData(t)) /\ UNCHANGED lockVars
             \/ LoadTurn(t)
      PROVE  Same
  <2>1. Spinning' = Spinning /\ Owner' = Owner /\ turn' = turn /\ me' = me
    BY <1>4 DEF LoadData, StoreData, LoadTurn, Goto, lockVars, Spinning, Holding, TypeOK
  <2> QED
    BY <2>1 DEF Order, Dist
<1>5. ASSUME pc' = pc, UNCHANGED lockVars PROVE Same
  BY <1>5 DEF Spinning, Order, Holding, Dist, lockVars
<1>6. (pc' = pc /\ UNCHANGED lockVars) \/ \E t \in Threads : Step(t)
  BY DEF Next, Join, Terminated, vars, clientVars
<1>7. Same => UNCHANGED Fifo!vars
  BY DEF Fifo!vars
<1> QED
  BY <1>1, <1>2, <1>3, <1>4, <1>5, <1>6, <1>7 DEF Step, Fifo!Next

\* ticketlock.h implements the FIFO lock: it is granted in the order of the fetch_adds.
\* While the spinlock is in use nobody waits there and nobody owns it.
THEOREM Refinement == MainSpec => TicketFifo!Spec
<1>1. MainInit => TicketFifo!Init
  BY DEF MainInit, Init, ClientInit, TicketFifo!Init, WhileTicket, Spinning, Order, Holding
<1>2. MainInv /\ [MainNext]_mainVars => [TicketFifo!Next]_(TicketFifo!vars)
  <2> SUFFICES ASSUME MainInv, [MainNext]_mainVars
               PROVE  [TicketFifo!Next]_(TicketFifo!vars)
    OBVIOUS
  <2>1. CASE mutexType = "ticketlock" /\ [Next]_vars /\ UNCHANGED <<mutexType, flag>>
    <3>1. [Fifo!Next]_(Fifo!vars)
      BY <2>1, StepFifo DEF MainInv
    <3> QED
      BY <2>1, <3>1 DEF WhileTicket, Fifo!Next, Fifo!Arrive, Fifo!Grant, Fifo!Release, Fifo!vars,
         TicketFifo!Next, TicketFifo!Arrive, TicketFifo!Grant, TicketFifo!Release,
         TicketFifo!vars
  <2>2. CASE mutexType = "ticketlock" /\ NextType
    <3>1. Spinning = {} /\ Order = {} /\ {t \in Threads : Holding(t)} = {}
      BY <2>2 DEF MainInv, IInv, ClientInv, MainLast, NextType, Spinning, Order, Holding
    <3> QED
      BY <2>2, <3>1 DEF NextType, WhileTicket, TicketFifo!vars
  <2>3. CASE mutexType = "spinlock"
    <3>1. mutexType' = "spinlock"
      BY <2>3 DEF MainNext, WorkerStep, JoinAll, NextType, Finished, mainVars
    <3> QED
      BY <2>3, <3>1 DEF WhileTicket, TicketFifo!vars
  <2> QED
    BY <2>1, <2>2, <2>3, TicketPhase DEF MainInv
<1> QED
  BY <1>1, <1>2, Invariance, PTL DEF MainSpec, TicketFifo!Spec
=============================================================================
