------------------------------ MODULE DemosProof ------------------------------
(***************************************************************************)
(* Proofs about the programs of Demos, for any finite sets of threads, any *)
(* tasks, printers and slots, any number of stages and lines, and words of *)
(* any length.                                                             *)
(*                                                                         *)
(* IInv has one part for each program, which holds in every behaviour: a   *)
(* program that is not chosen stays where it starts (NextMoves).           *)
(*   SpinInv      atomic/barrier.cpp: a thread is in the stage of the      *)
(*                generation, or it is a sleeper of the one before that    *)
(*                has still to see that it may leave; so the count can be  *)
(*                set back before the generation is raised, for everybody  *)
(*                else is then in the spin                                 *)
(*   CvInv        condition_variable/barrier.cpp: the barrier is filling,  *)
(*                and current_count_ says how many are to come, or the     *)
(*                threads are leaving it, and the generation is another    *)
(*   LatchInv     count_ is the number of threads to come                  *)
(*   EventsInv    nobody in blocks 2 to 6 is done before the event         *)
(*   IoInv        one thread has the lock, whichever of the three it is;   *)
(*                the line that is begun is the last and its               *)
(*   UniqueInv    b and c are consecutive Fibonacci numbers, but for the   *)
(*                thread that has stored c and not yet b                   *)
(*   PointersInv  what a caller of fastLoadWidget holds is what the cache  *)
(*                has for its id                                           *)
(*   WordsInv     the answer for a word is the one for its arguments; that *)
(*                it is right is about numbers and their bits              *)
(***************************************************************************)
EXTENDS Demos, FiniteSetTheorems, SequenceTheorems, WellFoundedInduction, TLAPS

N == Cardinality(Threads)

\* What the programs are started with
LEMMA Started == IsFiniteSet(Threads) /\ Threads # {} /\ Rounds \in Nat \ {0}
  BY DemosAssumption

\* The instances count with the same Cardinality.
LEMMA SameCount ==
  /\ Spin!N = N /\ Cv!N = N
  /\ \A S : Events!Cardinality(S) = Cardinality(S)
  /\ \A S : Mutexes!Cardinality(S) = Cardinality(S)
<1>1. Spin!N = N
  BY Zenon DEF Spin!N, Spin!Cardinality, Cardinality, N
<1>2. Cv!N = N
  BY Zenon DEF Cv!N, Cv!Cardinality, Cardinality, N
<1>3. ASSUME NEW S PROVE Events!Cardinality(S) = Cardinality(S)
  BY Zenon DEF Events!Cardinality, Cardinality
<1>4. ASSUME NEW S PROVE Mutexes!Cardinality(S) = Cardinality(S)
  BY Zenon DEF Mutexes!Cardinality, Cardinality
<1> QED
  BY <1>1, <1>2, <1>3, <1>4

\* Counting the elements of a set of threads
LEMMA SubsetCounts ==
  ASSUME NEW S \in SUBSET Threads
  PROVE  /\ IsFiniteSet(S) /\ Cardinality(S) \in Nat
         /\ N \in Nat /\ Cardinality(S) <= N
         /\ Cardinality(S) = N => S = Threads
         /\ \A t \in Threads \ S : Cardinality(S \cup {t}) = Cardinality(S) + 1
         /\ \A t \in S : Cardinality(S \ {t}) = Cardinality(S) - 1
         /\ \A t \in Threads : Cardinality(Threads \ {t}) = N - 1
<1>1. IsFiniteSet(S) /\ Cardinality(S) <= N /\ (Cardinality(S) = N => S = Threads)
  BY FS_Subset, Started DEF N
<1>2. Cardinality(S) \in Nat /\ N \in Nat
  BY <1>1, FS_CardinalityType, Started DEF N
<1> QED
  BY <1>1, <1>2, FS_AddElement, FS_RemoveElement, Started DEF N

\* A set of numbers has a least one.
LEMMA LeastNat ==
  ASSUME NEW T \in SUBSET Nat, T # {}
  PROVE  \E x \in T : \A y \in T : x <= y
<1>1. IsWellFoundedOn(OpToRel(<,Nat), Nat)
  BY NatLessThanWellFounded
<1>2. PICK x \in T : \A y \in T : ~ (<<y, x>> \in OpToRel(<,Nat))
  BY <1>1, WFMin, Zenon
<1> QED
  <2>1. OpToRel(<,Nat) = {ss \in Nat \X Nat : ss[1] < ss[2]}
    BY Zenon DEF OpToRel
  <2>2. ASSUME NEW y \in T PROVE ~ (y < x)
    <3>1. <<y, x>> \notin {ss \in Nat \X Nat : ss[1] < ss[2]}
      BY <1>2, <2>1, Zenon
    <3>2. <<y, x>> \in Nat \X Nat
      OBVIOUS
    <3> QED
      BY <3>1, <3>2, Zenon
  <2>3. \A y \in T : x <= y
    BY <2>2
  <2> QED
    BY <2>3

-----------------------------------------------------------------------------
\* atomic/barrier.cpp

SpinTypeOK ==
    /\ spinPc \in [Threads -> {"work", "load", "arrive", "spin", "reset", "open", "done"}]
    /\ spinStage \in [Threads -> Nat]
    /\ spinGen \in [Threads -> Nat]
    /\ spinGeneration \in Nat
    /\ notArrived \in Int
    /\ results \in Seq(Nat)

\* Nobody is more than the way out of the spin behind the generation, and gen is
\* the stage that a thread in wait() belongs to.
SpinInStep ==
    \A t \in Threads :
        /\ spinStage[t] = spinGeneration \/ (spinPc[t] = "spin" /\ spinStage[t] + 1 = spinGeneration)
        /\ spinPc[t] \in {"arrive", "spin", "reset", "open"} => spinGen[t] = spinStage[t]
        /\ IF spinPc[t] = "done" THEN spinStage[t] = Rounds ELSE spinStage[t] < Rounds

\* The last to arrive: all the others wait for it to open the next generation.
SpinLastIsAlone ==
    \A t, u \in Threads : /\ spinPc[t] \in {"reset", "open"}
                          /\ u # t
                          => spinPc[u] = "spin" /\ spinStage[u] = spinGeneration

\* Those that not_arrived_ has been lowered for
SpinCounted == {t \in Threads : spinPc[t] \in {"spin", "reset"} /\ spinStage[t] = spinGeneration}

SpinCountRight ==
    /\ (\E t \in Threads : spinPc[t] = "open") => notArrived = N
    /\ (\A t \in Threads : spinPc[t] # "open") => notArrived = N - Cardinality(SpinCounted)

\* Those that have pushed the number of the present generation
SpinPushed == {t \in Threads : spinPc[t] \notin {"work", "done"} /\ spinStage[t] = spinGeneration}

SpinResultsRight ==
    /\ Len(results) = N * spinGeneration + Cardinality(SpinPushed)
    /\ \A k \in 1 .. Len(results) : results[k] = (k - 1) \div N

SpinInv == SpinTypeOK /\ SpinInStep /\ SpinLastIsAlone /\ SpinCountRight /\ SpinResultsRight

\* The number of the stage in which a result comes
LEMMA StageOfIndex ==
  ASSUME NEW n \in Nat, NEW g \in Nat, NEW r \in Nat, r < n
  PROVE  (n * g + r) \div n = g
  BY Z3

\* The constructor and the start of the threads establish SpinInv.
LEMMA SpinInitInv == ASSUME Spin!Init PROVE SpinInv
<1>1. SpinCounted = {} /\ SpinPushed = {}
  BY DEF Spin!Init, SpinCounted, SpinPushed
<1>2. N \in Nat /\ N * 0 = 0
  BY FS_CardinalityType, Started DEF N
<1> QED
  BY <1>1, <1>2, FS_EmptySet, SameCount, Started DEF Spin!Init, SpinInv, SpinTypeOK, SpinInStep, SpinLastIsAlone, SpinCountRight, SpinResultsRight

\* A result is pushed: it is the number of the present generation, for the threads
\* that have pushed it are fewer than all.
LEMMA SpinWorkInv ==
  ASSUME SpinInv, NEW t \in Threads, Spin!Work(t) PROVE SpinInv'
<1> USE DEF SpinInv, Spin!Work, Spin!Goto
<1>1. SpinTypeOK'
  BY DEF SpinTypeOK, SpinInStep
<1>2. SpinInStep' /\ SpinLastIsAlone'
  BY DEF SpinTypeOK, SpinInStep, SpinLastIsAlone
<1>3. SpinCounted' = SpinCounted
  BY DEF SpinTypeOK, SpinCounted
<1>4. SpinCountRight'
  BY <1>3 DEF SpinTypeOK, SpinCountRight
<1>5. SpinPushed' = SpinPushed \cup {t} /\ t \notin SpinPushed
  BY DEF SpinTypeOK, SpinInStep, SpinPushed
<1>6. /\ N \in Nat /\ Cardinality(SpinPushed) \in Nat /\ Cardinality(SpinPushed) < N
      /\ Cardinality(SpinPushed') = Cardinality(SpinPushed) + 1
  <2>1. SpinPushed \in SUBSET Threads /\ t \in Threads \ SpinPushed
    BY <1>5 DEF SpinPushed
  <2> QED
    BY <1>5, <2>1, SubsetCounts
<1>7. spinStage[t] = (N * spinGeneration + Cardinality(SpinPushed)) \div N
  BY <1>6, StageOfIndex DEF SpinTypeOK, SpinInStep
<1>8. SpinResultsRight'
  <2>1. Len(results') = Len(results) + 1 /\ results'[Len(results) + 1] = spinStage[t]
    BY DEF SpinTypeOK
  <2>2. \A k \in 1 .. Len(results) : results'[k] = results[k]
    BY DEF SpinTypeOK
  <2>3. N * spinGeneration \in Nat /\ spinGeneration' = spinGeneration
    BY <1>6 DEF SpinTypeOK
  <2> QED
    <3>1. Len(results') = N * spinGeneration' + Cardinality(SpinPushed')
      BY <1>6, <2>1, <2>3 DEF SpinResultsRight
    <3>2. \A k \in 1 .. Len(results') : results'[k] = (k - 1) \div N
      <4> SUFFICES ASSUME NEW k \in 1 .. Len(results') PROVE results'[k] = (k - 1) \div N
        OBVIOUS
      <4>0. Len(results) \in Nat /\ Len(results) = N * spinGeneration + Cardinality(SpinPushed)
        BY DEF SpinResultsRight, SpinTypeOK
      <4>1. CASE k \in 1 .. Len(results)
        BY <2>2, <4>1 DEF SpinResultsRight
      <4>2. CASE k = Len(results) + 1
        <5>1. k - 1 = N * spinGeneration + Cardinality(SpinPushed)
          BY <4>0, <4>2
        <5> QED
          BY <1>7, <2>1, <4>2, <5>1
      <4> QED
        BY <2>1, <4>0, <4>1, <4>2
    <3> QED
      BY <3>1, <3>2 DEF SpinResultsRight
<1> QED
  BY <1>1, <1>2, <1>4, <1>8

\* The steps of wait() that do not touch results nor leave the stage
LEMMA SpinResultsKept ==
  ASSUME SpinInv, SpinPushed' = SpinPushed, UNCHANGED <<results, spinGeneration>> PROVE SpinResultsRight'
  BY DEF SpinInv, SpinResultsRight

\* gen is loaded before the thread counts as arrived, so it is that of its stage.
LEMMA SpinLoadInv ==
  ASSUME SpinInv, NEW t \in Threads, Spin!Load(t) PROVE SpinInv'
<1> USE DEF SpinInv, Spin!Load, Spin!Goto
<1>1. SpinTypeOK' /\ SpinInStep' /\ SpinLastIsAlone'
  BY DEF SpinTypeOK, SpinInStep, SpinLastIsAlone
<1>2. SpinCounted' = SpinCounted /\ SpinPushed' = SpinPushed
  BY DEF SpinTypeOK, SpinCounted, SpinPushed
<1>3. SpinCountRight'
  BY <1>2 DEF SpinTypeOK, SpinCountRight
<1> QED
  BY <1>1, <1>2, <1>3, SpinResultsKept

\* Who finds the count at 1 is the last: all the others have been counted.
LEMMA SpinArriveInv ==
  ASSUME SpinInv, NEW t \in Threads, Spin!Arrive(t) PROVE SpinInv'
<1> USE DEF SpinInv, Spin!Arrive, Spin!Goto
<1>1. SpinTypeOK' /\ SpinInStep'
  BY DEF SpinTypeOK, SpinInStep
<1>2. \A u \in Threads : spinPc[u] \notin {"reset", "open"}
  BY DEF SpinTypeOK, SpinLastIsAlone
<1>3. SpinCounted' = SpinCounted \cup {t} /\ t \notin SpinCounted
  BY DEF SpinTypeOK, SpinInStep, SpinCounted
<1>4. /\ Cardinality(SpinCounted) \in Nat /\ N \in Nat
      /\ Cardinality(SpinCounted') = Cardinality(SpinCounted) + 1
      /\ Cardinality(SpinCounted') = N => SpinCounted' = Threads
  <2>1. SpinCounted \in SUBSET Threads /\ SpinCounted' \in SUBSET Threads /\ t \in Threads \ SpinCounted
    BY <1>3 DEF SpinCounted
  <2> QED
    BY <1>3, <2>1, SubsetCounts
<1>5. notArrived = N - Cardinality(SpinCounted)
  BY <1>2 DEF SpinCountRight
<1>6. SpinCountRight'
  BY <1>2, <1>4, <1>5 DEF SpinTypeOK, SpinCountRight
<1>7. SpinLastIsAlone'
  <2>1. CASE notArrived = 1
    <3>1. SpinCounted' = Threads
      BY <1>4, <1>5, <2>1
    <3> QED
      BY <1>2, <1>3, <3>1 DEF SpinLastIsAlone, SpinCounted, SpinTypeOK
  <2>2. CASE notArrived # 1
    BY <1>2, <2>2 DEF SpinLastIsAlone, SpinTypeOK
  <2> QED
    BY <2>1, <2>2
<1>8. SpinPushed' = SpinPushed
  BY DEF SpinTypeOK, SpinPushed
<1> QED
  BY <1>1, <1>6, <1>7, <1>8, SpinResultsKept

\* The count is set back while everybody else is in the spin.
LEMMA SpinResetInv ==
  ASSUME SpinInv, NEW t \in Threads, Spin!Reset(t) PROVE SpinInv'
<1> USE DEF SpinInv, Spin!Reset, Spin!Goto
<1>1. SpinTypeOK' /\ SpinInStep' /\ SpinLastIsAlone'
  <2>1. N \in Nat
    BY SubsetCounts
  <2> QED
    BY <2>1, SameCount DEF SpinTypeOK, SpinInStep, SpinLastIsAlone
<1>2. SpinCountRight'
  BY SameCount DEF SpinTypeOK, SpinCountRight
<1>3. SpinPushed' = SpinPushed
  BY DEF SpinTypeOK, SpinPushed
<1> QED
  BY <1>1, <1>2, <1>3, SpinResultsKept

\* With the generation raised everybody is one stage behind it, or in it.
LEMMA SpinOpenInv ==
  ASSUME SpinInv, NEW t \in Threads, Spin!Open(t) PROVE SpinInv'
<1> USE DEF SpinInv, Spin!Open, Spin!NextStage, Spin!Goto
<1>1. /\ spinGen[t] = spinGeneration /\ spinStage[t] = spinGeneration /\ spinStage[t] < Rounds
      /\ \A u \in Threads \ {t} : spinPc[u] = "spin" /\ spinStage[u] = spinGeneration
  BY DEF SpinInStep, SpinLastIsAlone
<1>2. SpinTypeOK'
  BY <1>1, Started DEF SpinTypeOK
<1>3. SpinInStep' /\ SpinLastIsAlone'
  BY <1>1, Started DEF SpinTypeOK, SpinInStep, SpinLastIsAlone
<1>4. SpinCounted' = {} /\ SpinPushed' = {} /\ SpinPushed = Threads
  BY <1>1 DEF SpinTypeOK, SpinCounted, SpinPushed
<1>5. SpinCountRight'
  BY <1>1, <1>4, FS_EmptySet, SubsetCounts DEF SpinTypeOK, SpinCountRight
<1>6. N \in Nat /\ spinGeneration \in Nat /\ spinGeneration' = spinGeneration + 1
  BY <1>1, SubsetCounts DEF SpinTypeOK
<1>7. N * (spinGeneration + 1) = N * spinGeneration + N /\ N * spinGeneration \in Nat
  BY <1>6, Z3
<1>8. Len(results) = N * spinGeneration' + 0
  BY <1>4, <1>6, <1>7 DEF SpinResultsRight, N
<1>9. SpinResultsRight'
  BY <1>4, <1>8, FS_EmptySet DEF SpinResultsRight
<1> QED
  BY <1>2, <1>3, <1>5, <1>9

\* Who leaves the spin was one stage behind the generation.
LEMMA SpinLeaveInv ==
  ASSUME SpinInv, NEW t \in Threads, Spin!Leave(t) PROVE SpinInv'
<1> USE DEF SpinInv, Spin!Leave, Spin!NextStage, Spin!Goto
<1>1. /\ spinStage[t] + 1 = spinGeneration /\ spinStage[t] < Rounds
      /\ \A u \in Threads : spinPc[u] \notin {"reset", "open"}
  BY DEF SpinInStep, SpinLastIsAlone, SpinTypeOK
<1>2. SpinTypeOK'
  BY <1>1, Started DEF SpinTypeOK
<1>3. SpinInStep' /\ SpinLastIsAlone'
  BY <1>1, Started DEF SpinTypeOK, SpinInStep, SpinLastIsAlone
<1>4. SpinCounted' = SpinCounted /\ SpinPushed' = SpinPushed
  BY <1>1 DEF SpinTypeOK, SpinCounted, SpinPushed
<1>5. SpinCountRight'
  BY <1>1, <1>4 DEF SpinTypeOK, SpinCountRight
<1> QED
  BY <1>2, <1>3, <1>4, <1>5, SpinResultsKept

\* Every step of a thread keeps SpinInv.
LEMMA SpinStepInv == ASSUME SpinInv, NEW t \in Threads, Spin!Step(t) PROVE SpinInv'
  BY SpinWorkInv, SpinLoadInv, SpinArriveInv, SpinResetInv, SpinOpenInv, SpinLeaveInv DEF Spin!Step

\* The other programs do not touch the barrier.
LEMMA SpinUnchanged == ASSUME SpinInv, UNCHANGED spinVars PROVE SpinInv'
  BY DEF spinVars, SpinInv, SpinTypeOK, SpinInStep, SpinLastIsAlone, SpinCountRight, SpinCounted,
         SpinResultsRight, SpinPushed

\* SpinInv is strong enough for the assertion of barrier.cpp:106.
LEMMA SpinResults == SpinInv => Spin!ResultsInOrder
<1> SUFFICES ASSUME SpinInv PROVE Spin!ResultsInOrder
  OBVIOUS
<1> USE DEF SpinInv
<1>1. \A k \in 1 .. Len(results) : results[k] = (k - 1) \div Spin!N
  BY SameCount DEF SpinResultsRight
<1>2. ASSUME Spin!AllDone PROVE Len(results) = Spin!N * Rounds
  <2>1. SpinPushed = {} /\ \A t \in Threads : spinGeneration = Rounds
    BY <1>2 DEF SpinPushed, SpinInStep, Spin!AllDone
  <2>2. spinGeneration = Rounds
    BY <2>1, Started
  <2>3. Len(results) = N * Rounds + Cardinality({})
    BY <2>1, <2>2 DEF SpinResultsRight
  <2>4. N * Rounds \in Nat
    <3>1. N \in Nat
      BY SubsetCounts
    <3> QED
      BY <3>1, Started
  <2> QED
    BY <2>3, <2>4, FS_EmptySet, SameCount
<1> QED
  BY <1>1, <1>2 DEF Spin!ResultsInOrder

SpinHasArrived(t) == spinPc[t] \in {"spin", "reset", "open"}

\* How often a thread has arrived
LEMMA SpinArrivedIs ==
  ASSUME SpinTypeOK
  PROVE  \A t \in Threads : /\ Spin!Arrived[t] \in Nat /\ spinStage[t] \in Nat
                            /\ SpinHasArrived(t) => Spin!Arrived[t] = spinStage[t] + 1
                            /\ ~SpinHasArrived(t) => Spin!Arrived[t] = spinStage[t]
<1> SUFFICES ASSUME NEW t \in Threads
             PROVE  /\ Spin!Arrived[t] \in Nat /\ spinStage[t] \in Nat
                    /\ SpinHasArrived(t) => Spin!Arrived[t] = spinStage[t] + 1
                    /\ ~SpinHasArrived(t) => Spin!Arrived[t] = spinStage[t]
  OBVIOUS
<1>1. Spin!Arrived[t] = spinStage[t] + IF spinPc[t] \in {"spin", "reset", "open"} THEN 1 ELSE 0
  BY DEF Spin!Arrived
<1>2. spinStage[t] \in Nat
  BY DEF SpinTypeOK
<1> QED
  BY <1>1, <1>2 DEF SpinHasArrived

\* A step of the barrier is one of Stages or leaves it alone.
LEMMA SpinRefines ==
  ASSUME demo = "spin_barrier", UNCHANGED demo, SpinInv, NEW t \in Threads, Spin!Step(t)
  PROVE  [Abstract!Next]_(Abstract!vars)
<1> USE DEF SpinInv, Spin!Goto
<1>0. \A u \in Threads : /\ Spin!Arrived[u] \in Nat /\ spinStage[u] \in Nat
                         /\ SpinHasArrived(u) => Spin!Arrived[u] = spinStage[u] + 1
                         /\ ~SpinHasArrived(u) => Spin!Arrived[u] = spinStage[u]
  BY SpinArrivedIs DEF SpinTypeOK
<1>1. ASSUME Spin!Work(t) \/ Spin!Load(t) \/ Spin!Reset(t) PROVE UNCHANGED Abstract!vars
  BY <1>1 DEF SpinTypeOK, Spin!Work, Spin!Load, Spin!Reset, Spin!Arrived, Abstract!vars
<1>2. ASSUME Spin!Arrive(t) PROVE Abstract!Arrive(t)
  <2>1. /\ Spin!Arrived[t] = spinStage[t] /\ Spin!Arrived'[t] = spinStage[t] + 1 /\ spinStage' = spinStage
        /\ \A u \in Threads \ {t} : Spin!Arrived'[u] = Spin!Arrived[u]
    <3>1. /\ spinPc[t] = "arrive" /\ spinPc'[t] \in {"spin", "reset"} /\ spinStage' = spinStage
          /\ \A u \in Threads \ {t} : spinPc'[u] = spinPc[u]
      BY <1>2 DEF SpinTypeOK, Spin!Arrive
    <3>2. Spin!Arrived'[t] = spinStage'[t] + 1
      BY <3>1 DEF Spin!Arrived
    <3>3. \A u \in Threads \ {t} : Spin!Arrived'[u] = Spin!Arrived[u]
      BY <3>1 DEF Spin!Arrived
    <3> QED
      BY <1>0, <3>1, <3>2, <3>3 DEF SpinHasArrived
  <2>2. Spin!Arrived' = [Spin!Arrived EXCEPT ![t] = @ + 1]
    BY <2>1 DEF Spin!Arrived
  <2> QED
    BY <2>1, <2>2 DEF Abstract!Arrive
<1>3. ASSUME Spin!Open(t) \/ Spin!Leave(t) PROVE Abstract!Pass(t)
  <2>1. /\ Spin!Arrived[t] = spinStage[t] + 1
        /\ spinStage' = [spinStage EXCEPT ![t] = @ + 1]
    BY <1>3 DEF Spin!Open, Spin!Leave, Spin!NextStage, Spin!Arrived, SpinTypeOK
  <2>2. ASSUME NEW u \in Threads \ {t} PROVE Spin!Arrived'[u] = Spin!Arrived[u]
    <3>1. spinPc'[u] = spinPc[u] /\ spinStage'[u] = spinStage[u]
      BY <1>3 DEF SpinTypeOK, Spin!Open, Spin!Leave, Spin!NextStage
    <3> QED
      BY <3>1 DEF Spin!Arrived
  <2>3. Spin!Arrived'[t] = Spin!Arrived[t]
    <3>1. spinPc'[t] \in {"work", "done"} /\ spinStage'[t] = spinStage[t] + 1
      BY <1>3 DEF SpinTypeOK, Spin!Open, Spin!Leave, Spin!NextStage
    <3> QED
      <4>1. Spin!Arrived'[t] = spinStage'[t] + 0
        BY <3>1 DEF Spin!Arrived
      <4> QED
        BY <1>0, <2>1, <3>1, <4>1
  <2>4. Spin!Arrived' = Spin!Arrived
    BY <2>2, <2>3 DEF Spin!Arrived
  <2>5. \A u \in Threads : Spin!Arrived[u] >= spinStage[t] + 1
    <3> SUFFICES ASSUME NEW u \in Threads PROVE Spin!Arrived[u] >= spinStage[t] + 1
      OBVIOUS
    <3>1. CASE u = t
      BY <1>0, <2>1, <3>1
    <3>2. CASE u # t /\ Spin!Open(t)
      <4>1. spinPc[u] = "spin" /\ spinStage[u] = spinGeneration /\ spinStage[t] = spinGeneration
        BY <3>2 DEF Spin!Open, Spin!NextStage, SpinInStep, SpinLastIsAlone
      <4> QED
        BY <1>0, <4>1 DEF SpinHasArrived
    <3>3. CASE u # t /\ Spin!Leave(t)
      <4>1. /\ spinStage[t] + 1 = spinGeneration
            /\ spinStage[u] = spinGeneration \/ (spinPc[u] = "spin" /\ spinStage[u] + 1 = spinGeneration)
        BY <3>3 DEF Spin!Leave, Spin!NextStage, SpinInStep
      <4> QED
        BY <1>0, <4>1 DEF SpinHasArrived
    <3> QED
      BY <1>3, <3>1, <3>2, <3>3
  <2>6. spinStage[t] < Spin!Arrived[t]
    BY <1>0, <2>1
  <2> QED
    BY <2>1, <2>4, <2>5, <2>6 DEF Abstract!Pass
<1> QED
  BY <1>1, <1>2, <1>3 DEF Spin!Step, Abstract!Next

-----------------------------------------------------------------------------
\* condition_variable/barrier.cpp

CvTypeOK ==
    /\ cvPc \in [Threads -> {"arrive", "wait", "joined"}]
    /\ cvStage \in [Threads -> Nat]
    /\ cvGen \in [Threads -> Nat]
    /\ cvGeneration \in Nat
    /\ current \in Int

\* The threads in wait() that are not the last
CvWaiting == {t \in Threads : cvPc[t] = "wait"}

\* Somebody is still to come, and current_count_ says how many.
Filling ==
    /\ \A t \in Threads : /\ cvPc[t] # "joined" /\ cvStage[t] = cvGeneration
                          /\ cvPc[t] = "wait" => cvGen[t] = cvGeneration
    /\ current = N - Cardinality(CvWaiting)
    /\ CvWaiting # Threads

\* The last has come: those that wait are of the generation before.
Leaving ==
    /\ \A t \in Threads : /\ cvPc[t] # "arrive"
                          /\ cvPc[t] = "wait" => /\ cvGen[t] # cvGeneration
                                                 /\ cvStage[t] + 1 = cvGeneration
                          /\ cvPc[t] = "joined" => cvStage[t] = cvGeneration
    /\ current = N

CvInv == CvTypeOK /\ (Filling \/ Leaving)

\* At the start the barrier is filling and nobody waits.
LEMMA CvInitInv == ASSUME Cv!Init PROVE CvInv
<1>1. CvTypeOK
  BY SameCount, SubsetCounts DEF Cv!Init, CvTypeOK
<1>2. CvWaiting = {}
  BY DEF Cv!Init, CvWaiting
<1>3. Filling
  <2>1. current = N - Cardinality(CvWaiting)
    BY <1>2, SameCount, SubsetCounts, FS_EmptySet DEF Cv!Init
  <2> QED
    BY <1>2, <2>1, Started DEF Cv!Init, Filling
<1> QED
  BY <1>1, <1>3 DEF CvInv

\* CvInv says nothing of who is blocked, so spurious wake-ups keep it.
LEMMA CvUnchanged ==
  ASSUME CvInv, UNCHANGED <<cvPc, cvStage, current, cvGeneration, cvGen>> PROVE CvInv'
  BY DEF CvInv, CvTypeOK, Filling, Leaving, CvWaiting

\* wait() of a thread that is not the last: somebody is still to come.
LEMMA CvArriveFirstInv ==
  ASSUME CvInv, NEW t \in Threads, Cv!ArriveFirst(t) PROVE CvInv'
<1> USE DEF CvInv, Cv!ArriveFirst, Cv!Goto
<1>1. CvTypeOK'
  BY DEF CvTypeOK
<1>2. Filling
  BY DEF Leaving
<1>3. CvWaiting' = CvWaiting \cup {t} /\ t \in Threads \ CvWaiting
  BY DEF CvTypeOK, CvWaiting
<1>4. /\ Cardinality(CvWaiting') = Cardinality(CvWaiting) + 1 /\ Cardinality(CvWaiting) \in Nat
      /\ N \in Nat
  <2>1. CvWaiting \in SUBSET Threads
    BY DEF CvWaiting
  <2> QED
    BY <1>3, <2>1, SubsetCounts
<1>5. current' = N - Cardinality(CvWaiting')
  BY <1>2, <1>4 DEF Filling
<1>6. CvWaiting' # Threads
  <2>1. SUFFICES ASSUME CvWaiting' = Threads PROVE FALSE
    OBVIOUS
  <2>2. Cardinality(CvWaiting') = N
    BY <2>1 DEF N
  <2> QED
    BY <1>2, <1>4, <2>2 DEF Filling
<1>7. Filling'
  BY <1>2, <1>5, <1>6 DEF Filling, CvTypeOK
<1> QED
  BY <1>1, <1>7

\* Who finds current_count_ at 1 is the last: all the others are in wait().
LEMMA CvArriveLastInv ==
  ASSUME CvInv, NEW t \in Threads, Cv!ArriveLast(t)
  PROVE  CvInv' /\ Filling /\ \A u \in Threads \ {t} : cvPc[u] = "wait"
<1> USE DEF CvInv, Cv!ArriveLast, Cv!Goto
<1>1. CvTypeOK'
  BY SameCount, SubsetCounts DEF CvTypeOK
<1>2. Filling
  BY DEF Leaving
<1>3. \A u \in Threads \ {t} : cvPc[u] = "wait"
  <2>1. CvWaiting \in SUBSET Threads /\ t \in Threads \ CvWaiting
    BY DEF CvWaiting
  <2>2. CvWaiting \cup {t} \in SUBSET Threads
    BY <2>1
  <2>3. Cardinality(CvWaiting \cup {t}) = Cardinality(CvWaiting) + 1
    BY <2>1, SubsetCounts
  <2>4. Cardinality(CvWaiting) \in Nat /\ N \in Nat
    BY <2>1, SubsetCounts
  <2>5. Cardinality(CvWaiting \cup {t}) = N
    BY <1>2, <2>3, <2>4 DEF Filling
  <2>6. CvWaiting \cup {t} = Threads
    BY <2>2, <2>5, SubsetCounts
  <2> QED
    BY <2>6 DEF CvWaiting
<1>4. Leaving'
  <2>1. /\ cvPc'[t] = "joined" /\ cvStage'[t] = cvStage[t] + 1 /\ cvGeneration' = cvGeneration + 1
        /\ cvStage[t] = cvGeneration /\ current' = N
    BY <1>2, SameCount DEF Filling, CvTypeOK
  <2>2. ASSUME NEW u \in Threads \ {t}
        PROVE  /\ cvPc'[u] = "wait" /\ cvGen'[u] = cvGeneration /\ cvStage'[u] = cvGeneration
               /\ cvGeneration \in Nat
    BY <1>2, <1>3 DEF Filling, CvTypeOK
  <2> QED
    BY <2>1, <2>2 DEF Leaving
<1> QED
  BY <1>1, <1>2, <1>3, <1>4

\* A woken thread goes on only when the threads are leaving the barrier.
LEMMA CvWakeInv ==
  ASSUME CvInv, NEW t \in Threads, Cv!Wake(t)
  PROVE  CvInv' /\ (UNCHANGED <<cvPc, cvStage>> \/ (Leaving /\ cvGen[t] # cvGeneration))
<1> USE DEF CvInv, Cv!Wake, Cv!Goto
<1>1. CASE cvGen[t] # cvGeneration
  <2>1. Leaving
    BY <1>1 DEF Filling
  <2>2. CvTypeOK'
    BY <1>1 DEF CvTypeOK
  <2>3. Leaving'
    BY <1>1, <2>1 DEF Leaving, CvTypeOK
  <2> QED
    BY <1>1, <2>1, <2>2, <2>3
<1>2. CASE cvGen[t] = cvGeneration
  <2>1. UNCHANGED <<cvPc, cvStage, current, cvGeneration, cvGen>>
    BY <1>2
  <2>2. CvInv'
    BY <2>1, CvUnchanged
  <2>3. UNCHANGED <<cvPc, cvStage>>
    BY <2>1
  <2> QED
    BY <2>2, <2>3, Zenon
<1> QED
  BY <1>1, <1>2

\* When main has joined all the threads the barrier is as new.
LEMMA CvNextGenerationInv ==
  ASSUME CvInv, Cv!NextGeneration PROVE CvInv'
<1> USE DEF CvInv, Cv!NextGeneration, Cv!AllJoined
<1>1. CvTypeOK'
  BY DEF CvTypeOK
<1>2. CvWaiting' = {}
  BY DEF CvWaiting
<1>3. Leaving
  BY Started DEF Filling
<1>4. current' = N - Cardinality(CvWaiting')
  BY <1>2, <1>3, FS_EmptySet, SubsetCounts DEF Leaving
<1>5. Filling'
  BY <1>2, <1>3, <1>4, Started DEF Filling, Leaving
<1> QED
  BY <1>1, <1>5

\* A step of the barrier is one of Stages or leaves it alone.
LEMMA CvRefines ==
  ASSUME demo = "cv_barrier", UNCHANGED demo, CvInv,
         (\E t \in Threads : Cv!Step(t)) \/ Cv!SpuriousWakeup \/ Cv!NextGeneration
  PROVE  [Abstract!Next]_(Abstract!vars)
<1> USE DEF CvInv, Cv!Goto
<1>0. \A u \in Threads : /\ Cv!Arrived[u] \in Nat /\ cvStage[u] \in Nat
                         /\ cvPc[u] = "wait" => Cv!Arrived[u] = cvStage[u] + 1
                         /\ cvPc[u] # "wait" => Cv!Arrived[u] = cvStage[u]
  <2> SUFFICES ASSUME NEW u \in Threads
               PROVE  /\ Cv!Arrived[u] \in Nat /\ cvStage[u] \in Nat
                      /\ cvPc[u] = "wait" => Cv!Arrived[u] = cvStage[u] + 1
                      /\ cvPc[u] # "wait" => Cv!Arrived[u] = cvStage[u]
    OBVIOUS
  <2>1. cvStage[u] \in Nat
    BY DEF CvTypeOK
  <2>2. Cv!Arrived[u] = cvStage[u] + IF cvPc[u] = "wait" THEN 1 ELSE 0
    BY DEF Cv!Arrived
  <2> QED
    BY <2>1, <2>2
<1>1. ASSUME NEW t \in Threads, Cv!ArriveFirst(t) PROVE Abstract!Arrive(t)
  <2>1. /\ cvPc[t] = "arrive" /\ cvPc'[t] = "wait" /\ cvStage' = cvStage
        /\ \A u \in Threads \ {t} : cvPc'[u] = cvPc[u]
    BY <1>1 DEF Cv!ArriveFirst, CvTypeOK
  <2>2. Cv!Arrived'[t] = cvStage[t] + 1
    BY <2>1 DEF Cv!Arrived
  <2>3. \A u \in Threads \ {t} : Cv!Arrived'[u] = Cv!Arrived[u]
    BY <2>1 DEF Cv!Arrived
  <2>4. Cv!Arrived[t] = cvStage[t]
    BY <1>0, <2>1
  <2>5. Cv!Arrived' = [Cv!Arrived EXCEPT ![t] = @ + 1]
    BY <2>2, <2>3, <2>4 DEF Cv!Arrived
  <2> QED
    BY <2>1, <2>4, <2>5 DEF Abstract!Arrive
<1>2. ASSUME NEW t \in Threads, Cv!ArriveLast(t) PROVE Abstract!ArriveLast(t)
  <2>1. Filling /\ \A u \in Threads \ {t} : cvPc[u] = "wait"
    BY <1>2, CvArriveLastInv
  <2>2. /\ cvPc[t] = "arrive" /\ cvPc'[t] = "joined"
        /\ cvStage' = [cvStage EXCEPT ![t] = @ + 1] /\ cvStage'[t] = cvStage[t] + 1
        /\ \A u \in Threads \ {t} : cvPc'[u] = cvPc[u] /\ cvStage'[u] = cvStage[u]
    BY <1>2 DEF Cv!ArriveLast, CvTypeOK
  <2>3. Cv!Arrived'[t] = cvStage'[t] + 0
    BY <2>2 DEF Cv!Arrived
  <2>4. \A u \in Threads \ {t} : Cv!Arrived'[u] = Cv!Arrived[u]
    BY <2>2 DEF Cv!Arrived
  <2>5. Cv!Arrived[t] = cvStage[t] /\ Cv!Arrived'[t] = cvStage[t] + 1
    BY <1>0, <2>2, <2>3
  <2>6. Cv!Arrived' = [Cv!Arrived EXCEPT ![t] = @ + 1]
    BY <2>4, <2>5 DEF Cv!Arrived
  <2>7. \A u \in Threads \ {t} : Cv!Arrived[u] > Cv!Arrived[t]
    BY <1>0, <2>1, <2>5 DEF Filling
  <2> QED
    BY <2>2, <2>5, <2>6, <2>7 DEF Abstract!ArriveLast
<1>3. ASSUME NEW t \in Threads, Cv!Wake(t) PROVE UNCHANGED Abstract!vars \/ Abstract!Pass(t)
  <2>1. CASE UNCHANGED <<cvPc, cvStage>>
    BY <2>1 DEF Cv!Arrived, Abstract!vars
  <2>2. CASE Leaving /\ cvGen[t] # cvGeneration
    <3>1. /\ cvPc[t] = "wait" /\ cvPc'[t] = "joined"
          /\ cvStage' = [cvStage EXCEPT ![t] = @ + 1] /\ cvStage'[t] = cvStage[t] + 1
          /\ \A u \in Threads \ {t} : cvPc'[u] = cvPc[u] /\ cvStage'[u] = cvStage[u]
      BY <1>3, <2>2 DEF Cv!Wake, CvTypeOK
    <3>2. Cv!Arrived'[t] = cvStage'[t] + 0
      BY <3>1 DEF Cv!Arrived
    <3>3. \A u \in Threads \ {t} : Cv!Arrived'[u] = Cv!Arrived[u]
      BY <3>1 DEF Cv!Arrived
    <3>4. Cv!Arrived[t] = cvStage[t] + 1 /\ Cv!Arrived'[t] = Cv!Arrived[t]
      BY <1>0, <3>1, <3>2
    <3>5. Cv!Arrived' = Cv!Arrived
      BY <3>3, <3>4 DEF Cv!Arrived
    <3>6. \A u \in Threads : Cv!Arrived[u] >= Cv!Arrived[t]
      BY <1>0, <2>2, <3>1, <3>4 DEF Leaving, CvTypeOK
    <3>7. cvStage[t] < Cv!Arrived[t]
      BY <1>0, <3>4
    <3> QED
      BY <3>1, <3>5, <3>6, <3>7 DEF Abstract!Pass
  <2> QED
    BY <1>3, <2>1, <2>2, CvWakeInv
<1>4. CASE Cv!SpuriousWakeup
  BY <1>4 DEF Cv!SpuriousWakeup, Cv!Arrived, Abstract!vars
<1>5. ASSUME Cv!NextGeneration PROVE UNCHANGED Abstract!vars
  <2>1. \A u \in Threads : Cv!Arrived'[u] = Cv!Arrived[u]
    BY <1>5 DEF Cv!NextGeneration, Cv!AllJoined, Cv!Arrived
  <2>2. Cv!Arrived' = Cv!Arrived
    BY <2>1 DEF Cv!Arrived
  <2> QED
    BY <1>5, <2>2 DEF Cv!NextGeneration, Abstract!vars
<1> QED
  BY <1>1, <1>2, <1>3, <1>4, <1>5 DEF Cv!Step, Abstract!Next

-----------------------------------------------------------------------------
\* count_down_latch.cpp

\* The threads that have not counted down
Awaited == {t \in Threads : latchPc[t] = "count_down"}

LatchInv ==
    /\ latchPc \in [Threads -> {"count_down", "done"}]
    /\ count = Cardinality(Awaited)
    /\ main # "wait" => count = 0

\* The latch starts with the number of threads.
LEMMA LatchInitInv == ASSUME Events!LatchInit PROVE LatchInv
<1>1. Awaited = Threads
  BY DEF Awaited, Events!LatchInit
<1> QED
  BY <1>1, SameCount DEF LatchInv, Events!LatchInit

\* count_down() lowers count_ and the number of threads to come; main is released at 0.
LEMMA LatchStepInv ==
  ASSUME LatchInv, (\E t \in Threads : Events!CountDown(t)) \/ Events!LatchMainStep \/ Events!LatchWakeup
  PROVE  LatchInv'
<1> USE DEF LatchInv
<1>1. ASSUME NEW t \in Threads, Events!CountDown(t) PROVE LatchInv'
  <2> USE <1>1 DEF Events!CountDown
  <2>1. Awaited' = Awaited \ {t} /\ t \in Awaited /\ Awaited \in SUBSET Threads
    BY DEF Awaited
  <2>2. Cardinality(Awaited') = Cardinality(Awaited) - 1 /\ Cardinality(Awaited) \in Nat
        /\ Cardinality(Awaited) # 0
    <3>1. IsFiniteSet(Awaited) /\ Cardinality(Awaited \ {t}) = Cardinality(Awaited) - 1
          /\ Cardinality(Awaited) \in Nat
      BY <2>1, SubsetCounts
    <3> QED
      BY <2>1, <3>1, FS_EmptySet
  <2> QED
    BY <2>2
<1>2. CASE Events!WaitForCount \/ Events!JoinWorkers \/ Events!LatchWakeup
  BY <1>2 DEF Events!WaitForCount, Events!JoinWorkers, Events!LatchWakeup, Awaited
<1> QED
  BY <1>1, <1>2 DEF Events!LatchMainStep

\* The other programs do not touch the latch.
LEMMA LatchUnchanged == ASSUME LatchInv, UNCHANGED latchVars PROVE LatchInv'
  BY DEF LatchInv, Awaited, latchVars

\* When count_ is 0 every thread has counted down.
LEMMA LatchNotEarly == LatchInv => Events!NoEarlyRelease
<1> SUFFICES ASSUME LatchInv, main # "wait" PROVE \A t \in Threads : latchPc[t] = "done"
  BY DEF Events!NoEarlyRelease
<1>1. Awaited \in SUBSET Threads /\ Cardinality(Awaited) = 0
  BY DEF LatchInv, Awaited
<1>2. Awaited = {}
  BY <1>1, SubsetCounts, FS_EmptySet
<1> QED
  BY <1>2 DEF LatchInv, Awaited

-----------------------------------------------------------------------------
\* item39.cpp

EventsInv == /\ task \in [Tasks -> {"none", "begin", "wait", "done"}]
             /\ event \in BOOLEAN
             /\ block \in 2 .. 6 => \A t \in Tasks : task[t] = "done" => event

\* The first block has begun.
LEMMA EventsInitInv == ASSUME Events!Init PROVE EventsInv
  BY DEF Events!Init, Events!Begin, EventsInv

\* A task is done when it has seen the event; the next block starts with new tasks.
LEMMA EventsStepInv ==
  ASSUME EventsInv, Events!MainStep \/ (\E t \in Tasks : Events!TaskStep(t)) \/ Events!SpuriousWakeup
  PROVE  EventsInv'
<1> USE DEF EventsInv
<1>1. ASSUME NEW t \in Tasks, Events!TaskStep(t) PROVE EventsInv'
  <2>1. CASE Events!WaitBlindly(t) \/ Events!ReturnBlindly(t)
    BY <2>1 DEF Events!WaitBlindly, Events!ReturnBlindly
  <2>2. CASE Events!SeeEvent(t)
    BY <2>2 DEF Events!SeeEvent
  <2>3. CASE Events!WaitForFlag(t)
    BY <2>3 DEF Events!WaitForFlag
  <2> QED
    BY <1>1, <2>1, <2>2, <2>3 DEF Events!TaskStep
<1>2. CASE Events!MainStep
  <2>1. CASE Events!Notify \/ Events!SetEvent \/ Events!SetFlag \/ Events!NotifyLocked \/ Events!Unlock
    BY <2>1 DEF Events!Notify, Events!SetEvent, Events!SetFlag, Events!NotifyLocked, Events!Unlock
  <2>2. CASE Events!Join
    BY <2>2 DEF Events!Join, Events!Begin
  <2> QED
    BY <1>2, <2>1, <2>2 DEF Events!MainStep
<1>3. CASE Events!SpuriousWakeup
  BY <1>3 DEF Events!SpuriousWakeup
<1> QED
  BY <1>1, <1>2, <1>3

\* The other programs do not touch the events.
LEMMA EventsUnchanged == ASSUME EventsInv, UNCHANGED eventVars PROVE EventsInv'
  BY DEF EventsInv, eventVars

\* EventsInv is strong enough for ReactsAfterEvent.
LEMMA EventsNotEarly == EventsInv => Events!ReactsAfterEvent
<1> SUFFICES ASSUME EventsInv, block \in 2 .. 6, NEW t \in Events!Running(block), task[t] = "done"
             PROVE  event
  BY DEF Events!ReactsAfterEvent
<1>1. Events!OneTask \in Tasks
  BY DemosAssumption DEF Events!OneTask
<1>2. t \in Tasks
  BY <1>1 DEF Events!Running
<1> QED
  BY <1>2 DEF EventsInv

-----------------------------------------------------------------------------
\* The locks of IoMutex

Insertions == (Printers \cup {"main"}) \X Nat \X {"begin", "end"}

IoTypeOK ==
    /\ program \in {"atomic_flag", "atomic_bool", "atomic_int"}
    /\ pc \in [Printers -> {"lock", "cas", "reset", "spin", "begin", "end", "unlock", "pass", "done"}]
    /\ i \in [Printers -> Nat]
    /\ out \in Seq(Insertions)
    /\ lock \in BOOLEAN /\ expected \in [Printers -> BOOLEAN]
    /\ turn \in Nat /\ ticket \in Nat
    /\ me \in [Printers -> Nat] /\ newTurn \in [Printers -> Nat]

\* The threads that hold the lock
HasLock(t) == pc[t] \in {"begin", "end", "unlock", "pass"}

OneOwner == \A t, u \in Printers : HasLock(t) /\ HasLock(u) => t = u

\* lock_ is set exactly while somebody holds the lock, and nobody exchanges TRUE.
FlagInv ==
    program \in {"atomic_flag", "atomic_bool"} =>
        /\ lock <=> \E t \in Printers : HasLock(t)
        /\ \A t \in Printers : pc[t] = "cas" => expected[t] = FALSE

\* Different tickets, from turn_ up; the one that holds the lock has turn_.
TurnInv ==
    program = "atomic_int" =>
        /\ turn <= ticket
        /\ \A t \in Printers :
              /\ pc[t] = "spin" \/ HasLock(t) => turn <= me[t] /\ me[t] < ticket
              /\ HasLock(t) => me[t] = turn
              /\ pc[t] = "pass" => newTurn[t] = turn
              /\ \A u \in Printers :
                    (pc[t] = "spin" \/ HasLock(t)) /\ (pc[u] = "spin" \/ HasLock(u)) /\ me[t] = me[u]
                    => t = u

\* A line that has been begun and not ended is the last, and the owner's.
Paired ==
    \A k \in 1 .. Len(out) :
        IF k % 2 = 1
        THEN out[k][3] = "begin" /\ (k < Len(out) => out[k + 1] = [out[k] EXCEPT ![3] = "end"])
        ELSE out[k][3] = "end"
LastLine ==
    /\ Len(out) % 2 = 1 => \E t \in Printers : pc[t] = "end"
    /\ \A t \in Printers : pc[t] = "end" => Len(out) % 2 = 1 /\ out[Len(out)] = <<t, i[t], "begin">>
\* A thread has printed no line after that of its loop counter.
Ordered ==
    /\ \A k, l \in 1 .. Len(out) : k < l /\ out[k][1] = out[l][1] => out[k][2] <= out[l][2]
    /\ \A k \in 1 .. Len(out) : \A t \in Printers : out[k][1] = t => out[k][2] <= i[t]

IoLockInv == IoTypeOK /\ OneOwner /\ FlagInv /\ TurnInv
IoInv == IoLockInv /\ Paired /\ LastLine /\ Ordered

\* What Append does to the output
LEMMA Appended ==
  ASSUME NEW s \in Seq(Insertions), NEW e \in Insertions
  PROVE  /\ Len(Append(s, e)) = Len(s) + 1 /\ Len(s) \in Nat
         /\ \A k \in 1 .. Len(s) : Append(s, e)[k] = s[k]
         /\ Append(s, e)[Len(s) + 1] = e
         /\ Append(s, e) \in Seq(Insertions)
  OBVIOUS

\* The lock is open and nothing is printed.
LEMMA IoInitInv == ASSUME Io!Init PROVE IoInv
<1> USE DEF Io!Init, Io!PrintInit
<1>1. IoTypeOK
  <2>1. lock \in BOOLEAN /\ expected \in [Printers -> BOOLEAN]
    BY Zenon
  <2>2. out \in Seq(Insertions)
    OBVIOUS
  <2> QED
    BY <2>1, <2>2 DEF IoTypeOK
<1>2. /\ turn = 0 /\ ticket = 0 /\ lock = FALSE
      /\ \A t \in Printers : pc[t] = "lock" /\ expected[t] = FALSE
  BY Zenon
<1>a. OneOwner /\ FlagInv /\ TurnInv
  BY <1>2 DEF OneOwner, FlagInv, TurnInv, HasLock
<1>3. Paired /\ LastLine /\ Ordered
  BY DEF Paired, LastLine, Ordered
<1> QED
  BY <1>1, <1>a, <1>3 DEF IoInv, IoLockInv

\* The steps that print keep the locks.
LEMMA IoPrintLockInv ==
  ASSUME IoLockInv, NEW t \in Printers, Io!BeginLine(t) \/ Io!EndLine(t),
         UNCHANGED <<program, lock, expected, turn, ticket, me, newTurn>>
  PROVE  IoLockInv'
<1> USE DEF IoLockInv, Io!BeginLine, Io!EndLine, Io!Goto
<1>1. IoTypeOK'
  <2>1. \A x \in {"begin", "end"} : <<t, i[t], x>> \in Insertions
    BY DEF IoTypeOK, Insertions
  <2>2. out' \in Seq(Insertions)
    <3>1. PICK x \in {"begin", "end"} : out' = Append(out, <<t, i[t], x>>)
      OBVIOUS
    <3>2. <<t, i[t], x>> \in Insertions /\ out \in Seq(Insertions)
      BY <2>1 DEF IoTypeOK
    <3> QED
      BY <3>1, <3>2, Appended
  <2>3. i' \in [Printers -> Nat]
    BY DEF IoTypeOK
  <2>4. pc' \in [Printers -> {"lock", "cas", "reset", "spin", "begin", "end", "unlock", "pass", "done"}]
    BY DEF IoTypeOK
  <2> QED
    BY <2>2, <2>3, <2>4 DEF IoTypeOK
<1>2. \A u \in Printers : /\ HasLock(u) <=> HasLock(u)'
                          /\ \/ pc'[u] = pc[u]
                             \/ pc[u] = "begin" /\ pc'[u] = "end"
                             \/ pc[u] = "end" /\ pc'[u] = "unlock"
  <2>1. /\ \/ pc[t] = "begin" /\ pc'[t] = "end"
           \/ pc[t] = "end" /\ pc'[t] = "unlock"
        /\ \A u \in Printers \ {t} : pc'[u] = pc[u]
    BY DEF IoTypeOK
  <2> QED
    BY <2>1 DEF HasLock
<1>3. OneOwner'
  BY <1>2 DEF OneOwner
<1>4. FlagInv'
  BY <1>2 DEF FlagInv
<1>5. TurnInv'
  BY <1>2 DEF TurnInv
<1> QED
  BY <1>1, <1>3, <1>4, <1>5

\* atomic_flag and atomic_bool
LEMMA IoFlagLockInv ==
  ASSUME IoLockInv, UNCHANGED program, program \in {"atomic_flag", "atomic_bool"}, NEW t \in Printers,
         \/ Io!TestAndSet(t) \/ Io!Clear(t) \/ Io!Call(t) \/ Io!CasSucceeds(t) \/ Io!CasFails(t)
         \/ Io!Reset(t)
  PROVE  IoLockInv'
<1> USE DEF IoLockInv, Io!Goto
<1>1. TurnInv'
  BY DEF TurnInv
<1>2. CASE Io!TestAndSet(t) \/ Io!CasSucceeds(t)
  <2> USE <1>2 DEF Io!TestAndSet, Io!CasSucceeds, Io!ticketVars
  <2>1. IoTypeOK'
    BY DEF IoTypeOK
  <2>2. /\ ~lock /\ lock' = TRUE /\ expected' = expected
        /\ pc'[t] = "begin" /\ \A u \in Printers \ {t} : pc'[u] = pc[u]
    BY DEF IoTypeOK, FlagInv
  <2>3. \A u \in Printers : ~HasLock(u)
    BY <2>2 DEF FlagInv
  <2>4. \A u \in Printers : HasLock(u)' <=> u = t
    BY <2>2, <2>3 DEF HasLock
  <2>5. OneOwner'
    BY <2>4 DEF OneOwner
  <2>6. FlagInv'
    BY <2>2, <2>4 DEF FlagInv
  <2> QED
    BY <1>1, <2>1, <2>5, <2>6
<1>3. CASE Io!Clear(t)
  <2> USE <1>3 DEF Io!Clear, Io!NextLine, Io!ticketVars
  <2>1. IoTypeOK'
    <3>1. pc' \in [Printers -> {"lock", "cas", "reset", "spin", "begin", "end", "unlock", "pass", "done"}]
      BY DEF IoTypeOK
    <3>2. i' \in [Printers -> Nat]
      BY DEF IoTypeOK
    <3>3. lock' \in BOOLEAN /\ expected' = expected
      BY Zenon
    <3> QED
      BY <3>1, <3>2, <3>3 DEF IoTypeOK
  <2>2. /\ lock' = FALSE /\ expected' = expected /\ pc[t] = "unlock"
        /\ pc'[t] \in {"lock", "done"} /\ \A u \in Printers \ {t} : pc'[u] = pc[u]
    BY DEF IoTypeOK
  <2>3. \A u \in Printers : ~HasLock(u)'
    BY <2>2 DEF OneOwner, HasLock
  <2>4. OneOwner'
    BY <2>3 DEF OneOwner
  <2>5. FlagInv'
    BY <2>2, <2>3 DEF FlagInv
  <2> QED
    BY <1>1, <2>1, <2>4, <2>5
<1>4. CASE Io!Call(t) \/ Io!CasFails(t) \/ Io!Reset(t)
  <2> USE <1>4 DEF Io!Call, Io!CasFails, Io!Reset, Io!ticketVars
  <2>1. IoTypeOK'
    BY DEF IoTypeOK
  <2>2. /\ lock' = lock /\ pc[t] \in {"lock", "cas", "reset"} /\ pc'[t] \in {"cas", "reset"}
        /\ pc'[t] = "cas" => expected'[t] = FALSE
        /\ \A u \in Printers \ {t} : pc'[u] = pc[u] /\ expected'[u] = expected[u]
    BY DEF IoTypeOK
  <2>3. \A u \in Printers : HasLock(u)' <=> HasLock(u)
    BY <2>2 DEF HasLock
  <2>4. OneOwner'
    BY <2>3 DEF OneOwner
  <2>5. FlagInv'
    BY <2>2, <2>3 DEF FlagInv
  <2> QED
    BY <1>1, <2>1, <2>4, <2>5
<1> QED
  BY <1>2, <1>3, <1>4

\* atomic_int
LEMMA IoTicketLockInv ==
  ASSUME IoLockInv, UNCHANGED program, program = "atomic_int", NEW t \in Printers,
         Io!TakeTicket(t) \/ Io!Enter(t) \/ Io!LoadTurn(t) \/ Io!PassTurn(t)
  PROVE  IoLockInv'
<1> USE DEF IoLockInv, Io!Goto
<1>1. FlagInv'
  BY DEF FlagInv
<1>2. CASE Io!TakeTicket(t)
  <2> USE <1>2 DEF Io!TakeTicket, Io!flagVars
  <2>1. IoTypeOK'
    BY DEF IoTypeOK
  <2>2. /\ ticket' = ticket + 1 /\ turn' = turn /\ newTurn' = newTurn
        /\ pc[t] = "lock" /\ pc'[t] = "spin" /\ me'[t] = ticket
        /\ \A u \in Printers \ {t} : pc'[u] = pc[u] /\ me'[u] = me[u]
        /\ ticket \in Nat /\ turn \in Nat /\ \A u \in Printers : me[u] \in Nat
    BY DEF IoTypeOK
  <2>3. /\ ~HasLock(t) /\ ~HasLock(t)' /\ \A u \in Printers \ {t} : HasLock(u)' <=> HasLock(u)
    BY <2>2 DEF HasLock
  <2>4. OneOwner'
    BY <2>3 DEF OneOwner
  <2>5. TurnInv'
    BY <2>2, <2>3 DEF TurnInv
  <2> QED
    BY <1>1, <2>1, <2>4, <2>5
<1>3. CASE Io!Enter(t)
  <2> USE <1>3 DEF Io!Enter, Io!flagVars, Io!ticketVars
  <2>1. IoTypeOK'
    BY DEF IoTypeOK
  <2>2. /\ pc[t] = "spin" /\ pc'[t] = "begin" /\ me[t] = turn
        /\ UNCHANGED <<turn, ticket, me, newTurn>>
        /\ \A u \in Printers \ {t} : pc'[u] = pc[u]
    BY DEF IoTypeOK
  <2>3. \A u \in Printers : ~HasLock(u)
    BY <2>2 DEF TurnInv, HasLock
  <2>4. \A u \in Printers : HasLock(u)' <=> u = t
    BY <2>2, <2>3 DEF HasLock
  <2>5. OneOwner'
    BY <2>4 DEF OneOwner
  <2>6. TurnInv'
    BY <2>2, <2>3, <2>4 DEF TurnInv
  <2> QED
    BY <1>1, <2>1, <2>5, <2>6
<1>4. CASE Io!LoadTurn(t)
  <2> USE <1>4 DEF Io!LoadTurn, Io!flagVars
  <2>1. IoTypeOK'
    BY DEF IoTypeOK
  <2>2. /\ pc[t] = "unlock" /\ pc'[t] = "pass" /\ newTurn'[t] = turn
        /\ UNCHANGED <<turn, ticket, me>>
        /\ \A u \in Printers \ {t} : pc'[u] = pc[u] /\ newTurn'[u] = newTurn[u]
    BY DEF IoTypeOK
  <2>3. \A u \in Printers : HasLock(u)' <=> HasLock(u)
    BY <2>2 DEF HasLock
  <2>4. OneOwner'
    BY <2>3 DEF OneOwner
  <2>5. TurnInv'
    BY <2>2, <2>3 DEF TurnInv, HasLock
  <2> QED
    BY <1>1, <2>1, <2>4, <2>5
<1>5. CASE Io!PassTurn(t)
  <2> USE <1>5 DEF Io!PassTurn, Io!NextLine, Io!flagVars
  <2>1. IoTypeOK'
    BY DEF IoTypeOK
  <2>2. /\ pc[t] = "pass" /\ pc'[t] \in {"lock", "done"} /\ turn' = newTurn[t] + 1
        /\ UNCHANGED <<ticket, me, newTurn>>
        /\ \A u \in Printers \ {t} : pc'[u] = pc[u]
        /\ ticket \in Nat /\ turn \in Nat /\ \A u \in Printers : me[u] \in Nat
    BY DEF IoTypeOK
  <2>3. HasLock(t) /\ \A u \in Printers : ~HasLock(u)'
    BY <2>2 DEF OneOwner, HasLock
  <2>4. OneOwner'
    BY <2>3 DEF OneOwner
  <2>5. turn' = turn + 1 /\ me[t] = turn /\ turn < ticket
    BY <2>2, <2>3 DEF TurnInv
  <2>6. ASSUME NEW u \in Printers, pc'[u] = "spin"
        PROVE  pc[u] = "spin" /\ turn' <= me[u] /\ me[u] < ticket
    <3>1. pc[u] = "spin" /\ u # t
      BY <2>2, <2>6
    <3>2. turn <= me[u] /\ me[u] < ticket /\ me[u] # turn
      BY <2>3, <2>5, <3>1 DEF TurnInv
    <3> QED
      BY <2>2, <2>5, <3>1, <3>2
  <2>7. TurnInv'
    <3>1. turn' <= ticket' /\ me' = me /\ ticket' = ticket
      BY <2>2, <2>5
    <3>2. ASSUME NEW u \in Printers, NEW v \in Printers, pc'[u] = "spin", pc'[v] = "spin", me[u] = me[v]
          PROVE  u = v
      BY <2>6, <3>2 DEF TurnInv
    <3>3. \A u \in Printers : pc'[u] # "pass"
      BY <2>3 DEF HasLock
    <3> QED
      BY <2>3, <2>6, <3>1, <3>2, <3>3 DEF TurnInv
  <2> QED
    BY <1>1, <2>1, <2>4, <2>7
<1> QED
  BY <1>2, <1>3, <1>4, <1>5

\* Every step of a printer keeps the lock's part of the invariant.
LEMMA IoStepLockInv ==
  ASSUME IoLockInv, NEW t \in Printers, Io!Step(t) PROVE IoLockInv'
<1>1. CASE (Io!BeginLine(t) \/ Io!EndLine(t)) /\ UNCHANGED <<lock, expected, turn, ticket, me, newTurn>>
  BY <1>1, IoPrintLockInv DEF Io!Step
<1>2. CASE program = "atomic_flag" /\ (Io!TestAndSet(t) \/ Io!Clear(t))
  BY <1>2, IoFlagLockInv DEF Io!Step
<1>3. CASE /\ program = "atomic_bool"
           /\ Io!Call(t) \/ Io!CasSucceeds(t) \/ Io!CasFails(t) \/ Io!Reset(t) \/ Io!Clear(t)
  BY <1>3, IoFlagLockInv DEF Io!Step
<1>4. CASE /\ program = "atomic_int"
           /\ Io!TakeTicket(t) \/ Io!Enter(t) \/ Io!LoadTurn(t) \/ Io!PassTurn(t)
  BY <1>4, IoTicketLockInv DEF Io!Step
<1> QED
  BY <1>1, <1>2, <1>3, <1>4 DEF Io!Step, Io!flagVars, Io!ticketVars

\* The end of the line <<x, y>> is its begin with the third component changed.
LEMMA EndOfLine == ASSUME NEW x, NEW y PROVE [<<x, y, "begin">> EXCEPT ![3] = "end"] = <<x, y, "end">>
  OBVIOUS

\* An odd number is followed by an even one and an even by an odd one.
LEMMA OddEven ==
  ASSUME NEW n \in Nat
  PROVE  /\ n % 2 = 1 => (n + 1) % 2 # 1
         /\ n % 2 # 1 => (n + 1) % 2 = 1
  OBVIOUS

\* A thread that prints its present line keeps the order of the output.
LEMMA OrderKept ==
  ASSUME Ordered, UNCHANGED i, NEW t \in Printers, i[t] \in Nat,
         NEW e, e[1] = t, e[2] = i[t],
         Len(out) \in Nat, Len(out') = Len(out) + 1,
         \A k \in 1 .. Len(out) : out'[k] = out[k], out'[Len(out) + 1] = e
  PROVE  Ordered'
<1>1. \A k \in 1 .. Len(out') : \A u \in Printers : out'[k][1] = u => out'[k][2] <= i[u]
  <2> SUFFICES ASSUME NEW k \in 1 .. Len(out'), NEW u \in Printers, out'[k][1] = u
               PROVE  out'[k][2] <= i[u]
    OBVIOUS
  <2>1. CASE k = Len(out) + 1
    BY <2>1
  <2>2. CASE k \in 1 .. Len(out)
    BY <2>2 DEF Ordered
  <2> QED
    BY <2>1, <2>2
<1>2. ASSUME NEW k \in 1 .. Len(out'), NEW l \in 1 .. Len(out'), k < l, out'[k][1] = out'[l][1]
      PROVE  out'[k][2] <= out'[l][2]
  <2>1. CASE l = Len(out) + 1
    BY <1>1, <1>2, <2>1
  <2>2. CASE l \in 1 .. Len(out)
    <3>1. k \in 1 .. Len(out)
      BY <1>2, <2>2
    <3> QED
      BY <1>2, <2>2, <3>1 DEF Ordered
  <2> QED
    BY <2>1, <2>2
<1> QED
  BY <1>1, <1>2 DEF Ordered

\* The begin of a line comes when the line before has ended.
LEMMA BeginLinePrints ==
  ASSUME IoInv, NEW t \in Printers, Io!BeginLine(t) PROVE Paired' /\ LastLine' /\ Ordered'
<1> USE DEF IoInv, IoLockInv, Io!BeginLine
<1> DEFINE e == <<t, i[t], "begin">>
<1>1. /\ pc[t] = "begin" /\ pc'[t] = "end" /\ i' = i
      /\ \A u \in Printers \ {t} : pc'[u] = pc[u]
      /\ i[t] \in Nat
  BY DEF IoTypeOK, Io!Goto
<1>2. /\ Len(out') = Len(out) + 1 /\ Len(out) \in Nat
      /\ \A k \in 1 .. Len(out) : out'[k] = out[k]
      /\ out'[Len(out) + 1] = e
  <2>1. out \in Seq(Insertions) /\ e \in Insertions
    BY <1>1 DEF IoTypeOK, Insertions
  <2> QED
    BY <2>1, Appended
<1>3. e[1] = t /\ e[2] = i[t] /\ e[3] = "begin"
  OBVIOUS
<1> HIDE DEF e
<1>4. \A u \in Printers : pc[u] # "end"
  BY <1>1 DEF OneOwner, HasLock
<1>5. Len(out) % 2 # 1 /\ Len(out') % 2 = 1
  BY <1>2, <1>4, OddEven DEF LastLine
<1>6. Paired'
  <2> SUFFICES ASSUME NEW k \in 1 .. Len(out')
               PROVE  IF k % 2 = 1
                      THEN out'[k][3] = "begin"
                           /\ (k < Len(out') => out'[k + 1] = [out'[k] EXCEPT ![3] = "end"])
                      ELSE out'[k][3] = "end"
    BY DEF Paired
  <2>1. CASE k = Len(out) + 1
    BY <1>2, <1>3, <1>5, <2>1
  <2>2. CASE k < Len(out)
    <3>1. k \in 1 .. Len(out) /\ k + 1 \in 1 .. Len(out)
      BY <1>2, <2>2
    <3> QED
      BY <1>2, <2>2, <3>1 DEF Paired
  <2>3. CASE k = Len(out)
    <3>1. k \in 1 .. Len(out) /\ k % 2 # 1 /\ out'[k] = out[k]
      BY <1>2, <1>5, <2>3
    <3> QED
      BY <3>1 DEF Paired
  <2>4. k = Len(out) + 1 \/ k < Len(out) \/ k = Len(out)
    BY <1>2
  <2> QED
    BY <2>1, <2>2, <2>3, <2>4
<1>7. LastLine'
  BY <1>1, <1>2, <1>4, <1>5 DEF LastLine, e
<1>8. Ordered'
  BY <1>1, <1>2, <1>3, OrderKept
<1> QED
  BY <1>6, <1>7, <1>8

\* The end of a line follows its own begin.
LEMMA EndLinePrints ==
  ASSUME IoInv, NEW t \in Printers, Io!EndLine(t) PROVE Paired' /\ LastLine' /\ Ordered'
<1> USE DEF IoInv, IoLockInv, Io!EndLine
<1> DEFINE e == <<t, i[t], "end">>
<1>1. /\ pc[t] = "end" /\ pc'[t] = "unlock" /\ i' = i
      /\ \A u \in Printers \ {t} : pc'[u] = pc[u]
      /\ i[t] \in Nat
  BY DEF IoTypeOK, Io!Goto
<1>2. /\ Len(out') = Len(out) + 1 /\ Len(out) \in Nat
      /\ \A k \in 1 .. Len(out) : out'[k] = out[k]
      /\ out'[Len(out) + 1] = e
  <2>1. out \in Seq(Insertions) /\ e \in Insertions
    BY <1>1 DEF IoTypeOK, Insertions
  <2> QED
    BY <2>1, Appended
<1>3. e[1] = t /\ e[2] = i[t] /\ e[3] = "end"
  OBVIOUS
<1>a. e = [<<t, i[t], "begin">> EXCEPT ![3] = "end"]
  BY EndOfLine
<1> HIDE DEF e
<1>4. \A u \in Printers : pc'[u] # "end"
  BY <1>1 DEF OneOwner, HasLock
<1>5. Len(out) % 2 = 1 /\ Len(out') % 2 # 1 /\ out[Len(out)] = <<t, i[t], "begin">>
  BY <1>1, <1>2, OddEven DEF LastLine
<1>6. Paired'
  <2> SUFFICES ASSUME NEW k \in 1 .. Len(out')
               PROVE  IF k % 2 = 1
                      THEN out'[k][3] = "begin"
                           /\ (k < Len(out') => out'[k + 1] = [out'[k] EXCEPT ![3] = "end"])
                      ELSE out'[k][3] = "end"
    BY DEF Paired
  <2>1. CASE k = Len(out) + 1
    BY <1>2, <1>3, <1>5, <2>1
  <2>2. CASE k < Len(out)
    <3>1. k \in 1 .. Len(out) /\ k + 1 \in 1 .. Len(out)
      BY <1>2, <2>2
    <3> QED
      BY <1>2, <2>2, <3>1 DEF Paired
  <2>3. CASE k = Len(out)
    <3>1. out'[k] = <<t, i[t], "begin">> /\ out'[k + 1] = e /\ k % 2 = 1 /\ out'[k] = out[k]
          /\ k \in 1 .. Len(out)
      BY <1>2, <1>5, <2>3
    <3>2. out[k][3] = "begin"
      BY <3>1 DEF Paired
    <3> QED
      BY <1>a, <3>1, <3>2
  <2>4. k = Len(out) + 1 \/ k < Len(out) \/ k = Len(out)
    BY <1>2
  <2> QED
    BY <2>1, <2>2, <2>3, <2>4
<1>7. LastLine'
  BY <1>4, <1>5 DEF LastLine
<1>8. Ordered'
  BY <1>1, <1>2, <1>3, OrderKept
<1> QED
  BY <1>6, <1>7, <1>8

\* Every step of a printer keeps IoInv.
LEMMA IoStepInv == ASSUME IoInv, NEW t \in Printers, Io!Step(t) PROVE IoInv'
<1> USE DEF IoInv
<1>1. IoLockInv'
  BY IoStepLockInv
<1>2. CASE Io!BeginLine(t)
  BY <1>1, <1>2, BeginLinePrints
<1>3. CASE Io!EndLine(t)
  BY <1>1, <1>3, EndLinePrints
<1>4. CASE Io!Clear(t) \/ Io!PassTurn(t)
  <2>1. /\ out' = out /\ pc[t] # "end" /\ pc'[t] # "end"
        /\ i' = [i EXCEPT ![t] = @ + 1]
        /\ \A u \in Printers \ {t} : pc'[u] = pc[u]
    BY <1>4 DEF IoLockInv, IoTypeOK, Io!Clear, Io!PassTurn, Io!NextLine, Io!Goto
  <2>2. \A u \in Printers : /\ i[u] \in Nat /\ i'[u] \in Nat /\ i[u] <= i'[u]
                            /\ u # t => i'[u] = i[u]
    BY <2>1 DEF IoLockInv, IoTypeOK
  <2>3. Paired'
    BY <2>1 DEF Paired
  <2>4. LastLine'
    BY <2>1, <2>2 DEF LastLine
  <2>5. Ordered'
    <3>1. ASSUME NEW k \in 1 .. Len(out), NEW u \in Printers, out[k][1] = u
          PROVE  out[k][2] <= i'[u]
      <4>1. out[k][2] \in Nat
        BY DEF IoLockInv, IoTypeOK, Insertions
      <4>2. out[k][2] <= i[u]
        BY <3>1 DEF Ordered
      <4> QED
        BY <2>2, <4>1, <4>2
    <3> QED
      BY <2>1, <3>1 DEF Ordered
  <2> QED
    BY <1>1, <2>3, <2>4, <2>5
<1>5. CASE \/ Io!TestAndSet(t) \/ Io!Call(t) \/ Io!CasSucceeds(t) \/ Io!CasFails(t) \/ Io!Reset(t)
           \/ Io!TakeTicket(t) \/ Io!Enter(t) \/ Io!LoadTurn(t)
  <2>1. /\ out' = out /\ i' = i /\ pc[t] # "end" /\ pc'[t] # "end"
        /\ \A u \in Printers \ {t} : pc'[u] = pc[u]
    BY <1>5 DEF IoLockInv, IoTypeOK, Io!TestAndSet, Io!Call, Io!CasSucceeds, Io!CasFails, Io!Reset,
                Io!TakeTicket, Io!Enter, Io!LoadTurn, Io!Goto
  <2>2. Paired' /\ Ordered'
    BY <2>1 DEF Paired, Ordered
  <2>3. LastLine'
    BY <2>1 DEF LastLine
  <2> QED
    BY <1>1, <2>2, <2>3
<1> QED
  BY <1>2, <1>3, <1>4, <1>5 DEF Io!Step

\* What main's two insertions do to the output
LEMMA TwoAppended ==
  ASSUME NEW s \in Seq(Insertions), NEW x \in Insertions, NEW y \in Insertions
  PROVE  /\ Len(s \o <<x, y>>) = Len(s) + 2 /\ Len(s) \in Nat
         /\ \A k \in 1 .. Len(s) : (s \o <<x, y>>)[k] = s[k]
         /\ (s \o <<x, y>>)[Len(s) + 1] = x /\ (s \o <<x, y>>)[Len(s) + 2] = y
         /\ s \o <<x, y>> \in Seq(Insertions)
<1> DEFINE z == <<x, y>>
<1>1. z \in Seq(Insertions) /\ Len(z) = 2 /\ z[1] = x /\ z[2] = y
  OBVIOUS
<1> HIDE DEF z
<1>2. /\ s \o z \in Seq(Insertions)
      /\ Len(s \o z) = Len(s) + Len(z)
      /\ \A k \in 1 .. Len(s) + Len(z) : (s \o z)[k] = IF k <= Len(s) THEN s[k] ELSE z[k - Len(s)]
  BY <1>1, ConcatProperties
<1>3. Len(s) \in Nat
  OBVIOUS
<1>4. \A k \in 1 .. Len(s) : (s \o z)[k] = s[k]
  BY <1>1, <1>2, <1>3
<1>5. (s \o z)[Len(s) + 1] = x /\ (s \o z)[Len(s) + 2] = y
  BY <1>1, <1>2, <1>3
<1> QED
  BY <1>1, <1>2, <1>3, <1>4, <1>5 DEF z

\* main prints when all the printers are done.
LEMMA MainPrintsInv == ASSUME IoInv, Io!MainStep PROVE IoInv'
<1> USE DEF IoInv, Io!MainStep, Io!MainPrints
<1> DEFINE e1 == <<"main", 0, "begin">>
           e2 == <<"main", 0, "end">>
<1>1. /\ UNCHANGED <<pc, i, program, lock, expected, turn, ticket, me, newTurn>>
      /\ \A t \in Printers : pc[t] = "done"
      /\ \A k \in 1 .. Len(out) : out[k][1] # "main"
  BY DEF Io!MainPrinted, Io!flagVars, Io!ticketVars
<1>2. /\ Len(out') = Len(out) + 2 /\ Len(out) \in Nat
      /\ \A k \in 1 .. Len(out) : out'[k] = out[k]
      /\ out'[Len(out) + 1] = e1 /\ out'[Len(out) + 2] = e2
      /\ out' \in Seq(Insertions)
  <2>1. out \in Seq(Insertions) /\ e1 \in Insertions /\ e2 \in Insertions
    BY DEF IoLockInv, IoTypeOK, Insertions
  <2>2. out' = out \o <<e1, e2>>
    OBVIOUS
  <2> QED
    BY <2>1, <2>2, TwoAppended
<1>3. /\ e1[1] = "main" /\ e1[2] = 0 /\ e1[3] = "begin"
      /\ e2[1] = "main" /\ e2[2] = 0 /\ e2[3] = "end"
      /\ e2 = [e1 EXCEPT ![3] = "end"]
  BY EndOfLine
<1> HIDE DEF e1, e2
<1>4. Len(out) % 2 # 1 /\ (Len(out) + 1) % 2 = 1 /\ (Len(out) + 2) % 2 # 1
  <2>1. Len(out) % 2 # 1
    BY <1>1 DEF LastLine
  <2>2. (Len(out) + 1) % 2 = 1
    BY <1>2, <2>1, OddEven
  <2>3. Len(out) + 1 \in Nat /\ (Len(out) + 1) + 1 = Len(out) + 2
    BY <1>2
  <2>4. ((Len(out) + 1) + 1) % 2 # 1
    BY <2>2, <2>3, OddEven
  <2> QED
    BY <2>1, <2>2, <2>3, <2>4
<1>5. IoLockInv'
  BY <1>1, <1>2 DEF IoLockInv, IoTypeOK, OneOwner, FlagInv, TurnInv, HasLock
<1>6. Paired'
  <2> SUFFICES ASSUME NEW k \in 1 .. Len(out')
               PROVE  IF k % 2 = 1
                      THEN out'[k][3] = "begin"
                           /\ (k < Len(out') => out'[k + 1] = [out'[k] EXCEPT ![3] = "end"])
                      ELSE out'[k][3] = "end"
    BY DEF Paired
  <2>1. CASE k = Len(out) + 2
    BY <1>2, <1>3, <1>4, <2>1
  <2>2. CASE k = Len(out) + 1
    <3>1. out'[k] = e1 /\ out'[k + 1] = e2 /\ k % 2 = 1
      BY <1>2, <1>4, <2>2
    <3> QED
      BY <1>3, <3>1
  <2>3. CASE k = Len(out)
    <3>1. k \in 1 .. Len(out) /\ k % 2 # 1 /\ out'[k] = out[k]
      BY <1>2, <1>4, <2>3
    <3> QED
      BY <3>1 DEF Paired
  <2>4. CASE k < Len(out)
    <3>1. k \in 1 .. Len(out) /\ k + 1 \in 1 .. Len(out)
      BY <1>2, <2>4
    <3> QED
      BY <1>2, <2>4, <3>1 DEF Paired
  <2>5. k = Len(out) + 2 \/ k = Len(out) + 1 \/ k = Len(out) \/ k < Len(out)
    BY <1>2
  <2> QED
    BY <2>1, <2>2, <2>3, <2>4, <2>5
<1>7. LastLine'
  BY <1>1, <1>2, <1>4 DEF LastLine
<1>8. Ordered'
  <2>1. ASSUME NEW k \in 1 .. Len(out'), NEW u \in Printers, out'[k][1] = u PROVE out'[k][2] <= i[u]
    <3>1. i[u] \in Nat
      BY DEF IoLockInv, IoTypeOK
    <3>2. CASE k \in 1 .. Len(out)
      BY <1>2, <2>1, <3>2 DEF Ordered
    <3>3. CASE k \notin 1 .. Len(out)
      <4>1. out'[k][2] = 0
        BY <1>2, <1>3, <3>3
      <4> QED
        BY <3>1, <4>1
    <3> QED
      BY <3>2, <3>3
  <2>2. ASSUME NEW k \in 1 .. Len(out'), NEW l \in 1 .. Len(out'), k < l, out'[k][1] = out'[l][1]
        PROVE  out'[k][2] <= out'[l][2]
    <3>1. CASE l \in 1 .. Len(out)
      <4>1. k \in 1 .. Len(out)
        BY <1>2, <2>2, <3>1
      <4> QED
        BY <1>2, <2>2, <3>1, <4>1 DEF Ordered
    <3>2. CASE l \notin 1 .. Len(out)
      <4>1. out'[l][1] = "main" /\ out'[l][2] = 0
        BY <1>2, <1>3, <3>2
      <4>2. k \notin 1 .. Len(out)
        BY <1>1, <1>2, <2>2, <4>1
      <4>3. out'[k][2] = 0
        BY <1>2, <1>3, <4>2
      <4> QED
        BY <4>1, <4>3
    <3> QED
      BY <3>1, <3>2
  <2> QED
    BY <1>1, <2>1, <2>2 DEF Ordered
<1> QED
  BY <1>5, <1>6, <1>7, <1>8

\* The other programs do not touch the locks nor the output.
LEMMA IoUnchanged == ASSUME IoInv, UNCHANGED ioVars PROVE IoInv'
<1> USE DEF ioVars
<1>1. IoTypeOK' \/ ~IoTypeOK
  BY DEF IoTypeOK
<1> QED
  BY <1>1 DEF IoInv, IoLockInv, OneOwner, FlagInv, TurnInv, HasLock, Paired, LastLine, Ordered

\* IoInv is strong enough for WholeLines.
LEMMA IoWhole == IoInv => Io!WholeLines
  BY DEF IoInv, Paired, Ordered, Io!WholeLines

-----------------------------------------------------------------------------
\* mutex/unique_lock.cpp

FibRec(f, k) == IF k <= 1 THEN k ELSE f[k - 1] + f[k - 2]

\* g are the Fibonacci numbers up to the n-th.
FibUpTo(g, n) == g \in [0 .. n -> Nat] /\ \A k \in 0 .. n : g[k] = FibRec(g, k)

\* Two lists of Fibonacci numbers agree as far as the shorter goes.
LEMMA FibUnique ==
  ASSUME NEW n \in Nat, NEW l \in Nat, n <= l, NEW g, NEW h, FibUpTo(g, n), FibUpTo(h, l)
  PROVE  \A k \in 0 .. n : g[k] = h[k]
<1> DEFINE Bad == {k \in 0 .. n : g[k] # h[k]}
<1> SUFFICES ASSUME Bad # {} PROVE FALSE
  OBVIOUS
<1>1. PICK k \in Bad : \A l1 \in Bad : k <= l1
  <2>1. Bad \in SUBSET Nat
    OBVIOUS
  <2> HIDE DEF Bad
  <2> QED
    BY <2>1, LeastNat
<1>2. k \in 0 .. n /\ k \in 0 .. l /\ g[k] # h[k]
  OBVIOUS
<1>3. g[k] = FibRec(g, k) /\ h[k] = FibRec(h, k)
  BY <1>2 DEF FibUpTo
<1>4. CASE k <= 1
  BY <1>2, <1>3, <1>4 DEF FibRec
<1>5. CASE k > 1
  <2>1. k - 1 \in 0 .. n /\ k - 2 \in 0 .. n /\ ~(k <= k - 1) /\ ~(k <= k - 2)
    BY <1>2, <1>5
  <2>2. g[k - 1] = h[k - 1] /\ g[k - 2] = h[k - 2]
    BY <1>1, <2>1
  <2>3. ~(k <= 1)
    BY <1>2, <1>5
  <2> QED
    BY <1>2, <1>3, <2>2, <2>3 DEF FibRec
<1> QED
  BY <1>2, <1>4, <1>5

\* A list of Fibonacci numbers can be made longer by one.
LEMMA FibGrows ==
  ASSUME NEW n \in Nat, n > 1, NEW g, FibUpTo(g, n - 1) PROVE \E h : FibUpTo(h, n)
<1> DEFINE h == [k \in 0 .. n |-> IF k = n THEN g[n - 1] + g[n - 2] ELSE g[k]]
<1>1. n - 1 \in 0 .. n - 1 /\ n - 2 \in 0 .. n - 1 /\ g \in [0 .. n - 1 -> Nat]
  BY DEF FibUpTo
<1>2. h \in [0 .. n -> Nat]
  <2> SUFFICES ASSUME NEW k \in 0 .. n PROVE (IF k = n THEN g[n - 1] + g[n - 2] ELSE g[k]) \in Nat
    OBVIOUS
  <2>1. g[n - 1] \in Nat /\ g[n - 2] \in Nat
    BY <1>1
  <2>2. k # n => k \in 0 .. n - 1
    OBVIOUS
  <2> QED
    BY <1>1, <2>1, <2>2
<1>3. ASSUME NEW k \in 0 .. n PROVE h[k] = FibRec(h, k)
  <2>1. CASE k = n
    <3>1. h[k] = g[n - 1] + g[n - 2] /\ h[n - 1] = g[n - 1] /\ h[n - 2] = g[n - 2]
      BY <2>1
    <3> HIDE DEF h
    <3> QED
      BY <2>1, <3>1 DEF FibRec
  <2>2. CASE k # n
    <3>1. k \in 0 .. n - 1 /\ h[k] = g[k]
      BY <2>2
    <3>2. g[k] = FibRec(g, k)
      BY <3>1 DEF FibUpTo
    <3>3. CASE k <= 1
      BY <3>1, <3>2, <3>3 DEF FibRec
    <3>4. CASE ~(k <= 1)
      <4>1. h[k - 1] = g[k - 1] /\ h[k - 2] = g[k - 2]
        BY <3>1, <3>4
      <4> HIDE DEF h
      <4> QED
        BY <3>1, <3>2, <3>4, <4>1 DEF FibRec
    <3> QED
      BY <3>3, <3>4
  <2> QED
    BY <2>1, <2>2
<1> HIDE DEF h
<1> QED
  BY <1>2, <1>3 DEF FibUpTo

\* There is a list of any length.
LEMMA FibUpToAny == \A n \in Nat : \E g : FibUpTo(g, n)
<1> DEFINE Bad == {n \in Nat : ~ \E g : FibUpTo(g, n)}
<1> SUFFICES ASSUME Bad # {} PROVE FALSE
  OBVIOUS
<1>1. PICK n \in Bad : \A l \in Bad : n <= l
  <2>1. Bad \in SUBSET Nat
    OBVIOUS
  <2> HIDE DEF Bad
  <2> QED
    BY <2>1, LeastNat
<1>2. CASE n <= 1
  <2>1. [k \in 0 .. n |-> k] \in [0 .. n -> Nat]
    OBVIOUS
  <2>2. FibUpTo([k \in 0 .. n |-> k], n)
    BY <1>2, <2>1 DEF FibUpTo, FibRec
  <2> QED
    BY <2>2
<1>3. CASE n > 1
  <2>1. n - 1 \in Nat /\ n \in Nat /\ ~(n <= n - 1)
    BY <1>3
  <2>2. PICK g : FibUpTo(g, n - 1)
    BY <1>1, <2>1
  <2> QED
    BY <1>3, <2>1, <2>2, FibGrows
<1> QED
  BY <1>2, <1>3

\* The recursive function of MutexDemos exists, and so it is what its definition says.
LEMMA FibIs ==
  /\ Mutexes!Fib[0] = 0 /\ Mutexes!Fib[1] = 1
  /\ \A n \in Nat : Mutexes!Fib[n + 2] = Mutexes!Fib[n + 1] + Mutexes!Fib[n]
<1> DEFINE upTo(n) == CHOOSE g : FibUpTo(g, n)
           fib == [n \in Nat |-> upTo(n)[n]]
<1>1. \A n \in Nat : FibUpTo(upTo(n), n)
  BY FibUpToAny
<1> HIDE DEF upTo
<1>2. ASSUME NEW n \in Nat, NEW k \in 0 .. n PROVE fib[k] = upTo(n)[k]
  <2>1. k \in Nat /\ k <= n /\ k \in 0 .. k
    OBVIOUS
  <2>2. FibUpTo(upTo(k), k) /\ FibUpTo(upTo(n), n)
    BY <1>1, <2>1
  <2>3. upTo(k)[k] = upTo(n)[k]
    BY <2>1, <2>2, FibUnique
  <2> QED
    BY <2>1, <2>3
<1>3. fib = [n \in Nat |-> FibRec(fib, n)]
  <2> SUFFICES ASSUME NEW n \in Nat PROVE fib[n] = FibRec(fib, n)
    <3>1. DOMAIN fib = Nat /\ fib = [n \in Nat |-> fib[n]]
      OBVIOUS
    <3> HIDE DEF fib
    <3> QED
      BY <3>1
  <2>1. upTo(n)[n] = FibRec(upTo(n), n)
    <3>1. n \in 0 .. n
      OBVIOUS
    <3> QED
      BY <1>1, <3>1 DEF FibUpTo
  <2>2. fib[n] = upTo(n)[n]
    OBVIOUS
  <2>3. CASE n <= 1
    BY <2>1, <2>2, <2>3 DEF FibRec
  <2>4. CASE ~(n <= 1)
    <3>1. n - 1 \in 0 .. n /\ n - 2 \in 0 .. n
      BY <2>4
    <3>2. fib[n - 1] = upTo(n)[n - 1] /\ fib[n - 2] = upTo(n)[n - 2]
      BY <1>2, <3>1
    <3> HIDE DEF fib
    <3> QED
      BY <2>1, <2>2, <2>4, <3>2 DEF FibRec
  <2> QED
    BY <2>3, <2>4
<1> HIDE DEF fib
<1>4. \E f : f = [n \in Nat |-> IF n <= 1 THEN n ELSE f[n - 1] + f[n - 2]]
  BY <1>3, Zenon DEF FibRec
<1>5. Mutexes!Fib = [n \in Nat |-> IF n <= 1 THEN n ELSE Mutexes!Fib[n - 1] + Mutexes!Fib[n - 2]]
  BY <1>4, Zenon DEF Mutexes!Fib
<1>6. ASSUME NEW n \in Nat
      PROVE  Mutexes!Fib[n] = IF n <= 1 THEN n ELSE Mutexes!Fib[n - 1] + Mutexes!Fib[n - 2]
  BY <1>5
<1>7. ASSUME NEW n \in Nat PROVE Mutexes!Fib[n + 2] = Mutexes!Fib[n + 1] + Mutexes!Fib[n]
  <2>1. n + 2 \in Nat /\ ~(n + 2 <= 1) /\ (n + 2) - 1 = n + 1 /\ (n + 2) - 2 = n
    OBVIOUS
  <2> QED
    BY <1>6, <2>1
<1> QED
  BY <1>6, <1>7

HasBoth(t) == mutexPc[t] \in {"load", "add", "store"}

\* Those that have incremented a, and those that have moved b and c on
Incremented == {t \in Threads : mutexPc[t] # "inc"}
Moved == {t \in Threads : mutexPc[t] = "done"}

UniqueTypeOK ==
    /\ mutexPc \in [Threads -> {"inc", "lock", "load", "add", "store", "done"}]
    /\ tmp \in [Threads -> Int]
    /\ a \in Int /\ b \in Int /\ c \in Int

\* b and c are consecutive Fibonacci numbers, but for the thread that has stored c
\* and not yet b.
Consecutive ==
    LET n == Cardinality(Moved)
    IN /\ b = Mutexes!Fib[n]
       /\ IF \E t \in Threads : mutexPc[t] = "store" THEN c = Mutexes!Fib[n + 2]
                                                     ELSE c = Mutexes!Fib[n + 1]
       /\ \A t \in Threads : mutexPc[t] \in {"add", "store"} => tmp[t] = Mutexes!Fib[n + 1]

UniqueInv ==
    /\ UniqueTypeOK
    /\ a = Cardinality(Incremented)
    /\ \A t \in Threads : HasBoth(t) => ownerB = t
    /\ Consecutive

\* b and c start as the first two Fibonacci numbers.
LEMMA UniqueInitInv == ASSUME Mutexes!UniqueInit PROVE UniqueInv
<1> USE DEF Mutexes!UniqueInit
<1>1. UniqueTypeOK
  BY DEF UniqueTypeOK
<1>2. Incremented = {} /\ Moved = {}
  BY DEF Incremented, Moved
<1>3. \A t \in Threads : ~HasBoth(t)
  BY DEF HasBoth
<1>4. Consecutive
  <2>1. Cardinality(Moved) = 0
    BY <1>2, FS_EmptySet
  <2>2. Mutexes!Fib[0] = 0 /\ Mutexes!Fib[1] = 1
    BY FibIs
  <2> HIDE DEF Mutexes!Fib
  <2> QED
    BY <2>1, <2>2 DEF Consecutive
<1> QED
  BY <1>1, <1>2, <1>3, <1>4, FS_EmptySet DEF UniqueInv

\* One more thread has incremented a.
LEMMA IncInv == ASSUME UniqueInv, NEW t \in Threads, Mutexes!Inc(t) PROVE UniqueInv'
<1> USE DEF UniqueInv, Mutexes!Inc, Mutexes!Goto
<1>1. UniqueTypeOK'
  BY DEF UniqueTypeOK
<1>2. /\ mutexPc[t] = "inc" /\ mutexPc'[t] = "lock"
      /\ \A u \in Threads \ {t} : mutexPc'[u] = mutexPc[u]
  BY DEF UniqueTypeOK
<1>3. Incremented' = Incremented \cup {t} /\ t \in Threads \ Incremented /\ Incremented \in SUBSET Threads
  BY <1>2 DEF Incremented
<1>4. a' = Cardinality(Incremented')
  BY <1>3, SubsetCounts
<1>5. Moved' = Moved
  BY <1>2 DEF Moved
<1>6. \A u \in Threads : HasBoth(u)' => ownerB' = u
  BY <1>2 DEF HasBoth
<1>7. Consecutive'
  BY <1>2, <1>5 DEF Consecutive
<1> QED
  BY <1>1, <1>4, <1>6, <1>7

\* Nobody else has the locks of a thread that has them.
LEMMA OneHasBoth ==
  ASSUME UniqueInv, NEW t \in Threads, HasBoth(t)
  PROVE  \A u \in Threads \ {t} : ~HasBoth(u) /\ mutexPc[u] \notin {"load", "add", "store"}
  BY DEF UniqueInv, HasBoth

\* The steps under std::lock up to the store of c: b and c are still, but for c that
\* is one ahead after the addition.
LEMMA LockedStepsInv ==
  ASSUME UniqueInv, NEW t \in Threads, Mutexes!LockBoth(t) \/ Mutexes!Load(t) \/ Mutexes!Add(t)
  PROVE  UniqueInv'
<1> USE DEF UniqueInv, Mutexes!Goto
<1>1. UniqueTypeOK'
  BY DEF UniqueTypeOK, Mutexes!LockBoth, Mutexes!Load, Mutexes!Add
<1>2. /\ mutexPc[t] \in {"lock", "load", "add"} /\ mutexPc'[t] \in {"load", "add", "store"}
      /\ \A u \in Threads \ {t} : mutexPc'[u] = mutexPc[u] /\ mutexPc[u] \notin {"load", "add", "store"}
      /\ ownerB' = t
  <2>1. /\ mutexPc[t] \in {"lock", "load", "add"} /\ mutexPc'[t] \in {"load", "add", "store"}
        /\ \A u \in Threads \ {t} : mutexPc'[u] = mutexPc[u]
    BY DEF UniqueTypeOK, Mutexes!LockBoth, Mutexes!Load, Mutexes!Add
  <2>2. CASE Mutexes!LockBoth(t)
    BY <2>1, <2>2, DemosAssumption DEF Mutexes!LockBoth, HasBoth
  <2>3. CASE Mutexes!Load(t) \/ Mutexes!Add(t)
    <3>1. HasBoth(t) /\ ownerB' = ownerB
      BY <2>3 DEF Mutexes!Load, Mutexes!Add, HasBoth
    <3> QED
      BY <2>1, <3>1, OneHasBoth
  <2> QED
    BY <2>2, <2>3
<1>3. Incremented' = Incremented /\ Moved' = Moved
  BY <1>2 DEF Incremented, Moved
<1>4. a' = Cardinality(Incremented')
  BY <1>3 DEF Mutexes!LockBoth, Mutexes!Load, Mutexes!Add
<1>5. \A u \in Threads : HasBoth(u)' => ownerB' = u
  BY <1>2 DEF HasBoth
<1> DEFINE n == Cardinality(Moved)
<1>6. /\ Mutexes!Fib[n + 2] = Mutexes!Fib[n + 1] + Mutexes!Fib[n]
      /\ n' = n
  <2>1. n \in Nat
    BY SubsetCounts DEF Moved
  <2> HIDE DEF n
  <2>2. Mutexes!Fib[n + 2] = Mutexes!Fib[n + 1] + Mutexes!Fib[n]
    BY <2>1, FibIs
  <2> QED
    BY <1>3, <2>2 DEF n
<1>7. /\ b = Mutexes!Fib[n] /\ c = Mutexes!Fib[n + 1]
      /\ mutexPc[t] = "add" => tmp[t] = Mutexes!Fib[n + 1]
  BY <1>2 DEF Consecutive
<1>8. /\ b' = b
      /\ IF mutexPc'[t] = "store" THEN c' = Mutexes!Fib[n + 2] ELSE c' = c
      /\ mutexPc'[t] \in {"add", "store"} => tmp'[t] = Mutexes!Fib[n + 1]
  <2>1. CASE Mutexes!LockBoth(t)
    BY <2>1 DEF Mutexes!LockBoth, UniqueTypeOK
  <2>2. CASE Mutexes!Load(t)
    BY <1>7, <2>2 DEF Mutexes!Load, UniqueTypeOK
  <2>3. CASE Mutexes!Add(t)
    BY <1>6, <1>7, <2>3 DEF Mutexes!Add, UniqueTypeOK
  <2> QED
    BY <2>1, <2>2, <2>3
<1>9. Consecutive'
  BY <1>2, <1>6, <1>7, <1>8 DEF Consecutive
<1> QED
  BY <1>1, <1>4, <1>5, <1>9

\* The store of b makes b and c consecutive again, one number further on.
LEMMA StoreInv == ASSUME UniqueInv, NEW t \in Threads, Mutexes!Store(t) PROVE UniqueInv'
<1> USE DEF UniqueInv, Mutexes!Store, Mutexes!Goto
<1>1. UniqueTypeOK'
  BY DEF UniqueTypeOK
<1>2. /\ mutexPc[t] = "store" /\ mutexPc'[t] = "done"
      /\ \A u \in Threads \ {t} : mutexPc'[u] = mutexPc[u] /\ mutexPc[u] \notin {"load", "add", "store"}
  <2>1. mutexPc[t] = "store" /\ mutexPc'[t] = "done" /\ \A u \in Threads \ {t} : mutexPc'[u] = mutexPc[u]
    BY DEF UniqueTypeOK
  <2> QED
    BY <2>1, OneHasBoth DEF HasBoth
<1>3. Incremented' = Incremented
  BY <1>2 DEF Incremented
<1>4. Moved' = Moved \cup {t} /\ t \in Threads \ Moved /\ Moved \in SUBSET Threads
  BY <1>2 DEF Moved
<1>5. \A u \in Threads : ~HasBoth(u)'
  BY <1>2 DEF HasBoth
<1> DEFINE n == Cardinality(Moved)
<1>6. n \in Nat /\ n' = n + 1
  BY <1>4, SubsetCounts
<1>7. b' = Mutexes!Fib[n + 1] /\ c' = Mutexes!Fib[n + 2]
  BY <1>2 DEF Consecutive
<1>8. Consecutive'
  <2> HIDE DEF n
  <2>1. (n + 1) + 1 = n + 2
    BY <1>6
  <2>2. b' = Mutexes!Fib[n'] /\ c' = Mutexes!Fib[n' + 1]
    BY <1>6, <1>7, <2>1
  <2>3. \A u \in Threads : mutexPc'[u] \notin {"add", "store"}
    BY <1>2
  <2> QED
    BY <2>2, <2>3 DEF Consecutive, n
<1> QED
  BY <1>1, <1>3, <1>5, <1>8

\* Every step of unique_lock.cpp keeps UniqueInv.
LEMMA UniqueStepInv == ASSUME UniqueInv, NEW t \in Threads, Mutexes!UniqueStep(t) PROVE UniqueInv'
  BY IncInv, LockedStepsInv, StoreInv DEF Mutexes!UniqueStep

\* The other programs do not touch a, b and c; dead_lock.cpp neither.
LEMMA UniqueUnchanged ==
  ASSUME UniqueInv, UNCHANGED <<mutexPc, a, b, c, tmp, ownerB>> PROVE UniqueInv'
<1>1. UniqueTypeOK'
  BY DEF UniqueInv, UniqueTypeOK
<1>2. Incremented' = Incremented /\ Moved' = Moved
  BY DEF Incremented, Moved
<1> QED
  BY <1>1, <1>2 DEF UniqueInv, HasBoth, Consecutive

\* UniqueInv is strong enough for PrintsFibonacci.
LEMMA UniquePrints == UniqueInv => Mutexes!PrintsFibonacci
<1> SUFFICES ASSUME UniqueInv, Mutexes!UniqueEnded
             PROVE  /\ a = Mutexes!Cardinality(Threads)
                    /\ b = Mutexes!Fib[a] /\ c = Mutexes!Fib[a + 1]
  BY DEF Mutexes!PrintsFibonacci
<1>1. Incremented = Threads /\ Moved = Threads
  BY DEF Incremented, Moved, Mutexes!UniqueEnded
<1>2. a = Cardinality(Moved) /\ a = Cardinality(Threads)
  BY <1>1 DEF UniqueInv
<1>3. \A t \in Threads : mutexPc[t] # "store"
  BY DEF Mutexes!UniqueEnded
<1> QED
  BY <1>2, <1>3, SameCount DEF UniqueInv, Consecutive

-----------------------------------------------------------------------------
\* The cache of item20.cpp

PointersTypeOK ==
    /\ at = 1
    /\ own \in [Pointers!Handles -> Pointers!Objects \cup {0}]
    /\ live \subseteq Pointers!Objects
    /\ cache \in [WidgetIDs -> Pointers!Objects \cup {0}]
    /\ id \in [Slots -> WidgetIDs]

\* What a slot holds is alive, and it is what the cache has for its id.
SlotsCached ==
    \A s \in Slots : own[<<0, s>>] # 0 => /\ own[<<0, s>>] \in live
                                          /\ cache[id[s]] = own[<<0, s>>]

PointersInv == item = "cache" => PointersTypeOK /\ SlotsCached

\* A slot is a handle that is no member.
LEMMA SlotIsHandle == \A s \in Slots : <<0, s>> \in Pointers!Handles
  BY DEF Pointers!Handles, Pointers!Names

\* No slot holds anything.
LEMMA PointersInitInv == ASSUME Pointers!Init PROVE PointersInv
<1> USE DEF Pointers!Init, Pointers!None
<1>1. PointersTypeOK
  BY DemosAssumption DEF PointersTypeOK
<1>2. SlotsCached
  BY SlotIsHandle DEF SlotsCached
<1> QED
  BY <1>1, <1>2 DEF PointersInv

\* A widget that is destroyed is in no slot.
LEMMA DestroyInv ==
  ASSUME PointersInv, item = "cache", Pointers!DestroyObject PROVE PointersInv'
<1> USE DEF Pointers!None
<1>1. PICK o \in Pointers!Unowned :
         /\ live' = live \ {o}
         /\ own' = [h \in Pointers!Handles |-> IF h[1] = o THEN 0 ELSE own[h]]
         /\ UNCHANGED <<item, at, wpw, cache, id>>
  BY DEF Pointers!DestroyObject
<1>2. PointersTypeOK /\ SlotsCached
  BY DEF PointersInv
<1>3. o \in Pointers!Objects /\ o # 0 /\ \A h \in Pointers!Handles : own[h] # o
  BY <1>2 DEF Pointers!Unowned, PointersTypeOK, Pointers!Objects
<1>4. PointersTypeOK'
  <2>1. own' \in [Pointers!Handles -> Pointers!Objects \cup {0}]
    BY <1>1, <1>2 DEF PointersTypeOK
  <2> QED
    BY <1>1, <1>2, <2>1 DEF PointersTypeOK
<1>5. \A s \in Slots : own'[<<0, s>>] = own[<<0, s>>] /\ own[<<0, s>>] # o
  BY <1>1, <1>3, SlotIsHandle
<1>6. SlotsCached'
  BY <1>1, <1>2, <1>5 DEF SlotsCached
<1> QED
  BY <1>4, <1>6 DEF PointersInv

\* A miss replaces an entry of the cache that no slot holds any more.
LEMMA LoadWidgetInv ==
  ASSUME PointersInv, NEW s \in Slots, NEW w \in WidgetIDs, Pointers!LoadWidget(s, w)
  PROVE  PointersInv'
<1> USE DEF Pointers!None
<1>1. /\ id' = [id EXCEPT ![s] = w]
      /\ UNCHANGED <<item, at, wpw>>
      /\ PointersTypeOK /\ SlotsCached
      /\ <<0, s>> \in Pointers!Handles
  BY SlotIsHandle DEF Pointers!LoadWidget, PointersInv
<1>a. id'[s] = w /\ \A u \in Slots \ {s} : id'[u] = id[u]
  BY <1>1 DEF PointersTypeOK
<1>b. \A u \in Slots \ {s} : <<0, u>> # <<0, s>> /\ <<0, u>> \in Pointers!Handles
  BY SlotIsHandle
<1>c. id' \in [Slots -> WidgetIDs]
  BY <1>1 DEF PointersTypeOK
<1>2. CASE Pointers!Hit(<<0, s>>, w)
  <2>1. /\ cache[w] \in live
        /\ own' = [own EXCEPT ![<<0, s>>] = cache[w]]
        /\ UNCHANGED <<cache, live>>
    BY <1>2 DEF Pointers!Hit, Pointers!Locked
  <2>2. PointersTypeOK'
    BY <1>1, <1>c, <2>1 DEF PointersTypeOK
  <2>3. own'[<<0, s>>] = cache[w] /\ \A u \in Slots \ {s} : own'[<<0, u>>] = own[<<0, u>>]
    BY <1>1, <1>b, <2>1 DEF PointersTypeOK
  <2>4. SlotsCached'
    BY <1>1, <1>a, <2>1, <2>3 DEF SlotsCached
  <2> QED
    BY <2>2, <2>4 DEF PointersInv
<1>3. CASE Pointers!Miss(<<0, s>>, w)
  <2>1. PICK o \in Pointers!Objects :
           /\ Pointers!FirstFresh(o)
           /\ own' = [own EXCEPT ![<<0, s>>] = o]
           /\ cache' = [cache EXCEPT ![w] = o]
           /\ live' = live \cup {o}
    BY <1>3 DEF Pointers!Miss
  <2>2. cache[w] \notin live
    <3>1. \A x \in live : x # 0
      BY <1>1 DEF PointersTypeOK, Pointers!Objects
    <3> QED
      BY <1>3, <3>1 DEF Pointers!Miss, Pointers!Locked
  <2>3. PointersTypeOK'
    BY <1>1, <1>c, <2>1 DEF PointersTypeOK
  <2>4. own'[<<0, s>>] = o /\ \A u \in Slots \ {s} : own'[<<0, u>>] = own[<<0, u>>]
    BY <1>1, <1>b, <2>1 DEF PointersTypeOK
  <2>5. cache'[w] = o /\ \A v \in WidgetIDs \ {w} : cache'[v] = cache[v]
    BY <1>1, <2>1 DEF PointersTypeOK
  <2>6. ASSUME NEW u \in Slots \ {s}, own'[<<0, u>>] # 0
        PROVE  own'[<<0, u>>] \in live' /\ cache'[id'[u]] = own'[<<0, u>>]
    <3>1. own[<<0, u>>] \in live /\ cache[id[u]] = own[<<0, u>>]
      BY <1>1, <2>4, <2>6 DEF SlotsCached
    <3>2. id[u] \in WidgetIDs \ {w}
      BY <1>1, <2>2, <3>1 DEF PointersTypeOK
    <3> QED
      BY <1>a, <2>1, <2>4, <2>5, <3>1, <3>2
  <2>7. own'[<<0, s>>] \in live' /\ cache'[id'[s]] = own'[<<0, s>>]
    BY <1>a, <2>1, <2>4, <2>5
  <2>8. SlotsCached'
    BY <2>6, <2>7 DEF SlotsCached
  <2> QED
    BY <2>3, <2>8 DEF PointersInv
<1> QED
  BY <1>2, <1>3 DEF Pointers!LoadWidget

\* A slot that lets go holds nothing.
LEMMA LetGoInv ==
  ASSUME PointersInv, NEW s \in Slots, Pointers!LetGo(s) PROVE PointersInv'
<1> USE DEF Pointers!None
<1>1. /\ own' = [own EXCEPT ![<<0, s>>] = 0]
      /\ UNCHANGED <<item, at, wpw, cache, id, live>>
      /\ PointersTypeOK /\ SlotsCached
  BY DEF Pointers!LetGo, PointersInv
<1>2. PointersTypeOK'
  BY <1>1 DEF PointersTypeOK
<1>3. \A u \in Slots : own'[<<0, u>>] = IF u = s THEN 0 ELSE own[<<0, u>>]
  BY <1>1, SlotIsHandle DEF PointersTypeOK
<1>4. SlotsCached'
  BY <1>1, <1>3 DEF SlotsCached
<1> QED
  BY <1>2, <1>4 DEF PointersInv

\* The steps of the programs with smart pointers keep PointersInv.
LEMMA PointersStepInv ==
  ASSUME PointersInv, Pointers!MainStep \/ Pointers!CallerStep PROVE PointersInv'
<1>1. CASE Pointers!CallerStep
  BY <1>1, LoadWidgetInv, LetGoInv DEF Pointers!CallerStep
<1>2. CASE Pointers!MainStep /\ item # "cache"
  BY <1>2 DEF Pointers!MainStep, Pointers!DestroyObject, Pointers!Statement, PointersInv
<1>3. CASE Pointers!MainStep /\ item = "cache"
  <2>1. CASE Pointers!DestroyObject
    BY <1>3, <2>1, DestroyInv
  <2>2. CASE Pointers!Statement
    <3>1. at = 1 /\ Pointers!Script(item) = <<>>
      BY <1>3 DEF PointersInv, PointersTypeOK, Pointers!Script
    <3> QED
      BY <2>2, <3>1 DEF Pointers!Statement
  <2> QED
    BY <1>3, <2>1, <2>2 DEF Pointers!MainStep
<1> QED
  BY <1>1, <1>2, <1>3

\* The other programs do not touch the pointers.
LEMMA PointersUnchanged == ASSUME PointersInv, UNCHANGED pointerVars PROVE PointersInv'
  BY DEF PointersInv, PointersTypeOK, SlotsCached, pointerVars

\* Who holds the cache's widget for the same id holds the same widget.
LEMMA CacheShares == PointersInv => Pointers!OneWidgetPerId
  BY DEF PointersInv, PointersTypeOK, SlotsCached, Pointers!OneWidgetPerId, Pointers!None

-----------------------------------------------------------------------------
\* representing-signed-integers

\* Induction up to K, for a set
LEMMA UpTo ==
  ASSUME NEW K \in Nat, NEW P, 0 \in P, \A k \in 1 .. K : k - 1 \in P => k \in P
  PROVE  K \in P /\ \A k \in 0 .. K : k \in P
<1> SUFFICES ASSUME NEW j \in 0 .. K, j \notin P PROVE FALSE
  OBVIOUS
<1>1. PICK T : T = {k \in 0 .. K : k \notin P}
  OBVIOUS
<1>2. T \in SUBSET Nat /\ T # {}
  BY <1>1
<1>3. PICK x \in T : \A y \in T : x <= y
  BY <1>2, LeastNat
<1>4. x \in 1 .. K /\ x \notin P
  BY <1>1, <1>3
<1>5. x - 1 \in 0 .. K /\ x - 1 \notin P
  BY <1>4
<1>6. x - 1 \in T
  BY <1>1, <1>5
<1> QED
  BY <1>3, <1>4, <1>6

\* A loop of K rounds, of which the k-th makes step[k][x] of x, and f its values
LoopOn(S, e, K, step) == e \in S /\ K \in Nat /\ step \in [1 .. K -> [S -> S]]
Runs(S, e, K, step, f) == /\ f \in [0 .. K -> S] /\ f[0] = e
                          /\ \A k \in 1 .. K : f[k] = step[k][f[k - 1]]

\* Such a loop can be run, whatever the number of its rounds.
LEMMA LoopRuns ==
  ASSUME NEW S, NEW e, NEW K, NEW step, LoopOn(S, e, K, step)
  PROVE  \E f : Runs(S, e, K, step, f)
<1> e \in S /\ K \in Nat /\ step \in [1 .. K -> [S -> S]]
  BY DEF LoopOn
<1>1. PICK P : P = {n \in 0 .. K : \E f : Runs(S, e, n, step, f)}
  OBVIOUS
<1>2. 0 \in P
  <2>1. PICK f : f = [k \in 0 .. 0 |-> e]
    OBVIOUS
  <2>2. Runs(S, e, 0, step, f)
    BY <2>1 DEF Runs
  <2> QED
    BY <1>1, <2>2
<1>3. ASSUME NEW n \in 1 .. K, n - 1 \in P PROVE n \in P
  <2>1. PICK f : Runs(S, e, n - 1, step, f)
    BY <1>1, <1>3
  <2>2. /\ f \in [0 .. n - 1 -> S] /\ f[0] = e
        /\ \A k \in 1 .. n - 1 : f[k] = step[k][f[k - 1]]
    BY <2>1 DEF Runs
  <2>3. n - 1 \in 0 .. n - 1 /\ step[n] \in [S -> S]
    OBVIOUS
  <2>4. PICK y \in S : y = step[n][f[n - 1]]
    BY <2>2, <2>3
  <2>5. PICK g : g = [k \in 0 .. n |-> IF k = n THEN y ELSE f[k]]
    OBVIOUS
  <2>6. g \in [0 .. n -> S] /\ g[0] = e /\ g[n] = y /\ \A k \in 0 .. n - 1 : g[k] = f[k]
    BY <2>2, <2>5
  <2>7. ASSUME NEW k \in 1 .. n PROVE g[k] = step[k][g[k - 1]]
    <3>1. k - 1 \in 0 .. n - 1 /\ (k # n => k \in 1 .. n - 1 /\ k \in 0 .. n - 1)
      OBVIOUS
    <3>2. CASE k = n
      BY <2>4, <2>6, <3>1, <3>2
    <3>3. CASE k # n
      BY <2>2, <2>6, <3>1, <3>3
    <3> QED
      BY <3>2, <3>3
  <2>8. Runs(S, e, n, step, g)
    BY <2>6, <2>7 DEF Runs
  <2> QED
    BY <1>1, <2>8
<1>4. K \in P
  BY <1>2, <1>3, UpTo
<1> QED
  BY <1>1, <1>4

-----------------------------------------------------------------------------
\* p[0 .. n] are the powers of two.
Powers(n, p) == /\ n \in Nat /\ p \in [0 .. n -> Nat] /\ p[0] = 1
                /\ \A k \in 0 .. n - 1 : p[k + 1] = 2 * p[k]

\* w[k] is the weight of the bits of the set u below k.
Weighs(n, p, u, w) == /\ w \in [0 .. n -> Nat] /\ w[0] = 0
                      /\ \A k \in 0 .. n - 1 : w[k + 1] = w[k] + IF k \in u THEN p[k] ELSE 0

\* The bits below k weigh less than the k-th.
LEMMA WeightBound ==
  ASSUME NEW n, NEW p, NEW u, NEW w, Powers(n, p), Weighs(n, p, u, w)
  PROVE  \A k \in 0 .. n : w[k] >= 0 /\ w[k] < p[k] /\ p[k] >= 1
<1>0. /\ n \in Nat /\ p \in [0 .. n -> Nat] /\ p[0] = 1
      /\ \A k \in 0 .. n - 1 : p[k + 1] = 2 * p[k]
      /\ w \in [0 .. n -> Nat] /\ w[0] = 0
      /\ \A k \in 0 .. n - 1 : w[k + 1] = w[k] + IF k \in u THEN p[k] ELSE 0
  BY DEF Powers, Weighs
<1>1. PICK P : P = {k \in 0 .. n : w[k] < p[k] /\ p[k] >= 1}
  OBVIOUS
<1>2. 0 \in P
  BY <1>0, <1>1
<1>3. ASSUME NEW k \in 1 .. n, k - 1 \in P PROVE k \in P
  <2>1. PICK j \in 0 .. n - 1 : j = k - 1 /\ j + 1 = k
    BY <1>0
  <2>2. w[j] < p[j] /\ p[j] >= 1 /\ w[j] \in Nat /\ p[j] \in Nat
    BY <1>0, <1>1, <1>3, <2>1
  <2>3. w[j + 1] = (w[j] + IF j \in u THEN p[j] ELSE 0) /\ p[j + 1] = 2 * p[j]
    BY <1>0
  <2>4. w[j + 1] < p[j + 1] /\ p[j + 1] >= 1
    BY <2>2, <2>3
  <2> QED
    BY <1>1, <2>1, <2>4
<1>4. \A k \in 0 .. n : k \in P
  BY <1>0, <1>2, <1>3, UpTo
<1> QED
  BY <1>0, <1>1, <1>4

\* The weight tells which bits are 1.
LEMMA WeightTells ==
  ASSUME NEW n, NEW p, NEW u, NEW w, NEW v, NEW x,
         Powers(n, p), Weighs(n, p, u, w), Weighs(n, p, v, x),
         w[n] = x[n]
  PROVE  \A k \in 0 .. n - 1 : k \in u <=> k \in v
<1>0. /\ n \in Nat /\ p \in [0 .. n -> Nat]
      /\ w \in [0 .. n -> Nat] /\ x \in [0 .. n -> Nat]
      /\ \A k \in 0 .. n - 1 : w[k + 1] = w[k] + IF k \in u THEN p[k] ELSE 0
      /\ \A k \in 0 .. n - 1 : x[k + 1] = x[k] + IF k \in v THEN p[k] ELSE 0
  BY DEF Powers, Weighs
<1>1. PICK P : P = {k \in 0 .. n : w[k] = x[k] => \A j \in 0 .. k - 1 : j \in u <=> j \in v}
  OBVIOUS
<1>2. 0 \in P
  BY <1>0, <1>1
<1>3. ASSUME NEW k \in 1 .. n, k - 1 \in P PROVE k \in P
  <2> SUFFICES ASSUME w[k] = x[k] PROVE \A j \in 0 .. k - 1 : j \in u <=> j \in v
    BY <1>1
  <2>1. PICK q \in 0 .. n - 1 : q = k - 1 /\ q + 1 = k /\ q \in 0 .. n
    BY <1>0
  <2>2. w[q] < p[q] /\ x[q] < p[q] /\ w[q] \in Nat /\ x[q] \in Nat /\ p[q] \in Nat
    BY <1>0, <2>1, WeightBound
  <2>3. /\ w[q + 1] = w[q] + IF q \in u THEN p[q] ELSE 0
        /\ x[q + 1] = x[q] + IF q \in v THEN p[q] ELSE 0
    BY <1>0
  <2>4. (q \in u <=> q \in v) /\ w[q] = x[q]
    BY <2>1, <2>2, <2>3
  <2>5. \A j \in 0 .. q - 1 : j \in u <=> j \in v
    BY <1>1, <1>3, <2>1, <2>4
  <2>6. \A j \in 0 .. k - 1 : j \in 0 .. q - 1 \/ j = q
    BY <2>1
  <2> QED
    BY <2>4, <2>5, <2>6
<1>4. n \in P
  BY <1>0, <1>2, <1>3, UpTo
<1> QED
  BY <1>1, <1>4

\* The bits below m decide of the weight below m.
LEMMA WeightBelow ==
  ASSUME NEW n, NEW p, NEW u, NEW w, NEW v, NEW x,
         Powers(n, p), Weighs(n, p, u, w), Weighs(n, p, v, x),
         NEW l \in 0 .. n, \A k \in 0 .. l - 1 : k \in u <=> k \in v
  PROVE  w[l] = x[l]
<1>0. /\ n \in Nat /\ l \in Nat /\ w[0] = 0 /\ x[0] = 0
      /\ \A k \in 0 .. n - 1 : w[k + 1] = w[k] + IF k \in u THEN p[k] ELSE 0
      /\ \A k \in 0 .. n - 1 : x[k + 1] = x[k] + IF k \in v THEN p[k] ELSE 0
  BY DEF Powers, Weighs
<1>1. PICK P : P = {k \in 0 .. l : w[k] = x[k]}
  OBVIOUS
<1>2. 0 \in P
  BY <1>0, <1>1
<1>3. ASSUME NEW k \in 1 .. l, k - 1 \in P PROVE k \in P
  <2>1. PICK q : q = k - 1
    OBVIOUS
  <2>2. q \in 0 .. n - 1 /\ q \in 0 .. l - 1 /\ q + 1 = k
    BY <1>0, <2>1
  <2>3. w[q] = x[q] /\ (q \in u <=> q \in v)
    BY <1>1, <1>3, <2>1, <2>2
  <2> QED
    BY <1>0, <1>1, <2>2, <2>3
<1>4. l \in P
  BY <1>0, <1>2, <1>3, UpTo
<1> QED
  BY <1>1, <1>4

\* A word and its complement are all ones together.
LEMMA WeightOthers ==
  ASSUME NEW n, NEW p, NEW u, NEW w, NEW v, NEW x,
         Powers(n, p), Weighs(n, p, u, w), Weighs(n, p, v, x),
         \A k \in 0 .. n - 1 : k \in u <=> k \notin v
  PROVE  w[n] + x[n] = p[n] - 1
<1>0. /\ n \in Nat /\ w[0] = 0 /\ x[0] = 0 /\ p[0] = 1
      /\ p \in [0 .. n -> Nat] /\ w \in [0 .. n -> Nat] /\ x \in [0 .. n -> Nat]
      /\ \A k \in 0 .. n - 1 : /\ w[k + 1] = w[k] + IF k \in u THEN p[k] ELSE 0
                               /\ x[k + 1] = x[k] + IF k \in v THEN p[k] ELSE 0
                               /\ p[k + 1] = 2 * p[k]
  BY DEF Powers, Weighs
<1>1. PICK P : P = {k \in 0 .. n : w[k] + x[k] = p[k] - 1}
  OBVIOUS
<1>2. 0 \in P
  BY <1>0, <1>1
<1>3. ASSUME NEW k \in 1 .. n, k - 1 \in P PROVE k \in P
  <2>1. PICK q \in 0 .. n - 1 : q = k - 1 /\ q + 1 = k /\ q \in 0 .. n
    BY <1>0
  <2>2. w[q] + x[q] = p[q] - 1 /\ (q \in u <=> q \notin v)
    BY <1>1, <1>3, <2>1
  <2>3. w[q] \in Nat /\ x[q] \in Nat /\ p[q] \in Nat
    BY <1>0, <2>1
  <2>4. /\ w[q + 1] = w[q] + IF q \in u THEN p[q] ELSE 0
        /\ x[q + 1] = x[q] + IF q \in v THEN p[q] ELSE 0
        /\ p[q + 1] = 2 * p[q]
    BY <1>0
  <2>5. w[q + 1] + x[q + 1] = p[q + 1] - 1
    BY <2>2, <2>3, <2>4
  <2> QED
    BY <1>1, <2>1, <2>5
<1>4. n \in P
  BY <1>0, <1>2, <1>3, UpTo
<1> QED
  BY <1>1, <1>4

-----------------------------------------------------------------------------
\* The recursive functions of SignedWords exist, and so each is what its definition says.
LEMMA PowerIs == Powers(WORD_LEN, Words!Power)
<1>0. WORD_LEN \in Nat
  BY DemosAssumption
<1>1. PICK step : step = [k \in 1 .. WORD_LEN |-> [x \in Nat |-> 2 * x]]
  OBVIOUS
<1>2. step \in [1 .. WORD_LEN -> [Nat -> Nat]]
  BY <1>1
<1>3. PICK f : Runs(Nat, 1, WORD_LEN, step, f)
  BY <1>0, <1>2, LoopRuns DEF LoopOn
<1>4. /\ f \in [0 .. WORD_LEN -> Nat] /\ f[0] = 1
      /\ \A k \in 1 .. WORD_LEN : f[k] = step[k][f[k - 1]]
  BY <1>3 DEF Runs
<1>5. ASSUME NEW k \in 1 .. WORD_LEN PROVE f[k - 1] \in Nat /\ f[k] = 2 * f[k - 1]
  <2>1. f[k - 1] \in Nat
    BY <1>0, <1>4
  <2>2. step[k] = [x \in Nat |-> 2 * x]
    BY <1>1
  <2> QED
    BY <1>4, <2>1, <2>2
<1>6. f = [k \in 0 .. WORD_LEN |-> IF k = 0 THEN 1 ELSE 2 * f[k - 1]]
  BY <1>0, <1>4, <1>5
<1>7. \E g : g = [k \in 0 .. WORD_LEN |-> IF k = 0 THEN 1 ELSE 2 * g[k - 1]]
  BY <1>6
<1>8. Words!Power = [k \in 0 .. WORD_LEN |-> IF k = 0 THEN 1 ELSE 2 * Words!Power[k - 1]]
  BY <1>7, Zenon DEF Words!Power
<1>9. PICK p : p = Words!Power
  OBVIOUS
<1>10. p = [k \in 0 .. WORD_LEN |-> IF k = 0 THEN 1 ELSE 2 * p[k - 1]]
  BY <1>8, <1>9
<1>11. p[0] = 1 /\ \A k \in 0 .. WORD_LEN - 1 : p[k + 1] = 2 * p[k]
  BY <1>0, <1>10
<1>12. \A k \in 0 .. WORD_LEN : p[k] = f[k]
  <2>1. PICK P : P = {k \in 0 .. WORD_LEN : p[k] = f[k]}
    OBVIOUS
  <2>2. 0 \in P
    BY <1>0, <1>4, <1>11, <2>1
  <2>3. ASSUME NEW k \in 1 .. WORD_LEN, k - 1 \in P PROVE k \in P
    BY <1>0, <1>5, <1>10, <2>1, <2>3
  <2>4. \A k \in 0 .. WORD_LEN : k \in P
    BY <1>0, <2>2, <2>3, UpTo
  <2> QED
    BY <2>1, <2>4
<1>13. p \in [0 .. WORD_LEN -> Nat]
  BY <1>4, <1>10, <1>12
<1> QED
  BY <1>0, <1>9, <1>11, <1>13 DEF Powers

\* Weights sums up the powers of the bits that are 1.
LEMMA WeightIs == ASSUME NEW u PROVE Weighs(WORD_LEN, Words!Power, u, Words!Weights(u))
<1>0. WORD_LEN \in Nat
  BY DemosAssumption
<1>1. PICK p : p = Words!Power
  OBVIOUS
<1>2. p \in [0 .. WORD_LEN -> Nat]
  BY <1>1, PowerIs DEF Powers
<1>3. PICK step : step = [k \in 1 .. WORD_LEN |->
                              [x \in Nat |-> x + IF k - 1 \in u THEN p[k - 1] ELSE 0]]
  OBVIOUS
<1>4. step \in [1 .. WORD_LEN -> [Nat -> Nat]]
  BY <1>0, <1>2, <1>3
<1>5. PICK f : Runs(Nat, 0, WORD_LEN, step, f)
  BY <1>0, <1>4, LoopRuns DEF LoopOn
<1>6. /\ f \in [0 .. WORD_LEN -> Nat] /\ f[0] = 0
      /\ \A k \in 1 .. WORD_LEN : f[k] = step[k][f[k - 1]]
  BY <1>5 DEF Runs
<1>7. ASSUME NEW k \in 1 .. WORD_LEN PROVE f[k] = f[k - 1] + IF k - 1 \in u THEN p[k - 1] ELSE 0
  <2>1. f[k - 1] \in Nat /\ step[k] = [x \in Nat |-> x + IF k - 1 \in u THEN p[k - 1] ELSE 0]
    BY <1>0, <1>3, <1>6
  <2> QED
    BY <1>6, <2>1
<1>8. f = [k \in 0 .. WORD_LEN |-> IF k = 0 THEN 0 ELSE f[k - 1] + IF k - 1 \in u THEN p[k - 1] ELSE 0]
  BY <1>0, <1>6, <1>7
<1>9. \E g : g = [k \in 0 .. WORD_LEN |->
                      IF k = 0 THEN 0 ELSE g[k - 1] + IF k - 1 \in u THEN Words!Power[k - 1] ELSE 0]
  BY <1>1, <1>8
<1>10. Words!Weights(u) = [k \in 0 .. WORD_LEN |->
           IF k = 0 THEN 0 ELSE Words!Weights(u)[k - 1] + IF k - 1 \in u THEN Words!Power[k - 1] ELSE 0]
  BY <1>9, Zenon DEF Words!Weights
<1>11. PICK w : w = Words!Weights(u)
  OBVIOUS
<1>12. w = [k \in 0 .. WORD_LEN |-> IF k = 0 THEN 0 ELSE w[k - 1] + IF k - 1 \in u THEN p[k - 1] ELSE 0]
  BY <1>1, <1>10, <1>11
<1>13. \A k \in 0 .. WORD_LEN : w[k] = f[k]
  <2>1. PICK P : P = {k \in 0 .. WORD_LEN : w[k] = f[k]}
    OBVIOUS
  <2>2. 0 \in P
    BY <1>0, <1>6, <1>12, <2>1
  <2>3. ASSUME NEW k \in 1 .. WORD_LEN, k - 1 \in P PROVE k \in P
    BY <1>0, <1>7, <1>12, <2>1, <2>3
  <2>4. \A k \in 0 .. WORD_LEN : k \in P
    BY <1>0, <2>2, <2>3, UpTo
  <2> QED
    BY <2>1, <2>4
<1>14. w \in [0 .. WORD_LEN -> Nat]
  BY <1>6, <1>12, <1>13
<1>15. w[0] = 0 /\ \A k \in 0 .. WORD_LEN - 1 : w[k + 1] = w[k] + IF k \in u THEN p[k] ELSE 0
  <2>1. ASSUME NEW k \in 0 .. WORD_LEN - 1 PROVE w[k + 1] = w[k] + IF k \in u THEN p[k] ELSE 0
    <3>1. k + 1 \in 0 .. WORD_LEN /\ k + 1 # 0 /\ (k + 1) - 1 = k
      BY <1>0
    <3> QED
      BY <1>12, <3>1
  <2> QED
    BY <1>0, <1>12, <2>1
<1> QED
  BY <1>1, <1>11, <1>14, <1>15 DEF Weighs

\* Shifted halves, rounding down.
LEMMA ShiftedIs ==
  ASSUME NEW n \in Int
  PROVE  /\ Words!Shifted(n) \in [0 .. WORD_LEN -> Int] /\ Words!Shifted(n)[0] = n
         /\ \A k \in 0 .. WORD_LEN - 1 : Words!Shifted(n)[k + 1] = Words!Shifted(n)[k] \div 2
<1>0. WORD_LEN \in Nat
  BY DemosAssumption
<1>1. PICK step : step = [k \in 1 .. WORD_LEN |-> [x \in Int |-> x \div 2]]
  OBVIOUS
<1>2. /\ step \in [1 .. WORD_LEN -> [Int -> Int]]
      /\ \A k \in 1 .. WORD_LEN : step[k] = [x \in Int |-> x \div 2]
  BY <1>1
<1>3. PICK f : Runs(Int, n, WORD_LEN, step, f)
  BY <1>0, <1>2, LoopRuns DEF LoopOn
<1>4. /\ f \in [0 .. WORD_LEN -> Int] /\ f[0] = n
      /\ \A k \in 1 .. WORD_LEN : f[k] = step[k][f[k - 1]]
  BY <1>3 DEF Runs
<1>5. ASSUME NEW k \in 1 .. WORD_LEN PROVE f[k] = f[k - 1] \div 2
  <2>1. f[k - 1] \in Int
    BY <1>0, <1>4
  <2> QED
    BY <1>2, <1>4, <2>1
<1>6. f = [k \in 0 .. WORD_LEN |-> IF k = 0 THEN n ELSE f[k - 1] \div 2]
  BY <1>0, <1>4, <1>5
<1>7. \E g : g = [k \in 0 .. WORD_LEN |-> IF k = 0 THEN n ELSE g[k - 1] \div 2]
  BY <1>6
<1>8. Words!Shifted(n) = [k \in 0 .. WORD_LEN |-> IF k = 0 THEN n ELSE Words!Shifted(n)[k - 1] \div 2]
  BY <1>7, Zenon DEF Words!Shifted
<1>9. PICK s : s = Words!Shifted(n)
  OBVIOUS
<1>10. s = [k \in 0 .. WORD_LEN |-> IF k = 0 THEN n ELSE s[k - 1] \div 2]
  BY <1>8, <1>9
<1>11. \A k \in 0 .. WORD_LEN : s[k] \in Int
  <2>1. PICK P : P = {k \in 0 .. WORD_LEN : s[k] \in Int}
    OBVIOUS
  <2>2. 0 \in P
    BY <1>0, <1>10, <2>1
  <2>3. ASSUME NEW k \in 1 .. WORD_LEN, k - 1 \in P PROVE k \in P
    BY <1>0, <1>10, <2>1, <2>3
  <2>4. \A k \in 0 .. WORD_LEN : k \in P
    BY <1>0, <2>2, <2>3, UpTo
  <2> QED
    BY <2>1, <2>4
<1>12. s \in [0 .. WORD_LEN -> Int] /\ s[0] = n
  BY <1>0, <1>10, <1>11
<1>13. ASSUME NEW k \in 0 .. WORD_LEN - 1 PROVE s[k + 1] = s[k] \div 2
  <2>1. k + 1 \in 0 .. WORD_LEN /\ k + 1 # 0 /\ (k + 1) - 1 = k
    BY <1>0
  <2> QED
    BY <1>10, <2>1
<1> QED
  BY <1>9, <1>12, <1>13

\* Half is the weight of the sign bit.
LEMMA HalfIs ==
  /\ Words!TRUE_VALUE_LEN \in Nat \ {0} /\ WORD_LEN = Words!TRUE_VALUE_LEN + 1
  /\ Words!Half \in Nat /\ Words!Half >= 1
  /\ Words!Power[Words!TRUE_VALUE_LEN] = Words!Half /\ Words!Power[WORD_LEN] = 2 * Words!Half
<1>1. PICK K : K = Words!TRUE_VALUE_LEN
  OBVIOUS
<1>2. K \in Nat \ {0} /\ WORD_LEN = K + 1 /\ WORD_LEN \in Nat
  BY <1>1, DemosAssumption DEF Words!TRUE_VALUE_LEN
<1>3. PICK p : p = Words!Power
  OBVIOUS
<1>4. Powers(WORD_LEN, p)
  BY <1>3, PowerIs
<1>5. PICK w : Weighs(WORD_LEN, p, {}, w)
  BY <1>3, WeightIs
<1>6. \A k \in 0 .. WORD_LEN : p[k] >= 1
  BY <1>4, <1>5, WeightBound
<1>7. p \in [0 .. WORD_LEN -> Nat] /\ \A k \in 0 .. WORD_LEN - 1 : p[k + 1] = 2 * p[k]
  BY <1>4 DEF Powers
<1>8. K \in 0 .. WORD_LEN /\ K \in 0 .. WORD_LEN - 1
  BY <1>2
<1>9. Words!Half = p[K]
  BY <1>1, <1>3 DEF Words!Half
<1>10. p[K] \in Nat /\ p[K] >= 1 /\ p[WORD_LEN] = 2 * p[K]
  BY <1>2, <1>6, <1>7, <1>8
<1> QED
  BY <1>1, <1>2, <1>3, <1>9, <1>10

\* What FakeAddBits says of the carry and of the sum
LEMMA OneBit ==
  ASSUME NEW x \in BOOLEAN, NEW y \in BOOLEAN, NEW z \in BOOLEAN
  PROVE  LET r == Words!FakeAddBits(x, y, z)
             ones == (IF x THEN 1 ELSE 0) + (IF y THEN 1 ELSE 0) + (IF z THEN 1 ELSE 0)
         IN /\ r.sum \in BOOLEAN /\ r.carry \in BOOLEAN
            /\ ones = (IF r.sum THEN 1 ELSE 0) + (IF r.carry THEN 2 ELSE 0)
<1>1. PICK ones : ones = (IF x THEN 1 ELSE 0) + (IF y THEN 1 ELSE 0) + (IF z THEN 1 ELSE 0)
  OBVIOUS
<1>2. ones \in 0 .. 3
  BY <1>1
<1>3. Words!FakeAddBits(x, y, z) = [sum |-> ones \in {1, 3}, carry |-> ones >= 2]
  BY <1>1 DEF Words!FakeAddBits, Words!Bit
<1>4. PICK r : r = Words!FakeAddBits(x, y, z)
  OBVIOUS
<1>5. r.sum = (ones \in {1, 3}) /\ r.carry = (ones >= 2)
  BY <1>3, <1>4
<1>6. r.sum \in BOOLEAN /\ r.carry \in BOOLEAN /\ (r.sum <=> ones \in {1, 3}) /\ (r.carry <=> ones >= 2)
  <2>1. (ones \in {1, 3}) \in BOOLEAN /\ (ones >= 2) \in BOOLEAN
    BY <1>2
  <2> QED
    BY <1>5, <2>1, Zenon
<1>7. ones = (IF r.sum THEN 1 ELSE 0) + (IF r.carry THEN 2 ELSE 0)
  BY <1>2, <1>6
<1> QED
  BY <1>1, <1>4, <1>6, <1>7

\* The carry into the next bit is that of FakeAddBits.
LEMMA CarriesIs ==
  ASSUME NEW u, NEW v
  PROVE  /\ Words!Carries(u, v) \in [0 .. WORD_LEN -> BOOLEAN] /\ Words!Carries(u, v)[0] = FALSE
         /\ \A k \in 0 .. WORD_LEN - 1 :
               Words!Carries(u, v)[k + 1]
                   = Words!FakeAddBits(k \in u, k \in v, Words!Carries(u, v)[k]).carry
<1>0. WORD_LEN \in Nat
  BY DemosAssumption
<1>1. PICK step : step = [k \in 1 .. WORD_LEN |->
                              [x \in BOOLEAN |-> Words!FakeAddBits(k - 1 \in u, k - 1 \in v, x).carry]]
  OBVIOUS
<1>2. \A k \in 1 .. WORD_LEN :
          step[k] = [x \in BOOLEAN |-> Words!FakeAddBits(k - 1 \in u, k - 1 \in v, x).carry]
  BY <1>1
<1>3. step \in [1 .. WORD_LEN -> [BOOLEAN -> BOOLEAN]]
  <2>1. ASSUME NEW k \in 1 .. WORD_LEN, NEW x \in BOOLEAN
        PROVE  Words!FakeAddBits(k - 1 \in u, k - 1 \in v, x).carry \in BOOLEAN
    <3>1. (k - 1 \in u) \in BOOLEAN /\ (k - 1 \in v) \in BOOLEAN
      OBVIOUS
    <3> QED
      BY <3>1, OneBit
  <2> QED
    BY <1>1, <2>1
<1>4. PICK f : Runs(BOOLEAN, FALSE, WORD_LEN, step, f)
  BY <1>0, <1>3, LoopRuns DEF LoopOn
<1>5. /\ f \in [0 .. WORD_LEN -> BOOLEAN] /\ f[0] = FALSE
      /\ \A k \in 1 .. WORD_LEN : f[k] = step[k][f[k - 1]]
  BY <1>4 DEF Runs
<1>6. ASSUME NEW k \in 1 .. WORD_LEN
      PROVE  f[k] = Words!FakeAddBits(k - 1 \in u, k - 1 \in v, f[k - 1]).carry
  <2>1. f[k - 1] \in BOOLEAN
    BY <1>0, <1>5
  <2> QED
    BY <1>2, <1>5, <2>1
<1>7. f = [k \in 0 .. WORD_LEN |-> IF k = 0 THEN FALSE
                                   ELSE Words!FakeAddBits(k - 1 \in u, k - 1 \in v, f[k - 1]).carry]
  <2>1. \A k \in 0 .. WORD_LEN : k # 0 => k \in 1 .. WORD_LEN
    BY <1>0
  <2>2. \A k \in 0 .. WORD_LEN : f[k] = IF k = 0 THEN FALSE
                                       ELSE Words!FakeAddBits(k - 1 \in u, k - 1 \in v, f[k - 1]).carry
    BY <1>5, <1>6, <2>1, Zenon
  <2>3. f = [k \in 0 .. WORD_LEN |-> f[k]]
    BY <1>5, Zenon
  <2> QED
    BY <2>2, <2>3, Zenon
<1>8. \E g : g = [k \in 0 .. WORD_LEN |-> IF k = 0 THEN FALSE
                                          ELSE Words!FakeAddBits(k - 1 \in u, k - 1 \in v, g[k - 1]).carry]
  BY <1>7
<1>9. Words!Carries(u, v) = [k \in 0 .. WORD_LEN |-> IF k = 0 THEN FALSE
          ELSE Words!FakeAddBits(k - 1 \in u, k - 1 \in v, Words!Carries(u, v)[k - 1]).carry]
  BY <1>8, Zenon DEF Words!Carries
<1>10. PICK s : s = Words!Carries(u, v)
  OBVIOUS
<1>11. s = [k \in 0 .. WORD_LEN |-> IF k = 0 THEN FALSE
                                    ELSE Words!FakeAddBits(k - 1 \in u, k - 1 \in v, s[k - 1]).carry]
  BY <1>9, <1>10
<1>12. \A k \in 0 .. WORD_LEN : s[k] = f[k]
  <2>1. PICK P : P = {k \in 0 .. WORD_LEN : s[k] = f[k]}
    OBVIOUS
  <2>2. 0 \in P
    <3>1. 0 \in 0 .. WORD_LEN
      BY <1>0
    <3> QED
      BY <1>5, <1>11, <2>1, <3>1, Zenon
  <2>3. ASSUME NEW k \in 1 .. WORD_LEN, k - 1 \in P PROVE k \in P
    <3>1. s[k - 1] = f[k - 1]
      BY <2>1, <2>3
    <3>2. s[k] = Words!FakeAddBits(k - 1 \in u, k - 1 \in v, s[k - 1]).carry
      <4>1. k \in 0 .. WORD_LEN /\ k # 0
        BY <1>0
      <4> QED
        BY <1>11, <4>1, Zenon
    <3> QED
      BY <1>0, <1>6, <2>1, <3>1, <3>2
  <2>4. \A k \in 0 .. WORD_LEN : k \in P
    BY <1>0, <2>2, <2>3, UpTo
  <2> QED
    BY <2>1, <2>4
<1>13. s \in [0 .. WORD_LEN -> BOOLEAN] /\ s[0] = FALSE
  BY <1>0, <1>5, <1>11, <1>12
<1>14. ASSUME NEW k \in 0 .. WORD_LEN - 1
       PROVE  s[k + 1] = Words!FakeAddBits(k \in u, k \in v, s[k]).carry
  <2>1. k + 1 \in 0 .. WORD_LEN /\ k + 1 # 0 /\ (k + 1) - 1 = k
    BY <1>0
  <2> QED
    BY <1>11, <2>1
<1> QED
  BY <1>10, <1>13, <1>14

\* x / 2 rounded towards 0
Towards0(x) == IF x < 0 THEN -(Words!Abs(x) \div 2) ELSE x \div 2

\* Halved starts from the absolute value as a word and halves it, rounding towards 0.
LEMMA HalvedIs ==
  ASSUME NEW n \in Int
  PROVE  /\ Words!Halved(n) \in [0 .. Words!TRUE_VALUE_LEN -> Int]
         /\ Words!Halved(n)[0] = Words!Wrap(Words!Abs(n))
         /\ \A k \in 0 .. Words!TRUE_VALUE_LEN - 1 : Words!Halved(n)[k + 1] = Towards0(Words!Halved(n)[k])
<1>0. PICK K : K = Words!TRUE_VALUE_LEN
  OBVIOUS
<1>1. K \in Nat
  BY <1>0, DemosAssumption DEF Words!TRUE_VALUE_LEN
<1>2. PICK e : e = Words!Wrap(Words!Abs(n))
  OBVIOUS
<1>3. e \in Int
  <2>1. PICK H : H = Words!Half
    OBVIOUS
  <2>2. H \in Int /\ 2 * H > 0
    BY <2>1, HalfIs
  <2>3. PICK x : x = Words!Abs(n)
    OBVIOUS
  <2>4. x \in Int
    BY <2>3 DEF Words!Abs
  <2>5. e = ((x + H) % (2 * H)) - H
    BY <1>2, <2>1, <2>3 DEF Words!Wrap
  <2> QED
    BY <2>2, <2>4, <2>5
<1>4. \A x \in Int : Towards0(x) \in Int
  BY DEF Towards0, Words!Abs
<1>5. PICK step : step = [k \in 1 .. K |-> [x \in Int |-> Towards0(x)]]
  OBVIOUS
<1>6. step \in [1 .. K -> [Int -> Int]] /\ \A k \in 1 .. K : step[k] = [x \in Int |-> Towards0(x)]
  BY <1>4, <1>5
<1>7. PICK f : Runs(Int, e, K, step, f)
  BY <1>1, <1>3, <1>6, LoopRuns DEF LoopOn
<1>8. /\ f \in [0 .. K -> Int] /\ f[0] = e
      /\ \A k \in 1 .. K : f[k] = step[k][f[k - 1]]
  BY <1>7 DEF Runs
<1>9. ASSUME NEW k \in 1 .. K PROVE f[k] = Towards0(f[k - 1])
  <2>1. f[k - 1] \in Int
    BY <1>1, <1>8
  <2> QED
    BY <1>6, <1>8, <2>1
<1>10. f = [k \in 0 .. K |-> IF k = 0 THEN e ELSE Towards0(f[k - 1])]
  BY <1>1, <1>8, <1>9
<1>11. \E g : g = [k \in 0 .. Words!TRUE_VALUE_LEN |->
           IF k = 0 THEN Words!Wrap(Words!Abs(n))
           ELSE LET x == g[k - 1] IN IF x < 0 THEN -(Words!Abs(x) \div 2) ELSE x \div 2]
  BY <1>0, <1>2, <1>10, Zenon DEF Towards0
<1>12. Words!Halved(n) = [k \in 0 .. Words!TRUE_VALUE_LEN |->
           IF k = 0 THEN Words!Wrap(Words!Abs(n))
           ELSE LET x == Words!Halved(n)[k - 1] IN IF x < 0 THEN -(Words!Abs(x) \div 2) ELSE x \div 2]
  BY <1>11, Zenon DEF Words!Halved
<1>13. PICK s : s = Words!Halved(n)
  OBVIOUS
<1>14. s = [k \in 0 .. K |-> IF k = 0 THEN e ELSE Towards0(s[k - 1])]
  BY <1>0, <1>2, <1>12, <1>13, Zenon DEF Towards0
<1>15. \A k \in 0 .. K : s[k] \in Int
  <2>1. PICK P : P = {k \in 0 .. K : s[k] \in Int}
    OBVIOUS
  <2>2. 0 \in P
    BY <1>1, <1>3, <1>14, <2>1
  <2>3. ASSUME NEW k \in 1 .. K, k - 1 \in P PROVE k \in P
    BY <1>1, <1>4, <1>14, <2>1, <2>3
  <2>4. \A k \in 0 .. K : k \in P
    BY <1>1, <2>2, <2>3, UpTo
  <2> QED
    BY <2>1, <2>4
<1>16. s \in [0 .. K -> Int] /\ s[0] = e
  BY <1>1, <1>14, <1>15
<1>17. ASSUME NEW k \in 0 .. K - 1 PROVE s[k + 1] = Towards0(s[k])
  <2>1. k + 1 \in 0 .. K /\ k + 1 # 0 /\ (k + 1) - 1 = k
    BY <1>1
  <2> QED
    BY <1>14, <2>1
<1> QED
  BY <1>0, <1>2, <1>13, <1>16, <1>17

-----------------------------------------------------------------------------
\* The weight of a word is that of its magnitude and of its sign bit.
LEMMA SplitWeight ==
  ASSUME NEW u
  PROVE  /\ Words!Weight(u \cap Words!Magnitude) \in Nat
         /\ Words!Weight(u \cap Words!Magnitude) < Words!Half
         /\ Words!Weight(u) = Words!Weight(u \cap Words!Magnitude)
                              + IF Words!SIGN_INDEX \in u THEN Words!Half ELSE 0
<1>1. PICK K : K = Words!TRUE_VALUE_LEN
  OBVIOUS
<1>2. PICK H : H = Words!Half
  OBVIOUS
<1>3. PICK p : p = Words!Power
  OBVIOUS
<1>4. PICK v : v = u \cap Words!Magnitude
  OBVIOUS
<1>5. PICK w : w = Words!Weights(u)
  OBVIOUS
<1>6. PICK x : x = Words!Weights(v)
  OBVIOUS
<1>7. K \in Nat /\ WORD_LEN = K + 1 /\ H \in Nat /\ p[K] = H
  BY <1>1, <1>2, <1>3, HalfIs
<1>8. Powers(WORD_LEN, p) /\ Weighs(WORD_LEN, p, u, w) /\ Weighs(WORD_LEN, p, v, x)
  BY <1>3, <1>5, <1>6, PowerIs, WeightIs
<1>9. /\ \A k \in 0 .. K - 1 : k \in u <=> k \in v
      /\ K \notin v
  BY <1>1, <1>4, <1>7 DEF Words!Magnitude
<1>10. K \in 0 .. WORD_LEN /\ K \in 0 .. WORD_LEN - 1
  BY <1>7
<1>11. w[K] = x[K]
  BY <1>8, <1>9, <1>10, WeightBelow
<1>12. x[K] < H /\ x[K] \in Nat
  BY <1>7, <1>8, <1>10, WeightBound DEF Weighs
<1>13. w[K + 1] = (w[K] + IF K \in u THEN p[K] ELSE 0) /\ x[K + 1] = (x[K] + IF K \in v THEN p[K] ELSE 0)
  BY <1>8, <1>10 DEF Weighs
<1>14. Words!Weight(u) = w[K + 1] /\ Words!Weight(v) = x[K + 1]
  BY <1>5, <1>6, <1>7 DEF Words!Weight
<1>15. x[K + 1] = x[K] /\ w[K + 1] = x[K] + IF K \in u THEN H ELSE 0
  BY <1>7, <1>9, <1>11, <1>12, <1>13
<1>16. Words!SIGN_INDEX = K
  BY <1>1 DEF Words!SIGN_INDEX
<1> QED
  BY <1>2, <1>4, <1>12, <1>14, <1>15, <1>16

\* Words of the same weight are the same.
LEMMA SameWeight ==
  ASSUME NEW u \in SUBSET Words!Bits, NEW v \in SUBSET Words!Bits, Words!Weight(u) = Words!Weight(v)
  PROVE  u = v
<1>1. PICK p : p = Words!Power
  OBVIOUS
<1>2. PICK w : w = Words!Weights(u)
  OBVIOUS
<1>3. PICK x : x = Words!Weights(v)
  OBVIOUS
<1>4. Powers(WORD_LEN, p) /\ Weighs(WORD_LEN, p, u, w) /\ Weighs(WORD_LEN, p, v, x)
  BY <1>1, <1>2, <1>3, PowerIs, WeightIs
<1>5. w[WORD_LEN] = x[WORD_LEN]
  BY <1>2, <1>3 DEF Words!Weight
<1>6. \A k \in 0 .. WORD_LEN - 1 : k \in u <=> k \in v
  BY <1>4, <1>5, WeightTells
<1> QED
  BY <1>6 DEF Words!Bits

\* A word and its complement weigh together as much as all ones.
LEMMA OthersWeight ==
  ASSUME NEW u \in SUBSET Words!Bits
  PROVE  Words!Weight(u) + Words!Weight(Words!Bits \ u) = 2 * Words!Half - 1
<1>1. PICK p : p = Words!Power
  OBVIOUS
<1>2. PICK w : w = Words!Weights(u)
  OBVIOUS
<1>3. PICK v : v = Words!Bits \ u
  OBVIOUS
<1>4. PICK x : x = Words!Weights(v)
  OBVIOUS
<1>5. Powers(WORD_LEN, p) /\ Weighs(WORD_LEN, p, u, w) /\ Weighs(WORD_LEN, p, v, x)
  BY <1>1, <1>2, <1>4, PowerIs, WeightIs
<1>6. \A k \in 0 .. WORD_LEN - 1 : k \in u <=> k \notin v
  BY <1>3 DEF Words!Bits
<1>7. w[WORD_LEN] + x[WORD_LEN] = p[WORD_LEN] - 1
  BY <1>5, <1>6, WeightOthers
<1>8. p[WORD_LEN] = 2 * Words!Half
  BY <1>1, HalfIs
<1> QED
  BY <1>2, <1>3, <1>4, <1>7, <1>8 DEF Words!Weight

\* A product whose second factor is split into its half and its remainder
LEMMA HalveProduct ==
  ASSUME NEW q \in Int, NEW y \in Int, NEW z \in Int, NEW r \in 0 .. 1, y = 2 * z + r
  PROVE  q * y = (2 * q) * z + IF r = 1 THEN q ELSE 0
<1>1. CASE r = 1
  BY <1>1
<1>2. CASE r = 0
  BY <1>2
<1> QED
  BY <1>1, <1>2

\* s are the halves of a number and the bits of u their remainders.
Halves(n, s, u) == /\ s \in [0 .. n -> Int]
                   /\ \A k \in 0 .. n - 1 : /\ s[k + 1] = s[k] \div 2
                                            /\ k \in u <=> s[k] % 2 = 1

\* The number is the weight of its low bits and what is left, shifted back.
LEMMA BitsWeigh ==
  ASSUME NEW n, NEW p, NEW u, NEW w, NEW s, Powers(n, p), Weighs(n, p, u, w), Halves(n, s, u)
  PROVE  \A k \in 0 .. n : s[0] = w[k] + p[k] * s[k]
<1>0. /\ n \in Nat /\ p \in [0 .. n -> Nat] /\ p[0] = 1
      /\ \A k \in 0 .. n - 1 : p[k + 1] = 2 * p[k]
      /\ w \in [0 .. n -> Nat] /\ w[0] = 0
      /\ \A k \in 0 .. n - 1 : w[k + 1] = w[k] + IF k \in u THEN p[k] ELSE 0
      /\ s \in [0 .. n -> Int]
      /\ \A k \in 0 .. n - 1 : s[k + 1] = s[k] \div 2 /\ (k \in u <=> s[k] % 2 = 1)
  BY DEF Powers, Weighs, Halves
<1>1. PICK P : P = {k \in 0 .. n : s[0] = w[k] + p[k] * s[k]}
  OBVIOUS
<1>2. 0 \in P
  BY <1>0, <1>1
<1>3. ASSUME NEW k \in 1 .. n, k - 1 \in P PROVE k \in P
  <2>1. PICK j \in 0 .. n - 1 : j = k - 1 /\ j + 1 = k /\ j \in 0 .. n
    BY <1>0
  <2>2. PICK q \in Nat : q = p[j]
    BY <1>0, <2>1
  <2>3. PICK y \in Int : y = s[j]
    BY <1>0, <2>1
  <2>4. PICK z \in Int : z = s[j + 1]
    BY <1>0, <2>1
  <2>5. PICK r \in 0 .. 1 : r = y % 2
    BY <2>3
  <2>6. y = 2 * z + r
    <3>1. s[j + 1] = s[j] \div 2
      BY <1>0
    <3>2. z = y \div 2
      BY <2>3, <2>4, <3>1
    <3> QED
      BY <2>5, <3>2
  <2>7. q * y = (2 * q) * z + IF r = 1 THEN q ELSE 0
    BY <2>6, HalveProduct
  <2>8. PICK o \in Int : o = q * y
    OBVIOUS
  <2>9. PICK l \in Int : l = (2 * q) * z
    OBVIOUS
  <2>10. o = l + IF r = 1 THEN q ELSE 0
    BY <2>7, <2>8, <2>9
  <2>11. s[0] = w[j] + o
    BY <1>1, <1>3, <2>1, <2>2, <2>3, <2>8
  <2>12. w[j + 1] = w[j] + (IF r = 1 THEN q ELSE 0) /\ w[j] \in Nat
    BY <1>0, <2>1, <2>2, <2>3, <2>5
  <2>13. s[0] = w[j + 1] + l
    BY <2>10, <2>11, <2>12
  <2>14. l = p[k] * s[k]
    BY <1>0, <2>1, <2>2, <2>4, <2>9
  <2> QED
    BY <1>1, <2>1, <2>13, <2>14
<1>4. \A k \in 0 .. n : k \in P
  BY <1>0, <1>2, <1>3, UpTo
<1> QED
  BY <1>1, <1>4

\* A multiple of H that is not far from 0
LEMMA SmallMultiple ==
  ASSUME NEW H \in Nat, H >= 1, NEW y \in Int, NEW l \in Nat, l < H
  PROVE  /\ l + H * y >= -H /\ l + H * y < 0 => y = -1 /\ H * y = -H
         /\ l + H * y >= 0 /\ l + H * y < H => y = 0 /\ H * y = 0
<1>1. CASE y >= 1
  <2>1. H * y >= H
    <3>1. H * y = H + H * (y - 1) /\ H * (y - 1) >= 0
      BY <1>1
    <3> QED
      BY <3>1
  <2> QED
    BY <1>1, <2>1
<1>2. CASE y <= -2
  <2>1. H * y <= -(2 * H)
    <3>1. PICK z \in Nat : z = -2 - y
      BY <1>2
    <3>2. H * z >= 0 /\ H * y = -(2 * H) - H * z
      BY <3>1
    <3> QED
      BY <3>2
  <2> QED
    BY <1>2, <2>1
<1>3. CASE y = 0
  BY <1>3
<1>4. CASE y = -1
  BY <1>4
<1> QED
  BY <1>1, <1>2, <1>3, <1>4

\* The bits of word_to_machine are the remainders of the shifts.
LEMMA MachineHalves ==
  ASSUME NEW n \in Int
  PROVE  /\ Words!word_to_machine(n) \in SUBSET Words!Bits
         /\ Halves(WORD_LEN, Words!Shifted(n), Words!word_to_machine(n))
<1>1. PICK s : s = Words!Shifted(n)
  OBVIOUS
<1>2. PICK u : u = Words!word_to_machine(n)
  OBVIOUS
<1>3. u = {k \in 0 .. WORD_LEN - 1 : s[k] % 2 = 1}
  BY <1>1, <1>2 DEF Words!word_to_machine, Words!Bits
<1>4. s \in [0 .. WORD_LEN -> Int] /\ \A k \in 0 .. WORD_LEN - 1 : s[k + 1] = s[k] \div 2
  BY <1>1, ShiftedIs
<1>5. Halves(WORD_LEN, s, u) /\ u \in SUBSET Words!Bits
  BY <1>3, <1>4 DEF Halves, Words!Bits
<1> QED
  BY <1>1, <1>2, <1>5

\* The word of a number in the machine weighs the number, modulo 2^WORD_LEN.
LEMMA MachineWeight ==
  ASSUME NEW n \in Int, -(2 * Words!Half) <= n, n < 2 * Words!Half
  PROVE  Words!Weight(Words!word_to_machine(n)) = n + IF n < 0 THEN 2 * Words!Half ELSE 0
<1>1. PICK s : s = Words!Shifted(n)
  OBVIOUS
<1>2. PICK u : u = Words!word_to_machine(n)
  OBVIOUS
<1>3. PICK p : p = Words!Power
  OBVIOUS
<1>4. PICK w : w = Words!Weights(u)
  OBVIOUS
<1>5. PICK H : H = 2 * Words!Half
  OBVIOUS
<1>6. H \in Nat /\ H >= 1 /\ p[WORD_LEN] = H /\ -H <= n /\ n < H /\ WORD_LEN \in 0 .. WORD_LEN
  BY <1>3, <1>5, HalfIs, DemosAssumption
<1>7. Powers(WORD_LEN, p) /\ Weighs(WORD_LEN, p, u, w) /\ Halves(WORD_LEN, s, u)
  BY <1>1, <1>2, <1>3, <1>4, PowerIs, WeightIs, MachineHalves
<1>8. s[0] = w[WORD_LEN] + p[WORD_LEN] * s[WORD_LEN]
  BY <1>6, <1>7, BitsWeigh
<1>9. w[WORD_LEN] \in Nat /\ w[WORD_LEN] < p[WORD_LEN]
  BY <1>6, <1>7, WeightBound DEF Weighs
<1>10. s[0] = n /\ s[WORD_LEN] \in Int
  BY <1>1, <1>6, ShiftedIs
<1>11. PICK y \in Int : y = s[WORD_LEN]
  BY <1>10
<1>12. PICK l \in Nat : l = w[WORD_LEN]
  BY <1>9
<1>13. n = l + H * y /\ l < H
  BY <1>6, <1>8, <1>9, <1>10, <1>11, <1>12
<1>14. /\ l + H * y >= -H /\ l + H * y < 0 => H * y = -H
       /\ l + H * y >= 0 /\ l + H * y < H => H * y = 0
  BY <1>6, <1>13, SmallMultiple
<1>15. PICK o \in Int : o = H * y
  BY <1>6
<1>16. l = n + IF n < 0 THEN H ELSE 0
  BY <1>6, <1>13, <1>14, <1>15
<1>17. Words!Weight(Words!word_to_machine(n)) = l
  BY <1>2, <1>4, <1>12 DEF Words!Weight
<1> QED
  BY <1>5, <1>16, <1>17

\* A number of fewer bits than a word has none at the sign, and none is left after
\* so many halves.
LEMMA MagnitudeHalves ==
  ASSUME NEW n \in Nat, n < Words!Half
  PROVE  /\ Words!word_to_machine(n) \in SUBSET Words!Magnitude
         /\ Words!Shifted(n)[Words!TRUE_VALUE_LEN] = 0
         /\ \A k \in 0 .. Words!TRUE_VALUE_LEN : Words!Shifted(n)[k] \in Nat
<1>1. PICK s : s = Words!Shifted(n)
  OBVIOUS
<1>2. PICK u : u = Words!word_to_machine(n)
  OBVIOUS
<1>3. PICK p : p = Words!Power
  OBVIOUS
<1>4. PICK w : w = Words!Weights(u)
  OBVIOUS
<1>5. PICK H : H = Words!Half
  OBVIOUS
<1>6. PICK K : K = Words!TRUE_VALUE_LEN
  OBVIOUS
<1>7. /\ H \in Nat /\ H >= 1 /\ p[K] = H /\ n < H /\ K \in Nat /\ WORD_LEN = K + 1
      /\ K \in 0 .. WORD_LEN /\ K \in 0 .. WORD_LEN - 1
  BY <1>3, <1>5, <1>6, HalfIs
<1>8. Powers(WORD_LEN, p) /\ Weighs(WORD_LEN, p, u, w) /\ Halves(WORD_LEN, s, u)
  BY <1>1, <1>2, <1>3, <1>4, PowerIs, WeightIs, MachineHalves
<1>9. s[0] = w[K] + p[K] * s[K]
  BY <1>7, <1>8, BitsWeigh
<1>10. w[K] \in Nat /\ w[K] < p[K]
  BY <1>7, <1>8, WeightBound DEF Weighs
<1>11. s[0] = n /\ s[K] \in Int
  <2>1. n \in Int
    OBVIOUS
  <2>2. s \in [0 .. WORD_LEN -> Int] /\ s[0] = n
    BY <1>1, <2>1, ShiftedIs
  <2> QED
    BY <1>7, <2>2
<1>12. PICK y \in Int : y = s[K]
  BY <1>11
<1>13. PICK l \in Nat : l = w[K]
  BY <1>10
<1>14. n = l + H * y /\ l < H
  BY <1>7, <1>9, <1>10, <1>11, <1>12, <1>13
<1>15. l + H * y >= 0 /\ l + H * y < H => y = 0
  BY <1>7, <1>14, SmallMultiple
<1>16. y = 0
  BY <1>7, <1>14, <1>15
<1>17. \A k \in 0 .. K : s[k] \in Nat
  <2>1. PICK P : P = {k \in 0 .. K : s[k] \in Nat}
    OBVIOUS
  <2>2. 0 \in P
    BY <1>7, <1>11, <2>1
  <2>3. ASSUME NEW k \in 1 .. K, k - 1 \in P PROVE k \in P
    <3>1. PICK j \in 0 .. WORD_LEN - 1 : j = k - 1 /\ j + 1 = k
      BY <1>7
    <3>2. s[j] \in Nat /\ s[j + 1] = s[j] \div 2
      BY <1>8, <2>1, <2>3, <3>1 DEF Halves
    <3>3. s[j + 1] \in Nat
      BY <3>2
    <3> QED
      BY <2>1, <3>1, <3>3
  <2>4. \A k \in 0 .. K : k \in P
    BY <1>7, <2>2, <2>3, UpTo
  <2> QED
    BY <2>1, <2>4
<1>18. K \notin u
  <2>1. s[K] = 0
    BY <1>12, <1>16
  <2>2. K \in u <=> s[K] % 2 = 1
    BY <1>7, <1>8 DEF Halves
  <2> QED
    BY <2>1, <2>2
<1>19. u \in SUBSET (0 .. WORD_LEN - 1)
  BY <1>2, MachineHalves DEF Words!Bits
<1>20. u \in SUBSET Words!Magnitude
  BY <1>6, <1>7, <1>18, <1>19 DEF Words!Magnitude
<1> QED
  BY <1>1, <1>2, <1>6, <1>12, <1>16, <1>17, <1>20

\* fake_add keeps the weight, together with the carry.
LEMMA SumWeight ==
  ASSUME NEW u \in SUBSET Words!Bits, NEW v \in SUBSET Words!Bits
  PROVE  LET r == Words!FakeAdd(u, v)
         IN /\ r.sum \in SUBSET Words!Bits /\ r.carry \in BOOLEAN
            /\ Words!Weight(r.sum) + (IF r.carry THEN 2 * Words!Half ELSE 0)
                   = Words!Weight(u) + Words!Weight(v)
<1>1. PICK f : f = Words!Carries(u, v)
  OBVIOUS
<1>2. PICK t : t = {k \in 0 .. WORD_LEN - 1 : Words!FakeAddBits(k \in u, k \in v, f[k]).sum}
  OBVIOUS
<1>3. Words!FakeAdd(u, v).sum = t /\ Words!FakeAdd(u, v).carry = f[WORD_LEN]
  BY <1>1, <1>2 DEF Words!FakeAdd, Words!Bits
<1>4. PICK p : p = Words!Power
  OBVIOUS
<1>5. PICK w : w = Words!Weights(u)
  OBVIOUS
<1>6. PICK x : x = Words!Weights(v)
  OBVIOUS
<1>7. PICK y : y = Words!Weights(t)
  OBVIOUS
<1>8. /\ Powers(WORD_LEN, p) /\ Weighs(WORD_LEN, p, u, w) /\ Weighs(WORD_LEN, p, v, x)
      /\ Weighs(WORD_LEN, p, t, y)
  BY <1>4, <1>5, <1>6, <1>7, PowerIs, WeightIs
<1>9. /\ WORD_LEN \in Nat /\ p \in [0 .. WORD_LEN -> Nat] /\ w \in [0 .. WORD_LEN -> Nat]
      /\ x \in [0 .. WORD_LEN -> Nat] /\ y \in [0 .. WORD_LEN -> Nat]
      /\ w[0] = 0 /\ x[0] = 0 /\ y[0] = 0
  BY <1>8 DEF Powers, Weighs
<1>10. f \in [0 .. WORD_LEN -> BOOLEAN] /\ f[0] = FALSE
  BY <1>1, CarriesIs
<1>11. PICK P : P = {k \in 0 .. WORD_LEN : y[k] + (IF f[k] THEN p[k] ELSE 0) = w[k] + x[k]}
  OBVIOUS
<1>12. 0 \in P
  BY <1>9, <1>10, <1>11
<1>13. ASSUME NEW k \in 1 .. WORD_LEN, k - 1 \in P PROVE k \in P
  <2>1. PICK j \in 0 .. WORD_LEN - 1 : j = k - 1 /\ j + 1 = k /\ j \in 0 .. WORD_LEN
    BY <1>9
  <2>2. PICK fu \in BOOLEAN : fu <=> j \in u
    BY Zenon
  <2>3. PICK fv \in BOOLEAN : fv <=> j \in v
    BY Zenon
  <2>4. fu = (j \in u) /\ fv = (j \in v)
    BY <2>2, <2>3, Zenon
  <2>5. PICK r : r = Words!FakeAddBits(fu, fv, f[j])
    OBVIOUS
  <2>6. f[j] \in BOOLEAN
    BY <1>10, <2>1
  <2>7. /\ r.sum \in BOOLEAN /\ r.carry \in BOOLEAN
        /\ (IF fu THEN 1 ELSE 0) + (IF fv THEN 1 ELSE 0) + (IF f[j] THEN 1 ELSE 0)
              = (IF r.sum THEN 1 ELSE 0) + (IF r.carry THEN 2 ELSE 0)
    BY <2>5, <2>6, OneBit
  <2>8. f[j + 1] = r.carry
    <3>1. f[j + 1] = Words!FakeAddBits(j \in u, j \in v, f[j]).carry
      <4>1. \A n \in 0 .. WORD_LEN - 1 :
                Words!Carries(u, v)[n + 1]
                    = Words!FakeAddBits(n \in u, n \in v, Words!Carries(u, v)[n]).carry
        BY CarriesIs, Zenon
      <4>2. Words!Carries(u, v)[j + 1] = Words!FakeAddBits(j \in u, j \in v, Words!Carries(u, v)[j]).carry
        BY <4>1, Zenon
      <4> QED
        BY <1>1, <4>2, Zenon
    <3> QED
      BY <2>4, <2>5, <3>1, Zenon
  <2>9. j \in t <=> r.sum
    BY <1>2, <2>4, <2>5, Zenon
  <2>10. /\ w[j + 1] = w[j] + (IF fu THEN p[j] ELSE 0)
         /\ x[j + 1] = x[j] + (IF fv THEN p[j] ELSE 0)
         /\ y[j + 1] = y[j] + (IF r.sum THEN p[j] ELSE 0)
         /\ p[j + 1] = 2 * p[j]
    BY <1>8, <2>2, <2>3, <2>9 DEF Powers, Weighs
  <2>11. y[j] + (IF f[j] THEN p[j] ELSE 0) = w[j] + x[j]
    BY <1>11, <1>13, <2>1
  <2>12. p[j] \in Nat /\ w[j] \in Nat /\ x[j] \in Nat /\ y[j] \in Nat
    BY <1>9, <2>1
  <2>13. y[j + 1] + (IF r.carry THEN p[j + 1] ELSE 0) = w[j + 1] + x[j + 1]
    BY <2>7, <2>10, <2>11, <2>12
  <2>14. y[j + 1] + (IF f[j + 1] THEN p[j + 1] ELSE 0) = w[j + 1] + x[j + 1]
    BY <2>8, <2>13, Zenon
  <2> QED
    BY <1>11, <2>1, <2>14
<1>14. WORD_LEN \in P
  BY <1>9, <1>12, <1>13, UpTo
<1>15. y[WORD_LEN] + (IF f[WORD_LEN] THEN p[WORD_LEN] ELSE 0) = w[WORD_LEN] + x[WORD_LEN]
  BY <1>11, <1>14
<1>16. p[WORD_LEN] = 2 * Words!Half
  BY <1>4, HalfIs
<1>17. f[WORD_LEN] \in BOOLEAN /\ t \in SUBSET Words!Bits
  BY <1>2, <1>9, <1>10 DEF Words!Bits
<1> QED
  BY <1>3, <1>5, <1>6, <1>7, <1>15, <1>16, <1>17, Zenon DEF Words!Weight

\* A number below the modulus is its remainder.
LEMMA Remains == ASSUME NEW q \in Nat \ {0}, NEW x \in Nat PROVE x < q => x % q = x
OBVIOUS

\* The modulus leaves nothing.
LEMMA RemainsNone == ASSUME NEW q \in Nat \ {0} PROVE q % q = 0
OBVIOUS

\* The code of a number with sign is that of its absolute value and the sign bit.
LEMMA OriginalIs ==
  ASSUME NEW n \in Int, -Words!Half < n, n < Words!Half
  PROVE  /\ ~Words!Overflows(n)
         /\ Words!Abs(n) \in Nat /\ Words!Abs(n) < Words!Half
         /\ Words!word_to_original_code(n)
                = Words!word_to_machine(Words!Abs(n)) \cup {k \in {Words!SIGN_INDEX} : n < 0}
<1>1. PICK y : y = Words!Abs(n)
  OBVIOUS
<1>2. PICK H : H = Words!Half
  OBVIOUS
<1>3. PICK K : K = Words!TRUE_VALUE_LEN
  OBVIOUS
<1>4. H \in Nat /\ H >= 1 /\ K \in Nat /\ WORD_LEN = K + 1
  BY <1>2, <1>3, HalfIs
<1>5. y \in Nat /\ y < H
  BY <1>1, <1>2, <1>4 DEF Words!Abs
<1>6. PICK h : h = Words!Halved(n)
  OBVIOUS
<1>7. PICK s : s = Words!Shifted(y)
  OBVIOUS
<1>8. Words!Wrap(y) = y
  <2>1. PICK q \in Nat \ {0} : q = 2 * H
    BY <1>4
  <2>2. PICK x \in Nat : x = y + H
    BY <1>4, <1>5
  <2>3. x < q
    BY <1>4, <1>5, <2>1, <2>2
  <2>4. x % q = x
    BY <2>3, Remains
  <2>5. Words!Wrap(y) = (x % q) - H
    BY <1>2, <2>1, <2>2 DEF Words!Wrap
  <2> QED
    BY <1>4, <1>5, <2>2, <2>4, <2>5
<1>9. h \in [0 .. K -> Int] /\ h[0] = y /\ \A k \in 0 .. K - 1 : h[k + 1] = Towards0(h[k])
  BY <1>1, <1>3, <1>6, <1>8, HalvedIs
<1>10. s \in [0 .. WORD_LEN -> Int] /\ s[0] = y /\ \A k \in 0 .. WORD_LEN - 1 : s[k + 1] = s[k] \div 2
  <2>1. y \in Int
    BY <1>5
  <2> QED
    BY <1>7, <2>1, ShiftedIs
<1>11. s[K] = 0 /\ (\A k \in 0 .. K : s[k] \in Nat) /\ Words!word_to_machine(y) \in SUBSET Words!Magnitude
  BY <1>2, <1>3, <1>5, <1>7, MagnitudeHalves
<1>12. \A k \in 0 .. K : h[k] = s[k]
  <2>1. PICK P : P = {k \in 0 .. K : h[k] = s[k]}
    OBVIOUS
  <2>2. 0 \in P
    BY <1>4, <1>9, <1>10, <2>1
  <2>3. ASSUME NEW k \in 1 .. K, k - 1 \in P PROVE k \in P
    <3>1. PICK j \in 0 .. K - 1 : j = k - 1 /\ j + 1 = k /\ j \in 0 .. K /\ j \in 0 .. WORD_LEN - 1
      BY <1>4
    <3>2. h[j] = s[j] /\ s[j] \in Nat
      BY <1>11, <2>1, <2>3, <3>1
    <3>3. h[j + 1] = s[j] \div 2
      <4>1. PICK x \in Nat : x = s[j]
        BY <3>2
      <4>2. Towards0(x) = x \div 2
        BY DEF Towards0
      <4> QED
        BY <1>9, <3>1, <3>2, <4>1, <4>2
    <3>4. s[j + 1] = s[j] \div 2
      BY <1>10, <3>1
    <3> QED
      BY <2>1, <3>1, <3>3, <3>4
  <2>4. \A k \in 0 .. K : k \in P
    BY <1>4, <2>2, <2>3, UpTo
  <2> QED
    BY <2>1, <2>4
<1>13. ~Words!Overflows(n)
  BY <1>3, <1>4, <1>6, <1>11, <1>12 DEF Words!Overflows
<1>14. \A k \in Words!Magnitude : k \in 0 .. K /\ k \in Words!Bits
  BY <1>3, <1>4 DEF Words!Magnitude, Words!Bits
<1>15. {k \in Words!Magnitude : Words!Abs(h[k]) % 2 = 1} = {k \in Words!Magnitude : s[k] % 2 = 1}
  <2>1. ASSUME NEW k \in Words!Magnitude PROVE Words!Abs(h[k]) = s[k]
    <3>1. PICK x \in Nat : x = s[k]
      BY <1>11, <1>14
    <3>2. Words!Abs(x) = x
      BY DEF Words!Abs
    <3> QED
      BY <1>12, <1>14, <3>1, <3>2
  <2> QED
    BY <2>1
<1>16. Words!word_to_machine(y) = {k \in Words!Bits : s[k] % 2 = 1}
  BY <1>7 DEF Words!word_to_machine
<1>17. Words!word_to_machine(y) = {k \in Words!Magnitude : s[k] % 2 = 1}
  BY <1>11, <1>14, <1>16
<1>18. Words!word_to_original_code(n)
           = {k \in Words!Magnitude : Words!Abs(h[k]) % 2 = 1} \cup {k \in {Words!SIGN_INDEX} : n < 0}
  BY <1>6 DEF Words!word_to_original_code
<1> QED
  BY <1>1, <1>2, <1>5, <1>13, <1>15, <1>17, <1>18

\* The smallest number of a word has no such code: its absolute value is no word, and
\* something is left after all the halves.
LEMMA SmallestOverflows == Words!Overflows(-Words!Half)
<1>1. PICK H : H = Words!Half
  OBVIOUS
<1>2. PICK K : K = Words!TRUE_VALUE_LEN
  OBVIOUS
<1>3. PICK p : p = Words!Power
  OBVIOUS
<1>4. PICK h : h = Words!Halved(-H)
  OBVIOUS
<1>5. H \in Nat /\ H >= 1 /\ K \in Nat /\ WORD_LEN = K + 1 /\ p[K] = H /\ -H \in Int
  BY <1>1, <1>2, <1>3, HalfIs
<1>6. p \in [0 .. WORD_LEN -> Nat] /\ p[0] = 1 /\ \A k \in 0 .. WORD_LEN - 1 : p[k + 1] = 2 * p[k]
  BY <1>3, PowerIs DEF Powers
<1>7. Words!Wrap(Words!Abs(-H)) = -H
  <2>1. Words!Abs(-H) = H
    BY <1>5 DEF Words!Abs
  <2>2. PICK q \in Nat \ {0} : q = 2 * H
    BY <1>5
  <2>3. Words!Wrap(H) = ((H + H) % (2 * H)) - H
    BY <1>1 DEF Words!Wrap
  <2>4. H + H = q
    BY <1>5, <2>2
  <2>5. Words!Wrap(H) = (q % q) - H
    BY <2>2, <2>3, <2>4
  <2> QED
    BY <1>5, <2>1, <2>5, RemainsNone
<1>8. h[0] = -H /\ \A k \in 0 .. K - 1 : h[k + 1] = Towards0(h[k])
  BY <1>2, <1>4, <1>5, <1>7, HalvedIs
<1>9. K \in {k \in 0 .. K : h[k] = -p[K - k] /\ p[K - k] >= 1}
  <2>1. PICK P : P = {k \in 0 .. K : h[k] = -p[K - k] /\ p[K - k] >= 1}
    OBVIOUS
  <2>2. 0 \in P
    BY <1>5, <1>8, <2>1
  <2>3. ASSUME NEW k \in 1 .. K, k - 1 \in P PROVE k \in P
    <3>1. PICK j \in 0 .. K - 1 : j = k - 1 /\ j + 1 = k
      BY <1>5
    <3>2. PICK l \in 0 .. WORD_LEN - 1 : l = K - k /\ l + 1 = K - j
      BY <1>5, <3>1
    <3>3. PICK x \in Nat : x = p[l]
      BY <1>5, <1>6
    <3>4. h[j] = -p[l + 1] /\ p[l + 1] >= 1
      BY <2>1, <2>3, <3>1, <3>2
    <3>5. p[l + 1] = 2 * x
      BY <1>6, <3>3
    <3>6. x >= 1 /\ h[j] = -(2 * x)
      BY <3>4, <3>5
    <3>7. Towards0(-(2 * x)) = -x
      <4>1. Words!Abs(-(2 * x)) = 2 * x
        BY <3>6 DEF Words!Abs
      <4>2. -(2 * x) < 0 /\ (2 * x) \div 2 = x
        BY <3>6
      <4> QED
        BY <4>1, <4>2 DEF Towards0
    <3>8. h[k] = -p[l]
      BY <1>8, <3>1, <3>3, <3>6, <3>7
    <3> QED
      BY <2>1, <3>2, <3>3, <3>6, <3>8
  <2>4. K \in P
    BY <1>5, <2>2, <2>3, UpTo
  <2> QED
    BY <2>1, <2>4
<1>10. h[K] = -1
  BY <1>5, <1>6, <1>9
<1>11. h[K] # 0
  BY <1>10
<1> QED
  BY <1>1, <1>2, <1>4, <1>11 DEF Words!Overflows

\* The word that is added for two's complement
LEMMA OneWeighs == Words!Weight({0}) = 1 /\ {0} \in SUBSET Words!Bits
<1>1. PICK p : p = Words!Power
  OBVIOUS
<1>2. PICK w : w = Words!Weights({0})
  OBVIOUS
<1>3. /\ WORD_LEN \in Nat \ {0} /\ p[0] = 1 /\ w \in [0 .. WORD_LEN -> Nat] /\ w[0] = 0
      /\ \A k \in 0 .. WORD_LEN - 1 : w[k + 1] = w[k] + IF k = 0 THEN p[k] ELSE 0
  <2>1. PICK u : u = {0}
    OBVIOUS
  <2>2. Weighs(WORD_LEN, p, u, w)
    BY <1>1, <1>2, <2>1, WeightIs
  <2>3. WORD_LEN \in Nat \ {0} /\ p[0] = 1
    BY <1>1, PowerIs, DemosAssumption DEF Powers
  <2> QED
    BY <2>1, <2>2, <2>3 DEF Weighs
<1>4. PICK P : P = {k \in 0 .. WORD_LEN : k = 0 \/ w[k] = 1}
  OBVIOUS
<1>5. ASSUME NEW k \in 1 .. WORD_LEN, k - 1 \in P PROVE k \in P
  <2>1. PICK j \in 0 .. WORD_LEN - 1 : j = k - 1 /\ j + 1 = k
    BY <1>3
  <2>2. w[j + 1] = w[j] + (IF j = 0 THEN p[j] ELSE 0) /\ (j = 0 \/ w[j] = 1)
    BY <1>3, <1>4, <1>5, <2>1
  <2>3. w[j + 1] = 1
    BY <1>3, <2>2
  <2> QED
    BY <1>4, <2>1, <2>3
<1>6. WORD_LEN \in P
  <2>1. WORD_LEN \in Nat /\ 0 \in P
    BY <1>3, <1>4
  <2> QED
    BY <1>5, <2>1, UpTo
<1>7. w[WORD_LEN] = 1
  BY <1>3, <1>4, <1>6
<1> QED
  BY <1>2, <1>3, <1>7 DEF Words!Weight, Words!Bits

\* The bits of a word are those of the magnitude and the sign.
LEMMA BitsOfWord ==
  /\ Words!Bits = Words!Magnitude \cup {Words!SIGN_INDEX}
  /\ Words!SIGN_INDEX \notin Words!Magnitude
  BY HalfIs DEF Words!Bits, Words!Magnitude, Words!SIGN_INDEX

\* A word with sign is the one without or is less by 2^WORD_LEN.
LEMMA TwosWord ==
  ASSUME NEW u
  PROVE  /\ Words!Weight(u) \in 0 .. 2 * Words!Half - 1
         /\ Words!SIGN_INDEX \in u <=> Words!Weight(u) >= Words!Half
         /\ Words!twos_complement_to_word(u)
                = Words!Weight(u) - IF Words!SIGN_INDEX \in u THEN 2 * Words!Half ELSE 0
<1>1. PICK l \in Nat : l = Words!Weight(u \cap Words!Magnitude)
  BY SplitWeight
<1>2. PICK w : w = Words!Weight(u)
  OBVIOUS
<1>3. PICK H \in Nat : H = Words!Half /\ H >= 1
  BY HalfIs
<1>4. l < H /\ w = l + IF Words!SIGN_INDEX \in u THEN H ELSE 0
  BY <1>1, <1>2, <1>3, SplitWeight
<1>5. Words!twos_complement_to_word(u) = l - (IF Words!SIGN_INDEX \in u THEN H ELSE 0)
  BY <1>1, <1>3 DEF Words!twos_complement_to_word
<1>6. CASE Words!SIGN_INDEX \in u
  BY <1>1, <1>2, <1>3, <1>4, <1>5, <1>6
<1>7. CASE Words!SIGN_INDEX \notin u
  BY <1>1, <1>2, <1>3, <1>4, <1>5, <1>7
<1> QED
  BY <1>6, <1>7

\* decode of encode.cpp: the machine's word for the number of a code is the code.
LEMMA MachineOfTwos ==
  ASSUME NEW u \in SUBSET Words!Bits
  PROVE  Words!word_to_machine(Words!twos_complement_to_word(u)) = u
<1>1. PICK n : n = Words!twos_complement_to_word(u)
  OBVIOUS
<1>2. PICK w : w = Words!Weight(u)
  OBVIOUS
<1>3. PICK H \in Nat : H = Words!Half /\ H >= 1
  BY HalfIs
<1>4. /\ w \in 0 .. 2 * H - 1 /\ (Words!SIGN_INDEX \in u <=> w >= H)
      /\ n = w - IF Words!SIGN_INDEX \in u THEN 2 * H ELSE 0
  BY <1>1, <1>2, <1>3, TwosWord
<1>5. n \in Int /\ -(2 * H) <= n /\ n < 2 * H /\ w = n + IF n < 0 THEN 2 * H ELSE 0
  BY <1>3, <1>4
<1>6. Words!Weight(Words!word_to_machine(n)) = w
  BY <1>3, <1>5, MachineWeight
<1>7. Words!word_to_machine(n) \in SUBSET Words!Bits
  BY <1>5, MachineHalves
<1>8. Words!word_to_machine(n) = u
  BY <1>2, <1>6, <1>7, SameWeight
<1> QED
  BY <1>1, <1>8

\* The assertions of encode.cpp about the codes of one number
Agree(n) == /\ Words!word_to_ones_complement(n) = Words!word_to_ones_complement1(n)
            /\ Words!word_to_machine(n) = Words!word_to_twos_complement(n)
            /\ Words!word_to_machine(n) = Words!word_to_twos_complement1(n)
            /\ Words!orig_code_to_word(Words!word_to_original_code(n)) = n
            /\ Words!twos_complement_to_word(Words!word_to_twos_complement(n)) = n

\* All codes of a number without sign are its bits.
LEMMA NotNegativeAgrees == ASSUME NEW n \in Nat, n < Words!Half PROVE Agree(n)
<1>1. PICK H \in Nat : H = Words!Half /\ H >= 1
  BY HalfIs
<1>2. PICK u : u = Words!word_to_machine(n)
  OBVIOUS
<1>3. n \in Int /\ -H < n /\ n < H /\ ~(n < 0) /\ n >= 0 /\ -(2 * H) <= n /\ n < 2 * H
  BY <1>1
<1>4. Words!Abs(n) = n
  BY <1>3 DEF Words!Abs
<1>5. u \in SUBSET Words!Magnitude
  BY <1>1, <1>2, MagnitudeHalves
<1>6. Words!Weight(u) = n
  BY <1>1, <1>2, <1>3, MachineWeight
<1>7. Words!word_to_original_code(n) = u
  BY <1>1, <1>2, <1>3, <1>4, OriginalIs
<1>8. /\ Words!word_to_ones_complement(n) = u /\ Words!word_to_ones_complement1(n) = u
      /\ Words!word_to_twos_complement(n) = u /\ Words!word_to_twos_complement1(n) = u
  BY <1>2, <1>3, <1>4, <1>7 DEF Words!word_to_ones_complement, Words!word_to_ones_complement1,
     Words!word_to_twos_complement, Words!word_to_twos_complement1
<1>9. Words!SIGN_INDEX \notin u /\ u \cap Words!Magnitude = u
  BY <1>5, BitsOfWord
<1>10. Words!orig_code_to_word(u) = n
  BY <1>6, <1>9 DEF Words!orig_code_to_word
<1>11. Words!twos_complement_to_word(u) = n
  <2>1. Words!twos_complement_to_word(u) = n - 0
    BY <1>6, <1>9, Zenon DEF Words!twos_complement_to_word
  <2> QED
    BY <2>1
<1> QED
  BY <1>2, <1>7, <1>8, <1>10, <1>11 DEF Agree

\* Of a negative number, one more than the complement of its absolute value has the
\* weight of the machine's word.
LEMMA NegativeAgrees == ASSUME NEW n \in Int, n < 0, -Words!Half < n PROVE Agree(n)
<1>1. PICK H \in Nat : H = Words!Half /\ H >= 1
  BY HalfIs
<1>2. PICK y \in Nat : y = -n
  OBVIOUS
<1>3. y >= 1 /\ y < H /\ n = -y /\ ~(n >= 0) /\ n < H /\ -(2 * H) <= n /\ n < 2 * H
  BY <1>1, <1>2
<1>4. Words!Abs(n) = y
  BY <1>2, <1>3 DEF Words!Abs
<1>5. PICK u : u = Words!word_to_machine(y)
  OBVIOUS
<1>6. u \in SUBSET Words!Magnitude
  BY <1>1, <1>3, <1>5, MagnitudeHalves
<1>7. Words!Weight(u) = y
  BY <1>1, <1>3, <1>5, MachineWeight
<1>8. PICK S : S = Words!SIGN_INDEX
  OBVIOUS
<1>9. Words!Bits = Words!Magnitude \cup {S} /\ S \notin Words!Magnitude
  BY <1>8, BitsOfWord
<1>10. Words!word_to_original_code(n) = u \cup {S}
  <2>1. {k \in {S} : n < 0} = {S}
    OBVIOUS
  <2> QED
    BY <1>1, <1>3, <1>4, <1>5, <1>8, <2>1, OriginalIs
<1>11. Words!word_to_ones_complement(n) = Words!Bits \ u
  <2>1. Words!word_to_ones_complement(n) = {S} \cup (Words!Magnitude \ (u \cup {S}))
    BY <1>8, <1>10 DEF Words!word_to_ones_complement
  <2> QED
    BY <1>6, <1>9, <2>1
<1>12. Words!word_to_ones_complement1(n) = Words!Bits \ u
  BY <1>3, <1>4, <1>5 DEF Words!word_to_ones_complement1
<1>13. PICK v : v = Words!Bits \ u
  OBVIOUS
<1>14. u \in SUBSET Words!Bits /\ v \in SUBSET Words!Bits
  BY <1>6, <1>9, <1>13
<1>15. y + Words!Weight(v) = 2 * H - 1
  BY <1>1, <1>7, <1>13, <1>14, OthersWeight
<1>16. PICK t : t = Words!FakeAdd(v, {0}).sum
  OBVIOUS
<1>17. t \in SUBSET Words!Bits /\ Words!Weight(t) = 2 * H - y
  <2>1. /\ t \in SUBSET Words!Bits
        /\ Words!Weight(t) + (IF Words!FakeAdd(v, {0}).carry THEN 2 * H ELSE 0) = Words!Weight(v) + 1
    BY <1>1, <1>14, <1>16, OneWeighs, SumWeight
  <2>2. Words!Weight(t) \in 0 .. 2 * H - 1 /\ Words!Weight(v) \in 0 .. 2 * H - 1
    BY <1>1, TwosWord
  <2> QED
    BY <1>3, <1>15, <2>1, <2>2
<1>18. Words!word_to_twos_complement(n) = t
  BY <1>11, <1>13, <1>16 DEF Words!word_to_twos_complement
<1>19. Words!word_to_machine(n) = t
  <2>1. Words!Weight(Words!word_to_machine(n)) = n + 2 * H
    BY <1>1, <1>3, MachineWeight
  <2>2. n + 2 * H = 2 * H - y
    BY <1>3
  <2>3. Words!word_to_machine(n) \in SUBSET Words!Bits
    BY MachineHalves
  <2> QED
    BY <1>17, <2>1, <2>2, <2>3, SameWeight
<1>20. Words!word_to_twos_complement1(n) = t
  <2>1. PICK x \in Nat : x = H - y
    BY <1>3
  <2>2. x < H /\ x \in Int /\ -(2 * H) <= x /\ x < 2 * H /\ ~(x < 0)
    BY <1>3, <2>1
  <2>3. PICK d : d = Words!word_to_machine(x)
    OBVIOUS
  <2>4. d \in SUBSET Words!Magnitude /\ Words!Weight(d) = x
    <3>1. d \in SUBSET Words!Magnitude
      BY <1>1, <2>2, <2>3, MagnitudeHalves
    <3>2. Words!Weight(d) = x
      BY <1>1, <2>2, <2>3, MachineWeight
    <3> QED
      BY <3>1, <3>2
  <2>5. PICK e : e = d \cup {S}
    OBVIOUS
  <2>6. e \cap Words!Magnitude = d /\ S \in e /\ e \in SUBSET Words!Bits
    BY <1>9, <2>4, <2>5
  <2>7. Words!Weight(e) = x + H
    BY <1>1, <1>8, <2>4, <2>6, SplitWeight
  <2>8. x + H = 2 * H - y
    BY <2>1
  <2>9. e = t
    BY <1>17, <2>6, <2>7, <2>8, SameWeight
  <2>10. Words!word_to_twos_complement1(n) = e
    BY <1>1, <1>4, <1>8, <2>1, <2>3, <2>5 DEF Words!word_to_twos_complement1
  <2> QED
    BY <2>9, <2>10
<1>21. Words!orig_code_to_word(u \cup {S}) = n
  <2>1. (u \cup {S}) \cap Words!Magnitude = u
    BY <1>6, <1>9
  <2> QED
    BY <1>3, <1>7, <1>8, <2>1 DEF Words!orig_code_to_word
<1>22. Words!twos_complement_to_word(t) = n
  <2>1. PICK z : z = Words!Weight(t)
    OBVIOUS
  <2>2. /\ Words!SIGN_INDEX \in t <=> z >= H
        /\ Words!twos_complement_to_word(t) = z - IF Words!SIGN_INDEX \in t THEN 2 * H ELSE 0
    BY <1>1, <2>1, TwosWord
  <2>3. z = 2 * H - y
    BY <1>17, <2>1
  <2>4. z >= H
    BY <1>3, <2>3
  <2> QED
    BY <1>3, <2>2, <2>3, <2>4
<1> QED
  BY <1>10, <1>11, <1>12, <1>18, <1>19, <1>20, <1>21, <1>22 DEF Agree

\* add.cpp: what is added and what detect_overflow says of it
LEMMA Adds ==
  ASSUME NEW u \in SUBSET Words!Bits, NEW v \in SUBSET Words!Bits
  PROVE  LET r == Words!FakeAdd(u, v)
             over == Words!detect_overflow(Words!SIGN_INDEX \in u, Words!SIGN_INDEX \in v,
                                           Words!SIGN_INDEX \in r.sum)
             signed == Words!twos_complement_to_word(u) + Words!twos_complement_to_word(v)
         IN /\ over <=> signed \notin Words!Words
            /\ ~over => Words!twos_complement_to_word(r.sum) = signed
<1>1. PICK H \in Nat : H = Words!Half /\ H >= 1
  BY HalfIs
<1>2. PICK t : t = Words!FakeAdd(u, v).sum
  OBVIOUS
<1>3. PICK x : x = Words!Weight(u)
  OBVIOUS
<1>4. PICK y : y = Words!Weight(v)
  OBVIOUS
<1>5. PICK z : z = Words!Weight(t)
  OBVIOUS
<1>6. x \in 0 .. 2 * H - 1 /\ y \in 0 .. 2 * H - 1 /\ z \in 0 .. 2 * H - 1
  BY <1>1, <1>3, <1>4, <1>5, TwosWord
<1>7. PICK carry \in BOOLEAN : carry = Words!FakeAdd(u, v).carry
  BY SumWeight
<1>8. z + (IF carry THEN 2 * H ELSE 0) = x + y
  BY <1>1, <1>2, <1>3, <1>4, <1>5, <1>7, SumWeight
<1>9. PICK S : S = Words!SIGN_INDEX
  OBVIOUS
<1>10. /\ S \in u <=> x >= H
       /\ S \in v <=> y >= H
       /\ S \in t <=> z >= H
  BY <1>1, <1>3, <1>4, <1>5, <1>9, TwosWord
<1>11. PICK p \in Int : p = Words!twos_complement_to_word(u) /\ p = x - IF x >= H THEN 2 * H ELSE 0
  <2>1. Words!twos_complement_to_word(u) = x - IF x >= H THEN 2 * H ELSE 0
    BY <1>1, <1>3, <1>9, <1>10, TwosWord
  <2> QED
    BY <1>6, <2>1
<1>12. PICK q \in Int : q = Words!twos_complement_to_word(v) /\ q = y - IF y >= H THEN 2 * H ELSE 0
  <2>1. Words!twos_complement_to_word(v) = y - IF y >= H THEN 2 * H ELSE 0
    BY <1>1, <1>4, <1>9, <1>10, TwosWord
  <2> QED
    BY <1>6, <2>1
<1>13. PICK r \in Int : r = Words!twos_complement_to_word(t) /\ r = z - IF z >= H THEN 2 * H ELSE 0
  <2>1. Words!twos_complement_to_word(t) = z - IF z >= H THEN 2 * H ELSE 0
    BY <1>1, <1>5, <1>9, <1>10, TwosWord
  <2> QED
    BY <1>6, <2>1
<1>14. PICK over : over = Words!detect_overflow(S \in u, S \in v, S \in t)
  OBVIOUS
<1>15. over <=> (x < H /\ y < H /\ z >= H) \/ (x >= H /\ y >= H /\ z < H)
  BY <1>6, <1>10, <1>14 DEF Words!detect_overflow
<1>16. p + q \in Words!Words <=> -H <= p + q /\ p + q < H
  BY <1>1, <1>11, <1>12 DEF Words!Words
<1>17. over <=> ~(-H <= p + q /\ p + q < H)
  BY <1>6, <1>8, <1>11, <1>12, <1>15
<1>18. ~over => r = p + q
  BY <1>6, <1>8, <1>11, <1>12, <1>13, <1>15
<1> QED
  BY <1>2, <1>9, <1>11, <1>12, <1>13, <1>14, <1>16, <1>17, <1>18

\* The arguments stay those of the start, and the answer is the one for them.
WordsInv == demo = "words" =>
    /\ \/ job \in {"encode"} \X (-Words!Half - 1 .. Words!Half)
       \/ job \in {"decode"} \X {"twos", "orig", "ones"} \X (SUBSET Words!Bits)
       \/ job \in {"add"} \X (SUBSET Words!Bits) \X (SUBSET Words!Bits)
    /\ answer # <<>> => /\ job[1] = "encode" => answer = Words!Encode(job[2])
                        /\ job[1] = "decode" => answer = Words!Decode(job[2], job[3])
                        /\ job[1] = "add" => answer = Words!Add(job[2], job[3])

\* It holds at the start.
LEMMA WordsInitInv == ASSUME Init PROVE WordsInv
  BY Zenon DEF Init, Words!Init, WordsInv

\* Other programs do not touch it.
LEMMA WordsUnchanged == ASSUME WordsInv, UNCHANGED demo, UNCHANGED wordVars PROVE WordsInv'
  BY DEF WordsInv, wordVars

\* main gives the answer for the arguments.
LEMMA WordsMainInv == ASSUME WordsInv, UNCHANGED demo, Words!Main PROVE WordsInv'
<1> SUFFICES ASSUME demo = "words" PROVE WordsInv'
  BY DEF WordsInv
<1>1. job' = job
  BY DEF Words!Main
<1>2. CASE job[1] = "encode"
  BY <1>1, <1>2 DEF WordsInv, Words!Main
<1>3. CASE job[1] = "decode"
  BY <1>1, <1>3 DEF WordsInv, Words!Main
<1>4. CASE job[1] = "add"
  BY <1>1, <1>4 DEF WordsInv, Words!Main
<1>5. job[1] \in {"encode", "decode", "add"}
  BY DEF WordsInv
<1> QED
  BY <1>2, <1>3, <1>4, <1>5

\* The answers are right, whatever the arguments and the length of a word.
LEMMA EncodesRight == ASSUME WordsInv, demo = "words" PROVE Words!EncodingsAgree
<1>1. ASSUME Words!Ended, job[1] = "encode", answer[1] # "invalid_argument"
      PROVE  LET n == job[2]
                 codes == answer[2]
             IN IF n = -Words!Half THEN answer[1] = "overflow_error"
                ELSE /\ codes.ones = codes.ones1
                     /\ codes.mac = codes.twos /\ codes.mac = codes.twos1
                     /\ Words!orig_code_to_word(codes.orig) = n
                     /\ Words!twos_complement_to_word(codes.twos) = n
  <2>1. PICK H \in Nat : H = Words!Half /\ H >= 1
    BY HalfIs
  <2>2. PICK n \in Int : n = job[2] /\ n \in -H - 1 .. H
    BY <1>1, <2>1 DEF WordsInv
  <2>3. answer = Words!Encode(n)
    BY <1>1, <2>2 DEF WordsInv, Words!Ended
  <2>4. n >= -H /\ n <= H - 1
    <3> SUFFICES ASSUME n < -H \/ n > H - 1 PROVE FALSE
      BY <2>1, <2>2
    <3>1. answer = <<"invalid_argument">>
      BY <2>1, <2>3 DEF Words!Encode
    <3> QED
      BY <1>1, <3>1
  <2>5. ~(n < -H \/ n > H - 1)
    BY <2>1, <2>4
  <2>6. CASE n = -H
    <3>1. Words!Overflows(n)
      BY <2>1, <2>6, SmallestOverflows
    <3>2. answer = <<"overflow_error">>
      BY <2>1, <2>3, <2>5, <3>1 DEF Words!Encode
    <3> QED
      BY <2>1, <2>2, <2>6, <3>2
  <2>7. CASE n # -H
    <3>1. -H < n /\ n < H
      BY <2>4, <2>7
    <3>2. ~Words!Overflows(n)
      BY <2>1, <3>1, OriginalIs
    <3>3. PICK codes : codes = [orig |-> Words!word_to_original_code(n),
                                ones |-> Words!word_to_ones_complement(n),
                                ones1 |-> Words!word_to_ones_complement1(n),
                                twos |-> Words!word_to_twos_complement(n),
                                twos1 |-> Words!word_to_twos_complement1(n),
                                mac |-> Words!word_to_machine(n)]
      OBVIOUS
    <3>4. answer = <<"ok", codes>>
      BY <2>1, <2>3, <2>5, <3>2, <3>3 DEF Words!Encode
    <3>5. Agree(n)
      <4>1. CASE n < 0
        BY <2>1, <3>1, <4>1, NegativeAgrees
      <4>2. CASE n >= 0
        <5>1. n \in Nat
          BY <4>2
        <5> QED
          BY <2>1, <3>1, <5>1, NotNegativeAgrees
      <4> QED
        BY <4>1, <4>2
    <3>6. answer[2] = codes /\ job[2] = n /\ n # -Words!Half
      BY <2>1, <2>2, <2>7, <3>4
    <3>7. /\ codes.ones = codes.ones1 /\ codes.mac = codes.twos /\ codes.mac = codes.twos1
          /\ Words!orig_code_to_word(codes.orig) = n /\ Words!twos_complement_to_word(codes.twos) = n
      BY <3>3, <3>5 DEF Agree
    <3> QED
      BY <3>6, <3>7
  <2> QED
    BY <2>6, <2>7
<1>2. ASSUME Words!Ended, job[1] = "decode", job[2] = "twos"
      PROVE  Words!word_to_machine(answer[2]) = job[3]
  <2>1. PICK u \in SUBSET Words!Bits : u = job[3]
    BY <1>2 DEF WordsInv
  <2>2. answer = <<"ok", Words!decoders("twos", u)>>
    BY <1>2, <2>1 DEF WordsInv, Words!Ended, Words!Decode
  <2>3. answer[2] = Words!twos_complement_to_word(u)
    BY <2>2 DEF Words!decoders
  <2> QED
    BY <2>1, <2>3, MachineOfTwos
<1> QED
  BY <1>1, <1>2, Zenon DEF Words!EncodingsAgree

\* add.cpp prints the sum of the words and whether it is one.
LEMMA AddsRight == ASSUME WordsInv, demo = "words" PROVE Words!AddsModulo
<1> SUFFICES ASSUME Words!Ended, job[1] = "add" PROVE Words!AddsModulo
  BY DEF Words!AddsModulo
<1>1. PICK u \in SUBSET Words!Bits : u = job[2]
  BY DEF WordsInv
<1>2. PICK v \in SUBSET Words!Bits : v = job[3]
  BY DEF WordsInv
<1>3. PICK r : r = Words!FakeAdd(u, v)
  OBVIOUS
<1>4. PICK over : over = Words!detect_overflow(Words!SIGN_INDEX \in u, Words!SIGN_INDEX \in v,
                                               Words!SIGN_INDEX \in r.sum)
  OBVIOUS
<1>5. answer = <<"ok", [sum |-> r.sum, carry |-> r.carry, overflow |-> over]>>
  BY <1>1, <1>2, <1>3, <1>4 DEF WordsInv, Words!Ended, Words!Add
<1>6. answer[2].sum = r.sum /\ answer[2].carry = r.carry /\ answer[2].overflow = over
  BY <1>5
<1>7. Words!Weight(r.sum) + (IF r.carry THEN 2 * Words!Half ELSE 0) = Words!Weight(u) + Words!Weight(v)
  BY <1>3, SumWeight
<1>8. PICK signed : signed = Words!twos_complement_to_word(u) + Words!twos_complement_to_word(v)
  OBVIOUS
<1>9. (over <=> signed \notin Words!Words) /\ (~over => Words!twos_complement_to_word(r.sum) = signed)
  BY <1>3, <1>4, <1>8, Adds
<1> QED
  BY <1>1, <1>2, <1>6, <1>7, <1>8, <1>9, Zenon DEF Words!AddsModulo

-----------------------------------------------------------------------------
\* What a step of Demos is for each of the programs
SpinMoves == demo = "spin_barrier" /\ \E t \in Threads : Spin!Step(t)
CvMoves == /\ demo = "cv_barrier"
           /\ (\E t \in Threads : Cv!Step(t)) \/ Cv!SpuriousWakeup \/ Cv!NextGeneration
LatchMoves == (\E t \in Threads : Events!CountDown(t)) \/ Events!LatchMainStep \/ Events!LatchWakeup
EventsMove == Events!MainStep \/ (\E t \in Tasks : Events!TaskStep(t)) \/ Events!SpuriousWakeup
IoMoves == (\E t \in Printers : Io!Step(t)) \/ Io!MainStep
PointersMove == Pointers!MainStep \/ Pointers!CallerStep
UniqueMoves == \E t \in Threads : Mutexes!UniqueStep(t)
uniqueVars == <<mutexPc, a, b, c, tmp, ownerB>>

Moves == /\ UNCHANGED demo
         /\ UNCHANGED spinVars \/ SpinMoves
         /\ UNCHANGED cvVars \/ CvMoves
         /\ UNCHANGED latchVars \/ LatchMoves
         /\ UNCHANGED eventVars \/ EventsMove
         /\ UNCHANGED ioVars \/ IoMoves
         /\ UNCHANGED uniqueVars \/ UniqueMoves
         /\ UNCHANGED pointerVars \/ PointersMove
         /\ UNCHANGED wordVars \/ Words!Main

\* Every step of Demos is a step of at most one program.
LEMMA NextMoves == ASSUME [Next]_vars PROVE Moves
<1>0. UNCHANGED mutexVars => UNCHANGED uniqueVars
  BY DEF mutexVars, uniqueVars
<1>1. CASE UNCHANGED vars
  BY <1>0, <1>1, Zenon DEF vars, Moves
<1>2. CASE MainStep
  <2>1. CASE Run("dead_lock", Mutexes!Timeout)
    BY <2>1 DEF Run, Moves, uniqueVars, Mutexes!Timeout, Mutexes!Return, Mutexes!uniqueVars
  <2>2. CASE Run("item39", Events!MainStep)
    BY <1>0, <2>2 DEF Run, Moves, EventsMove
  <2>3. CASE Run("cv_barrier", Cv!NextGeneration)
    BY <1>0, <2>3 DEF Run, Moves, CvMoves
  <2>4. CASE Run("latch", Events!LatchMainStep)
    BY <1>0, <2>4 DEF Run, Moves, LatchMoves
  <2>5. CASE Run("iomutex", Io!MainStep)
    BY <1>0, <2>5 DEF Run, Moves, IoMoves
  <2>6. CASE Run("pointers", Pointers!MainStep)
    BY <1>0, <2>6 DEF Run, Moves, PointersMove
  <2>7. CASE Run("words", Words!Main)
    BY <1>0, <2>7 DEF Run, Moves
  <2> QED
    BY <1>2, <2>1, <2>2, <2>3, <2>4, <2>5, <2>6, <2>7 DEF MainStep
<1>3. ASSUME NEW t \in Tasks, Run("item39", Events!TaskStep(t)) PROVE Moves
  BY <1>0, <1>3 DEF Run, Moves, EventsMove
<1>4. ASSUME NEW t \in 1 .. 3, Run("dead_lock", Mutexes!DeadStep(t)) PROVE Moves
  BY <1>4 DEF Run, Moves, uniqueVars, Mutexes!DeadStep, Mutexes!Acquire, Mutexes!Finish, Mutexes!Return,
              Mutexes!uniqueVars
<1>5. ASSUME NEW t \in Threads, ThreadStep(t) PROVE Moves
  <2>1. CASE Run("unique_lock", Mutexes!UniqueStep(t))
    BY <2>1 DEF Run, Moves, UniqueMoves
  <2>2. CASE Run("spin_barrier", Spin!Step(t))
    BY <1>0, <2>2 DEF Run, Moves, SpinMoves
  <2>3. CASE Run("cv_barrier", Cv!Step(t))
    BY <1>0, <2>3 DEF Run, Moves, CvMoves
  <2>4. CASE Run("latch", Events!CountDown(t))
    BY <1>0, <2>4 DEF Run, Moves, LatchMoves
  <2> QED
    BY <1>5, <2>1, <2>2, <2>3, <2>4 DEF ThreadStep
<1>6. ASSUME NEW t \in Printers, Run("iomutex", Io!Step(t)) PROVE Moves
  BY <1>0, <1>6 DEF Run, Moves, IoMoves
<1>7. CASE Run("pointers", Pointers!CallerStep)
  BY <1>0, <1>7 DEF Run, Moves, PointersMove
<1>8. CASE SpuriousWakeup
  BY <1>0, <1>8 DEF SpuriousWakeup, Run, Moves, EventsMove, CvMoves, LatchMoves
<1> QED
  BY <1>1, <1>2, <1>3, <1>4, <1>5, <1>6, <1>7, <1>8 DEF Next

IInv == SpinInv /\ CvInv /\ LatchInv /\ EventsInv /\ IoInv /\ UniqueInv /\ PointersInv /\ WordsInv

\* Every program starts in its part of the invariant.
LEMMA InitIInv == Init => IInv
  BY SpinInitInv, CvInitInv, LatchInitInv, EventsInitInv, IoInitInv, UniqueInitInv, PointersInitInv,
     WordsInitInv DEF Init, IInv

\* Every step keeps every part.
LEMMA MovesIInv == ASSUME IInv, Moves PROVE IInv'
<1> USE DEF IInv, Moves
<1>1. SpinInv'
  BY SpinStepInv, SpinUnchanged DEF SpinMoves
<1>2. CvInv'
  <2>1. CASE UNCHANGED cvVars
    BY <2>1, CvUnchanged DEF cvVars
  <2>2. CASE CvMoves
    BY <2>2, CvArriveFirstInv, CvArriveLastInv, CvWakeInv, CvNextGenerationInv, CvUnchanged
       DEF CvMoves, Cv!Step, Cv!SpuriousWakeup
  <2> QED
    BY <2>1, <2>2
<1>3. LatchInv'
  BY LatchStepInv, LatchUnchanged DEF LatchMoves
<1>4. EventsInv'
  BY EventsStepInv, EventsUnchanged DEF EventsMove
<1>5. IoInv'
  BY IoStepInv, MainPrintsInv, IoUnchanged DEF IoMoves
<1>6. UniqueInv'
  BY UniqueStepInv, UniqueUnchanged DEF UniqueMoves, uniqueVars
<1>7. PointersInv'
  BY PointersStepInv, PointersUnchanged DEF PointersMove
<1>8. WordsInv'
  BY WordsMainInv, WordsUnchanged
<1> QED
  BY <1>1, <1>2, <1>3, <1>4, <1>5, <1>6, <1>7, <1>8

\* The inductive invariant holds in every state.
THEOREM Invariance == Spec => []IInv
<1>1. IInv /\ [Next]_vars => IInv'
  BY NextMoves, MovesIInv
<1> QED
  BY InitIInv, <1>1, PTL DEF Spec

\* Whatever the number of threads and in whatever order they run: the lines under
\* the three locks of iomutex are whole, unique_lock.cpp prints Fibonacci numbers,
\* and barrier.cpp:106 finds the stages in order.
THEOREM InOrder == Spec => []PrintsInOrder
<1>1. IInv => PrintsInOrder
  BY IoWhole, UniquePrints, SpinResults DEF IInv, PrintsInOrder
<1> QED
  BY <1>1, Invariance, PTL

\* No task of item39.cpp goes on before its event but in its first block, and main
\* of count_down_latch.cpp not before every thread has counted down, spurious
\* wake-ups included.
THEOREM NotEarly == Spec => []NobodyGoesEarly
<1>1. IInv => NobodyGoesEarly
  BY EventsNotEarly, LatchNotEarly DEF IInv, NobodyGoesEarly
<1> QED
  BY <1>1, Invariance, PTL

\* Callers of fastLoadWidget with the same id share one widget while any of them holds
\* it, for any number of callers and ids.
THEOREM OneWidget == Spec => []WidgetsShared
<1>1. IInv => WidgetsShared
  BY CacheShares DEF IInv, WidgetsShared
<1> QED
  BY <1>1, Invariance, PTL

\* Whatever the length of a word: the codes of every number are the ones
\* encode.cpp asserts, and add.cpp adds modulo a word and detects the sums that are
\* none.
THEOREM Codes == Spec => []CodesAgree
<1>1. IInv => CodesAgree
  BY EncodesRight, AddsRight DEF IInv, CodesAgree
<1> QED
  BY <1>1, Invariance, PTL

\* Both barriers implement Stages: nobody goes on before all have arrived as often.
THEOREM Refinement == Spec => ImplementsStages
<1>1. Init => Abstract!Init
  <2> SUFFICES ASSUME Init PROVE Abstract!Init
    OBVIOUS
  <2>1. /\ Spin!Arrived = [t \in Threads |-> 0] /\ spinStage = [t \in Threads |-> 0]
    BY DEF Init, Spin!Init, Spin!Arrived
  <2>2. /\ Cv!Arrived = [t \in Threads |-> 0] /\ cvStage = [t \in Threads |-> 0]
    BY DEF Init, Cv!Init, Cv!Arrived
  <2> QED
    BY <2>1, <2>2 DEF Abstract!Init
<1>2. IInv /\ [Next]_vars => [Abstract!Next]_(Abstract!vars)
  <2> SUFFICES ASSUME IInv, [Next]_vars PROVE [Abstract!Next]_(Abstract!vars)
    OBVIOUS
  <2> USE DEF IInv
  <2>1. Moves
    BY NextMoves
  <2>2. CASE SpinMoves
    BY <2>1, <2>2, SpinRefines DEF SpinMoves, Moves
  <2>3. CASE CvMoves
    BY <2>1, <2>3, CvRefines DEF CvMoves, Moves
  <2>4. CASE UNCHANGED spinVars /\ UNCHANGED cvVars
    BY <2>1, <2>4 DEF Moves, spinVars, cvVars, Abstract!vars, Spin!Arrived, Cv!Arrived
  <2> QED
    BY <2>1, <2>2, <2>3, <2>4 DEF Moves
<1> QED
  BY <1>1, <1>2, Invariance, PTL DEF Spec, ImplementsStages, Abstract!Spec
==============================================================================
