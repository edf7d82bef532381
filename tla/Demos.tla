-------------------------------- MODULE Demos ---------------------------------
(***************************************************************************)
(* The programs that have nothing in common: item39.cpp,                   *)
(* mutex/dead_lock.cpp, mutex/unique_lock.cpp, the barriers of             *)
(* atomic/barrier.cpp and condition_variable/barrier.cpp, the latch of     *)
(* count_down_latch.cpp, the three programs of IoMutex, the eight of       *)
(* Ownership and the three of SignedWords.  A behaviour is a run of one of *)
(* them, chosen at the start.                                              *)
(***************************************************************************)
EXTENDS Integers, Sequences, FiniteSets

CONSTANTS Tasks,        \* of item39.cpp
          Threads,      \* of unique_lock.cpp, the barriers and the latch
          Rounds,       \* stages of the one, generations of the other barrier
          Printers,     \* the work_threads of IoMutex
          Loops,        \* lines printed by each
          Slots, WidgetIDs,     \* of the cache of widgets
          WORD_LEN      \* bits of a signed word

ASSUME DemosAssumption == /\ Tasks # {} /\ IsFiniteSet(Tasks)
                          /\ IsFiniteSet(Threads) /\ Threads # {} /\ 0 \notin Threads
                          /\ Rounds \in Nat \ {0} /\ Loops \in Nat \ {0}
                          /\ 0 \in WidgetIDs /\ WORD_LEN \in Nat \ {0, 1}

VARIABLES demo,
          block, mainPc, task, m, waiting, event,       \* OneShotEvents: item39.cpp
          latchPc, main, count, asleep,                 \* and the latch
          held, phase, owner,                           \* MutexDemos
          mutexPc, a, b, c, tmp, ownerB, ownerC,
          spinPc, spinStage, results, notArrived, spinGeneration, spinGen,
          cvPc, cvStage, current, cvGeneration, cvGen, blocked,
          program, pc, i, out, lock, expected, turn, ticket, me, newTurn,
          item, at, own, wpw, cache, id, live,          \* Ownership
          job, answer                                   \* SignedWords

Events == INSTANCE OneShotEvents WITH pc <- latchPc
Mutexes == INSTANCE MutexDemos WITH pc <- mutexPc
Spin == INSTANCE SpinBarrier WITH pc <- spinPc, stage <- spinStage,
                                  generation <- spinGeneration, gen <- spinGen
Cv == INSTANCE CvBarrier WITH pc <- cvPc, stage <- cvStage, generation <- cvGeneration,
                              gen <- cvGen, waiting <- blocked
Io == INSTANCE IoMutex WITH Threads <- Printers
Pointers == INSTANCE Ownership
Words == INSTANCE SignedWords

eventVars == <<block, mainPc, task, m, waiting, event>>
mutexVars == <<held, phase, owner, mutexPc, a, b, c, tmp, ownerB, ownerC>>
spinVars == <<spinPc, spinStage, results, notArrived, spinGeneration, spinGen>>
cvVars == <<cvPc, cvStage, current, cvGeneration, cvGen, blocked>>
latchVars == <<latchPc, main, count, asleep>>
ioVars == <<program, pc, i, out, lock, expected, turn, ticket, me, newTurn>>
pointerVars == <<item, at, own, wpw, cache, id, live>>
wordVars == <<job, answer>>
vars == <<demo, eventVars, mutexVars, spinVars, cvVars, latchVars, ioVars, pointerVars, wordVars>>

Init == /\ demo \in {"item39", "dead_lock", "unique_lock", "spin_barrier", "cv_barrier",
                     "latch", "iomutex", "pointers", "words"}
        /\ Events!Init /\ Mutexes!DeadInit /\ Mutexes!UniqueInit /\ Spin!Init /\ Cv!Init /\ Events!LatchInit
        /\ Io!Init /\ Pointers!Init
        /\ demo # "iomutex" => program = "atomic_flag"
        /\ demo # "pointers" => item = "cache"
        /\ IF demo = "words" THEN Words!Init ELSE job = <<>> /\ answer = <<>>

\* A step A of program p; the variables of the others stay as they are.
Run(p, A) == /\ demo = p /\ A
             /\ UNCHANGED demo
             /\ IF p = "item39" THEN TRUE ELSE UNCHANGED eventVars
             /\ IF p \in {"dead_lock", "unique_lock"} THEN TRUE ELSE UNCHANGED mutexVars
             /\ IF p = "spin_barrier" THEN TRUE ELSE UNCHANGED spinVars
             /\ IF p = "cv_barrier" THEN TRUE ELSE UNCHANGED cvVars
             /\ IF p = "latch" THEN TRUE ELSE UNCHANGED latchVars
             /\ IF p = "iomutex" THEN TRUE ELSE UNCHANGED ioVars
             /\ IF p = "pointers" THEN TRUE ELSE UNCHANGED pointerVars
             /\ IF p = "words" THEN TRUE ELSE UNCHANGED wordVars

MainStep == \/ Run("item39", Events!MainStep)
            \/ Run("dead_lock", Mutexes!Timeout)
            \/ Run("cv_barrier", Cv!NextGeneration)
            \/ Run("latch", Events!LatchMainStep)
            \/ Run("iomutex", Io!MainStep)
            \/ Run("pointers", Pointers!MainStep)
            \/ Run("words", Words!Main)

ThreadStep(t) == \/ Run("unique_lock", Mutexes!UniqueStep(t))
                 \/ Run("spin_barrier", Spin!Step(t))
                 \/ Run("cv_barrier", Cv!Step(t))
                 \/ Run("latch", Events!CountDown(t))

SpuriousWakeup == \/ Run("item39", Events!SpuriousWakeup)
                  \/ Run("cv_barrier", Cv!SpuriousWakeup)
                  \/ Run("latch", Events!LatchWakeup)

\* main has ended, or the program is in one of the two situations without a way
\* out; there is no step then.
Over == CASE demo = "item39" -> Events!Ended \/ Events!LostInBlock1
          [] demo = "dead_lock" -> Mutexes!DeadEnded \/ (phase[3] = "done" /\ Mutexes!Crosswise)
          [] demo = "unique_lock" -> Mutexes!UniqueEnded
          [] demo = "spin_barrier" -> Spin!AllDone
          [] demo = "cv_barrier" -> Cv!AllDone
          [] demo = "latch" -> main = "end"
          [] demo = "iomutex" -> Io!MainPrinted
          [] demo = "pointers" -> Pointers!Ended
          [] demo = "words" -> Words!Ended

Next == \/ MainStep
        \/ \E t \in Tasks : Run("item39", Events!TaskStep(t))
        \/ \E t \in 1 .. 3 : Run("dead_lock", Mutexes!DeadStep(t))
        \/ \E t \in Threads : ThreadStep(t)
        \/ \E t \in Printers : Run("iomutex", Io!Step(t))
        \/ Run("pointers", Pointers!CallerStep)
        \/ SpuriousWakeup

Spec == Init /\ [][Next]_vars

\* Every thread runs, and 30 seconds pass (MainStep).  A compare_exchange_weak that
\* finds the lock open again and again does not fail for ever.  Nothing is assumed
\* of spurious wake-ups.
FairSpec == /\ Spec
            /\ WF_vars(MainStep)
            /\ \A t \in Tasks : WF_vars(Run("item39", Events!TaskStep(t)))
            /\ \A t \in 1 .. 3 : WF_vars(Run("dead_lock", Mutexes!DeadStep(t)))
            /\ \A t \in Threads : WF_vars(ThreadStep(t))
            /\ \A t \in Printers : /\ WF_vars(Run("iomutex", Io!Step(t)))
                                   /\ SF_vars(Run("iomutex", Io!CasSucceeds(t) /\ UNCHANGED program))

-----------------------------------------------------------------------------
\* What the programs print is in order: the lines under iomutex are whole, whichever
\* of the three locks it is; unique_lock.cpp prints Fibonacci numbers in every order
\* of its threads; the results of atomic/barrier.cpp are the stages one after another.
PrintsInOrder == /\ demo = "iomutex" => Io!WholeLines
                 /\ demo = "unique_lock" => Mutexes!PrintsFibonacci
                 /\ demo = "spin_barrier" => Spin!ResultsInOrder

\* A task of item39.cpp does not go on before its event, and main of the latch not
\* before everybody has counted down.
NobodyGoesEarly == /\ demo = "item39" => Events!ReactsAfterEvent
                   /\ demo = "latch" => Events!NoEarlyRelease

\* Callers of fastLoadWidget (item20.cpp) with the same id share a widget while one of
\* them has it, also when the entry of the cache has expired in between.
WidgetsShared == demo = "pointers" => Pointers!OneWidgetPerId

\* The programs with smart pointers leave behind what they are there to show, and
\* nothing else.
LeaksAsShown == demo = "pointers" => Pointers!LeaksAsShown

\* The codes of encode.cpp stand for the same number, and add.cpp adds modulo a word.
CodesAgree == demo = "words" => Words!EncodingsAgree /\ Words!AddsModulo

Abstract == INSTANCE Stages WITH
    arrived <- IF demo = "spin_barrier" THEN Spin!Arrived ELSE Cv!Arrived,
    passed <- IF demo = "spin_barrier" THEN spinStage ELSE cvStage

\* Both barriers keep the stages apart, with threads that come to the next stage
\* while others have not left the one before.
ImplementsStages == Abstract!Spec

\* Each program ends: the last to arrive lets everybody go, every printer gets its
\* lock.  The exceptions are the two that are there to show: item39 may wait for ever
\* for a notification that came too early, in its first block and in no other, and
\* threads 1 and 2 of dead_lock may hold one mutex each for ever, but they do not keep
\* thread 3 from returning.
ProgramEnds == <>[]Over
=============================================================================
