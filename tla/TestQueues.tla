------------------------------ MODULE TestQueues ------------------------------
(***************************************************************************)
(* main of data_struct/test_threadsafe_queue.cpp: the benchmark QueueBench *)
(* on one queue after another.  The queues are different objects, so one   *)
(* behaviour follows one of them, chosen at the start, through the rounds  *)
(* that main makes with it; between two rounds the counters are reset and  *)
(* the queue stays as the round before has left it.  (main also starts     *)
(* more threads in every round; here every round has the same threads.)    *)
(*                                                                         *)
(* boost::lockfree::queue, the sixth queue of main, is not part of the     *)
(* repository.                                                             *)
(***************************************************************************)
EXTENDS QueueBench

CONSTANT Rounds         \* the rounds made with each queue

ASSUME RoundsAssumption == Rounds \in Nat \ {0}

VARIABLES kind, round,                          \* the queue followed, and its round
          data, head, tail,                     \* of the ring and of the lists
          next, alive,                          \* of the lists
          headMutex, tailMutex, newTail,        \* of the list with a dummy
          queue                                 \* of the wrapped queues

Simple == INSTANCE MutexQueues
List == INSTANCE ListQueue
Dummy == INSTANCE DummyQueue

queueVars == <<data, head, tail, next, alive, headMutex, tailMutex, newTail, queue>>
vars == <<benchVars, kind, round, queueVars>>

\* The members that the queue of this kind does not have.
NoNodes == next = <<>> /\ alive = {}
NoMutexes == headMutex = -1 /\ tailMutex = -1 /\ newTail = <<>>

Init == /\ round = 1
        /\ \/ kind = "ring" /\ Simple!RingInit /\ NoNodes /\ NoMutexes /\ queue = <<>>
           \/ kind = "list" /\ List!Init /\ NoMutexes /\ queue = <<>>
           \/ kind = "dummy" /\ Dummy!Init /\ queue = <<>>
           \/ kind = "wrapped" /\ Simple!WrappedInit /\ NoNodes /\ NoMutexes
              /\ data = <<>> /\ head = 0 /\ tail = 0

Step(t) ==
    /\ \/ /\ kind = "ring" /\ Simple!RingStep(t)
          /\ UNCHANGED <<next, alive, headMutex, tailMutex, newTail, queue>>
       \/ kind = "list" /\ List!Step(t) /\ UNCHANGED <<headMutex, tailMutex, newTail, queue>>
       \/ kind = "dummy" /\ Dummy!Step(t) /\ UNCHANGED queue
       \/ /\ kind = "wrapped" /\ Simple!WrappedStep(t)
          /\ UNCHANGED <<data, head, tail, next, alive, headMutex, tailMutex, newTail>>
    /\ UNCHANGED <<kind, round>>

\* All futures are ready: main resets the counters and starts the next round.
NextRound == /\ AllDone /\ round < Rounds
             /\ round' = round + 1
             /\ pc' = [t \in Threads |-> IF t \in Producers THEN "begin" ELSE "pop"]
             /\ pushCount' = 0 /\ popCount' = 0
             /\ customers' = Cardinality(Customers)
             /\ firstFlag' = FALSE
             /\ item' = [p \in Producers |-> 0]
             /\ taken' = {} /\ clock' = {}
             /\ UNCHANGED <<kind, queueVars>>

Finished == AllDone /\ round = Rounds

Next == \/ \E t \in Threads : Step(t)
        \/ NextRound
        \/ Finished /\ UNCHANGED vars

Spec == Init /\ [][Next]_vars

\* Every thread runs, and main goes on when its futures are ready.
FairSpec == /\ Spec
            /\ \A t \in Threads : WF_vars(Step(t))
            /\ WF_vars(NextRound)

-----------------------------------------------------------------------------
\* main comes to its end with every queue: no pop waits for an element that a
\* round before has taken or has left behind.
MainEnds == <>Finished

\* No pop hands out a node that a push still writes to, and the last node of a list
\* is never one that a pop has freed.
EndsUsable == /\ kind = "dummy" => Dummy!EndsApart
              /\ kind = "list" => List!TailUsable

Elements == CASE kind = "ring" -> Simple!ToVector
              [] kind = "list" -> List!Elements
              [] kind = "dummy" -> Dummy!Elements
              [] kind = "wrapped" -> queue

Fifo == INSTANCE FifoQueue WITH Values <- Nat, q <- Elements

\* Every queue is a FIFO queue: a push puts the number
\* its producer has drawn at the end, a pop takes the front, nothing else
\* changes the elements, and a round ends with none.
ImplementsFifoQueue ==
    Fifo!Init /\ [][\/ Fifo!Pop
                    \/ \E p \in Producers : Fifo!Push(item[p])
                    \/ Elements = <<>> /\ Fifo!Init']_<<Elements, taken>>
=============================================================================
