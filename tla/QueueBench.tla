------------------------------ MODULE QueueBench ------------------------------
(***************************************************************************)
(* The benchmark of data_struct/test_threadsafe_queue.cpp without its      *)
(* queues: producers draw numbers from push_count and push them until the  *)
(* number drawn is MAX_LOOP - 1 or more, customers pop and count until     *)
(* pop_count reaches MAX_LOOP, and the clock is read by the first producer *)
(* and by the last customer.  main starts as many producers as customers.  *)
(* The queue modules that extend this one supply the steps between "push"  *)
(* and "pushed" and between "pop" and "got".                               *)
(*                                                                         *)
(* test_boost_lockfree_queue.cpp runs the same loops.                      *)
(***************************************************************************)
EXTENDS Integers, Sequences, FiniteSets

CONSTANTS Producers, Customers,
          MaxLoop,              \* MAX_LOOP
          Capacity              \* CAPACITY, of the ring; one slot stays empty

ASSUME QueueBenchAssumption ==
    /\ Producers \cap Customers = {}
    /\ IsFiniteSet(Producers) /\ IsFiniteSet(Customers)
    /\ -1 \notin Producers \cup Customers     \* stands for "no thread"
    /\ Cardinality(Producers) = Cardinality(Customers)
    /\ MaxLoop \in Nat \ {0}
    /\ Capacity \in Nat \ {0, 1}

Threads == Producers \cup Customers

VARIABLES pc,           \* next step of each thread
          pushCount,    \* push_count
          popCount,     \* pop_count
          item,         \* the local i of each producer
          taken,        \* the values that pops have moved out of the queue
          customers,    \* the counter `customers`
          firstFlag,    \* first_producer
          clock         \* which of `start` and `end` have been written

benchVars == <<pc, pushCount, popCount, item, taken, customers, firstFlag, clock>>

Goto(t, from, to) == pc[t] = from /\ pc' = [pc EXCEPT ![t] = to]

BenchInit == /\ pc = [t \in Threads |-> IF t \in Producers THEN "begin" ELSE "pop"]
             /\ pushCount = 0 /\ popCount = 0
             /\ item = [p \in Producers |-> 0]
             /\ taken = {}
             /\ customers = Cardinality(Customers)
             /\ firstFlag = FALSE
             /\ clock = {}

\* first_producer.test_and_set()
Begin(p) == /\ Goto(p, "begin", IF firstFlag THEN "draw" ELSE "start")
            /\ firstFlag' = TRUE
            /\ UNCHANGED <<pushCount, popCount, item, taken, customers, clock>>

\* start = now()
Start(p) == /\ Goto(p, "start", "draw")
            /\ clock' = clock \cup {"start"}
            /\ UNCHANGED <<pushCount, popCount, item, taken, customers, firstFlag>>

\* push_count.fetch_add(1)
Draw(p) == /\ Goto(p, "draw", "push")
           /\ item' = [item EXCEPT ![p] = pushCount]
           /\ pushCount' = pushCount + 1
           /\ UNCHANGED <<popCount, taken, customers, firstFlag, clock>>

\* A faulty variant: the producers go on to the value MAX_LOOP.
PushedOneMore(p) == /\ Goto(p, "pushed", IF item[p] < MaxLoop THEN "draw" ELSE "done")
                    /\ UNCHANGED <<pushCount, popCount, item, taken, customers, firstFlag, clock>>

\* if(i + 1 < MAX_LOOP) continue; else break;
Pushed(p) == /\ Goto(p, "pushed", IF item[p] + 1 < MaxLoop THEN "draw" ELSE "done")
             /\ UNCHANGED <<pushCount, popCount, item, taken, customers, firstFlag, clock>>

\* A faulty variant: the count before the increment is compared.
CountedBefore(c) == /\ Goto(c, "got", IF popCount < MaxLoop THEN "pop" ELSE "leave")
                    /\ popCount' = popCount + 1
                    /\ UNCHANGED <<pushCount, item, taken, customers, firstFlag, clock>>

\* if(pop_count.fetch_add(1) + 1 < MAX_LOOP) continue; else break;
Counted(c) == /\ Goto(c, "got", IF popCount + 1 < MaxLoop THEN "pop" ELSE "leave")
              /\ popCount' = popCount + 1
              /\ UNCHANGED <<pushCount, item, taken, customers, firstFlag, clock>>

\* A faulty variant: the first customer that leaves reads the clock.
LeaveFirst(c) == /\ Goto(c, "leave", IF customers = Cardinality(Customers) THEN "end" ELSE "done")
                 /\ customers' = customers - 1
                 /\ UNCHANGED <<pushCount, popCount, item, taken, firstFlag, clock>>

\* if(customers.fetch_sub(1) == 1): the last customer
Leave(c) == /\ Goto(c, "leave", IF customers = 1 THEN "end" ELSE "done")
            /\ customers' = customers - 1
            /\ UNCHANGED <<pushCount, popCount, item, taken, firstFlag, clock>>

\* end = now()
End(c) == /\ Goto(c, "end", "done")
          /\ clock' = clock \cup {"end"}
          /\ UNCHANGED <<pushCount, popCount, item, taken, customers, firstFlag>>

ProducerStep(p) == Begin(p) \/ Start(p) \/ Draw(p) \/ Pushed(p)
CustomerStep(c) == Counted(c) \/ Leave(c) \/ End(c)

AllDone == \A t \in Threads : pc[t] = "done"
Terminated == AllDone /\ UNCHANGED benchVars

At(label) == {t \in Threads : pc[t] = label}

-----------------------------------------------------------------------------
\* Both ends stop after the same number of operations, MAX_LOOP - 1 plus one
\* per thread of a side, so the benchmark drains the queue: what was pushed is
\* what was taken.  The next round starts with an empty queue.
EndsDrained == AllDone => taken = 0 .. pushCount - 1

\* The time measured is an interval: when the last customer reads the clock for
\* `end` the first producer has read it for `start`, and everything is popped.
ClockInOrder == (At("end") # {} \/ "end" \in clock) =>
                    "start" \in clock /\ popCount = MaxLoop + Cardinality(Customers) - 1
=============================================================================
