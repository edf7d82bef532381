------------------------------ MODULE MutexQueues -----------------------------
(***************************************************************************)
(* The queues of data_struct/ with one mutex around every operation, in the *)
(* benchmark QueueBench: threadsafe_ring, and the two that wrap a queue the *)
(* repository does not implement itself, threadsafe_std_queue (std::queue) *)
(* and threadsafe_sys_stailq (the STAILQ macros of <sys/queue.h>), which is *)
(* a sequence here.  An operation is one step.  A pop that finds nothing   *)
(* and a push that finds no room change nothing and are tried again.       *)
(***************************************************************************)
EXTENDS QueueBench

Slots == 0 .. Capacity - 1

VARIABLES data,         \* data_ of the ring, an array of default values at first
          head, tail,   \* head_, tail_
          queue         \* queue_, q_

ringVars == <<data, head, tail>>

Unchanged == UNCHANGED <<pushCount, popCount, item, customers, firstFlag, clock>>

RingInit == BenchInit /\ data = [s \in Slots |-> 0] /\ head = 0 /\ tail = 0

\* A faulty variant: the queue is full when the last slot is used.
PushToTheBrim(p) == /\ Goto(p, "push", "pushed")
                    /\ tail + 1 # head
                    /\ data' = [data EXCEPT ![tail] = item[p]]
                    /\ tail' = (tail + 1) % Capacity
                    /\ UNCHANGED <<taken, head>> /\ Unchanged

Push(p) == /\ Goto(p, "push", "pushed")
           /\ (tail + 1) % Capacity # head
           /\ data' = [data EXCEPT ![tail] = item[p]]
           /\ tail' = (tail + 1) % Capacity
           /\ UNCHANGED <<taken, head>> /\ Unchanged

Pop(c) == /\ Goto(c, "pop", "got")
          /\ head # tail
          /\ taken' = taken \cup {data[head]}
          /\ head' = (head + 1) % Capacity
          /\ UNCHANGED <<data, tail>> /\ Unchanged

RingStep(t) == \/ t \in Producers /\ (Push(t) \/ (ProducerStep(t) /\ UNCHANGED ringVars))
               \/ t \in Customers /\ (Pop(t) \/ (CustomerStep(t) /\ UNCHANGED ringVars))

\* count() and to_vector()
Count == (tail - head + Capacity) % Capacity
ToVector == [i \in 1 .. Count |-> data[(head + i - 1) % Capacity]]

-----------------------------------------------------------------------------
WrappedInit == BenchInit /\ queue = <<>>

PushWrapped(p) == /\ Goto(p, "push", "pushed")
                  /\ queue' = Append(queue, item[p])
                  /\ UNCHANGED taken /\ Unchanged

PopWrapped(c) == /\ Goto(c, "pop", "got")
                 /\ queue # <<>>
                 /\ taken' = taken \cup {Head(queue)}
                 /\ queue' = Tail(queue)
                 /\ Unchanged

WrappedStep(t) == \/ t \in Producers /\ (PushWrapped(t) \/ (ProducerStep(t) /\ UNCHANGED queue))
                  \/ t \in Customers /\ (PopWrapped(t) \/ (CustomerStep(t) /\ UNCHANGED queue))
=============================================================================
