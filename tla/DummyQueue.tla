------------------------------ MODULE DummyQueue ------------------------------
(***************************************************************************)
(* threadsafe_queue_with_dummy_node of data_struct/ in the benchmark       *)
(* QueueBench: a linked list with one lock per end.  The last node is a    *)
(* dummy; push fills it and appends a new one under tail_mutex_, try_pop   *)
(* takes the first node out under head_mutex_ and looks at tail_ under     *)
(* tail_mutex_ in between.  What try_pop does after that is not protected  *)
(* from push, so push and try_pop are modelled access by access.           *)
(*                                                                         *)
(* Producers: "push" -> "fill" -> "link" -> "publish" -> "pushed"          *)
(* Customers: "pop" -> "look" -> "take" -> "unlink" -> "got"               *)
(***************************************************************************)
EXTENDS QueueBench

VARIABLES head, tail,   \* head_, tail_
          data, next,   \* the members of each node; Nil for an empty pointer
          alive,        \* the nodes that exist
          headMutex, tailMutex, \* the thread that holds the lock, or Nil
          newTail       \* the local new_tail of each producer

listVars == <<head, tail, data, next, alive>>
queueVars == <<listVars, headMutex, tailMutex, newTail>>
vars == <<benchVars, queueVars>>

\* More nodes than the dummy and the numbers of a round need; new takes one that
\* is free, and may take one that has been deleted before.  Node 0 is the
\* constructor's.
Nodes == 0 .. MaxLoop + Cardinality(Producers)
Fresh == CHOOSE n \in Nodes : n \notin alive
Nil == -1

Unchanged == UNCHANGED <<pushCount, popCount, item, customers, firstFlag, clock>>

Init == /\ BenchInit
        /\ head = 0 /\ tail = 0
        /\ data = [n \in Nodes |-> Nil] /\ next = [n \in Nodes |-> Nil]
        /\ alive = {0}
        /\ headMutex = Nil /\ tailMutex = Nil
        /\ newTail = [p \in Producers |-> Nil]

\* make_unique<node>(e) copies e into the new node as well; then tail_mutex_.
Allocate(p) == /\ Goto(p, "push", "fill")
               /\ tailMutex = Nil /\ tailMutex' = p
               /\ newTail' = [newTail EXCEPT ![p] = Fresh]
               /\ alive' = alive \cup {Fresh}
               /\ data' = [data EXCEPT ![Fresh] = item[p]]
               /\ UNCHANGED <<head, tail, next, headMutex, taken>> /\ Unchanged

\* A faulty variant: the value goes into the new node instead.
FillNew(p) == /\ Goto(p, "fill", "link")
              /\ data' = [data EXCEPT ![newTail[p]] = item[p]]
              /\ UNCHANGED <<newTail, head, tail, next, alive, headMutex, tailMutex, taken>> /\ Unchanged

\* tail_->data = std::move(new_data)
Fill(p) == /\ Goto(p, "fill", "link")
           /\ data' = [data EXCEPT ![tail] = item[p]]
           /\ UNCHANGED <<newTail, head, tail, next, alive, headMutex, tailMutex, taken>> /\ Unchanged

\* tail_->next = std::move(new_node)
Link(p) == /\ Goto(p, "link", "publish")
           /\ next' = [next EXCEPT ![tail] = newTail[p]]
           /\ UNCHANGED <<newTail, head, tail, data, alive, headMutex, tailMutex, taken>> /\ Unchanged

\* tail_ = new_tail, and the end of the block
Publish(p) == /\ Goto(p, "publish", "pushed")
              /\ tail' = newTail[p]
              /\ tailMutex' = Nil
              /\ UNCHANGED <<newTail, head, data, next, alive, headMutex, taken>> /\ Unchanged

\* head_mutex_
LockHead(c) == /\ Goto(c, "pop", "look")
               /\ headMutex = Nil /\ headMutex' = c
               /\ UNCHANGED <<newTail, listVars, tailMutex, taken>> /\ Unchanged

\* A faulty variant: next tells, without tail_mutex_, whether the queue is empty.
LookAtNext(c) == /\ IF next[head] = Nil THEN Goto(c, "look", "pop") /\ headMutex' = Nil
                                        ELSE Goto(c, "look", "take") /\ UNCHANGED headMutex
                 /\ UNCHANGED <<newTail, listVars, tailMutex, taken>> /\ Unchanged

\* The block under tail_mutex_: nullptr when head_ is the dummy
Look(c) == /\ tailMutex = Nil
           /\ IF head = tail THEN Goto(c, "look", "pop") /\ headMutex' = Nil
                             ELSE Goto(c, "look", "take") /\ UNCHANGED headMutex
           /\ UNCHANGED <<newTail, listVars, tailMutex, taken>> /\ Unchanged

\* A faulty variant: head_mutex_ protects the look and the element only.
TakeUnlocked(c) == /\ Goto(c, "take", "unlink")
                   /\ taken' = taken \cup {data[head]}
                   /\ data' = [data EXCEPT ![head] = Nil]
                   /\ headMutex' = Nil
                   /\ UNCHANGED <<newTail, head, tail, next, alive, tailMutex>> /\ Unchanged

\* ret = std::move(head_->data): the element has left the queue
Take(c) == /\ Goto(c, "take", "unlink")
           /\ taken' = taken \cup {data[head]}
           /\ data' = [data EXCEPT ![head] = Nil]
           /\ UNCHANGED <<newTail, head, tail, next, alive, headMutex, tailMutex>> /\ Unchanged

\* head_ = std::move(head_->next) deletes the old head; the end of the block
Unlink(c) == /\ Goto(c, "unlink", "got")
             /\ next' = [next EXCEPT ![head] = Nil]
             /\ head' = next[head]
             /\ alive' = alive \ {head}
             /\ headMutex' = Nil
             /\ UNCHANGED <<newTail, tail, data, tailMutex, taken>> /\ Unchanged

Step(t) == \/ t \in Producers /\ \/ ProducerStep(t) /\ UNCHANGED queueVars
                                 \/ Allocate(t) \/ Fill(t) \/ Link(t) \/ Publish(t)
           \/ t \in Customers /\ \/ CustomerStep(t) /\ UNCHANGED queueVars
                                 \/ LockHead(t) \/ Look(t) \/ Take(t) \/ Unlink(t)

Next == \/ \E t \in Threads : Step(t)
        \/ Terminated /\ UNCHANGED queueVars

Spec == Init /\ [][Next]_vars

-----------------------------------------------------------------------------
\* The nodes that push and try_pop touch outside a common lock are never the
\* same: past its look at tail_, a customer is on a node that no push in
\* progress is filling, and both are on nodes that exist.
EndsApart == /\ {head, tail} \subseteq alive
             /\ At("take") \cup At("unlink") # {} => head # tail /\ next[head] \in alive

\* The elements between head_ and the dummy; the first is gone once it has been
\* moved into a customer's ret.
Elements ==
    LET from[n \in Nodes] == IF n = tail \/ next[n] = Nil THEN <<>>
                                                         ELSE <<data[n]>> \o from[next[n]]
    IN  IF At("unlink") = {} THEN from[head] ELSE Tail(from[head])
=============================================================================
