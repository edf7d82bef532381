------------------------------ MODULE ListQueue -------------------------------
(***************************************************************************)
(* threadsafe_single_list_queue of data_struct/ in the benchmark           *)
(* QueueBench: a linked list without a dummy.  An operation is a block     *)
(* under mutex_ and so one step.  When the last node is popped tail_ keeps *)
(* pointing to it, deleted as it is, and only head_ tells push that the    *)
(* list is empty ("with one node pop and push contend", says the source).  *)
(***************************************************************************)
EXTENDS QueueBench

VARIABLES head, tail,   \* head_, tail_: nodes or Nil
          data, next,   \* the members of each node
          alive         \* the nodes that exist

listVars == <<head, tail, data, next, alive>>
vars == <<benchVars, listVars>>

\* More nodes than a round has numbers to push; new takes one that is free, and
\* may take one that has been deleted before.
Nodes == 0 .. MaxLoop + Cardinality(Producers) - 1
Nil == -1
Fresh == CHOOSE n \in Nodes : n \notin alive

Init == /\ BenchInit
        /\ head = Nil /\ tail = Nil
        /\ data = [n \in Nodes |-> Nil] /\ next = [n \in Nodes |-> Nil]
        /\ alive = {}

\* A faulty variant: tail_ tells whether the list is empty.
PushByTail(p) == /\ Goto(p, "push", "pushed")
                 /\ data' = [data EXCEPT ![Fresh] = item[p]]
                 /\ alive' = alive \cup {Fresh}
                 /\ IF tail # Nil
                    THEN next' = [next EXCEPT ![tail] = Fresh] /\ UNCHANGED head
                    ELSE head' = Fresh /\ UNCHANGED next
                 /\ tail' = Fresh
                 /\ UNCHANGED <<pushCount, popCount, item, taken, customers, firstFlag, clock>>

Push(p) == /\ Goto(p, "push", "pushed")
           /\ data' = [data EXCEPT ![Fresh] = item[p]]
           /\ alive' = alive \cup {Fresh}
           /\ IF head # Nil
              THEN next' = [next EXCEPT ![tail] = Fresh] /\ UNCHANGED head
              ELSE head' = Fresh /\ UNCHANGED next
           /\ tail' = Fresh
           /\ UNCHANGED <<pushCount, popCount, item, taken, customers, firstFlag, clock>>

\* A faulty variant: the pop drops the rest of the list.
PopTruncates(c) == /\ Goto(c, "pop", "got")
                   /\ head # Nil
                   /\ taken' = taken \cup {data[head]}
                   /\ head' = Nil
                   /\ alive' = alive \ {head}
                   /\ UNCHANGED <<pushCount, popCount, item, customers, firstFlag, clock, tail, data, next>>

\* A pop that returns nullptr changes nothing and is tried again.
Pop(c) == /\ Goto(c, "pop", "got")
          /\ head # Nil
          /\ taken' = taken \cup {data[head]}
          /\ head' = next[head]
          /\ alive' = alive \ {head}
          /\ next' = [next EXCEPT ![head] = Nil]
          /\ data' = [data EXCEPT ![head] = Nil]
          /\ UNCHANGED <<pushCount, popCount, item, customers, firstFlag, clock, tail>>

Step(t) == \/ t \in Producers /\ (Push(t) \/ (ProducerStep(t) /\ UNCHANGED listVars))
           \/ t \in Customers /\ (Pop(t) \/ (CustomerStep(t) /\ UNCHANGED listVars))

Next == \/ \E t \in Threads : Step(t)
        \/ Terminated /\ UNCHANGED listVars

Spec == Init /\ [][Next]_vars

-----------------------------------------------------------------------------
\* The elements from head_ on; to_vector() and count() walk the same nodes.
Elements ==
    LET from[n \in Nodes \cup {Nil}] == IF n = Nil THEN <<>> ELSE <<data[n]>> \o from[next[n]]
    IN  from[head]

\* tail_ is used by push only while it points to a node that exists, the last
\* of the list; no node outlives its pop or is lost from the list.
TailUsable == /\ head # Nil => tail \in alive /\ next[tail] = Nil
              /\ Cardinality(alive) = Len(Elements)
=============================================================================
