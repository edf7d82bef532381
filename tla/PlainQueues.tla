----------------------------- MODULE PlainQueues -----------------------------
(***************************************************************************)
(* The queues of data_struct/ without locks, one of which test_queue.cpp   *)
(* fills and empties: queue.h, queue_with_dummy_node.h and ring.h.  Every  *)
(* call is one step.  The values pushed are 1, 2, ..., so that the order   *)
(* shows.                                                                  *)
(***************************************************************************)
EXTENDS Integers, Sequences, FiniteSets

CONSTANTS Nodes,        \* the addresses of nodes
          Capacity,     \* capacity_ of the ring
          Items         \* bound on the pushes of a behaviour

VARIABLES kind,         \* "linked", "dummy" or "ring"
          head, tail,   \* head_, tail_: nodes, or indices of the ring
          next,         \* of each node
          data,         \* of each node, or data_ of the ring
          pushed,       \* the values pushed so far
          taken         \* the values popped so far

vars == <<kind, head, tail, next, data, pushed, taken>>

Nil == -1
First == CHOOSE n \in Nodes : \A m \in Nodes : n <= m

\* The nodes from n on.
Chain(n) == LET from[k \in 0 .. Cardinality(Nodes)] ==
                    [m \in Nodes \cup {Nil} |->
                        IF k = 0 \/ m = Nil THEN <<>> ELSE <<m>> \o from[k - 1][next[m]]]
            IN  from[Cardinality(Nodes)][n]

Free == {n \in Nodes : \A i \in 1 .. Len(Chain(head)) : Chain(head)[i] # n}

InitLinked == /\ kind = "linked" /\ head = Nil /\ tail = Nil
              /\ next = [n \in Nodes |-> Nil] /\ data = [n \in Nodes |-> 0]
InitDummy == /\ kind = "dummy" /\ head = First /\ tail = First
             /\ next = [n \in Nodes |-> Nil] /\ data = [n \in Nodes |-> 0]
InitRing == /\ kind = "ring" /\ head = 0 /\ tail = 0
            /\ next = <<>> /\ data = [s \in 0 .. Capacity - 1 |-> 0]

Init == /\ InitLinked \/ InitDummy \/ InitRing
        /\ pushed = 0 /\ taken = {}

\* A new node, the lowest that is free.
NewNode(n) == n \in Free /\ \A m \in Free : n <= m

\* The next value, which the call is going to push.
Draw == pushed < Items /\ pushed' = pushed + 1 /\ UNCHANGED <<kind, taken>>

\* A faulty variant: the emptiness is looked for at the tail.
PushLinkedByTail == /\ kind = "linked" /\ Draw
                    /\ \E n \in Nodes :
                          /\ NewNode(n)
                          /\ data' = [data EXCEPT ![n] = pushed']
                          /\ next' = IF tail # Nil THEN [next EXCEPT ![n] = Nil, ![tail] = n]
                                                   ELSE [next EXCEPT ![n] = Nil]
                          /\ head' = IF tail = Nil THEN n ELSE head
                          /\ tail' = n

PushLinked == /\ kind = "linked" /\ Draw
              /\ \E n \in Nodes :
                    /\ NewNode(n)
                    /\ data' = [data EXCEPT ![n] = pushed']
                    /\ next' = IF head # Nil THEN [next EXCEPT ![n] = Nil, ![tail] = n]
                                             ELSE [next EXCEPT ![n] = Nil]
                    /\ head' = IF head = Nil THEN n ELSE head
                    /\ tail' = n

PopLinked == /\ kind = "linked" /\ head # Nil
             /\ taken' = taken \cup {data[head]}
             /\ head' = next[head]
             /\ UNCHANGED <<kind, tail, next, data, pushed>>

\* Both the dummy and the node that becomes the dummy get the value.
PushDummy == /\ kind = "dummy" /\ Draw
             /\ \E n \in Nodes :
                   /\ NewNode(n)
                   /\ data' = [data EXCEPT ![n] = pushed', ![tail] = pushed']
                   /\ next' = [next EXCEPT ![n] = Nil, ![tail] = n]
                   /\ tail' = n
             /\ UNCHANGED head

PopDummy == /\ kind = "dummy" /\ head # tail
            /\ taken' = taken \cup {data[head]}
            /\ head' = next[head]
            /\ UNCHANGED <<kind, tail, next, data, pushed>>

PushRing == /\ kind = "ring" /\ Draw
            /\ (tail + 1) % Capacity # head
            /\ data' = [data EXCEPT ![tail] = pushed']
            /\ tail' = (tail + 1) % Capacity
            /\ UNCHANGED <<head, next>>

PopRing == /\ kind = "ring" /\ head # tail
           /\ taken' = taken \cup {data[head]}
           /\ head' = (head + 1) % Capacity
           /\ UNCHANGED <<kind, tail, next, data, pushed>>

Drained == pushed = Items /\ Cardinality(taken) = Items

Next == \/ PushLinked \/ PopLinked \/ PushDummy \/ PopDummy \/ PushRing \/ PopRing
        \/ Drained /\ UNCHANGED vars

Spec == Init /\ [][Next]_vars

-----------------------------------------------------------------------------
\* count() and to_vector() of the ring
Count == (tail - head + Capacity) % Capacity

\* The elements, in the order in which pop hands them out.
Elements == CASE kind = "linked" -> [i \in 1 .. Len(Chain(head)) |-> data[Chain(head)[i]]]
              [] kind = "dummy" -> [i \in 1 .. Len(Chain(head)) - 1 |-> data[Chain(head)[i]]]
              [] kind = "ring" -> [i \in 1 .. Count |-> data[(head + i - 1) % Capacity]]
=============================================================================
