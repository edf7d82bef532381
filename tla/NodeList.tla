------------------------------- MODULE NodeList -------------------------------
(***************************************************************************)
(* data_struct/list.h: a doubly linked list that hands its nodes out and   *)
(* takes them back, as the rehash of threadsafe_lookup_table2 does to move *)
(* them to another bucket.  The operations run one at a time, in any       *)
(* order, on several lists; test_list.cpp goes through some of the orders. *)
(***************************************************************************)
EXTENDS Integers, Sequences, FiniteSets

CONSTANTS Lists,        \* the list objects
          Nodes,        \* the addresses that new can return
          Values        \* the data

VARIABLES head, tail,   \* head_, tail_ of each list
          next, prev, data, \* the members of each node
          alive,        \* the nodes that exist
          held          \* the nodes that an operation has returned or cut out

vars == <<head, tail, next, prev, data, alive, held>>

Nil == -1

Init == /\ head = [l \in Lists |-> Nil] /\ tail = [l \in Lists |-> Nil]
        /\ next = [n \in Nodes |-> Nil] /\ prev = [n \in Nodes |-> Nil]
        /\ data = [n \in Nodes |-> Nil]
        /\ alive = {} /\ held = {}

\* The nodes from head_ on, as find, dump and the destructor meet them.
Chain(l) == LET from[k \in 0 .. Cardinality(Nodes)] ==
                    [n \in Nodes \cup {Nil} |->
                        IF k = 0 \/ n = Nil THEN <<>> ELSE <<n>> \o from[k - 1][next[n]]]
            IN  from[Cardinality(Nodes)][head[l]]

\* push_back(node*): the links of n itself are only touched if there is a tail.
Attach(l, n) == IF tail[l] = Nil
                THEN /\ head' = [head EXCEPT ![l] = n]
                     /\ UNCHANGED <<next, prev>>
                ELSE /\ next' = [next EXCEPT ![tail[l]] = n]
                     /\ prev' = [prev EXCEPT ![n] = tail[l]]
                     /\ UNCHANGED head

PushBack(l, d) == \E n \in Nodes \ alive : /\ \A m \in Nodes \ alive : n <= m
                                           /\ alive' = alive \cup {n}
                                           /\ data' = [data EXCEPT ![n] = d]
                                           /\ Attach(l, n)
                                           /\ tail' = [tail EXCEPT ![l] = n]
                                           /\ UNCHANGED held

PushBackNode(l, n) == /\ n \in held
                      /\ held' = held \ {n}
                      /\ Attach(l, n)
                      /\ tail' = [tail EXCEPT ![l] = n]
                      /\ UNCHANGED <<data, alive>>

\* A faulty variant: tail_ keeps pointing to the last node of a list that has
\* become empty.
PopFrontKeepsTail(l) == LET n == head[l] IN
    /\ n # Nil
    /\ head' = [head EXCEPT ![l] = next[n]]
    /\ next' = [next EXCEPT ![n] = Nil]
    /\ prev' = [m \in Nodes |-> IF m \in {n, next[n]} THEN Nil ELSE prev[m]]
    /\ held' = held \cup {n}
    /\ UNCHANGED <<tail, data, alive>>

\* A faulty variant: the node that is handed out still points to the rest.
PopFrontKeepsNext(l) == LET n == head[l] IN
    /\ n # Nil
    /\ head' = [head EXCEPT ![l] = next[n]]
    /\ tail' = IF next[n] = Nil THEN [tail EXCEPT ![l] = Nil] ELSE tail
    /\ prev' = [m \in Nodes |-> IF m \in {n, next[n]} THEN Nil ELSE prev[m]]
    /\ held' = held \cup {n}
    /\ UNCHANGED <<next, data, alive>>

PopFront(l) == LET n == head[l] IN
    /\ n # Nil
    /\ head' = [head EXCEPT ![l] = next[n]]
    /\ tail' = IF next[n] = Nil THEN [tail EXCEPT ![l] = Nil] ELSE tail
    /\ next' = [next EXCEPT ![n] = Nil]
    /\ prev' = [m \in Nodes |-> IF m \in {n, next[n]} THEN Nil ELSE prev[m]]
    /\ held' = held \cup {n}
    /\ UNCHANGED <<data, alive>>

PopBack(l) == LET n == tail[l] IN
    /\ n # Nil
    /\ tail' = [tail EXCEPT ![l] = prev[n]]
    /\ head' = IF prev[n] = Nil THEN [head EXCEPT ![l] = Nil] ELSE head
    /\ next' = [m \in Nodes |-> IF m \in {n, prev[n]} THEN Nil ELSE next[m]]
    /\ prev' = [prev EXCEPT ![n] = Nil]
    /\ held' = held \cup {n}
    /\ UNCHANGED <<data, alive>>

\* erase() of a node that is neither the first nor the last
Cut(l, n) == /\ next' = [next EXCEPT ![prev[n]] = next[n], ![n] = Nil]
             /\ prev' = [prev EXCEPT ![next[n]] = prev[n], ![n] = Nil]
             /\ held' = held \cup {n}
             /\ UNCHANGED <<head, tail, data, alive>>

\* find(d): the first node with the value.
Find(l, d) == {n \in Nodes : \E i \in 1 .. Len(Chain(l)) :
                  /\ Chain(l)[i] = n /\ data[n] = d
                  /\ \A j \in 1 .. i - 1 : data[Chain(l)[j]] # d}

\* erase(find(d)), for a value that is found; the node is not deleted.
Erase(l, d) == \E n \in Find(l, d) : \/ n = head[l] /\ PopFront(l)
                                     \/ n # head[l] /\ n = tail[l] /\ PopBack(l)
                                     \/ n # head[l] /\ n # tail[l] /\ Cut(l, n)

\* The destructor deletes the nodes; a new list takes the place of the old one.
Destroy(l) == LET gone == {Chain(l)[i] : i \in 1 .. Len(Chain(l))} IN
    /\ head[l] # Nil
    /\ head' = [head EXCEPT ![l] = Nil] /\ tail' = [tail EXCEPT ![l] = Nil]
    /\ alive' = alive \ gone
    /\ next' = [n \in Nodes |-> IF n \in gone THEN Nil ELSE next[n]]
    /\ prev' = [n \in Nodes |-> IF n \in gone THEN Nil ELSE prev[n]]
    /\ data' = [n \in Nodes |-> IF n \in gone THEN Nil ELSE data[n]]
    /\ UNCHANGED held

Next == \E l \in Lists : \/ PopFront(l) \/ PopBack(l) \/ Destroy(l)
                         \/ \E d \in Values : PushBack(l, d) \/ Erase(l, d)
                         \/ \E n \in Nodes : PushBackNode(l, n)

Spec == Init /\ [][Next]_vars

-----------------------------------------------------------------------------
Backward(l) == LET from[k \in 0 .. Cardinality(Nodes)] ==
                       [n \in Nodes \cup {Nil} |->
                           IF k = 0 \/ n = Nil THEN <<>> ELSE from[k - 1][prev[n]] \o <<n>>]
               IN  from[Cardinality(Nodes)][tail[l]]

\* A list reads the same in both directions, a node is in one list or with the
\* caller, and those with the caller are unlinked, so that they can be pushed to
\* another list.
LinksMirror == /\ \A l \in Lists : Chain(l) = Backward(l)
               /\ \A n \in held : next[n] = Nil /\ prev[n] = Nil
               /\ \A n \in alive : \/ n \in held
                                   \/ \E l \in Lists : \E i \in 1 .. Len(Chain(l)) : Chain(l)[i] = n
=============================================================================
