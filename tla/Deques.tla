-------------------------------- MODULE Deques --------------------------------
(***************************************************************************)
(* What list.h promises: sequences of nodes that are pushed at the back,   *)
(* popped at both ends and removed from anywhere.  A node is in one list   *)
(* or in the hands of the caller, who may push it again.                   *)
(***************************************************************************)
EXTENDS Naturals, Sequences

CONSTANTS Lists, Nodes

VARIABLES q,            \* the nodes of each list, in order
          held          \* the nodes that have been taken out

vars == <<q, held>>

InList(n) == \E l \in Lists : \E i \in 1 .. Len(q[l]) : q[l][i] = n

Init == q = [l \in Lists |-> <<>>] /\ held = {}

PushBack(l, n) == /\ ~InList(n)
                  /\ q' = [q EXCEPT ![l] = Append(@, n)]
                  /\ held' = held \ {n}

Without(s, i) == SubSeq(s, 1, i - 1) \o SubSeq(s, i + 1, Len(s))

Remove(l) == \E i \in 1 .. Len(q[l]) : /\ q' = [q EXCEPT ![l] = Without(@, i)]
                                       /\ held' = held \cup {q[l][i]}

Clear(l) == q' = [q EXCEPT ![l] = <<>>] /\ UNCHANGED held

Next == \E l \in Lists : Remove(l) \/ Clear(l) \/ \E n \in Nodes : PushBack(l, n)

Spec == Init /\ [][Next]_vars
=============================================================================
