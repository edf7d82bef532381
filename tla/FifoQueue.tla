------------------------------ MODULE FifoQueue ------------------------------
(***************************************************************************)
(* What every queue of data_struct/ promises: a value that is pushed is    *)
(* handed out once, in the order of the pushes.                            *)
(***************************************************************************)
EXTENDS Naturals, Sequences

CONSTANT Values

VARIABLES q,            \* the elements, oldest first
          taken         \* the values handed out

vars == <<q, taken>>

Init == q = <<>> /\ taken = {}

Push(v) == /\ v \notin taken
           /\ \A i \in 1 .. Len(q) : q[i] # v
           /\ q' = Append(q, v)
           /\ UNCHANGED taken

Pop == /\ q # <<>>
       /\ q' = Tail(q)
       /\ taken' = taken \cup {Head(q)}

Next == Pop \/ \E v \in Values : Push(v)

Spec == Init /\ [][Next]_vars
=============================================================================
