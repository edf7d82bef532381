-------------------------------- MODULE Stages --------------------------------
(***************************************************************************)
(* What a barrier promises: a thread that has arrived for the k-th time    *)
(* goes on only when all the threads have arrived for the k-th time.       *)
(***************************************************************************)
EXTENDS Naturals

CONSTANT Threads

VARIABLES arrived,      \* how often each thread has arrived
          passed        \* how often it has gone on

vars == <<arrived, passed>>

Init == arrived = [t \in Threads |-> 0] /\ passed = [t \in Threads |-> 0]

Arrive(t) == /\ arrived[t] = passed[t]
             /\ arrived' = [arrived EXCEPT ![t] = @ + 1]
             /\ UNCHANGED passed

Pass(t) == /\ passed[t] < arrived[t]
           /\ \A u \in Threads : arrived[u] >= arrived[t]
           /\ passed' = [passed EXCEPT ![t] = @ + 1]
           /\ UNCHANGED arrived

\* The thread that completes a stage arrives and passes at once.
ArriveLast(t) == /\ arrived[t] = passed[t]
                 /\ \A u \in Threads \ {t} : arrived[u] > arrived[t]
                 /\ arrived' = [arrived EXCEPT ![t] = @ + 1]
                 /\ passed' = [passed EXCEPT ![t] = @ + 1]

Next == \E t \in Threads : Arrive(t) \/ Pass(t) \/ ArriveLast(t)

Spec == Init /\ [][Next]_vars
=============================================================================
