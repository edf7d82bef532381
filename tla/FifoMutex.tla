------------------------------ MODULE FifoMutex ------------------------------
(***************************************************************************)
(* What the comment on ticketlock promises ("first come, first served,     *)
(* no thread starves"): a lock that is granted in the order of arrival.    *)
(* The order is kept as a relation, so that no sequence is needed.         *)
(***************************************************************************)
CONSTANT Threads

VARIABLES waiting,      \* the threads that have arrived and do not own the lock
          before,       \* the pairs of them in order of arrival
          owner         \* the set of the thread that owns the lock, or {}

vars == <<waiting, before, owner>>

Init == waiting = {} /\ before = {} /\ owner = {}

Arrive(t) == /\ t \notin waiting \cup owner
             /\ waiting' = waiting \cup {t}
             /\ before' = before \cup (waiting \X {t})
             /\ UNCHANGED owner

Grant(t) == /\ owner = {}
            /\ t \in waiting
            /\ \A u \in waiting : <<u, t>> \notin before
            /\ owner' = {t}
            /\ waiting' = waiting \ {t}
            /\ before' = {p \in before : p[1] # t /\ p[2] # t}

Release(t) == /\ owner = {t}
              /\ owner' = {}
              /\ UNCHANGED <<waiting, before>>

Next == \E t \in Threads : Arrive(t) \/ Grant(t) \/ Release(t)

Spec == Init /\ [][Next]_vars

\* Owners release, and a free lock with somebody waiting is granted.
FairSpec == /\ Spec
            /\ \A t \in Threads : WF_vars(Grant(t)) /\ WF_vars(Release(t))
=============================================================================
