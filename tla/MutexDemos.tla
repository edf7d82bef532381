------------------------------ MODULE MutexDemos ------------------------------
(***************************************************************************)
(* The two programs of mutex/ that take two mutexes.                       *)
(*                                                                         *)
(* dead_lock.cpp: thread 1 locks mutexa and then mutexb, thread 2 mutexb   *)
(* and then mutexa, and thread 3 tries to lock both in the order of thread *)
(* 1, each for 30 seconds.                                                 *)
(*                                                                         *)
(* unique_lock.cpp: every thread increments a under m_a and then moves     *)
(* <<b, c>> one Fibonacci number on, under m_b and m_c, which it gets with *)
(* std::lock.                                                              *)
(***************************************************************************)
EXTENDS Integers, Sequences, FiniteSets

CONSTANT Threads        \* of unique_lock.cpp

VARIABLES held,         \* how many mutexes each thread of dead_lock.cpp has got
          phase,        \* "run" or "done"
          owner,        \* the thread that holds each mutex, or 0
          pc, a, b, c,
          tmp,          \* the local tmp of each thread of unique_lock.cpp
          ownerB, ownerC \* who holds m_b and m_c; 0 if nobody

deadVars == <<held, phase, owner>>
uniqueVars == <<pc, a, b, c, tmp, ownerB, ownerC>>

-----------------------------------------------------------------------------
Order == <<<<"a", "b">>, <<"b", "a">>, <<"a", "b">>>>

DeadInit == /\ held = [t \in 1 .. 3 |-> 0]
            /\ phase = [t \in 1 .. 3 |-> "run"]
            /\ owner = [x \in {"a", "b"} |-> 0]

\* The constructor of the next lock_guard or unique_lock
Acquire(t) == /\ phase[t] = "run" /\ held[t] < 2
              /\ LET x == Order[t][held[t] + 1] IN
                     owner[x] = 0 /\ owner' = [owner EXCEPT ![x] = t]
              /\ held' = [held EXCEPT ![t] = @ + 1]
              /\ UNCHANGED <<phase, uniqueVars>>

\* The locks are released at the end of the scope.
Return(t) == /\ phase' = [phase EXCEPT ![t] = "done"]
             /\ owner' = [x \in {"a", "b"} |-> IF owner[x] = t THEN 0 ELSE owner[x]]
             /\ UNCHANGED <<held, uniqueVars>>

\* unique_lock gives up after 30 seconds, and thread 3 returns without the lock.
Timeout == phase[3] = "run" /\ held[3] < 2 /\ Return(3)

Finish(t) == phase[t] = "run" /\ held[t] = 2 /\ Return(t)

DeadStep(t) == Acquire(t) \/ Finish(t)

DeadEnded == \A t \in 1 .. 3 : phase[t] = "done"
Crosswise == owner["a"] = 1 /\ owner["b"] = 2

-----------------------------------------------------------------------------
Goto(t, from, to) == /\ pc[t] = from /\ pc' = [pc EXCEPT ![t] = to]
                     /\ UNCHANGED deadVars

UniqueInit == /\ pc = [t \in Threads |-> "inc"]
              /\ a = 0 /\ b = 0 /\ c = 1
              /\ tmp = [t \in Threads |-> 0]
              /\ ownerB = 0 /\ ownerC = 0

Inc(t) == /\ Goto(t, "inc", "lock")
          /\ a' = a + 1
          /\ UNCHANGED <<b, c, tmp, ownerB, ownerC>>

\* std::lock gets both mutexes or none that it keeps.
LockBoth(t) == /\ Goto(t, "lock", "load")
               /\ ownerB = 0 /\ ownerC = 0
               /\ ownerB' = t /\ ownerC' = t
               /\ UNCHANGED <<a, b, c, tmp>>

Load(t) == /\ Goto(t, "load", "add")
           /\ tmp' = [tmp EXCEPT ![t] = c]
           /\ UNCHANGED <<a, b, c, ownerB, ownerC>>

\* A faulty variant: the locks do not span the store.
AddAndUnlock(t) == /\ Goto(t, "add", "store")
                   /\ c' = b + c
                   /\ ownerB' = 0 /\ ownerC' = 0
                   /\ UNCHANGED <<a, b, tmp>>

Add(t) == /\ Goto(t, "add", "store")
          /\ c' = b + c
          /\ UNCHANGED <<a, b, tmp, ownerB, ownerC>>

Store(t) == /\ Goto(t, "store", "done")
            /\ b' = tmp[t]
            /\ ownerB' = 0 /\ ownerC' = 0
            /\ UNCHANGED <<a, c, tmp>>

UniqueStep(t) == Inc(t) \/ LockBoth(t) \/ Load(t) \/ Add(t) \/ Store(t)

UniqueEnded == \A t \in Threads : pc[t] = "done"

Fib[n \in Nat] == IF n <= 1 THEN n ELSE Fib[n - 1] + Fib[n - 2]

\* What main prints: the a-th and the next Fibonacci number, with a the number of
\* threads, whatever the order in which they got the locks.
PrintsFibonacci == UniqueEnded => /\ a = Cardinality(Threads)
                                  /\ b = Fib[a] /\ c = Fib[a + 1]
=============================================================================
