----------------------------- MODULE TicketLock ------------------------------
(***************************************************************************)
(* The program of lockfree/test_lock.cpp with lockfree/ticketlock.h: main  *)
(* starts one work_thread per cpu, each increments the plain int `data`    *)
(* `Loops` times under a lock_guard, main waits for all the futures and    *)
(* asserts that no increment was lost.  `++data` is a load and a store of  *)
(* an ordinary int, so it is two steps here.  The program comes first, for *)
(* any lock; TestLock runs it with a second one.                           *)
(*                                                                         *)
(* Both counters of ticketlock are std::atomic<unsigned> and wrap at Mod   *)
(* (2^32 in the program).                                                  *)
(*                                                                         *)
(* pc: "take"   about to do ticket_.fetch_add                              *)
(*     "spin"   in the while loop of lock()                                *)
(*     "load", "store"   the critical section, ++data                      *)
(*     "unlock" about to load turn_; "pass" about to store turn_ + 1       *)
(* A load that does not end the spin changes nothing and is a stutter.     *)
(***************************************************************************)
EXTENDS Integers, FiniteSets

CONSTANTS Threads,      \* the worker threads, one per cpu
          Loops,        \* iterations of each worker
          Mod           \* number of values of an unsigned

ASSUME ThreadsAssumption == IsFiniteSet(Threads)
ASSUME LoopsAssumption == Loops \in Nat \ {0}

\* A ticket number identifies a thread only while there are fewer threads than
\* numbers.
ASSUME ModAssumption == Mod \in Nat /\ Cardinality(Threads) < Mod

VARIABLES pc,           \* the next step of each worker
          i,            \* its loop counter
          tmp,          \* its register in ++data
          data,         \* the shared counter
          main          \* "waiting" for the futures, or "passed"

clientVars == <<pc, i, tmp, data, main>>

Goto(t, from, to) == pc[t] = from /\ pc' = [pc EXCEPT ![t] = to]

ClientInit(first) == /\ pc = [t \in Threads |-> first]
                     /\ i = [t \in Threads |-> 0]
                     /\ tmp = [t \in Threads |-> 0]
                     /\ data = 0
                     /\ main = "waiting"

\* ++data, first half: the old value is loaded.
LoadData(t) == /\ Goto(t, "load", "store")
               /\ tmp' = [tmp EXCEPT ![t] = data]
               /\ UNCHANGED <<i, data, main>>

\* ++data, second half: the new value is stored.
StoreData(t) == /\ Goto(t, "store", "unlock")
                /\ data' = tmp[t] + 1
                /\ UNCHANGED <<i, tmp, main>>

\* A faulty variant: for(i = 0; i <= loops; ++i).
NextIterationOneMore(t, from, first) ==
    /\ i' = [i EXCEPT ![t] = @ + 1]
    /\ Goto(t, from, IF i[t] < Loops THEN first ELSE "done")

\* The end of an iteration; the guard's destructor runs unlock() from `from`.
NextIteration(t, from, first) ==
    /\ i' = [i EXCEPT ![t] = @ + 1]
    /\ Goto(t, from, IF i[t] + 1 < Loops THEN first ELSE "done")

\* test_lock(): all futures are ready, the assertion is evaluated and data is
\* reset for the next lock type.
Join == /\ main = "waiting"
        /\ \A t \in Threads : pc[t] = "done"
        /\ main' = "passed"
        /\ data' = 0
        /\ UNCHANGED <<pc, i, tmp>>

\* The program has ended.
Terminated == main = "passed" /\ UNCHANGED clientVars

-----------------------------------------------------------------------------
VARIABLES turn,         \* turn_
          ticket,       \* ticket_
          me,           \* the local me of lock()
          newTurn       \* the local new_turn of unlock()

lockVars == <<turn, ticket, me, newTurn>>
vars == <<clientVars, lockVars>>

\* A faulty variant: a counter wider than an unsigned.
IncWide(n) == n + 1

\* Unsigned addition of one.
Inc(n) == IF n = Mod - 1 THEN 0 ELSE n + 1

Init == /\ ClientInit("take")
        /\ turn = 0
        /\ ticket = 0
        /\ me = [t \in Threads |-> 0]
        /\ newTurn = [t \in Threads |-> 0]

\* lock(): me = ticket_.fetch_add(1)
TakeTicket(t) == /\ Goto(t, "take", "spin")
                 /\ me' = [me EXCEPT ![t] = ticket]
                 /\ ticket' = Inc(ticket)
                 /\ UNCHANGED <<i, tmp, data, main, turn, newTurn>>

\* A faulty variant: while(me > turn_), wrong as soon as a counter has wrapped.
EnterUnlessAhead(t) == /\ me[t] <= turn
                       /\ Goto(t, "spin", "load")
                       /\ UNCHANGED <<i, tmp, data, main, lockVars>>

\* lock(): the load of turn_ that finds me
Enter(t) == /\ me[t] = turn
            /\ Goto(t, "spin", "load")
            /\ UNCHANGED <<i, tmp, data, main, lockVars>>

\* unlock(): new_turn = turn_.load()
LoadTurn(t) == /\ Goto(t, "unlock", "pass")
               /\ newTurn' = [newTurn EXCEPT ![t] = turn]
               /\ UNCHANGED <<i, tmp, data, main, turn, ticket, me>>

\* A faulty variant: the next number is not called.
PassTurnKeeps(t) == /\ NextIteration(t, "pass", "take")
                    /\ turn' = newTurn[t]
                    /\ UNCHANGED <<tmp, data, main, ticket, me, newTurn>>

\* unlock(): turn_.store(new_turn + 1)
PassTurn(t) == /\ NextIteration(t, "pass", "take")
               /\ turn' = Inc(newTurn[t])
               /\ UNCHANGED <<tmp, data, main, ticket, me, newTurn>>

Step(t) == \/ TakeTicket(t)
           \/ Enter(t)
           \/ LoadData(t) /\ UNCHANGED lockVars
           \/ StoreData(t) /\ UNCHANGED lockVars
           \/ LoadTurn(t)
           \/ PassTurn(t)

Next == \/ \E t \in Threads : Step(t)
        \/ Join /\ UNCHANGED lockVars
        \/ Terminated /\ UNCHANGED lockVars

Spec == Init /\ [][Next]_vars

-----------------------------------------------------------------------------
TypeOK ==
    /\ pc \in [Threads -> {"take", "spin", "load", "store", "unlock", "pass", "done"}]
    /\ i \in [Threads -> 0..Loops]
    /\ tmp \in [Threads -> Nat]
    /\ data \in Nat
    /\ main \in {"waiting", "passed"}
    /\ turn \in 0..(Mod - 1)
    /\ ticket \in 0..(Mod - 1)
    /\ me \in [Threads -> 0..(Mod - 1)]
    /\ newTurn \in [Threads -> 0..(Mod - 1)]

Holding(t) == pc[t] \in {"load", "store", "unlock", "pass"}

\* ticketlock is a mutex: two work_threads are never both between the end of
\* lock() and the store that ends unlock(), also after the counters wrapped.
MutualExclusion ==
    \A t, u \in Threads : Holding(t) /\ Holding(u) => t = u

\* test_lock.cpp asserts data == loops * cpus once every future is ready: no
\* increment is lost, whatever the interleaving of loads and stores.
NoLostUpdate ==
    main = "waiting" /\ (\A t \in Threads : pc[t] = "done")
        => data = Loops * Cardinality(Threads)

\* What the lock has to guarantee for that: between the load and the store of
\* one ++data no other thread changes data.
NoStaleStore == \A t \in Threads : pc[t] = "store" => tmp[t] = data

-----------------------------------------------------------------------------
\* The length of the circular interval from a up to b: the number of threads
\* that are served between ticket a and ticket b.
Dist(a, b) == IF b >= a THEN b - a ELSE b - a + Mod

\* The FIFO queue of the lock, read off the tickets.
Spinning == {t \in Threads : pc[t] = "spin"}
Order == {p \in Spinning \X Spinning : Dist(turn, me[p[1]]) < Dist(turn, me[p[2]])}

Fifo == INSTANCE FifoMutex WITH waiting <- Spinning, before <- Order,
                                owner <- {t \in Threads : Holding(t)}
=============================================================================
