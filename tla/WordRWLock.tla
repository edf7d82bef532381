------------------------------ MODULE WordRWLock ------------------------------
(***************************************************************************)
(* The locks without a mutex in the benchmark RWBench: the two of          *)
(* atomic/rwlock.cpp and the atomic_rwlock of                              *)
(* condition_variable/cv_rwlock.cpp.                                       *)
(*                                                                         *)
(* rwlock: readers and writers compare_exchange one counter.  A reader     *)
(* that finds the writer's -1 loads again, and so does one whose           *)
(* compare_exchange has failed.                                            *)
(*                                                                         *)
(* atomic_rwlock: the same counter, but lock_shared() does not test for    *)
(* the writer's -1, nor does it load a second time.                        *)
(*                                                                         *)
(* ticketlock: readers and writers alike hold it exclusively.  The         *)
(* counters are atomic ints; fetch_add wraps them, and new_turn + 1 is     *)
(* taken to wrap too.                                                      *)
(***************************************************************************)
EXTENDS RWBench

CONSTANT Mod            \* number of values of an int

VARIABLES count,        \* count_
          expected,     \* the local `expected` of a reader in read_lock or
                        \* lock_shared, 0 outside the loop that uses it
          turn, ticket, \* turn_, ticket_
          me            \* the locals me and new_turn: a thread uses one at a
                        \* time, and has none in the other places (0)

wordVars == <<count, expected>>
ticketVars == <<turn, ticket, me>>

-----------------------------------------------------------------------------
WordInit == BenchInit /\ count = 0 /\ expected = [r \in Readers |-> 0]

\* compare_exchange_weak(0, -1); a failed attempt changes nothing.
Lock(w) == /\ count = 0
           /\ Goto(w, "lock", "inside")
           /\ count' = -1
           /\ UNCHANGED <<number, expected>>

Unlock(w) == /\ Goto(w, "inside", "left")
             /\ count' = 0
             /\ UNCHANGED <<number, expected>>

\* lock_shared() of atomic_rwlock: no test for the writer.  In rwlock this would be
\* a faulty variant of LoadCount.
LoadCountBlind(r) == /\ Goto(r, "lock", "cas")
                     /\ expected' = [expected EXCEPT ![r] = count]
                     /\ UNCHANGED <<number, count>>

LoadCount(r) == /\ count >= 0
                /\ Goto(r, "lock", "cas")
                /\ expected' = [expected EXCEPT ![r] = count]
                /\ UNCHANGED <<number, count>>

LockShared(r) == /\ count = expected[r]
                 /\ Goto(r, "cas", "inside")
                 /\ count' = expected[r] + 1
                 /\ expected' = [expected EXCEPT ![r] = 0]
                 /\ UNCHANGED number

\* The exchange fails, perhaps without a reason.
CasFails(r) == /\ Goto(r, "cas", "lock")
               /\ expected' = [expected EXCEPT ![r] = 0]
               /\ UNCHANGED <<number, count>>

UnlockShared(r) == /\ Goto(r, "inside", "left")
                   /\ count' = count - 1
                   /\ UNCHANGED <<number, expected>>

CasSucceeds(t) == (t \in Writers /\ Lock(t)) \/ (t \in Readers /\ LockShared(t))

WordStep(t) == \/ BenchStep(t) /\ UNCHANGED wordVars
               \/ CasSucceeds(t)
               \/ t \in Writers /\ Unlock(t)
               \/ t \in Readers /\ (LoadCount(t) \/ CasFails(t) \/ UnlockShared(t))

-----------------------------------------------------------------------------
TicketInit == BenchInit /\ turn = 0 /\ ticket = 0 /\ me = [t \in Threads |-> 0]

TakeTicket(t) == /\ Goto(t, "lock", "spin")
                 /\ me' = [me EXCEPT ![t] = ticket]
                 /\ ticket' = (ticket + 1) % Mod
                 /\ UNCHANGED <<number, turn>>

Enter(t) == /\ me[t] = turn
            /\ Goto(t, "spin", "inside")
            /\ me' = [me EXCEPT ![t] = 0]
            /\ UNCHANGED <<number, turn, ticket>>

LoadTurn(t) == /\ Goto(t, "inside", "pass")
               /\ me' = [me EXCEPT ![t] = turn]
               /\ UNCHANGED <<number, turn, ticket>>

PassTurn(t) == /\ Goto(t, "pass", "left")
               /\ turn' = (me[t] + 1) % Mod
               /\ me' = [me EXCEPT ![t] = 0]
               /\ UNCHANGED <<number, ticket>>

TicketStep(t) == \/ BenchStep(t) /\ UNCHANGED ticketVars
                 \/ TakeTicket(t) \/ Enter(t) \/ LoadTurn(t) \/ PassTurn(t)

-----------------------------------------------------------------------------
AtomicInit == WordInit /\ TicketInit

\* The exchange of lock_shared() writes what it found into `expected`.
CasReloads(r) == /\ pc[r] = "cas" /\ count # expected[r]
                 /\ expected' = [expected EXCEPT ![r] = count]
                 /\ UNCHANGED <<benchVars, count>>

AtomicStep(t) ==
    /\ \/ BenchStep(t) /\ UNCHANGED wordVars
       \/ CasSucceeds(t)
       \/ t \in Writers /\ Unlock(t)
       \/ t \in Readers /\ (LoadCountBlind(t) \/ CasReloads(t) \/ UnlockShared(t))
    /\ UNCHANGED ticketVars

AtomicNext == \/ \E t \in Threads : AtomicStep(t)
              \/ Terminated /\ UNCHANGED <<wordVars, ticketVars>>

AtomicSpec == AtomicInit /\ [][AtomicNext]_<<benchVars, wordVars, ticketVars>>

\* The comment on count_ of atomic_rwlock: "-1 when W lock held, > 0 when R locks
\* held."  The code breaks it: a reader turns the writer's -1 into 0 and is in.
WordMeansHolders == /\ WritersInside # {} => count = -1
                    /\ ReadersInside # {} => count > 0
=============================================================================
