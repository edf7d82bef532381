------------------------------- MODULE IoMutex --------------------------------
(***************************************************************************)
(* atomic/atomic_flag.cpp, atomic_bool.cpp and atomic_int.cpp: every       *)
(* work_thread prints Loops lines under iomutex, main waits for the        *)
(* futures and prints one line per thread without a lock.  The shared data *)
(* is the output: a line leaves a thread in several insertions, of which   *)
(* the first and the last are modelled.  The lock is a test_and_set        *)
(* spinlock, a compare_exchange_weak spinlock or a ticketlock, whose       *)
(* counters are signed and are never near their limit here; the initial    *)
(* state picks the program.                                                *)
(***************************************************************************)
EXTENDS Integers, Sequences, FiniteSets

CONSTANTS Threads,      \* the work_threads
          Loops         \* lines printed by each

VARIABLES program,      \* which of the three
          pc, i,        \* next step and loop counter of each thread
          out,          \* the insertions into std::cout: <<thread, line, part>>
          lock,         \* lock_, of atomic_flag and of atomic_bool
          expected,     \* the local `expected` of each lock(), atomic_bool
          turn, ticket, \* turn_ and ticket_, atomic_int
          me, newTurn   \* the locals of lock() and unlock(), atomic_int

flagVars == <<lock, expected>>
ticketVars == <<turn, ticket, me, newTurn>>
printVars == <<pc, i, out>>
vars == <<printVars, program, flagVars, ticketVars>>

Goto(t, from, to) == pc[t] = from /\ pc' = [pc EXCEPT ![t] = to]

PrintInit == /\ pc = [t \in Threads |-> "lock"]
             /\ i = [t \in Threads |-> 0]
             /\ out = <<>>

\* The first and the last insertion of one line.
BeginLine(t) == /\ Goto(t, "begin", "end")
                /\ out' = Append(out, <<t, i[t], "begin">>)
                /\ UNCHANGED i

EndLine(t) == /\ Goto(t, "end", "unlock")
              /\ out' = Append(out, <<t, i[t], "end">>)
              /\ UNCHANGED i

\* The end of an iteration; the guard's destructor has run unlock() from `from`.
NextLine(t, from) == /\ Goto(t, from, IF i[t] + 1 < Loops THEN "lock" ELSE "done")
                     /\ i' = [i EXCEPT ![t] = @ + 1]
                     /\ UNCHANGED out

\* main's lines, one after the other when all the futures are ready
MainPrinted == \E k \in 1..Len(out) : out[k][1] = "main"
MainPrints == /\ \A t \in Threads : pc[t] = "done"
              /\ ~MainPrinted
              /\ out' = out \o << <<"main", 0, "begin">>, <<"main", 0, "end">> >>
              /\ UNCHANGED <<pc, i>>

-----------------------------------------------------------------------------
Init == /\ PrintInit
        /\ program \in {"atomic_flag", "atomic_bool", "atomic_int"}
        /\ lock = FALSE
        /\ expected = [t \in Threads |-> FALSE]
        /\ turn = 0 /\ ticket = 0
        /\ me = [t \in Threads |-> 0]
        /\ newTurn = [t \in Threads |-> 0]

\* atomic_flag: the test_and_set that returns false; the others are stutters.
TestAndSet(t) == /\ ~lock /\ lock' = TRUE
                 /\ Goto(t, "lock", "begin")
                 /\ UNCHANGED <<i, out, expected, ticketVars>>

\* atomic_flag: clear(); atomic_bool: store(false)
Clear(t) == /\ NextLine(t, "unlock")
            /\ lock' = FALSE
            /\ UNCHANGED <<expected, ticketVars>>

\* bool expected = false;
Call(t) == /\ Goto(t, "lock", "cas")
           /\ expected' = [expected EXCEPT ![t] = FALSE]
           /\ UNCHANGED <<i, out, lock, ticketVars>>

\* compare_exchange_weak(expected, true) succeeds
CasSucceeds(t) == /\ lock = expected[t]
                  /\ lock' = TRUE
                  /\ Goto(t, "cas", "begin")
                  /\ UNCHANGED <<i, out, expected, ticketVars>>

\* It fails, because the values differ or spuriously: expected gets the value.
CasFails(t) == /\ Goto(t, "cas", "reset")
               /\ expected' = [expected EXCEPT ![t] = lock]
               /\ UNCHANGED <<i, out, lock, ticketVars>>

\* A faulty variant: the loop body is empty.
ResetForgotten(t) == /\ Goto(t, "reset", "cas")
                     /\ UNCHANGED <<i, out, flagVars, ticketVars>>

\* The loop body: expected = false
Reset(t) == /\ Goto(t, "reset", "cas")
            /\ expected' = [expected EXCEPT ![t] = FALSE]
            /\ UNCHANGED <<i, out, lock, ticketVars>>

\* atomic_int: me = ticket_.fetch_add(1)
TakeTicket(t) == /\ Goto(t, "lock", "spin")
                 /\ me' = [me EXCEPT ![t] = ticket]
                 /\ ticket' = ticket + 1
                 /\ UNCHANGED <<i, out, flagVars, turn, newTurn>>

Enter(t) == /\ me[t] = turn
            /\ Goto(t, "spin", "begin")
            /\ UNCHANGED <<i, out, flagVars, ticketVars>>

\* atomic_int: new_turn = turn_.load()
LoadTurn(t) == /\ Goto(t, "unlock", "pass")
               /\ newTurn' = [newTurn EXCEPT ![t] = turn]
               /\ UNCHANGED <<i, out, flagVars, turn, ticket, me>>

\* A faulty variant: the turn goes to the next ticket to be drawn.
PassTurnToLast(t) == /\ NextLine(t, "pass")
                     /\ turn' = ticket
                     /\ UNCHANGED <<flagVars, ticket, me, newTurn>>

\* atomic_int: turn_.store(new_turn + 1)
PassTurn(t) == /\ NextLine(t, "pass")
               /\ turn' = newTurn[t] + 1
               /\ UNCHANGED <<flagVars, ticket, me, newTurn>>

Step(t) ==
    /\ \/ (BeginLine(t) \/ EndLine(t)) /\ UNCHANGED <<flagVars, ticketVars>>
       \/ program = "atomic_flag" /\ (TestAndSet(t) \/ Clear(t))
       \/ program = "atomic_bool" /\ (Call(t) \/ CasSucceeds(t) \/ CasFails(t) \/ Reset(t) \/ Clear(t))
       \/ program = "atomic_int" /\ (TakeTicket(t) \/ Enter(t) \/ LoadTurn(t) \/ PassTurn(t))
    /\ UNCHANGED program

MainStep == MainPrints /\ UNCHANGED <<program, flagVars, ticketVars>>

-----------------------------------------------------------------------------
\* The lock makes the lines of std::cout whole: each begin is followed by its own
\* end, and a thread's lines appear in the order of its loop.
WholeLines ==
    /\ \A k \in 1..Len(out) :
          IF k % 2 = 1
          THEN out[k][3] = "begin" /\ (k < Len(out) => out[k + 1] = [out[k] EXCEPT ![3] = "end"])
          ELSE out[k][3] = "end"
    /\ \A k, l \in 1..Len(out) :
          k < l /\ out[k][1] = out[l][1] => out[k][2] <= out[l][2]
=============================================================================
