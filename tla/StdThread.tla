------------------------------ MODULE StdThread -------------------------------
(***************************************************************************)
(* What the small programs use of <thread>, <future>, <mutex> and          *)
(* <atomic>.  A program is, for each of its actors, a sequence of          *)
(* operations [op, x, y, expect]: `main` is the first actor, the others    *)
(* are the functions that threads and tasks run.  A thread object, a task, *)
(* a future and the shared state of a promise have the name of the actor   *)
(* that provides the result.  `expect` are the outcomes that the program   *)
(* shows or asserts, {} if it does not look.                               *)
(***************************************************************************)
EXTENDS Integers, Sequences, FiniteSets

CONSTANTS Actors,       \* "main" and the others
          Names,        \* the variables of the programs
          Mutexes,
          Yes, No, FutureError,         \* outcomes besides the values of variables
          Code(_, _)    \* the operations of an actor of a program

VARIABLES program,
          pc,           \* the index of the next operation of each actor; 0: not started
          fut,          \* the shared states
          joinable,     \* the joinable thread objects
          val, left,    \* the values of the variables, the locals whose scope has ended
          owner,        \* of each mutex
          printing,     \* the actors in the middle of a line of output
          outcome,      \* of the last operation of each actor, at its index
          terminated    \* std::terminate() has been called

vars == <<program, pc, fut, joinable, val, left, owner, printing, outcome, terminated>>
shared == <<fut, joinable, val, left, owner, printing, terminated>>

\* result: <<>> or <<what get() finds>>; how: the launch of std::async, or "promise";
\* in: who owns the promise or the packaged_task
NoState == [result |-> <<>>, how |-> "promise", retrieved |-> FALSE, in |-> "nobody"]

Bool(b) == IF b THEN Yes ELSE No

Length(a) == Len(Code(program, a))
Op(a) == Code(program, a)[pc[a]]
At(a, op) == ~terminated /\ pc[a] \in 1 .. Length(a) /\ Op(a).op = op
Done(a) == pc[a] > Length(a)
Over == Done("main") \/ terminated

StdInit == /\ pc = [a \in Actors |-> IF a = "main" THEN 1 ELSE 0]
           /\ fut = [a \in Actors |-> NoState]
           /\ joinable = {}
           /\ val = [x \in Names |-> 0] /\ left = {}
           /\ owner = [m \in Mutexes |-> "nobody"]
           /\ printing = {}
           /\ outcome = [a \in Actors |-> [at |-> 0, is |-> 0]]
           /\ terminated = FALSE

\* The end of an operation, with its outcome.
Goto(a, k, result) == /\ pc' = [pc EXCEPT ![a] = k]
                      /\ outcome' = [outcome EXCEPT ![a] = [at |-> pc[a], is |-> result]]
                      /\ UNCHANGED program
Proceed(a, result) == Goto(a, pc[a] + 1, result)
ProceedAndStart(a, b) == /\ pc' = [pc EXCEPT ![a] = @ + 1, ![b] = 1]
                      /\ UNCHANGED <<program, outcome>>

-----------------------------------------------------------------------------
\* std::thread(f), with the task or promise of the same name moved into it
Start(a) == /\ At(a, "thread")
            /\ ProceedAndStart(a, Op(a).x)
            /\ joinable' = joinable \cup {Op(a).x}
            /\ fut' = [fut EXCEPT ![Op(a).x].in = Op(a).x]
            /\ UNCHANGED <<val, left, owner, printing, terminated>>

Join(a) == /\ At(a, "join") /\ Done(Op(a).x)
           /\ joinable' = joinable \ {Op(a).x}
           /\ Proceed(a, 0)
           /\ UNCHANGED <<fut, val, left, owner, printing, terminated>>

Detach(a) == /\ At(a, "detach")
             /\ joinable' = joinable \ {Op(a).x}
             /\ Proceed(a, 0)
             /\ UNCHANGED <<fut, val, left, owner, printing, terminated>>

\* ~ThreadRAII() of items 37 and 40
JoinIfJoinable(a) == /\ At(a, "raii")
                     /\ Op(a).x \in joinable => Done(Op(a).x)
                     /\ joinable' = joinable \ {Op(a).x}
                     /\ Proceed(a, 0)
                     /\ UNCHANGED <<fut, val, left, owner, printing, terminated>>

Joinable(a) == /\ At(a, "joinable")
               /\ Proceed(a, Bool(Op(a).x \in joinable))
               /\ UNCHANGED shared

\* The destructor of std::thread: a joinable thread ends the program.
DestroyThread(a) == /\ At(a, "~thread")
                    /\ terminated' = (Op(a).x \in joinable)
                    /\ Proceed(a, 0)
                    /\ UNCHANGED <<fut, joinable, val, left, owner, printing>>

-----------------------------------------------------------------------------
\* std::async; with the default policy the library chooses.
Async(a) == /\ At(a, "async")
            /\ \E how \in {"async", "deferred"} \cap Op(a).y :
                  /\ fut' = [fut EXCEPT ![Op(a).x] =
                                 [NoState EXCEPT !.how = how, !.retrieved = TRUE, !.in = Op(a).x]]
                  /\ IF how = "async" THEN ProceedAndStart(a, Op(a).x) ELSE Proceed(a, 0)
            /\ UNCHANGED <<joinable, val, left, owner, printing, terminated>>

\* wait() or get() of a deferred task runs it, and then finds its result.
RunDeferred(a) == /\ At(a, "get")
                  /\ fut[Op(a).x].how = "deferred" /\ pc[Op(a).x] = 0
                  /\ pc' = [pc EXCEPT ![Op(a).x] = 1]
                  /\ UNCHANGED <<program, shared, outcome>>

Get(a) == /\ At(a, "get") /\ fut[Op(a).x].result # <<>>
          /\ Proceed(a, fut[Op(a).x].result[1])
          /\ UNCHANGED shared

\* result += fut.get(), with the local y for result
GetSum(a) == /\ At(a, "get sum") /\ fut[Op(a).x].result # <<>>
             /\ val' = [val EXCEPT ![Op(a).y] = @ + fut[Op(a).x].result[1]]
             /\ Proceed(a, 0)
             /\ UNCHANGED <<fut, joinable, left, owner, printing, terminated>>

\* A loop around fut.wait_for(..), which the statuses y end
Poll(a) == /\ At(a, "poll")
           /\ \/ fut[Op(a).x].result # <<>>
              \/ fut[Op(a).x].how = "deferred" /\ "deferred" \in Op(a).y
           /\ Proceed(a, 0)
           /\ UNCHANGED shared

\* The destructor of a future waits for a task that std::async has launched.
DestroyFuture(a) == /\ At(a, "~future")
                    /\ fut[Op(a).x].how = "async" => Done(Op(a).x)
                    /\ Proceed(a, 0)
                    /\ UNCHANGED shared

GetFuture(a) == /\ At(a, "get_future")
                /\ fut' = [fut EXCEPT ![Op(a).x].retrieved = TRUE]
                /\ Proceed(a, IF fut[Op(a).x].retrieved THEN FutureError ELSE 0)
                /\ UNCHANGED <<joinable, val, left, owner, printing, terminated>>

\* set_value, set_exception, the call of a packaged_task and the end of an async task
SetResult(a) == /\ At(a, "set")
                /\ fut' = [fut EXCEPT ![Op(a).x].result = IF @ = <<>> THEN <<Op(a).y>> ELSE @]
                /\ Proceed(a, IF fut[Op(a).x].result = <<>> THEN 0 ELSE FutureError)
                /\ UNCHANGED <<joinable, val, left, owner, printing, terminated>>

Valid(a) == /\ At(a, "valid")
            /\ Proceed(a, Bool(fut[Op(a).x].in = a))
            /\ UNCHANGED shared

\* The constructor of a promise or a packaged_task, and reset(): a new shared state
Make(a) == /\ At(a, "task")
           /\ fut' = [fut EXCEPT ![Op(a).x] = [NoState EXCEPT !.in = a]]
           /\ Proceed(a, 0)
           /\ UNCHANGED <<joinable, val, left, owner, printing, terminated>>

-----------------------------------------------------------------------------
Lock(a) == /\ At(a, "lock") /\ owner[Op(a).x] = "nobody"
           /\ owner' = [owner EXCEPT ![Op(a).x] = a]
           /\ Proceed(a, 0)
           /\ UNCHANGED <<fut, joinable, val, left, printing, terminated>>

Unlock(a) == /\ At(a, "unlock")
             /\ owner' = [owner EXCEPT ![Op(a).x] = "nobody"]
             /\ Proceed(a, 0)
             /\ UNCHANGED <<fut, joinable, val, left, printing, terminated>>

\* A line goes to std::cout in several insertions.
BeginLine(a) == /\ At(a, "line") /\ a \notin printing
                /\ printing' = printing \cup {a}
                /\ UNCHANGED <<program, pc, outcome, fut, joinable, val, left, owner, terminated>>

EndLine(a) == /\ At(a, "line") /\ a \in printing
              /\ printing' = printing \ {a}
              /\ Proceed(a, 0)
              /\ UNCHANGED <<fut, joinable, val, left, owner, terminated>>

SetVal(x, v) == /\ val' = [val EXCEPT ![x] = v]
                /\ UNCHANGED <<fut, joinable, left, owner, printing, terminated>>

Load(a) == /\ At(a, "load") /\ Proceed(a, val[Op(a).x]) /\ UNCHANGED shared
Store(a) == /\ At(a, "store") /\ SetVal(Op(a).x, Op(a).y) /\ Proceed(a, 0)
StoreSum(a) == /\ At(a, "store sum") /\ SetVal(Op(a).x, outcome[a].is + Op(a).y) /\ Proceed(a, 0)
FetchAdd(a) == /\ At(a, "fetch_add")
               /\ SetVal(Op(a).x, val[Op(a).x] + Op(a).y)
               /\ Proceed(a, val[Op(a).x])

\* compare_exchange of x with the local "expected"; a weak one may fail spuriously, and
\* is in a loop.
ExchangeSucceeds(a) == /\ At(a, "exchange") /\ val[Op(a).x] = val["expected"]
                       /\ SetVal(Op(a).x, Op(a).y)
                       /\ Proceed(a, 1)
ExchangeFails(a) == /\ At(a, "exchange") /\ val[Op(a).x] # val["expected"]
                    /\ SetVal("expected", val[Op(a).x])
                    /\ Proceed(a, 0)
WeakExchangeSucceeds(a) == /\ At(a, "exchange loop") /\ val[Op(a).x] = val["expected"]
                           /\ SetVal(Op(a).x, Op(a).y)
                           /\ Proceed(a, 1)
WeakExchangeFails(a) == /\ At(a, "exchange loop")
                        /\ SetVal("expected", val[Op(a).x])
                        /\ UNCHANGED <<program, pc, outcome>>

\* while(x != y) and if(x) goto y; "either" is a choice of the program's random numbers.
Await(a) == /\ At(a, "await") /\ val[Op(a).x] = Op(a).y
            /\ Proceed(a, 0) /\ UNCHANGED shared
JumpIf(a) == /\ At(a, "jump if")
             /\ Goto(a, IF val[Op(a).x] # 0 THEN Op(a).y ELSE pc[a] + 1, 0)
             /\ UNCHANGED shared
Either(a) == /\ At(a, "either")
             /\ \E k \in {pc[a] + 1, Op(a).y} : Goto(a, k, 0)
             /\ UNCHANGED shared

\* A use of a local through a reference or an iterator, and the end of its scope.
Use(a) == At(a, "use") /\ Proceed(a, 0) /\ UNCHANGED shared
LeaveScope(a) == /\ At(a, "leave")
                 /\ left' = left \cup {Op(a).x}
                 /\ Proceed(a, 0)
                 /\ UNCHANGED <<fut, joinable, val, owner, printing, terminated>>

Step(a) == /\ ~Over
           /\ \/ Start(a) \/ Join(a) \/ JoinIfJoinable(a) \/ Detach(a) \/ Joinable(a)
              \/ DestroyThread(a)
              \/ Async(a) \/ RunDeferred(a) \/ Get(a) \/ GetSum(a) \/ Poll(a) \/ DestroyFuture(a)
              \/ GetFuture(a) \/ SetResult(a) \/ Valid(a) \/ Make(a)
              \/ Lock(a) \/ Unlock(a) \/ BeginLine(a) \/ EndLine(a)
              \/ Load(a) \/ Store(a) \/ StoreSum(a) \/ FetchAdd(a)
              \/ ExchangeSucceeds(a) \/ ExchangeFails(a)
              \/ WeakExchangeSucceeds(a) \/ WeakExchangeFails(a)
              \/ Await(a) \/ JumpIf(a) \/ Either(a) \/ Use(a) \/ LeaveScope(a)

-----------------------------------------------------------------------------
\* Every outcome is one that the program shows or asserts.
OutcomesAsShown ==
    \A a \in Actors : outcome[a].at # 0 =>
        LET e == Code(program, a)[outcome[a].at].expect IN e = {} \/ outcome[a].is \in e

\* No actor uses a local whose scope has ended.
NothingDangles == \A a \in Actors : At(a, "use") /\ ~Over => Op(a).x \notin left

LinesAreWhole == Cardinality(printing) <= 1
=============================================================================
