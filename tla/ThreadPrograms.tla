---------------------------- MODULE ThreadPrograms ----------------------------
(***************************************************************************)
(* The small programs on std::thread, std::future and std::atomic, written *)
(* for StdThread, and the programs of MemoryOrder.  A behaviour is a run   *)
(* of one of them, chosen at the start.  A function that is called is part *)
(* of the sequence of its caller, the sleeps order nothing and are left    *)
(* out.  Where a program starts a thread per cpu there are three.          *)
(***************************************************************************)
EXTENDS Integers, Sequences, FiniteSets

VARIABLES program,      \* <<name, size>>: size is that of the random string
          pc, fut, joinable, val, left, owner, printing, outcome, terminated,
          order, launch, mem, done, got       \* of MemoryOrder

threadVars == <<pc, fut, joinable, val, left, owner, printing, outcome, terminated>>
orderVars == <<order, launch, mem, done, got>>
vars == <<program, threadVars, orderVars>>

Actors == {"main", "w1", "w2", "w3"}
Names == {"v", "tp", "ran2", "ran3", "result", "goodVals", "ai", "ac", "vc", "x", "y", "range main", "range w1", "range w2", "str", "cacheValid",
          "cachedValue", "run", "a", "expected", "turn", "ticket"}
Mutexes == {"cout_mutex"}

\* Outcomes and results are integers.
Yes == 1
No == 0
FutureError == -1
Exception == -2

Do(op, x) == [op |-> op, x |-> x, y |-> 0, expect |-> {}]
DoWith(op, x, y) == [Do(op, x) EXCEPT !.y = y]
Expect(op, x, e) == [Do(op, x) EXCEPT !.expect = e]
ExpectWith(op, x, y, e) == [Do(op, x) EXCEPT !.y = y, !.expect = e]
Call == {"async"}
Lazy == {"deferred"}
Either == {"async", "deferred"}
Returns(a, v) == <<DoWith("set", a, v)>>

-----------------------------------------------------------------------------
\* packaged_task.cpp
Made(t) == <<Do("task", t), Expect("get_future", t, {0})>>
Called(t, v) == Made(t) \o <<ExpectWith("set", t, v, {0}), Expect("get", t, {v})>>
TaskLambda == Called("w1", 512)
TaskBind == Called("w1", 2048)
InThread(t, e) == <<Do("thread", t), Expect("get", t, e), Do("join", t), Do("~thread", t)>>
TaskThread == Made("w1") \o InThread("w1", {1024})
Countdown == Made("w2") \o InThread("w2", {})
TaskValid ==
    << Expect("valid", "w3", {No}), Do("task", "w3"), Expect("valid", "w3", {Yes}),
       Do("get_future", "w3"), Do("thread", "w3"), Do("get", "w3"),
       Expect("valid", "w3", {No}), Do("join", "w3"),
       Do("task", "w1"), Expect("valid", "w1", {Yes}), Do("get_future", "w1"),
       ExpectWith("set", "w1", 0, {0}), Do("get", "w1"), Expect("valid", "w1", {Yes}),
       ExpectWith("set", "w1", 0, {FutureError}),
       Do("task", "w1"), Expect("valid", "w1", {Yes}), ExpectWith("set", "w1", 0, {0}) >>
PackagedTask(a) == CASE a = "main" -> TaskLambda \o TaskBind \o TaskThread \o Countdown \o TaskValid
                     [] OTHER -> Returns(a, IF a = "w1" THEN 1024 ELSE 0)

\* promise.cpp; a promise gives out one future.
Accumulate == <<Do("use", "v")>> \o Returns("w1", 45)
Promise(a) == CASE a = "main" -> Made("w1") \o InThread("w1", {45}) \o <<Do("leave", "v")>>
                                 \o Made("w2") \o <<Expect("get_future", "w2", {FutureError})>>
                                 \o InThread("w2", {})
                                 \o Made("w3") \o InThread("w3", {Exception})
                [] a = "w1" -> Accumulate
                [] a = "w2" -> Returns(a, 0)
                [] a = "w3" -> Returns(a, Exception)

\* replace_thread.cpp: a result by reference, by future, and by a task that main polls
ReplaceThread(a) ==
    CASE a = "main" -> << Do("thread", "w1"), Do("join", "w1"), Expect("load", "tp", {1}),
                          Do("~thread", "w1"), Do("leave", "tp"),
                          DoWith("async", "w2", Call), Expect("get", "w2", {1}), Do("~future", "w2"),
                          DoWith("async", "w3", Either), DoWith("poll", "w3", {"ready", "deferred"}),
                          Expect("get", "w3", {1}), Do("~future", "w3") >>
      [] a = "w1" -> <<Do("use", "tp"), DoWith("store", "tp", 1)>>
      [] OTHER -> Returns(a, 1)

\* async.cpp: the future of a temporary is waited for, a deferred task has not run
\* before it is asked for.
AsyncMain == << DoWith("async", "w1", Either),
                DoWith("async", "w2", Call), Do("~future", "w2"), Expect("load", "ran2", {1}),
                DoWith("async", "w3", Lazy), Expect("load", "ran3", {0}), Do("get", "w3"),
                Expect("load", "ran3", {1}), Do("~future", "w3"),
                Do("get", "w1"), Do("~future", "w1") >>
Async(a) == CASE a = "main" -> AsyncMain
              [] a = "w1" -> Returns(a, 0)
              [] a = "w2" -> <<DoWith("store", "ran2", 1)>> \o Returns(a, 0)
              [] a = "w3" -> <<DoWith("store", "ran3", 1)>> \o Returns(a, 0)

\* A faulty variant: the steps leave the rest of the division out.
PartWithoutRest(i, n, size) == size \div n

\* What task i of create_random_string_parallel contributes on n cpus
Part(i, n, size) == LET steplen == size \div n
                    IN IF i < n THEN steplen ELSE steplen + (size % steplen)
RandomString(a, size) ==
    LET n == 3 IN
    CASE a = "main" -> << DoWith("async", "w1", Call), DoWith("async", "w2", Call),
                          DoWith("async", "w3", Call),
                          DoWith("get sum", "w1", "result"), DoWith("get sum", "w2", "result"),
                          DoWith("get sum", "w3", "result"), Expect("load", "result", {size}),
                          Do("~future", "w1"), Do("~future", "w2"), Do("~future", "w3") >>
      [] a = "w1" -> Returns(a, Part(1, n, size))
      [] a = "w2" -> Returns(a, Part(2, n, size))
      [] a = "w3" -> Returns(a, Part(3, n, size))

-----------------------------------------------------------------------------
\* item35.cpp
Item35(a) == CASE a = "main" -> << DoWith("async", "w1", Either), Do("get", "w1"),
                                   Expect("get", "w1", {1100}), Do("~future", "w1") >>
               [] OTHER -> Returns(a, 1100)

\* item36.cpp
ReallyAsync(t) == DoWith("async", t, Call)
\* A faulty variant, the one under ERROR1: "... which may never happen!"
PollUntilReady == DoWith("poll", "w1", {"ready"})

PollUnlessDeferred == DoWith("poll", "w1", {"ready", "deferred"})
Item36(a) == CASE a = "main" -> << DoWith("async", "w1", Either), PollUnlessDeferred, Do("~future", "w1"),
                                   ReallyAsync("w2"), Expect("get", "w2", {9527}), Do("~future", "w2") >>
               [] a = "w1" -> Returns(a, 1100)
               [] OTHER -> Returns(a, 9527)

\* A faulty variant: goodVals is declared after the thread, and is destroyed first.
DoWork1Swapped == << Do("thread", "w1"), DoWith("either", "w1", 5),
                     Do("join", "w1"), Expect("load", "goodVals", {1}),
                     Do("leave", "goodVals"), Do("raii", "w1"), Do("~thread", "w1") >>

\* item37.cpp: the thread fills goodVals, which the ThreadRAII outlives on no path.
DoWork1 == << Do("thread", "w1"), DoWith("either", "w1", 5),
              Do("join", "w1"), Expect("load", "goodVals", {1}),
              Do("raii", "w1"), Do("~thread", "w1"), Do("leave", "goodVals") >>
Item37(a) == IF a = "main" THEN DoWork1
             ELSE <<Do("use", "goodVals"), DoWith("fetch_add", "goodVals", 1), Do("use", "goodVals")>>

\* item38.cpp: the thread of the packaged_task is not joined.
Item38(a) == IF a = "main" THEN Made("w1") \o <<Do("thread", "w1"), Do("~thread", "w1")>>
             ELSE Returns(a, 0)

\* item40.cpp: ++ of an atomic is one step, of a volatile a load and a store.
Work1 == <<DoWith("fetch_add", "ac", 1), Do("load", "vc"), DoWith("store sum", "vc", 1)>>
Item40(a) ==
    CASE a = "main" -> << Do("thread", "w1"), DoWith("store", "ai", 10), Expect("load", "ai", {10}),
                          DoWith("fetch_add", "ai", 1), DoWith("fetch_add", "ai", -1), Do("raii", "w1"),
                          Do("thread", "w2") >> \o Work1
                       \o << Do("raii", "w2"), Expect("load", "ac", {2}), Expect("load", "vc", {1, 2}),
                          DoWith("store", "x", 110), Do("load", "x"), DoWith("store sum", "y", 0),
                          Do("load", "x"), DoWith("store sum", "y", 0), Expect("load", "y", {110}) >>
      [] a = "w1" -> <<Expect("load", "ai", {0, 10, 11})>>
      [] OTHER -> Work1

-----------------------------------------------------------------------------
\* mutex.cpp: a line per thread, under a mutex
Joined(t) == <<Do("join", t), Do("~thread", t)>>
MutexMain == <<Do("thread", "w1"), Do("thread", "w2"), Do("thread", "w3")>>
             \o Joined("w1") \o Joined("w2") \o Joined("w3")
PrintLocked == <<Do("lock", "cout_mutex"), Do("line", "cout"), Do("unlock", "cout_mutex")>>
Mutex(a) == IF a = "main" THEN MutexMain ELSE PrintLocked

\* lock_guard.cpp: the destructor of the guard unlocks.
LockGuard(a) == IF a = "main" THEN MutexMain ELSE PrintLocked

\* thread_local.cpp: every thread has a range of its own, which starts at 1.
ShowRange(range, v) == << Do("lock", "cout_mutex"), Expect("load", range, {v}), Do("line", "cout"),
                          Do("unlock", "cout_mutex") >>
IncreaseRange(range) == <<DoWith("store", range, 1), DoWith("fetch_add", range, 1)>> \o ShowRange(range, 2)
ThreadLocal(a) == CASE a = "main" -> << DoWith("store", "range main", 1),
                                        Do("thread", "w1"), Do("thread", "w2") >>
                                     \o ShowRange("range main", 1) \o Joined("w1") \o Joined("w2")
                    [] a = "w1" -> IncreaseRange("range w1")
                    [] OTHER -> IncreaseRange("range w2")

\* native_handle.cpp, as root or not: the handle is that of a thread not yet joined.
NativeHandle(a) == IF a = "main"
                   THEN <<DoWith("either", "uid", 10), Do("thread", "w1"), Do("thread", "w2"),
                          Expect("joinable", "w1", {Yes}), Expect("joinable", "w1", {Yes})>>
                        \o Joined("w1") \o Joined("w2")
                   ELSE PrintLocked

\* joinable.cpp; the object t is first w1, then w2.
JoinableMain == << Expect("joinable", "w1", {No}), Do("thread", "w1"),
                   Expect("joinable", "w1", {Yes}), Do("join", "w1"), Expect("joinable", "w1", {No}),
                   Do("thread", "w2"), Do("detach", "w2"), Expect("joinable", "w2", {No}),
                   Do("~thread", "w2") >>
Joinable(a) == IF a = "main" THEN JoinableMain ELSE <<>>

\* sample.cpp: thread2 changes main's string, which main shows after both joins.
Sample(a) == CASE a = "main" -> << Do("thread", "w1"), Do("thread", "w2"), Do("join", "w1"),
                                   Do("join", "w2"), Expect("load", "str", {1}),
                                   Do("~thread", "w2"), Do("~thread", "w1"), Do("leave", "str") >>
               [] a = "w2" -> <<Do("use", "str"), DoWith("store", "str", 1)>>
               [] OTHER -> <<>>

\* A faulty variant: the cache is valid before its value is there.
MagicValueValidFirst(k, v) == << DoWith("jump if", "cacheValid", k + 3), DoWith("store", "cacheValid", 1),
                                 DoWith("store", "cachedValue", v), Expect("load", "cachedValue", {1, 2}) >>

\* item16.cpp: Widget::magicValue() from index k on, with the thread's sum v; two
\* threads may both compute, but what is returned has been computed.
MagicValue(k, v) == << DoWith("jump if", "cacheValid", k + 3), DoWith("store", "cachedValue", v),
                       DoWith("store", "cacheValid", 1), Expect("load", "cachedValue", {1, 2}) >>
Item16(a) == IF a = "main" THEN <<Do("thread", "w1")>> \o MagicValue(2, 1) \o <<Do("join", "w1")>>
             ELSE MagicValue(1, 2)

\* atomic.cpp: the threads, or the tasks that main runs later itself, spin until run
\* is false.
FetchAddSub == <<ExpectWith("fetch_add", "a", 1, {0}), ExpectWith("fetch_add", "a", -1, {1})>>
AtomicRun(a) == IF a = "main"
                THEN << DoWith("store", "run", 1), DoWith("async", "w1", Either),
                        DoWith("async", "w2", Either), DoWith("store", "run", 0), Do("get", "w1"),
                        Do("get", "w2"), Do("~future", "w1"), Do("~future", "w2") >> \o FetchAddSub
                ELSE <<DoWith("await", "run", 0)>> \o PrintLocked \o Returns(a, 0)

\* compare_exchange_weak.cpp, with "expected" for tst_val
CompareExchange(a) == IF a # "main" THEN <<>> ELSE
    << DoWith("store", "ai", 3), DoWith("store", "expected", 4),
       ExpectWith("exchange", "ai", 5, {0}), Expect("load", "expected", {3}),
       ExpectWith("exchange", "ai", 5, {1}), Expect("load", "ai", {5}),
       DoWith("store", "ai", 8), ExpectWith("exchange loop", "ai", 5, {1}), Expect("load", "ai", {5}) >>

\* The second block of main in atomic_int.cpp: a ticketlock locked twice
LockTwice(a) == IF a # "main" THEN <<>> ELSE
    << ExpectWith("fetch_add", "ticket", 1, {0}), DoWith("await", "turn", 0),
       ExpectWith("fetch_add", "ticket", 1, {1}), DoWith("await", "turn", 1), Do("line", "cout") >>

-----------------------------------------------------------------------------
Script(p, a) == CASE p[1] = "packaged_task" -> PackagedTask(a)
                  [] p[1] = "promise" -> Promise(a)
                  [] p[1] = "replace_thread" -> ReplaceThread(a)
                  [] p[1] = "async" -> Async(a)
                  [] p[1] = "random string" -> RandomString(a, p[2])
                  [] p[1] = "item35" -> Item35(a)
                  [] p[1] = "item36" -> Item36(a)
                  [] p[1] = "item37" -> Item37(a)
                  [] p[1] = "item38" -> Item38(a)
                  [] p[1] = "item40" -> Item40(a)
                  [] p[1] = "mutex" -> Mutex(a)
                  [] p[1] = "lock_guard" -> LockGuard(a)
                  [] p[1] = "thread_local" -> ThreadLocal(a)
                  [] p[1] = "native_handle" -> NativeHandle(a)
                  [] p[1] = "joinable" -> Joinable(a)
                  [] p[1] = "sample" -> Sample(a)
                  [] p[1] = "item16" -> Item16(a)
                  [] p[1] = "atomic" -> AtomicRun(a)
                  [] p[1] = "compare_exchange" -> CompareExchange(a)
                  [] p[1] = "atomic_int" -> LockTwice(a)
                  [] OTHER -> <<>>
Scripts == {"packaged_task", "promise", "replace_thread", "async", "item35", "item36", "item37",
            "item38", "item40", "mutex", "lock_guard", "thread_local", "native_handle", "joinable",
            "sample", "item16", "atomic", "compare_exchange", "atomic_int"}

\* The strings of async.cpp are longer than the square of the number of cpus.
Sizes == 9 .. 12
Programs == (Scripts \X {0}) \cup ({"random string"} \X Sizes) \cup {<<"memory order", 0>>}

Listing == [p \in Programs |-> [a \in Actors |-> Script(p, a)]]
Code(p, a) == Listing[p][a]

Std == INSTANCE StdThread
Order == INSTANCE MemoryOrder WITH program <- order

Init == /\ program \in Programs
        /\ Std!StdInit
        /\ Order!Init
        /\ program[1] # "memory order" => order = "A"

ThreadStep(a) == program[1] # "memory order" /\ Std!Step(a) /\ UNCHANGED orderVars
Access(t) == /\ program[1] = "memory order" /\ t \in Order!Ids /\ Order!Step(t)
             /\ UNCHANGED <<program, threadVars>>

Next == \/ \E a \in Actors : ThreadStep(a)
        \/ \E t \in 1 .. 4 : Access(t)

\* Every thread runs, every access is performed at last, and a weak exchange does not
\* fail for ever.
FairSpec == /\ Init /\ [][Next]_vars
            /\ \A a \in Actors : /\ WF_vars(ThreadStep(a))
                                 /\ WF_vars(ThreadStep(a) /\ pc'[a] # pc[a])
            /\ \A t \in 1 .. 4 : WF_vars(Access(t))

-----------------------------------------------------------------------------
\* The programs get the results, the errors and the states of their thread objects that
\* they assert or print, and lines under a mutex are whole.
OutputAsShown == /\ Std!OutcomesAsShown
                 /\ program[1] # "joinable" => Std!LinesAreWhole

\* Nobody uses a variable whose scope has ended, and only item38 destroys a thread that
\* can be joined.
ScopesRespected == /\ Std!NothingDangles
                   /\ terminated => program[1] = "item38"

\* The assertions of the programs on memory orders: what "never fires" does not, and the
\* sums that main asserts are those of the tasks that have run.  A deferred task that
\* nobody asks for is missing in them.
OrderedAsShown == program[1] = "memory order" => Order!Holds
NoDataRace == program[1] = "memory order" => Order!NoDataRace

Ending == CASE program[1] = "memory order" -> Order!Ended \/ Order!LateLoad \/ Order!WaitsForDeferred
            [] program[1] = "item38" -> terminated
            [] program[1] = "atomic_int" -> pc["main"] = 4
            [] OTHER -> Std!Done("main")

\* Each program ends, and item38 ends by std::terminate.  The exceptions: atomic_int
\* waits for ever for its own ticket; a thread of the barrier whose load of the
\* generation comes late may wait for one that never ends; and f2 of
\* atomic_thread_fence.cpp does if f1 has been deferred and f2 has not.
ProgramEnds == <>[]Ending
=============================================================================
