----------------------------- MODULE MemoryOrder ------------------------------
(***************************************************************************)
(* The programs of the repository that depend on std::memory_order.  A     *)
(* thread is a sequence of accesses; it may perform an access before       *)
(* earlier ones, unless their order must be kept (Before): because of      *)
(* acquire, release, seq_cst or a fence, because both are to one location, *)
(* or because the later one needs what the earlier one reads.  This is the *)
(* reordering of instructions that relaxed-order.cpp:17 speaks of.  A      *)
(* store that has been performed is seen by all threads: the delays        *)
(* between threads that some processors add are not modelled.              *)
(***************************************************************************)
EXTENDS Integers, Sequences, FiniteSets

VARIABLES program,      \* the name of the program that runs
          launch,       \* of each thread: "async" once it runs, a task is at first
                        \* "none" and may be "deferred"
          mem,          \* the value of each location
          done,         \* the accesses each thread has performed, as indices
          got           \* what they read: got[t][k]

vars == <<program, launch, mem, done, got>>

-----------------------------------------------------------------------------
\* An operand <<k, c>> is c plus what access k of the thread has read, c for k = 0.
\* `when` is a condition <<k, v, b>>: whether access k has read v is b; nothing is
\* done before it is known.  `needs` is the access that reads the address of this one.
Access(do, at, ord, val) == [do |-> do, at |-> at, ord |-> ord, val |-> val,
                             when |-> <<0, 0, TRUE>>, needs |-> 0]
Load(x, o) == Access("load", x, o, <<0, 0>>)
Await(x, o, operand) == Access("await", x, o, operand)            \* while(x != operand);
AwaitChange(x, o, operand) == Access("change", x, o, operand)     \* while(x == operand);
Store(x, o, operand) == Access("store", x, o, operand)
FetchAdd(x, o, c) == Access("add", x, o, <<0, c>>)
Exchange(x, o, from, to) == Access("exchange", x, o, <<from, to>>) \* until it succeeds
AddUnlessWriting(x, o) == Access("share", x, o, <<0, 1>>)  \* until it is not -1: + 1
Fence(o) == Access("fence", "none", o, <<0, 0>>)
When(k, v, access) == [access EXCEPT !.when = <<k, v, TRUE>>]
Unless(k, v, access) == [access EXCEPT !.when = <<k, v, FALSE>>]
Through(k, access) == [access EXCEPT !.needs = k]

Writes(a) == a.do \in {"store", "add", "exchange", "share"}
Reads(a) == a.do \in {"load", "await", "change", "add", "exchange", "share"}
Acquires(a) == a.ord \in {"acquire", "seq_cst"} /\ (Reads(a) \/ a.do = "fence")
Releases(a) == a.ord \in {"release", "seq_cst"} /\ (Writes(a) \/ a.do = "fence")

-----------------------------------------------------------------------------
\* The threads of each program.
Reordered ==                                                     \* namespace A
    << <<Store("flag", "plain", <<0, 1>>), Store("data", "plain", <<0, 3>>)>>,
       <<Await("flag", "plain", <<0, 1>>), Load("data", "plain")>> >>

Counting == LET f == <<FetchAdd("cnt", "relaxed", 1), FetchAdd("cnt", "relaxed", 1)>>
            IN <<f, f, f>>

\* A faulty variant: the guard is stored without release.
ProducerUnguarded == <<Store("data", "relaxed", <<0, 1>>), Store("pstr", "plain", <<0, 7>>),
                       Store("guard", "relaxed", <<0, 1>>)>>

Producer == <<Store("data", "relaxed", <<0, 1>>), Store("pstr", "plain", <<0, 7>>),
              Store("guard", "release", <<0, 1>>)>>
Customer == <<Await("guard", "acquire", <<0, 1>>), Load("data", "relaxed"),
              Through(2, Load("pstr", "plain"))>>

ReleaseSequence == << <<Store("v", "plain", <<0, 42>>), Store("flag", "release", <<0, 1>>)>>,
                      <<Exchange("flag", "relaxed", 1, 2)>>,
                      <<Await("flag", "acquire", <<0, 2>>), Load("v", "plain")>> >>

ReadThenAdd(x, y) == <<Await(x, "seq_cst", <<0, 1>>), Load(y, "seq_cst"),
                       When(2, 1, FetchAdd("z", "seq_cst", 1))>>
SequentiallyConsistent == << <<Store("x", "seq_cst", <<0, 1>>)>>, <<Store("y", "seq_cst", <<0, 1>>)>>,
                             ReadThenAdd("x", "y"), ReadThenAdd("y", "x") >>

\* *p2 is read through the pointer, data is not.
Consume == << <<Store("string", "plain", <<0, 7>>), Store("data", "plain", <<0, 42>>),
                Store("ptr", "release", <<0, 1>>)>>,
              <<Await("ptr", "consume", <<0, 1>>), Through(1, Load("string", "plain")),
                Load("data", "plain")>> >>

Fenced == << <<Store("x", "relaxed", <<0, 1>>), Fence("release"), Store("y", "relaxed", <<0, 1>>)>>,
             <<Await("y", "relaxed", <<0, 1>>), Fence("acquire"), Load("x", "relaxed"),
               When(3, 1, FetchAdd("z", "seq_cst", 1))>> >>

\* ++data between lock and unlock; the load is access k of the thread.
Increment(k) == <<Load("data", "plain"), Store("data", "plain", <<k, 1>>)>>

SpinLocked == LET f == <<Exchange("lock", "acquire", 0, 1)>> \o Increment(2)
                       \o <<Store("lock", "release", <<0, 0>>)>>
              IN <<f, f, f>>

\* A faulty variant: unlock() is relaxed.
TicketUnlockRelaxed == <<Load("turn", "relaxed"), Store("turn", "relaxed", <<5, 1>>)>>

TicketUnlock == <<Load("turn", "relaxed"), Store("turn", "release", <<5, 1>>)>>
TicketLocked == LET f == <<FetchAdd("ticket", "relaxed", 1), Await("turn", "acquire", <<1, 0>>)>>
                         \o Increment(3) \o TicketUnlock
                IN <<f, f, f>>

\* An increment under the write lock, then a copy under the read lock.
ReadWriteLocked == LET f == <<Exchange("lock", "acquire", 0, -1)>> \o Increment(2)
                            \o <<Store("lock", "release", <<0, 0>>),
                                 AddUnlessWriting("lock", "acquire"), Load("data", "plain"),
                                 FetchAdd("lock", "release", -1)>>
                   IN <<f, f>>

\* barrier::wait of two threads: the last to arrive resets the count and opens the
\* next generation; `first` is the index of the load of the generation.
\* cnt stands for the work of the next stage.  iomutex, under which that is done, is left
\* out: it only keeps more accesses in order.
Wait(first) ==
    <<Load("generation", "relaxed"), FetchAdd("not_arrived", "relaxed", -1),
      When(first + 1, 1, Store("not_arrived", "relaxed", <<0, 2>>)),
      When(first + 1, 1, Store("generation", "release", <<first, 1>>)),
      Unless(first + 1, 1, AwaitChange("generation", "acquire", <<first, 0>>))>>
Barrier == LET f == Wait(1) \o <<FetchAdd("cnt", "relaxed", 1)>> \o Wait(7) IN <<f, f>>

Threads(p) == CASE p = "A" -> Reordered
                [] p = "relaxed" -> Counting
                [] p = "release-acquire" -> <<Producer, Customer>>
                [] p = "release sequence" -> ReleaseSequence
                [] p = "seq_cst" -> SequentiallyConsistent
                [] p = "release-consume" -> Consume
                [] p = "fence" -> Fenced
                [] p = "spinlock" -> SpinLocked
                [] p = "ticketlock" -> TicketLocked
                [] p = "rwlock" -> ReadWriteLocked
                [] p = "barrier" -> Barrier
Programs == {"A", "relaxed", "release-acquire", "release sequence", "seq_cst",
             "release-consume", "fence", "spinlock", "ticketlock", "rwlock", "barrier"}
Locations == {"none", "flag", "data", "cnt", "pstr", "guard", "v", "x", "y", "z", "string",
              "ptr", "lock", "turn", "ticket", "generation", "not_arrived"}

Listing == [p \in Programs |-> Threads(p)]
Code(t) == Listing[program][t]
Ids == DOMAIN Listing[program]

-----------------------------------------------------------------------------
\* Access i of a thread comes before its access j.
Before(c, i, j) ==
    \/ c[i].at = c[j].at
    \/ Acquires(c[i]) \/ Releases(c[j])
    \/ c[i].ord = "seq_cst" /\ c[j].ord = "seq_cst"
    \/ c[i].do = "fence" /\ c[i].ord = "release" /\ Writes(c[j])
    \/ c[j].do = "fence" /\ c[j].ord = "acquire" /\ Reads(c[i])
    \/ i \in {c[j].val[1], c[j].needs} /\ c[j].do # "exchange"
    \/ Writes(c[j]) /\ c[i].do \in {"await", "change", "exchange", "share"}  \* after a loop
    \/ i = c[j].when[1]

\* Its condition is known to be false: the access is never performed.
Void(t, j) == LET w == Code(t)[j].when IN
              w[1] \in done[t] /\ (got[t][w[1]] = w[2]) # w[3]

Ready(t, j) == /\ launch[t] = "async" /\ j \notin done[t] /\ ~Void(t, j)
               /\ \A i \in 1 .. j - 1 : Before(Code(t), i, j) => i \in done[t] \/ Void(t, i)

Operand(t, a) == a.val[2] + IF a.val[1] = 0 THEN 0 ELSE got[t][a.val[1]]

\* A loop performs the read that ends it; the ones before it are stutters.
Passes(t, a) == CASE a.do = "await" -> mem[a.at] = Operand(t, a)
                  [] a.do = "change" -> mem[a.at] # Operand(t, a)
                  [] a.do = "exchange" -> mem[a.at] = a.val[1]
                  [] a.do = "share" -> mem[a.at] # -1
                  [] OTHER -> TRUE

Written(t, a) == CASE a.do = "store" -> Operand(t, a)
                   [] a.do = "exchange" -> a.val[2]
                   [] a.do \in {"add", "share"} -> mem[a.at] + a.val[2]
                   [] OTHER -> mem[a.at]

\* The programs whose main starts its tasks by std::async without a launch policy and
\* destroys the futures without asking for the results.  A task that the library defers
\* never runs; the destructors wait for the others.
NeverAsked == {"fence", "spinlock", "ticketlock"}

Init == /\ program \in Programs
        /\ launch = [t \in Ids |-> IF program \in NeverAsked THEN "none" ELSE "async"]
        /\ mem = [x \in Locations |-> IF x = "not_arrived" THEN 2 ELSE 0]
        /\ done = [t \in Ids |-> {}]
        /\ got = [t \in Ids |-> [k \in DOMAIN Code(t) |-> 0]]

\* main calls std::async for one task after another.
Async(t) == /\ launch[t] = "none" /\ \A u \in 1 .. t - 1 : launch[u] # "none"
            /\ \E how \in {"async", "deferred"} : launch' = [launch EXCEPT ![t] = how]
            /\ UNCHANGED <<program, mem, done, got>>

Perform(t) == \E j \in DOMAIN Code(t) :
                  LET a == Code(t)[j] IN
                  /\ Ready(t, j) /\ Passes(t, a)
                  /\ mem' = [mem EXCEPT ![a.at] = Written(t, a)]
                  /\ got' = [got EXCEPT ![t][j] = IF Reads(a) THEN mem[a.at] ELSE 0]
                  /\ done' = [done EXCEPT ![t] = @ \cup {j}]
                  /\ UNCHANGED <<program, launch>>

Step(t) == Async(t) \/ Perform(t)

Next == \E t \in Ids : Step(t)

Spec == Init /\ [][Next]_vars

\* The tasks that run, and whether all that was started is over
Launched == {t \in Ids : launch[t] = "async"}
Ended == /\ \A t \in Ids : launch[t] # "none"
         /\ \A t \in Launched : \A j \in DOMAIN Code(t) : j \in done[t] \/ Void(t, j)

-----------------------------------------------------------------------------
\* The assertions of the programs that "never fire", and those of main.  In the programs
\* of NeverAsked main's assertion (z # 0; data = LOOPS * cpus) holds if and only if no
\* task has been deferred.
Holds == CASE program = "A" -> TRUE                 \* "may fail and may succeed"
           [] program = "relaxed" -> Ended => mem["cnt"] = 6
           [] program = "release-acquire" ->
                  /\ 2 \in done[2] => got[2][2] = 1
                  /\ 3 \in done[2] => got[2][3] = 7
           [] program = "release sequence" -> 2 \in done[3] => got[3][2] = 42
           [] program = "seq_cst" -> Ended => mem["z"] # 0
           [] program = "release-consume" -> 2 \in done[2] => got[2][2] = 7
           [] program = "fence" -> /\ 3 \in done[2] => got[2][3] = 1
                                   /\ Ended => (mem["z"] # 0 <=> Launched = Ids)
           [] program \in {"spinlock", "ticketlock"} ->
                  Ended => mem["data"] = Cardinality(Launched)
           [] program = "rwlock" -> /\ Ended => mem["data"] = 2
                                    /\ \A t \in Ids : 6 \in done[t] => got[t][6] > got[t][2]
           [] program = "barrier" -> \A t \in Ids : 6 \in done[t] =>
                                         \A u \in Ids : 2 \in done[u]

\* No two threads can access a location at once, one of them to write it, if the
\* access is not atomic.  A and, by its comment, data of release-consume do.
Races(t, i, u, j) == LET a == Code(t)[i]
                         b == Code(u)[j]
                     IN /\ a.at = b.at /\ a.ord = "plain" /\ (Writes(a) \/ Writes(b))
                        /\ Ready(t, i) /\ Ready(u, j) /\ Passes(t, a) /\ Passes(u, b)
NoDataRace == \/ program = "A"
              \/ \A t, u \in Ids : t # u =>
                    \A i \in DOMAIN Code(t), j \in DOMAIN Code(u) :
                        Races(t, i, u, j) => program = "release-consume" /\ Code(t)[i].at = "data"

\* A thread of the barrier that has arrived before its load of the generation was
\* performed has read the next one, and waits for that to end.
LateLoad == program = "barrier" /\ \E t \in Ids : got[t][1] > 0 \/ got[t][7] > 1

\* f2 of atomic_thread_fence.cpp spins until f1, which has been deferred, has run.
WaitsForDeferred == program = "fence" /\ launch[1] = "deferred" /\ launch[2] = "async"
=============================================================================
