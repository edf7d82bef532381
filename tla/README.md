# A verification project for Effective-Modern-Cpp

The repository is a collection of C++ programs. Many of its chapters show what a
compiler accepts or deduces and have no behaviour to check. Its core logic is in
`src/more/new-features/cxx11/concurrency/`: locks, condition variables, barriers,
thread-safe queues and hash tables, futures and atomics, each with the program
that exercises it; the items of the book on threads and on smart pointers; and the
signed integers on bitset. This project models those programs in TLA+, checks them
with TLC on small instances, and proves with TLAPS, for every number of threads, nodes
and values and words of any length, nearly all of the safety properties of the locks,
queues, barriers, containers and signed integers.

Paths below are relative to `src/`; `C/` stands for
`more/new-features/cxx11/concurrency/`.

Contents: [1 inventory](#1-inventory), [2 conventions](#2-how-the-code-is-modelled),
[3 modules](#3-modules), [4 runs](#4-runs-and-what-they-show),
[5 findings](#5-where-the-code-and-its-comments-disagree),
[6 proofs](#6-proofs), [7 limits](#7-what-is-not-modelled), [8 plan](#8-plan).

## 1 Inventory

| component | state | operations | what makes it hard | what makes it correct |
|---|---|---|---|---|
| ticket lock (`C/lockfree/ticketlock.h`) | two wrapping counters | lock, unlock | load and store of `turn_` are two steps; wrap | exclusion, first come first served |
| spin locks (`C/lockfree/spinlock.h`, `C/atomic/atomic_flag.cpp`, `atomic_bool.cpp`, `atomic_int.cpp`) | a flag or counters | lock, unlock | weak exchange fails spuriously and overwrites `expected` | whole lines of output; main ends |
| read-write spin locks (`C/lockfree/rwlock.h`, `rte_rwlock.h`, `C/atomic/rwlock.cpp`, cppreference) | one word: -1 or the readers | lock, unlock, shared and not | decision on a loaded value, exchange later | word = holders; no torn copy |
| read-write locks on condition variables (`C/condition_variable/cv_rwlock.cpp`) | counter, flag, wait sets | as above | notification after unlock, decided on copies; two wait queues | no lost wake-up; writers first |
| blocking queue (`block_queue.cpp`) | queue, two wait sets | enqueue, dequeue | full/empty, notify_one to one of many | nobody sleeps while there is work |
| barriers (`C/atomic/barrier.cpp`, `C/condition_variable/barrier.cpp`), latch | counts, generation | wait, count_down | reuse by fast threads while slow ones leave | nobody passes before all arrived |
| `condition_variable.cpp` | flag | set, wait | a guard that locks nothing | the waiter sees the flag |
| thread-safe queues (`C/data_struct/threadsafe_*.h`) and benchmark | lists, ring, ends, counters | push, try_pop, counting, clock | two locks on one list; dangling `tail_`; stop conditions by counting | FIFO, once each, benchmark ends drained |
| plain containers (`list.h`, `queue.h`, `queue_with_dummy_node.h`, `ring.h`) | nodes and links | push, pop, erase | the last node, both ends, the wrap | behaves as a sequence |
| lookup tables (`threadsafe_lookup_table*.h`) | buckets, count | insert, erase, find, empty, size, reserve | looking from bucket to bucket; rehash by moving nodes | values where their hash says |
| mutex demonstrations (`C/mutex/`) | mutexes | lock in some order | lock order, time limits | ends, except where it shows a deadlock |
| Item 39 | events | wait, announce | notification before wait | reacts after the event, every block ends |
| threads and futures (`C/async/`, `C/thread/`, items 35 to 38 and 40, `C/atomic/atomic.cpp`, `compare_exchange_weak.cpp`, item 16) | thread objects, shared states, locals | start, join, detach, destroy, async, get, poll, set | a launch that may be deferred; destructors that wait or terminate; locals passed by reference | the results shown and asserted, no dead local used, the end of main |
| memory orders (`C/atomic/*order*.cpp`, `atomic_thread_fence.cpp`, the cppreference locks) | atomic and plain locations | load, store, exchange, fence | execution out of program order | the assertions that "never fire", no data race |
| smart pointers (items 18 to 22, 32, 42) | pointers, counts, weak pointers | construct, copy, move, assign, destroy, lock | shared counts; expired cache entries; cycles | freed once and in time; leaks only what is meant |
| signed words (`cppreference/.../representing-signed-integers/`) | a word of 8 bits | encode, decode, add | the smallest number, zero, carries | codes agree; sums modulo 2^8 |

Components interact in two ways. A benchmark owns its threads and its counters
and calls one lock or queue at a time through a template parameter; in the
models the lock module EXTENDS the benchmark module and supplies the steps
between two of its program points. A main function runs benchmarks one after
another, each with a lock or queue of its own; composite modules (TestLock, TestQueues,
RWBenchMain) follow it, and keep the counters the code keeps. threadsafe_lookup_table2
uses list.h, so NodeTable uses the operations of NodeList. The other main functions
stand alone; what runs them together (Demos, ThreadPrograms, DataStruct) does so only
to check them in one run, one program per behaviour.

PROJECT.json lists all components, also those left out, and the hazards: the
places where this code could go wrong in a way a test would hardly reach, each
with the properties that would show it, or the reason why none does.

## 2 How the code is modelled

* **Steps.** An atomic operation, and a plain access that another thread can
  meet, is a step of its own. A block under a mutex that protects everything it
  touches is one step: nobody else can see its middle. `pc[t]` names the next
  step of thread t. A spinning load that finds nothing new changes nothing and is
  a stutter.
* **Condition variables.** `wait` puts the thread in a wait set; a notification
  removes one thread or all; a woken thread evaluates its predicate again under
  the mutex and may go back. Spurious wake-ups are steps that no fairness forces.
  A notification made after the unlock is a separate step, so other threads run
  in between.
* **compare_exchange_weak** may fail on an equal value.
* **Integers** that can wrap do so at `Mod`, which stands for 2^32: the unsigned
  tickets of ticketlock.h. The signed tickets of atomic/rwlock.cpp are taken to
  wrap too.
* **Memory order.** The models of the locks and barriers are sequentially consistent;
  that their acquire and release orders suffice for what they guard is the subject of
  MemoryOrder. There a thread may perform an access before earlier ones unless the
  annotations, a common location or a dependency forbid it, as the comment
  `C/atomic/relaxed-order.cpp:17` describes; what has been performed is seen by all.
* **Programs as sequences.** The small programs are sequences of calls, one per
  function that runs in a thread of its own: StdThread, Ownership and MemoryOrder say
  what each call does and when it waits, ThreadPrograms and the scripts of the two
  others what each program calls, in the order of the code. `expect` holds what the
  program asserts, or prints as its lesson.
* **std::async** without a policy may defer its task, which then runs in whoever asks
  for its result, and never if nobody does. In the small programs both happen: in the
  models on StdThread by the call that launches, and in MemoryOrder for the three
  programs that destroy their futures without asking (NeverAsked:
  `C/atomic/atomic_thread_fence.cpp` and the spinlock.cpp and ticketlock.cpp of
  cppreference). The benchmarks and barriers, which would hang with deferred tasks
  because their tasks wait for one another, are modelled with threads.
* **External code.** std::mutex, std::lock, std::queue, STAILQ, futures, threads and the pointers of the
  library are modelled by what the programs use of them, and the map
  marks those definitions external.
* **Faulty variants.** A definition introduced by "A faulty variant:" is not part
  of the specification. It is the next definition with a plausible bug, there to
  show that a property really depends on the line: with it in place, TLC finds the
  property violated.
* **Locals** go back to a fixed value once dead, to keep the state space small.

## 3 Modules

### Locks

| module | models | state and actions |
|---|---|---|
| FifoMutex | promise of a ticket lock | Request, Grant to the longest waiting, Release |
| TicketLock | program of `C/lockfree/test_lock.cpp` with `ticketlock.h` | LoadData and StoreData are `++data`, Join the waits and the assert; TakeTicket, Enter, LoadTurn, PassTurn (the two halves of unlock) |
| TestLock | main of test_lock.cpp, with `C/lockfree/spinlock.h` too | TicketLock, then the spinlock (SpinLock, SpinUnlock) on the same data |
| IoMutex | `C/atomic/atomic_flag.cpp`, `atomic_bool.cpp`, `atomic_int.cpp` | a line is three writes; one of three locks per behaviour |
| RWMutex | promise of all read-write locks | readers together or one writer |
| CasRWLock | `C/lockfree/test_rwlock.cpp`, `rwlock.h`, `rte_rwlock.h`, cppreference | load, then exchange, as separate steps; the string is two halves |
| RWBench | benchmark of `cv_rwlock.cpp` and `C/atomic/rwlock.cpp` | readers until MAX_NUMBER, a writer at multiples of PER_NUMBER |
| CvRWLock, WriteFirstRWLock | rwlock, rwlock_write_first of `cv_rwlock.cpp` | blocks under the mutex and notifications |
| WordRWLock | rwlock and ticketlock of `C/atomic/rwlock.cpp`; atomic_rwlock of `cv_rwlock.cpp` (AtomicSpec) | word and tickets, access by access |
| RWBenchMain | both main functions | one program per behaviour, its locks one after another |

### Waiting for one another

| module | models | state and actions |
|---|---|---|
| BlockQueue | `block_queue.cpp` | enqueue, dequeue, their notifications, wake-ups |
| Stages | promise of a barrier | Arrive, Pass |
| SpinBarrier, CvBarrier | `C/atomic/barrier.cpp`, `C/condition_variable/barrier.cpp` | arrivals, the generation, who waits |
| ReadyFlag | `condition_variable.cpp` | the flag, the notification, main's time limit |
| OneShotEvents | Item 39; `count_down_latch.cpp` | block, the task's and main's next step in it; CountDown, main's two waits |
| MutexDemos | `dead_lock.cpp`, `unique_lock.cpp` | who has which mutex; a, b, c |
| Demos | the mains of these, of IoMutex, of Ownership and of SignedWords | one program per behaviour |

### Programs on threads, futures and atomics

| module | models | state and actions |
|---|---|---|
| StdThread | what the programs use of `<thread>`, `<future>`, `<mutex>`, `<atomic>` | pc per actor, shared states, joinable threads, variables, ended scopes; one action per call |
| MemoryOrder | the programs on memory orders, the locks of cppreference, the barrier with its relaxed operations | which accesses each thread has performed, in what order the code allows (Before); how each task was launched |
| ThreadPrograms | `C/async/`, `C/thread/`, `mutex.cpp`, `lock_guard.cpp`, `atomic.cpp`, `compare_exchange_weak.cpp`, the self-deadlock of `atomic_int.cpp`, items 16, 35 to 38, 40 | the calls of each |

### Ownership

| module | models | state and actions |
|---|---|---|
| SharedPtr | `X::shared_ptr` of item19.cpp | pointers, counts, live objects; an operation is begun, and then does one access of the count or the object per step |
| Ownership | the mains of items 18 to 22, 32 and 42; fastLoadWidget of item20.cpp for any callers | what each handle owns, weak pointers, live objects |

### Arithmetic

SignedWords (`representing-signed-integers/`): a code is the set of its bits that are
1, each function of common.cpp is an operator, and a behaviour is a run of encode,
decode or add on one argument; Demos checks every argument of six bits.

### Containers

| module | models |
|---|---|
| FifoQueue, Deques | what queues and lists promise |
| QueueBench | producers, customers, counters and clock of `test_threadsafe_queue.cpp` (and of `test_boost_lockfree_queue.cpp`) |
| DummyQueue, ListQueue, MutexQueues | `threadsafe_queue_with_dummy_node.h`; `threadsafe_single_list_queue.h`; `threadsafe_ring.h` and the two wrappers |
| TestQueues | main: rounds with one of the queues |
| NodeList | `list.h`, nodes by address with next and prev |
| PlainQueues | `queue.h`, `queue_with_dummy_node.h`, `ring.h` |
| BucketTable | `threadsafe_lookup_table.h`, a lock per bucket; empty() and size() go from bucket to bucket |
| RehashTable | `threadsafe_lookup_table1.h`, with is_prime and get_double_prime_number |
| NodeTable | `threadsafe_lookup_table2.h`, a rehash one node at a time |
| DataStruct | one container, or SharedPtr, per behaviour; only a means to check them together |

## 4 Runs and what they show

| run | instance | shows |
|---|---|---|
| test_lock | 3 threads, 2 loops, counters modulo 4 | MutualExclusion and NoLostUpdate across several wraps; the ticket lock implements FifoMutex with its fairness; MainEnds |
| rwlock | 2 readers, 2 writers, 2 loops | WordCountsHolders, NoTornCopy, FrozenWhileRead; implements RWMutex; AllThreadsEnd |
| rw_bench_main | 2 readers, 2 writers, numbers to 3, period 2 | NoLostWakeup: nobody sleeps in an idle lock with no notification to come, in either lock and in either wait set; WritersFirst: nobody overtakes a writer that waits in the write-first lock; all implement RWMutex; MainEnds, with such a writer getting in |
| test_queues | 2 producers, 2 customers, 3 numbers, ring of 3, 2 rounds | five queues: FIFO, the ends of the lists used only while they are alive and apart (EndsUsable), benchmark ends empty (EndsDrained) with the clock read in order |
| block_queue | 2 producers, 3 customers, capacity 2 | NoLostWakeup, and KeepsFlowing: items go in and out for ever |
| data_struct | see below | lists implement Deques, queues FifoQueue, the node table RehashTable; a list reads the same from both ends (LinksMirror); find finds every value after growth (FoundAfterRehash); EmptyIsHonest; X::shared_ptr frees once (FreedOnce) |
| demos | 2 tasks, 4 threads, 3 generations, 3 printers of 2 lines, words of 6 bits | PrintsInOrder (whole lines, Fibonacci numbers, stages), NobodyGoesEarly, WidgetsShared for any callers of the cache, LeaksAsShown, CodesAgree, the barriers implement Stages, and ProgramEnds but for the two hangs the programs are there to show |
| thread_programs | 3 cpus, strings of 9 to 12 | OutputAsShown: results, errors and assertions; ScopesRespected; OrderedAsShown and NoDataRace over every order in which one memory can perform the accesses (Before) and every launch; ProgramEnds |
| atomic_rwlock_word, ready_flag, lookup_table_size, ones_decoder | | the findings of section 5 |

**Why these bounds are enough.** A waiter, a holder and a newcomer are the three
parts in every race of the locks, hence three threads; with two loops a thread
comes back while another is still on its way out. `Mod` 4 with three threads
is the tightest the assumption `Cardinality(Threads) < Mod` allows, so the
circular comparisons wrap in every behaviour. In the read-write locks two readers
make the last one and the one before it differ, and two writers make a writer
wait for a writer. The code has one writer per benchmark; the second is more than
the program uses and costs little. The blocking queue has more customers than
slots, so that a woken customer can find nothing left. Three
generations let a thread be one generation ahead of the slowest and find out that
it cannot be two. A ring of three slots holds two values and wraps within three
pushes. The list run has two lists of four nodes: first, last, middle and only
node occur, and nodes move from one list to the other. The tables start with one
bucket and grow by insertion (1, 3, 7) and by reserve (2 asks for 5 buckets); in
RehashTable reserve(12) asks for 29, past 25, the first number for which the trial
divisors of is_prime matter. The shared pointer has two threads, so that one frees
while the other copies, and enough handles for a copy of a copy. The cache of item20.cpp
has two ids and three callers: two share a widget while the third lets go of its own.
A word of six bits has every case that one of eight has (the smallest number, zero, a
carry out of and into the sign), and DemosProof!Codes is about any length; the violation
run uses eight. Strings of nine and more
characters on three cpus are those for which async.cpp's parts add up (section 5).
Two rounds of a barrier and one of a lock are what the assertions on memory orders
compare; each thread of those programs does its loop once.

**Bounds in guards.** Loops, Rounds, MaxLoop, MaxNumber and PerNumber stand for
constants of the code (100000 and so on). Items (pushes on a plain queue),
MaxBuckets (the largest growth that NodeTable follows) and the sets of nodes and values are bounds
of the model only. Mod in BlockQueue is where the numbers wrap that producers
enqueue.

**Fairness.** Weak fairness on each thread's next step: the operating system runs
every thread that can run. A spinning thread leaves its loop once its condition
holds and stays true; no thread is promised more than that. In the programs
on memory orders an access that stays permitted is performed at last. Strong fairness is
assumed only of a successful compare_exchange_weak (rwlock.h, atomic_bool.cpp,
atomic/rwlock.cpp): the exchange is enabled again and again and a spurious
failure, or another thread, may beat it each time; the standard only asks
implementations not to fail spuriously for ever, and the finite loops of the
programs bound the other threads. Mutexes need no strong fairness. In most
models a block under a mutex is one step, and no step waits for it. In DummyQueue and in
the demonstrations of mutexes a thread holds a mutex over several steps and others wait;
weak fairness is enough there because whoever holds one goes on to release it, and
because a thread that others overtake is not needed: producers push a bounded number of
times, so a lock of the tail becomes free for good, and a customer that always finds the
mutex of the head taken loses it to customers that pop everything and leave.

compare_exchange_weak.cpp, a single thread, has weak fairness of a step that gets on.

**Deadlock** is checked in every passing run except demos and thread_programs, where
item39.cpp, dead_lock.cpp, atomic_int.cpp, the barrier under relaxed orders and
atomic_thread_fence.cpp really can stop; ProgramEnds there says which hangs are meant. Of
the violation runs ones_decoder and ready_flag stop when their program has ended or
hangs. In the other programs a behaviour ends
in an explicit stutter once main has ended, so any other stop is an error.

## 5 Where the code and its comments disagree

1. `C/condition_variable/cv_rwlock.cpp:230` says the counter of atomic_rwlock is
   "-1 when W lock held, > 0 when R locks held." lock_shared (211-222) does not
   test for -1, so a reader walks in on a writer and the counter becomes 0, which
   means free (run atomic_rwlock_word).
2. `C/condition_variable/condition_variable.cpp:30`: the guard
   `std::lock_guard<std::mutex> lock(std::mutex);` declares a function. ready is
   set and announced without the mutex; the announcement can fall between the
   other thread's test and its sleep, and then main waits for ever at line 34 (run
   ready_flag).
3. `C/data_struct/threadsafe_lookup_table.h:55`: bucket::size returns bool.
   size() counts buckets in use instead of values; the test's
   `assert(t.size() == 2)` holds because 1 and 2 fall into different buckets (run
   lookup_table_size).
4. `cppreference/General-utilities-library/bitset/apps/representing-signed-integers/common.cpp:102`
   says that a positive number has the same ones' complement as its sign-magnitude
   code. ones_complement_to_word (165-172) counts the bits that are 0 whatever the
   sign, and reads 00000000 as 127 (run ones_decoder).
5. `C/atomic/atomic_thread_fence.cpp:38` says `assert(z.load(...) != 0); // never fires`.
   Lines 35-36 launch f1 and f2 by std::async without a policy and destroy the futures
   without asking for the results: if the library defers both, neither runs and z is 0.
   The sums asserted in cppreference's spinlock.cpp:56 and ticketlock.cpp:67 depend in the
   same way on their launches (52, 63). What holds is OrderedAsShown in the run
   thread_programs: z is not 0 exactly when both tasks run, and data is the number of
   the tasks that do.

Seen in the models, where a property names it as an exception:
* the barrier of `C/atomic/barrier.cpp` loads the generation (26) and decrements the
  count (27) with relaxed order: if the processor performs the load later, a thread may
  wait for a generation that never ends (LateLoad in ProgramEnds of thread_programs);
* f2 of atomic_thread_fence.cpp spins for ever if it runs and f1 has been deferred
  (WaitsForDeferred in ProgramEnds of thread_programs);
* `encode -128` passes the test of the range and then ends in overflow_error;
* item38.cpp destroys a joinable thread, which ends the program, as its comment wants;
* item20.cpp leaks its cycle of two nodes and item42.cpp the two Widgets whose deleter
  does nothing.

Noticed in reading, and not run: `dead_lock.cpp:58` prints "failed" when the lock
was acquired; `count()` and `empty()` of `queue_with_dummy_node.h` count the dummy
and would fail the assertions of `test_queue.cpp:83-84`, which never execute,
because main (155-156) only constructs the function objects; the
"random-full-read" mode of the table tests inserts instead of finding; `async.cpp:69`
adds `size % steplen` where `size % n` is meant, which shows for sizes below about the
square of the number of threads, where the assertion of line 78 fails (main uses a
million and more); create_random_string may draw the index of the terminating zero of
its alphabet; `cppreference/.../rwlock/rwlock.cpp` documents its is_sorted
otherwise than it returns; the last block of item20.cpp never sets prev; and
item42.cpp:60-61 (copy assignment of X::string, never called) deletes the buffer it
then copies into.

## 6 Proofs

The last step of each proof shows that an invariant is initially true and kept by every
step; what follows says what the invariants are and why they are needed.

**TicketLockProof**, from `IsFiniteSet(Threads)`, `Loops \in Nat \ {0}` and
`Cardinality(Threads) < Mod`. Mutual exclusion is not inductive: that two
threads do not see their number called at once follows from what numbers are
about. The invariant IInv says that the numbers held by threads between
fetch_add and the end of unlock are pairwise different (NumbersDistinct) and lie in
the circular interval from turn to ticket (NumbersInRange), whose length is the
number of such threads (NumbersInUse); that a holder's number is the turn
(HolderHasTurn) and the value an unlock is about to store is based on the current
turn (NewTurnCurrent). `Cardinality(Threads) < Mod` keeps the interval from
closing on itself; without it the lock is wrong. There is one lemma per action.
NothingLost rests on the same invariant with DataCounts: data is the number of
pairs <<thread, iteration>> whose increment has been stored. Refinement maps to
FifoMutex: the order of arrival is the circular distance from turn. The theorems are
about the whole main of test_lock.cpp (TestLock): what holds of the program's own
variables is shown for any lock that excludes (ClientInv), the first call leaves behind
what the second starts from, and of the spinlock one needs that its flag is set
exactly while a thread holds it (FlagTells).

**CasRWLockProof**, for any sets of readers and writers. The invariant: the word
is -1 exactly while one writer is inside and otherwise the number of readers inside
(WordCounts); a thread about to exchange holds a value that would admit it; the
halves of the string differ only between the two assignments of a writer, and the
first half of an unfinished copy is the current one. From it follow NeverTorn, Frozen (as an action property)
and Refinement of RWMutex.

**BlockQueueProof**, for any numbers of producers and customers and any capacity.
NoLostWakeup is inductive together with the types: an element that comes brings the
step of its notification along, a notification turns a sleeper into a woken
thread, and a woken thread leaves with an element or when there is none. There is
one lemma per action over the two sides, with the cardinalities of the threads
about to notify and of those woken. SomebodyAwake follows: if all slept, the queue
would be empty and full at once.

**DemosProof**, for any finite set of threads, any stages, printers, lines, callers and
ids, and words of two or more bits. A behaviour of Demos is a run of one program, and a program that is not chosen stays
where it starts (NextMoves); so the invariant is one part for each program, and each part
holds in every behaviour.
*Spin barrier.* The count is set back before the generation is raised, so the two are not
related in every state. Every thread is in the stage of the generation, or in the spin of
the one before and free to leave (SpinInStep); when somebody is between the last decrement
and the store of the generation, all the others are in the spin of this generation
(SpinLastIsAlone), so nobody decrements a count that is about to be overwritten; otherwise
the count is the number of threads less those it was lowered for (SpinCountRight); and the
results are those of the past stages and one from each thread that has pushed in this one
(SpinResultsRight). The barrier's own accesses are taken in program order here.
*Barrier under a mutex.* It is filling, with current_count_ the number of those to come and
somebody still to come, or the threads are leaving it with a generation that is not theirs.
*Locks of iomutex.* One thread has the lock: lock_ says whether there is one, and no
exchange expects TRUE; the tickets are different and the holder's is the turn. Whoever is
inside a line has begun the last line of the output, and no thread has printed a line after
that of its loop counter.
*unique_lock.cpp.* b and c are consecutive Fibonacci numbers, and c is one further while a
thread is between the two stores. Fib is a recursive function of MutexDemos; that it exists
is shown from lists of Fibonacci numbers of every length, by least counterexamples.
*item20.cpp.* What a caller holds is alive and is what the cache has for its id, so an entry
is replaced only when nobody holds its widget.
*Signed words.* The programs take one step, so the invariant says only that the answer is the
one for the arguments; what is hard is that it is right for words of any length. Each loop
over the bits is a recursive function, which exists (LoopRuns) and whose value after k
rounds is found by a least counterexample (UpTo). A word is told by its weight
(WeightTells), and so every claim about codes becomes one about numbers: the low bits of n
and what is left, shifted back, are n (BitsWeigh), so word_to_machine(n) weighs n or
n + 2^WORD_LEN; a word and its complement weigh 2^WORD_LEN - 1 together (WeightOthers);
fake_add keeps the weight, with the carry into bit k counted as 2^k (SumWeight). Of the
smallest number abs is no word, and after all the halves -1 is left (SmallestOverflows).
Power, 1 << i, is defined by doubling and not by `2 ^ i`, of which the provers know nothing.
For the latch and item39.cpp the invariant is little more than the property.

**DataStructProof**, for any threads, any finite sets of nodes, handles and objects, any
values, and any number of buckets and capacity. One part of the invariant for each
container; they do not share variables, so a step of one leaves the others' parts alone.
*X::shared_ptr.* The count of item19.cpp's shared_ptr is raised and lowered in steps of its
own, so "the count is the number of handles" is not inductive. The invariant: a handle
that is being changed is in the hands of one thread, and one that is copied from is not
changed (Exclusive, which is how the model says that a shared_ptr object itself is not
thread-safe); the count is the number of handles that own a share, leaving out the
thread's handle while it is between giving one up and getting the next
(SharesCounted); and once an object has no share, one thread and no other is about to
delete it (OneDeletes). There is one lemma per action, over the finite set of shares.
*Table with a mutex in each bucket.* Every value is in the bucket its hash says, and what
has been in the table since a call of empty() is in none of the buckets that its
loop has left behind (LookedBehind). An insertion behind the loop is of a value that has not
been there all the time.
*Plain queues.* Some sequence of different numbers, from the last taken to the last
pushed, lies in the slots of the ring, around its end, or in the nodes linked from
head_; tail_ means something only while there is a node. Each operation pushes a number
onto the sequence, takes its first or leaves it alone.
*Lists.* There is a sequence c[l] of nodes for each list l such that next and prev link
neighbours and nothing else, head and tail are its ends (Doubly), the lists have no node
in common, and the nodes that are in none of them have no links (ListHolds). All five
operations are one lemma each about a sequence with a node more or less at the
front, at the back or in the middle. From it follow Deques, with Chain along
next as the mapping, and LinksMirror, with Backward along prev.
*Growing table.* There are a number n of buckets that has no divisor between 1 and n, and a
finite set C of size_ values, at most n, such that bucket b holds each value v of C with
v % n = b once and nothing else (Keeps). A rehash keeps C: Spread puts one value after the
other at the end of the bucket its new hash says. That the loop of
get_double_prime_number ends needs a prime beyond every number (PrimeBeyond, Euclid's
argument with a product of all numbers up to n), and that it ends at a prime needs
is_prime to be right: a divisor of a number that 2 and 3 do not divide is 1 or 5 modulo 6,
and if there is one there is one up to the root (TrialDivision, PrimesPass).
*Table that moves its nodes.* Each bucket of the two vectors is a list as above; while no
rehash runs the other vector is empty, and a rehash has emptied the buckets below at
(TableHolds). A rehash takes many steps and RehashTable's one, so the mapping gives the
buckets as they are going to be: the values still to move, that of the node p first, spread
over what the new vector holds already (Outcome). Popping a node, going to the next bucket
and pushing the node leave that function of the state as it is (TakeNodeKeeps to
ReplaceKeeps; the first value of a sequence put in its bucket and the others spread
after it is the sequence spread, SpreadFirst), the operation that starts the rehash has
its whole effect at once, and for that Outcome is Grow of what it finds
(GrowthStarts, InsertMoves, EraseMoves, ReserveMoves).

**RWBenchMainProof**, for any finite sets of readers and writers, any length of the
benchmark and any number of ticket values above the number of threads. Each of the four
locks has its part of the invariant, which holds while that lock is in use; the locks
whose round has not come are as they were made (Unused), and that is what lets main go on
to them. The word of a lock tells who is inside. In the two locks on condition variables
the notification comes after the mutex has been released, so "nobody sleeps while the lock
is free" is wrong for a moment; the invariant says what makes up for it: in rwlock a
thread about to notify or one that has been woken, in rwlock_write_first the last reader
with its notification for the one writer that has announced itself, and for those behind
the writer its unlock() or its notification. The tickets of atomic/rwlock.cpp need the
circular intervals of TicketLockProof again, with the place "inside" in common with the
other locks. Every lemma about an action shows that the invariant is kept and that the
step is one of RWMutex or a stutter. WritersFirst speaks of who waits where, not of the
lock's flag; it needs from the invariant that a writer that waits for the readers is the
one that has announced itself (DrainerAnnounced), so that the flag keeps out later readers
and other writers for all the time it waits.

**TestQueuesProof**, for any number of producers and as many customers, any MAX_LOOP, any
capacity and any number of rounds. The invariant: some sequence s of different numbers
lies in the queue. Bench(s) is about the counts of the two loops and does not look at the
queue: every number drawn is taken, in s or about to be pushed, and in one of these places
only; a side whose count is past MAX_LOOP has as many threads at their last operation
as the count is past it. From that follows that when all are done nothing is left, which
is hard to see in the code because a producer counts before it pushes and a customer after
it pops. Holds(s) is how s lies in one of the queues: in the slots of the ring, around its
end; in the wrapped queue; in the chain of nodes of the list; in the chain with a dummy
node, where a push in progress owns a node nobody else can reach, the first node is spent
between the two halves of a pop, and what a pop has seen under tail's mutex stays true
while it holds head's. Every step pushes a number onto s, takes the first or leaves s
alone (Moved), and that is FifoQueue. Elements, the mapping to FifoQueue, is computed by a
recursive function along the nodes. That needs no induction theorem: WalkList builds the
function on a chain explicitly, so that the one CHOOSE picks exists, and a least
counterexample (LeastNat: a set of naturals that is not empty has a least member, from
its finite initial parts) shows that it returns the values in order. DemosProof (Fib,
the loops over bits) and DataStructProof (Chain, Backward, InOrder, Spread, the loop over the primes) do
the same.

The nodes' -1 stands for nullptr and for "no thread holds the mutex"; QueueBenchAssumption
says that no thread has that name. RWBench assumes its sets of threads finite, as a program's are.
The inductive invariants of RWBenchMainProof, TestQueuesProof, DemosProof and
DataStructProof were first checked with TLC, as invariants of the runs rw_bench_main,
test_queues, demos and data_struct, with the sequences and chains they speak of computed
from the state.

| theorem | of | checked on an instance by |
|---|---|---|
| TicketLockProof!Types | TypeOK | test_lock |
| TicketLockProof!Exclusion | MutualExclusion | test_lock |
| TicketLockProof!NothingLost | NoLostUpdate | test_lock |
| TicketLockProof!Refinement | safety part of ImplementsFifoMutex | test_lock |
| CasRWLockProof!WordCounts | WordCountsHolders | rwlock |
| CasRWLockProof!NeverTorn | NoTornCopy | rwlock |
| CasRWLockProof!Frozen | FrozenWhileRead | rwlock |
| CasRWLockProof!Refinement | ImplementsRWMutex | rwlock |
| RWBenchMainProof!WakeupsKept | NoLostWakeup | rw_bench_main |
| RWBenchMainProof!FirstWriters | WritersFirst | rw_bench_main |
| RWBenchMainProof!Refinement | ImplementsRWMutex | rw_bench_main |
| TestQueuesProof!Drained | EndsDrained | test_queues |
| TestQueuesProof!ClockReadInOrder | ClockInOrder | test_queues |
| TestQueuesProof!Ends | EndsUsable | test_queues |
| TestQueuesProof!Refinement | ImplementsFifoQueue | test_queues |
| BlockQueueProof!WakeupsKept | NoLostWakeup | block_queue |
| BlockQueueProof!SomebodyAwake | no state in which all threads sleep | block_queue (no deadlock) |
| DemosProof!InOrder | PrintsInOrder | demos |
| DemosProof!NotEarly | NobodyGoesEarly | demos |
| DemosProof!OneWidget | WidgetsShared | demos |
| DemosProof!Codes | CodesAgree | demos |
| DemosProof!Refinement | ImplementsStages | demos |
| DataStructProof!Freed | FreedOnce | data_struct |
| DataStructProof!HonestlyEmpty | EmptyIsHonest | data_struct |
| DataStructProof!QueuesInOrder | ImplementsFifoQueue | data_struct |
| DataStructProof!ListsAreDeques | ImplementsDeques | data_struct |
| DataStructProof!ListsMirrored | LinksMirror | data_struct |
| DataStructProof!FoundInPrimes | FoundAfterRehash | data_struct |
| DataStructProof!MovesAsValues | ImplementsRehashTable | data_struct |

Only model-checked:
* every liveness property (MainEnds, AllThreadsEnd, ProgramEnds, KeepsFlowing,
  ReadySeen) and the fairness in FifoMutex: fairness and ENABLED are out of TLAPS' reach
  here;
* LeaksAsShown and the invariants of ThreadPrograms: the programs they are about are
  fixed sequences of calls without parameters, so TLC sees every state they have.

## 7 What is not modelled

* Items 1 to 15, 17, 23 to 31, 33, 34 and 41, cxx11 outside concurrency, cxx14, cxx17
  and the tuple programs: what they show is decided by the compiler. The same holds of
  user_define_type_atomic.cpp, ATOMIC_XXX_LOCK_FREE.cpp and hardware_concurrency.cpp,
  which print what the compiler or the machine says.
* Of item 16 the polynomial and the point, which one thread uses; X::string's copy
  assignment in item42.cpp, which nothing calls; deleters and control blocks other than
  by the handle that has them.
* pthread_rwlock, std::shared_mutex, boost::lockfree::queue: not in the repository.
* Processors on which a store reaches other threads at different times: MemoryOrder
  has one memory, and accesses to it out of program order. No program here depends on the
  difference (none reads two locations written by two threads with less than seq_cst).
* Times, throughput, printed text and random numbers. A time limit that may run
  out is a step that may happen.
* Faults: nothing in the repository persists state or talks to another process, so
  there are no crashes, restarts or messages to lose.

## 8 Plan

Done: the locks, queues, barriers, containers and their programs; the programs on
threads, futures and memory orders; ownership; signed words; the proofs of section 6.

Left, in order:
1. *Weak memory under the containers*: the read-write locks of cv_rwlock.cpp and
   atomic/rwlock.cpp as programs of MemoryOrder, with loops of more than one round.
2. *Small programs*: the conversions of chrono, the polynomial cache of item 16.
