------------------------------ MODULE DataStruct ------------------------------
(***************************************************************************)
(* The containers of data_struct/ other than the thread-safe queues, and   *)
(* the shared_ptr of item19.cpp, whose module is extended here.  They are  *)
(* separate classes with separate test programs; a behaviour follows       *)
(* objects of one of them, chosen at the start, and the members of the     *)
(* others stay empty.                                                      *)
(***************************************************************************)
EXTENDS SharedPtr, Sequences

CONSTANTS Lists, ListNodes, ListValues, \* of the lists
          Nodes, Values,                \* of the queues and the tables
          Capacity, Items,              \* of the queues
          NumBuckets,                   \* of the table with locks in its buckets
          Reserves, MaxBuckets          \* of the tables that grow

ASSUME DataStructAssumption ==
    /\ ListNodes \subseteq Nat /\ IsFiniteSet(ListNodes)
    /\ Nodes \subseteq Nat /\ Nodes # {} /\ IsFiniteSet(Nodes)
    /\ Values \subseteq Nat
    /\ Capacity \in Nat \ {0} /\ Items \in Nat
    /\ NumBuckets \in Nat \ {0} /\ MaxBuckets \in Nat \ {0}
    /\ Reserves \subseteq Nat \ {0}

VARIABLES kind,
          head, tail, next, prev, data, alive, held,    \* NodeList, PlainQueues, NodeTable
          pushed, taken,                                \* PlainQueues
          bucket, call, sum, stayed,                    \* BucketTable
          at,                                           \* BucketTable, NodeTable
          buckets,                                      \* RehashTable
          size,                                         \* RehashTable, NodeTable
          gen, count, grow, p                           \* NodeTable

listVars == <<head, tail, next, prev, data, alive, held>>
queueVars == <<pushed, taken>>
lockedVars == <<bucket, call, sum, stayed>>
nodeTableVars == <<gen, count, grow, p>>
containerVars == <<listVars, queueVars, lockedVars, at, buckets, size, nodeTableVars>>
allVars == <<kind, containerVars, vars>>

List == INSTANCE NodeList WITH Nodes <- ListNodes, Values <- ListValues
Queue == INSTANCE PlainQueues
Table == INSTANCE BucketTable
Table1 == INSTANCE RehashTable
Table2 == INSTANCE NodeTable

NoList == head = 0 /\ tail = 0 /\ next = <<>> /\ data = <<>>
NoLinks == prev = <<>> /\ alive = {} /\ held = {}
NoQueue == pushed = 0 /\ taken = {}
NoLocked == bucket = <<>> /\ call = <<>> /\ sum = <<>> /\ stayed = <<>>
NoNodeTable == gen = 0 /\ count = 0 /\ grow = 0 /\ p = 0

ContainerInit ==
        \/ /\ kind = "list" /\ List!Init
           /\ NoQueue /\ NoLocked /\ NoNodeTable /\ at = 0 /\ buckets = <<>> /\ size = 0
        \/ /\ Queue!Init
           /\ NoLinks /\ NoLocked /\ NoNodeTable /\ at = 0 /\ buckets = <<>> /\ size = 0
        \/ /\ kind = "table" /\ Table!Init
           /\ NoList /\ NoLinks /\ NoQueue /\ NoNodeTable /\ buckets = <<>> /\ size = 0
        \/ /\ kind = "table1" /\ Table1!Init
           /\ NoList /\ NoLinks /\ NoQueue /\ NoLocked /\ NoNodeTable /\ at = 0
        \/ /\ kind = "table2" /\ Table2!Init
           /\ NoQueue /\ NoLocked /\ buckets = <<>>

ContainerNext ==
        \/ /\ kind = "list" /\ List!Next
           /\ UNCHANGED <<kind, queueVars, lockedVars, at, buckets, size, nodeTableVars>>
        \/ /\ Queue!Next
           /\ UNCHANGED <<prev, alive, held, lockedVars, at, buckets, size, nodeTableVars>>
        \/ /\ kind = "table" /\ Table!Next
           /\ UNCHANGED <<kind, listVars, queueVars, buckets, size, nodeTableVars>>
        \/ /\ kind = "table1" /\ Table1!Next
           /\ UNCHANGED <<kind, listVars, queueVars, lockedVars, at, nodeTableVars>>
        \/ /\ kind = "table2" /\ Table2!Next
           /\ UNCHANGED <<kind, queueVars, lockedVars, buckets>>

NoContainer == /\ NoList /\ NoLinks /\ NoQueue /\ NoLocked /\ NoNodeTable
               /\ at = 0 /\ buckets = <<>> /\ size = 0

AnyInit == (ContainerInit \/ (kind = "shared_ptr" /\ NoContainer)) /\ Init

AnyNext == \/ ContainerNext /\ UNCHANGED vars
           \/ kind = "shared_ptr" /\ Next /\ UNCHANGED <<kind, containerVars>>

AnySpec == AnyInit /\ [][AnyNext]_allVars

-----------------------------------------------------------------------------
EmptyIsHonest == kind = "table" => Table!EmptyIsHonest

\* Through all rehashes the values stay where their hash says, in a prime number of
\* buckets.
FoundAfterRehash == kind = "table1" => Table1!PlacedByHash /\ Table1!GrowsToPrimes

\* A list reads the same from both ends, and a node is in one list or with the caller,
\* with no links left (list.h).
LinksMirror == kind = "list" => List!LinksMirror

Deques == INSTANCE Deques WITH
              Nodes <- ListNodes,
              q <- [l \in Lists |-> IF kind = "list" THEN List!Chain(l) ELSE <<>>],
              held <- IF kind = "list" THEN held ELSE {}

\* Nodes leave a list in the order of the pushes, or where they are erased, and
\* no operation on one list disturbs another (list.h).
ImplementsDeques == Deques!Spec

IsQueue == kind \in {"linked", "dummy", "ring"}

QueueElements == IF IsQueue THEN Queue!Elements ELSE <<>>

Fifo == INSTANCE FifoQueue WITH Values <- 1 .. Items, q <- QueueElements

\* Every push puts its value at the end, every pop hands out the front, also when
\* the queue has been empty in between and tail_ points to a node that is gone
\* (queue.h, queue_with_dummy_node.h, ring.h).
ImplementsFifoQueue == Fifo!Init /\ [][\/ Fifo!Pop /\ UNCHANGED pushed
                                      \/ Fifo!Push(pushed')]_<<QueueElements, taken, pushed>>

Values1 == INSTANCE RehashTable WITH
               buckets <- IF kind = "table2" THEN Table2!Buckets ELSE [b \in {0} |-> <<>>],
               size <- IF kind = "table2" THEN size ELSE 0

\* Moving the nodes has the effect of moving the values: every operation of the
\* second version, with the rehash it causes, leaves the buckets that the first
\* version leaves (threadsafe_lookup_table2.h and 1.h).
ImplementsRehashTable == Values1!Spec
=============================================================================
