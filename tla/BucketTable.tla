----------------------------- MODULE BucketTable -----------------------------
(***************************************************************************)
(* threadsafe_lookup_table.h: a hash table with a fixed number of buckets  *)
(* and a mutex in each.  insert and erase are one block under the mutex of *)
(* one bucket; empty() and size() lock one bucket after the other, and the *)
(* other threads insert and erase between two of their steps.              *)
(***************************************************************************)
EXTENDS Integers, FiniteSets

CONSTANTS Threads,      \* the threads that call empty() and size()
          Values,
          NumBuckets

VARIABLES bucket,       \* values_ of each bucket; their order shows nowhere
          call,         \* where each thread is
          at,           \* the next bucket of its loop
          sum,          \* sz of its size()
          stayed        \* the values that have been there since its call began

vars == <<bucket, call, at, sum, stayed>>

Indices == 0 .. NumBuckets - 1
All == UNION {bucket[b] : b \in Indices}

Init == /\ bucket = [b \in Indices |-> {}]
        /\ call = [t \in Threads |-> "none"]
        /\ at = [t \in Threads |-> 0] /\ sum = [t \in Threads |-> 0]
        /\ stayed = [t \in Threads |-> {}]

GetBucket(v) == v % NumBuckets

Find(v) == v \in bucket[GetBucket(v)]

Insert(v) == /\ ~Find(v)
             /\ bucket' = [bucket EXCEPT ![GetBucket(v)] = @ \cup {v}]
             /\ UNCHANGED <<call, at, sum, stayed>>

Erase(v) == /\ Find(v)
            /\ bucket' = [bucket EXCEPT ![GetBucket(v)] = @ \ {v}]
            /\ stayed' = [t \in Threads |-> stayed[t] \ {v}]
            /\ UNCHANGED <<call, at, sum>>

Begin(t) == /\ call[t] = "none"
            /\ \E c \in {"empty", "size"} : call' = [call EXCEPT ![t] = c]
            /\ stayed' = [stayed EXCEPT ![t] = All]
            /\ UNCHANGED <<bucket, at, sum>>

\* A faulty variant: the loop leaves the last bucket out.
LookShort(t) ==
    /\ call[t] = "empty"
    /\ \/ at[t] < NumBuckets - 1 /\ bucket[at[t]] = {}
          /\ at' = [at EXCEPT ![t] = @ + 1] /\ UNCHANGED call
       \/ at[t] < NumBuckets - 1 /\ bucket[at[t]] # {}
          /\ call' = [call EXCEPT ![t] = "none"] /\ at' = [at EXCEPT ![t] = 0]
       \/ at[t] = NumBuckets - 1 /\ call' = [call EXCEPT ![t] = "is_empty"] /\ UNCHANGED at
    /\ UNCHANGED <<bucket, sum, stayed>>

\* One round of the loop of empty(): false at the first value, true at the end.
Look(t) ==
    /\ call[t] = "empty"
    /\ \/ at[t] < NumBuckets /\ bucket[at[t]] = {}
          /\ at' = [at EXCEPT ![t] = @ + 1] /\ UNCHANGED call
       \/ at[t] < NumBuckets /\ bucket[at[t]] # {}
          /\ call' = [call EXCEPT ![t] = "none"] /\ at' = [at EXCEPT ![t] = 0]
       \/ at[t] = NumBuckets /\ call' = [call EXCEPT ![t] = "is_empty"] /\ UNCHANGED at
    /\ UNCHANGED <<bucket, sum, stayed>>

\* bucket::size returns the number of values as a bool.
BucketSize(b) == IF bucket[b] = {} THEN 0 ELSE 1

Add(t) ==
    /\ call[t] = "size"
    /\ \/ at[t] < NumBuckets
          /\ sum' = [sum EXCEPT ![t] = @ + BucketSize(at[t])]
          /\ at' = [at EXCEPT ![t] = @ + 1] /\ UNCHANGED call
       \/ at[t] = NumBuckets /\ call' = [call EXCEPT ![t] = "sized"] /\ UNCHANGED <<at, sum>>
    /\ UNCHANGED <<bucket, stayed>>

Return(t) == /\ call[t] \in {"is_empty", "sized"}
             /\ call' = [call EXCEPT ![t] = "none"]
             /\ at' = [at EXCEPT ![t] = 0] /\ sum' = [sum EXCEPT ![t] = 0]
             /\ UNCHANGED <<bucket, stayed>>

Next == \/ \E v \in Values : Insert(v) \/ Erase(v)
        \/ \E t \in Threads : Begin(t) \/ Look(t) \/ Add(t) \/ Return(t)

Spec == Init /\ [][Next]_vars

-----------------------------------------------------------------------------
\* empty() may miss values that come and go while it looks from bucket to bucket,
\* but it does not answer true when a value has been in the table all the time.
EmptyIsHonest == \A t \in Threads : call[t] = "is_empty" => stayed[t] = {}

\* size() counts at least the values that have been in the table all the time: 2
\* for the two values of test_threadsafe_lookup_table.cpp, in whichever buckets
\* they are.
SizeCounts == \A t \in Threads : call[t] = "sized" => sum[t] >= Cardinality(stayed[t])
=============================================================================
