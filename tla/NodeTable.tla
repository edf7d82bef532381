------------------------------ MODULE NodeTable ------------------------------
(***************************************************************************)
(* threadsafe_lookup_table2.h: the table of RehashTable with the lists of  *)
(* NodeList as its buckets, so that a rehash moves the nodes instead of    *)
(* the values: they are popped from the old bucket and pushed to the new.  *)
(* The mutex is held during a rehash, and no other operation starts.       *)
(*                                                                         *)
(* A bucket is the place <<g, b>>: index b of one of the two vectors, the  *)
(* current one and that which do_rehash fills.  Nobody deletes the node of *)
(* an erased value; Nodes bounds the insertions of a behaviour.            *)
(***************************************************************************)
EXTENDS Integers, Sequences, FiniteSets

CONSTANTS Values, Reserves,
          Nodes,
          MaxBuckets            \* bound on the size of a vector

VARIABLES head, tail, next, prev, data, alive, held,    \* of the lists
          size,                 \* size_
          gen, count,           \* the current vector, and its number of buckets
          grow,                 \* new_bucket_ct during do_rehash, or 0
          at, p                 \* the bucket b and the node p of its loops

Places == {0, 1} \X (0 .. MaxBuckets - 1)
L == INSTANCE NodeList WITH Lists <- Places
R == INSTANCE RehashTable WITH buckets <- <<>>

listVars == <<head, tail, next, prev, data, alive, held>>
vars == <<listVars, size, gen, count, grow, at, p>>

Init == /\ L!Init
        /\ size = 0 /\ gen = 0 /\ count = 1 /\ grow = 0 /\ at = 0 /\ p = L!Nil

Place(v) == <<gen, v % count>>

\* bucket::find, insert and erase, on the list of a bucket
BucketFind(l, v) == L!Find(l, v) # {}
BucketInsert(l, v) == ~BucketFind(l, v) /\ L!PushBack(l, v)
BucketErase(l, v) == BucketFind(l, v) /\ L!Erase(l, v)

\* rehash() and do_rehash() up to their loop
Rehash(n) == R!DoublePrime(n) <= MaxBuckets /\ grow' = R!DoublePrime(n)

Insert(v) == /\ grow = 0
             /\ BucketInsert(Place(v), v)
             /\ size' = size + 1
             /\ IF size' > R!MaxLoadFactor * count THEN Rehash(count) ELSE UNCHANGED grow
             /\ UNCHANGED <<gen, count, at, p>>

Erase(v) == /\ grow = 0
            /\ BucketErase(Place(v), v)
            /\ size' = size - 1
            /\ UNCHANGED <<gen, count, grow, at, p>>

Reserve(c) == /\ grow = 0 /\ c > count
              /\ Rehash(c)
              /\ UNCHANGED <<listVars, size, gen, count, at, p>>

\* while((p = b.values_.pop_front())), and the next bucket when there is no node
TakeNode == /\ grow > 0 /\ p = L!Nil /\ at < count
            /\ L!PopFront(<<gen, at>>)
            /\ p' = head[<<gen, at>>]
            /\ UNCHANGED <<size, gen, count, grow, at>>

NextBucket == /\ grow > 0 /\ p = L!Nil /\ at < count
              /\ head[<<gen, at>>] = L!Nil
              /\ at' = at + 1
              /\ UNCHANGED <<listVars, size, gen, count, grow, p>>

MoveNode == /\ p # L!Nil
            /\ L!PushBackNode(<<1 - gen, data[p] % grow>>, p)
            /\ p' = L!Nil
            /\ UNCHANGED <<size, gen, count, grow, at>>

\* buckets_ = std::move(new_buckets)
Replace == /\ grow > 0 /\ p = L!Nil /\ at = count
           /\ gen' = 1 - gen /\ count' = grow /\ grow' = 0 /\ at' = 0
           /\ UNCHANGED <<listVars, size, p>>

\* The bound: every node has been used.
Exhausted == alive = Nodes /\ grow = 0

Next == \/ \E v \in Values : Insert(v) \/ Erase(v)
        \/ \E c \in Reserves : Reserve(c)
        \/ TakeNode \/ NextBucket \/ MoveNode \/ Replace
        \/ Exhausted /\ UNCHANGED vars

Spec == Init /\ [][Next]_vars

-----------------------------------------------------------------------------
DataOf(l) == [i \in 1 .. Len(L!Chain(l)) |-> data[L!Chain(l)[i]]]

\* The values of n buckets of one of the vectors
Vector(g, n) == [b \in 0 .. n - 1 |-> DataOf(<<g, b>>)]

\* The values whose nodes a rehash still has to move, in the order of its loops.
Waiting == LET behind == R!InOrder(Vector(gen, count))
           IN  IF p = L!Nil THEN behind ELSE <<data[p]>> \o behind

\* The buckets as the operation that holds the mutex is going to leave them.
Buckets == IF grow = 0 THEN Vector(gen, count) ELSE R!Spread(Waiting, Vector(1 - gen, grow))
=============================================================================
