----------------------------- MODULE RehashTable -----------------------------
(***************************************************************************)
(* threadsafe_lookup_table1.h: a hash table that grows when an insertion   *)
(* makes it hold more values than buckets, and on reserve().  Every        *)
(* operation is one block under mutex_, and so one step.  hash_ is         *)
(* std::hash of an integer, the identity.                                  *)
(***************************************************************************)
EXTENDS Integers, Sequences, FiniteSets

CONSTANTS Values, Reserves      \* arguments of insert and erase, of reserve

VARIABLES buckets,      \* buckets_, the list of each index
          size          \* size_

vars == <<buckets, size>>

MaxLoadFactor == 1

CeilSqrt(num) == CHOOSE r \in 0 .. num : r * r >= num /\ \A s \in 0 .. r - 1 : s * s < num

\* A faulty variant: the trial divisors end below the root.
IsPrimeBelowRoot(num) ==
    /\ num > 1
    /\ \/ num <= 3
       \/ /\ num % 2 # 0 /\ num % 3 # 0
          /\ \A i \in 5 .. CeilSqrt(num) - 1 : (i - 5) % 6 = 0 => num % i # 0 /\ num % (i + 2) # 0

IsPrime(num) ==
    /\ num > 1
    /\ \/ num <= 3
       \/ /\ num % 2 # 0 /\ num % 3 # 0
          /\ \A i \in 5 .. CeilSqrt(num) : (i - 5) % 6 = 0 => num % i # 0 /\ num % (i + 2) # 0

\* get_double_prime_number: the first prime among the odd numbers from 2n + 1 on.
DoublePrime(n) == LET from[num \in Nat] == IF IsPrime(num) THEN num ELSE from[num + 2]
                  IN  from[2 * n + 1]

Count(bs) == Cardinality(DOMAIN bs)
\* A bucket: find, insert and erase
In(v, s) == \E i \in 1 .. Len(s) : s[i] = v
BucketInsert(s, v) == IF In(v, s) THEN s ELSE Append(s, v)
BucketErase(s, v) == LET i == CHOOSE i \in 1 .. Len(s) : s[i] = v /\ \A j \in 1 .. i - 1 : s[j] # v
                     IN  SubSeq(s, 1, i - 1) \o SubSeq(s, i + 1, Len(s))

Bucket(v) == v % Count(buckets)

Find(v) == In(v, buckets[Bucket(v)])
Empty == size = 0

\* The values of some buckets in the order of the loops of do_rehash.
InOrder(bs) == LET from[b \in 0 .. Count(bs)] ==
                       IF b = Count(bs) THEN <<>> ELSE bs[b] \o from[b + 1]
               IN  from[0]

\* The values of s put into the buckets bs, one after the other.
Spread(s, bs) == LET moved[i \in 0 .. Len(s)] ==
                         IF i = 0 THEN bs
                         ELSE [moved[i - 1] EXCEPT ![s[i] % Count(bs)] = Append(@, s[i])]
                 IN  moved[Len(s)]

\* A faulty variant: the old number of buckets still decides of the place.
GrowKeepingPlaces(bs, n) ==
    IF n > Count(bs)
    THEN [b \in 0 .. n - 1 |-> SelectSeq(InOrder(bs), LAMBDA v : v % Count(bs) = b)]
    ELSE bs

\* do_rehash
Grow(bs, n) == IF n > Count(bs) THEN Spread(InOrder(bs), [b \in 0 .. n - 1 |-> <<>>]) ELSE bs

Init == buckets = [b \in {0} |-> <<>>] /\ size = 0

Insert(v) ==
    LET added == [buckets EXCEPT ![Bucket(v)] = BucketInsert(@, v)] IN
    /\ added # buckets
    /\ size' = size + 1
    /\ buckets' = IF size' > MaxLoadFactor * Count(buckets)
                  THEN Grow(added, DoublePrime(Count(buckets)))
                  ELSE added

Erase(v) == /\ Find(v)
            /\ buckets' = [buckets EXCEPT ![Bucket(v)] = BucketErase(@, v)]
            /\ size' = size - 1

Reserve(c) == /\ c > Count(buckets)
              /\ buckets' = Grow(buckets, DoublePrime(c))
              /\ UNCHANGED size

Next == \/ \E v \in Values : Insert(v) \/ Erase(v)
        \/ \E c \in Reserves : Reserve(c)

Spec == Init /\ [][Next]_vars

-----------------------------------------------------------------------------
\* After any number of rehashes find finds every value that is in one of the buckets,
\* it is there once, size_ counts the values, and there are at least as many buckets.
PlacedByHash ==
    /\ \A v \in Values : Find(v) <=> In(v, InOrder(buckets))
    /\ size = Len(InOrder(buckets))
    /\ size = Cardinality({v \in Values : Find(v)})
    /\ Empty <=> \A b \in DOMAIN buckets : buckets[b] = <<>>
    /\ size <= Count(buckets)

\* The number of buckets after a growth is a prime, by the definition of one.
GrowsToPrimes == \/ Count(buckets) = 1
                 \/ \A k \in 2 .. Count(buckets) - 1 : Count(buckets) % k # 0
=============================================================================
