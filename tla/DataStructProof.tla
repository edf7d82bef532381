---------------------------- MODULE DataStructProof ----------------------------
(***************************************************************************)
(* Proofs about the containers of data_struct/ and the shared_ptr of       *)
(* item19.cpp, for any sets of nodes, values, threads and handles and any  *)
(* capacity.                                                               *)
(*                                                                         *)
(* shared_ptr: each operation has its handles for itself (Exclusive), so a *)
(* step changes the shares of one object by one handle, and the count with *)
(* them; the handle that an operation copies from keeps its object alive   *)
(* until the count has been raised.                                        *)
(*                                                                         *)
(* Queues and lists: the invariant names the sequence of nodes that lies   *)
(* in the container (Linked, Doubly).  The recursive functions that follow *)
(* the links find that sequence (WalkFinds), so that what the abstract     *)
(* queue and the abstract deques see is what the invariant names.          *)
(*                                                                         *)
(* The table that rehashes: the invariant names the set of its values and  *)
(* the number of its buckets, a prime (Keeps).  That there is a next prime *)
(* is Euclid's theorem (PrimeBeyond), that trial division recognises it    *)
(* TrialDivision and PrimesPass.                                           *)
(*                                                                         *)
(* The table that moves its nodes: the invariant names the nodes of every  *)
(* bucket of its two vectors (TableHolds).  What the buckets are going to  *)
(* hold after the rehash is a function of their values (Outcome) that a    *)
(* step of the rehash leaves as it is, and that every other operation      *)
(* changes as the table of version 1 does (Effect).                        *)
(***************************************************************************)
EXTENDS DataStruct, FiniteSetTheorems, SequenceTheorems, TLAPS

-----------------------------------------------------------------------------
(***************************************************************************)
(* item19.cpp: X::shared_ptr.                                              *)
(***************************************************************************)
\* Where a thread is in its operation, and what it has called it with
CallsFit ==
    \A t \in Threads : Busy(t) =>
        /\ request[t].to \in built
        /\ pc[t] \in {"release", "delete"} => request[t].do \in {"assign", "destroy"}
        /\ pc[t] = "take" => request[t].do = "assign"
        /\ pc[t] = "increment" => request[t].do \in {"copy", "assign"}
        /\ request[t].do # "destroy" => /\ request[t].from \in built /\ ptr[request[t].from] # None
                                     /\ request[t].from # request[t].to
        /\ pc[t] = "increment" => ptr[request[t].to] = ptr[request[t].from]
        /\ pc[t] = "delete" => ptr[request[t].to] # None

Exclusive ==
    \A t, u \in Threads : t # u /\ Busy(t) /\ Busy(u) =>
        request[t].to # request[u].to /\ request[t].to # request[u].from

\* An object whose last share has been given up is freed by one thread.
OneDeletes ==
    \A t \in Threads, o \in Objects : Deletes(t, o) =>
        /\ o \in live /\ Shares(o) = {}
        /\ \A u \in Threads : Deletes(u, o) => u = t

SharedInv == TypeOK /\ CallsFit /\ Exclusive /\ OneDeletes /\ SharesCounted

-----------------------------------------------------------------------------
\* The shares of an object are finitely many.
LEMMA FiniteShares ==
    ASSUME TypeOK, NEW o \in Objects
    PROVE  IsFiniteSet(Shares(o)) /\ Shares(o) \subseteq Handles
  <1>1. Shares(o) \subseteq Handles
    BY DEF Shares, TypeOK
  <1>2. QED
    BY <1>1, FS_Subset, SharedPtrAssumption

\* A step that leaves shares, counts and the live objects alone keeps what
\* is said of them.
LEMMA SameShares ==
    ASSUME SharedInv, TypeOK', UNCHANGED <<rf, live>>,
           \A o \in Objects : Shares(o)' = Shares(o),
           \A t \in Threads, o \in Objects : Deletes(t, o)' <=> Deletes(t, o)
    PROVE  OneDeletes' /\ SharesCounted'
  <1>1. OneDeletes'
    BY DEF OneDeletes, SharedInv
  <1>2. SharesCounted'
    BY DEF SharesCounted, SharedInv
  <1>3. QED
    BY <1>1, <1>2

LEMMA CopyConstructs ==
    ASSUME SharedInv, NEW t \in Threads, NEW h \in Handles, NEW g \in Handles,
           CopyConstruct(t, h, g)
    PROVE  SharedInv'
  <1> USE DEF SharedInv, CopyConstruct, Begin, Busy
  <1>1. TypeOK'
    BY DEF TypeOK, Calls, Owning, Readable
  <1>2. CallsFit'
    BY DEF CallsFit, TypeOK, Calls, Owning, Readable, Writable
  <1>3. Exclusive'
    BY DEF Exclusive, TypeOK, Calls, Owning, Readable, Writable
  <1>4. \A o \in Objects : Shares(o)' = Shares(o)
    BY DEF Shares, Between, TypeOK, Calls, Owning, Readable, Writable
  <1>5. \A u \in Threads, o \in Objects : Deletes(u, o)' <=> Deletes(u, o)
    BY DEF Deletes, TypeOK, CallsFit, Writable
  <1>6. OneDeletes' /\ SharesCounted'
    BY <1>1, <1>4, <1>5, SameShares
  <1>7. QED
    BY <1>1, <1>2, <1>3, <1>6

LEMMA Assigns ==
    ASSUME SharedInv, NEW t \in Threads, NEW h \in Handles, NEW g \in Handles,
           Assign(t, h, g)
    PROVE  SharedInv'
  <1> USE DEF SharedInv, Assign, Begin, Busy
  <1>1. TypeOK'
    BY DEF TypeOK, Calls, NoCall, Owning, Readable, Writable
  <1>2. CallsFit'
    BY DEF CallsFit, TypeOK, Calls, NoCall, Owning, Readable, Writable
  <1>3. Exclusive'
    BY DEF Exclusive, CallsFit, TypeOK, Calls, NoCall, Owning, Readable, Writable
  <1>4. \A o \in Objects : Shares(o)' = Shares(o)
    BY DEF Shares, Between, CallsFit, TypeOK, Calls, NoCall, Owning, Readable, Writable
  <1>5. \A u \in Threads, o \in Objects : Deletes(u, o)' <=> Deletes(u, o)
    BY DEF Deletes, CallsFit, TypeOK, Calls, NoCall, Owning, Readable, Writable
  <1>6. OneDeletes' /\ SharesCounted'
    BY <1>1, <1>4, <1>5, SameShares
  <1>7. QED
    BY <1>1, <1>2, <1>3, <1>6

LEMMA Destroys ==
    ASSUME SharedInv, NEW t \in Threads, NEW h \in Handles, Destroy(t, h)
    PROVE  SharedInv'
  <1> USE DEF SharedInv, Destroy, Begin, Busy
  <1>1. TypeOK'
    BY DEF TypeOK, Calls, NoCall, Writable
  <1>2. CallsFit'
    BY DEF CallsFit, TypeOK, Calls, NoCall, Writable
  <1>3. Exclusive'
    BY SharedPtrAssumption DEF Exclusive, CallsFit, TypeOK, Calls, NoCall, Writable
  <1>4. \A o \in Objects : Shares(o)' = Shares(o)
    BY DEF Shares, Between, CallsFit, TypeOK, Calls, NoCall, Writable
  <1>5. \A u \in Threads, o \in Objects : Deletes(u, o)' <=> Deletes(u, o)
    BY DEF Deletes, CallsFit, TypeOK, Calls, NoCall, Writable
  <1>6. OneDeletes' /\ SharesCounted'
    BY <1>1, <1>4, <1>5, SameShares
  <1>7. QED
    BY <1>1, <1>2, <1>3, <1>6

LEMMA ReleasesNothing ==
    ASSUME SharedInv, NEW t \in Threads, ReleaseNothing(t)
    PROVE  SharedInv'
  <1> USE DEF SharedInv, ReleaseNothing, Released, End, Busy
  <1>1. TypeOK'
    <2>1. NoCall \in Calls
      BY DEF Calls, NoCall
    <2>2. CASE request[t].do = "destroy"
      BY <2>1, <2>2 DEF TypeOK
    <2>3. CASE request[t].do # "destroy"
      BY <2>3 DEF TypeOK
    <2>4. QED
      BY <2>2, <2>3
  <1>2. CallsFit'
    BY DEF CallsFit, TypeOK, Calls, NoCall, Exclusive
  <1>3. Exclusive'
    BY DEF Exclusive, CallsFit, TypeOK, Calls, NoCall, Exclusive
  <1>4. \A o \in Objects : Shares(o)' = Shares(o)
    <2>1. CASE request[t].do = "destroy"
      BY <2>1, SharedPtrAssumption DEF Shares, Between, CallsFit, Exclusive, TypeOK, NoCall
    <2>2. CASE request[t].do # "destroy"
      BY <2>2, SharedPtrAssumption DEF Shares, Between, CallsFit, TypeOK
    <2>3. QED
      BY <2>1, <2>2
  <1>5. \A u \in Threads, o \in Objects : Deletes(u, o)' <=> Deletes(u, o)
    BY DEF Deletes, CallsFit, TypeOK, Calls, NoCall, Exclusive
  <1>6. OneDeletes' /\ SharesCounted'
    BY <1>1, <1>4, <1>5, SameShares
  <1>7. QED
    BY <1>1, <1>2, <1>3, <1>6

LEMMA AssignTakes ==
    ASSUME SharedInv, NEW t \in Threads, Take(t)
    PROVE  SharedInv'
  <1> USE DEF SharedInv, Take, Busy
  <1>1. TypeOK'
    BY DEF TypeOK, Calls, CallsFit
  <1>2. CallsFit'
    BY DEF CallsFit, TypeOK, Calls, NoCall, Exclusive
  <1>3. Exclusive'
    BY DEF Exclusive, CallsFit, TypeOK, Calls, NoCall, Exclusive
  <1>4. \A o \in Objects : Shares(o)' = Shares(o)
    BY DEF Shares, Between, CallsFit, TypeOK, Calls, NoCall, Exclusive
  <1>5. \A u \in Threads, o \in Objects : Deletes(u, o)' <=> Deletes(u, o)
    BY DEF Deletes, CallsFit, TypeOK, Calls, NoCall, Exclusive
  <1>6. OneDeletes' /\ SharesCounted'
    BY <1>1, <1>4, <1>5, SameShares
  <1>7. QED
    BY <1>1, <1>2, <1>3, <1>6

LEMMA Constructs ==
    ASSUME SharedInv, NEW t \in Threads, NEW h \in Handles, Construct(t, h)
    PROVE  SharedInv'
  <1> USE DEF SharedInv, Construct, Busy
  <1> PICK o \in Objects \ live : /\ live' = live \cup {o}
                                 /\ rf' = [rf EXCEPT ![o] = 1]
                                 /\ ptr' = [ptr EXCEPT ![h] = o]
    OBVIOUS
  <1>1. TypeOK'
    BY DEF TypeOK
  <1>2. CallsFit'
    BY SharedPtrAssumption DEF CallsFit, TypeOK, Calls, Writable
  <1>3. Exclusive'
    BY DEF Exclusive
  <1>4. Shares(o)' = {h}
    <2>1. Shares(o) = {} /\ ~Between(h)
      BY DEF SharesCounted, Between, Writable
    <2>2. \A k \in Handles : Between(k)' <=> Between(k)
      BY DEF Between
    <2>3. QED
      BY <2>1, <2>2 DEF Shares, TypeOK
  <1>5. \A x \in Objects \ {o} : Shares(x)' = Shares(x)
    BY DEF Shares, Between, TypeOK
  <1>6. \A u \in Threads, x \in Objects : Deletes(u, x)' <=> Deletes(u, x)
    BY DEF Deletes, CallsFit, TypeOK, Calls, Writable
  <1>7. \A u \in Threads : ~Deletes(u, o)
    BY DEF OneDeletes
  <1>8. OneDeletes'
    BY <1>5, <1>6, <1>7 DEF OneDeletes, TypeOK
  <1>9. Cardinality({h}) = 1
    BY FS_Singleton
  <1>10. SharesCounted'
    <2> SUFFICES ASSUME NEW x \in Objects
                 PROVE  /\ Shares(x)' # {} => x \in live'
                        /\ x \in live' => rf'[x] = Cardinality(Shares(x)')
                        /\ x \in live' /\ Shares(x)' = {} =>
                              \E u \in Threads : Deletes(u, x)'
      BY DEF SharesCounted
    <2>1. CASE x = o
      BY <1>4, <1>9, <2>1 DEF TypeOK
    <2>2. CASE x # o
      BY <1>5, <1>6, <2>2 DEF SharesCounted, TypeOK
    <2>3. QED
      BY <2>1, <2>2
  <1>11. QED
    BY <1>1, <1>2, <1>3, <1>8, <1>10
\* A move takes the share from one handle to the other.
LEMMA MoveConstructs ==
    ASSUME SharedInv, NEW t \in Threads, NEW h \in Handles, NEW g \in Handles,
           MoveConstruct(t, h, g)
    PROVE  SharedInv'
  <1> USE DEF SharedInv, MoveConstruct, Busy
  <1>1. TypeOK'
    BY DEF TypeOK
  <1>2. CallsFit'
    BY DEF CallsFit, TypeOK, Calls, Writable
  <1>3. Exclusive'
    BY DEF Exclusive
  <1>4. \A u \in Threads, x \in Objects : Deletes(u, x)' <=> Deletes(u, x)
    BY DEF Deletes, CallsFit, TypeOK, Calls, Writable
  <1>5. \A x \in Objects : x # ptr[g] => Shares(x)' = Shares(x)
    BY SharedPtrAssumption DEF Shares, Between, TypeOK
  <1>6. CASE ptr[g] = None
    <2>1. \A x \in Objects : Shares(x)' = Shares(x)
      BY <1>5, <1>6, SharedPtrAssumption
    <2>2. OneDeletes' /\ SharesCounted'
      BY <1>1, <1>4, <2>1, SameShares
    <2>3. QED
      BY <1>1, <1>2, <1>3, <2>2
  <1>7. CASE ptr[g] # None
    <2> PICK o \in Objects : o = ptr[g]
      BY <1>7 DEF TypeOK
    <2>1. /\ g \in Shares(o) /\ h \notin Shares(o)
          /\ Shares(o)' = (Shares(o) \ {g}) \cup {h}
      <3>1. ~Between(g) /\ ~Between(h)
        BY DEF Between, Writable
      <3>2. \A k \in Handles : Between(k)' <=> Between(k)
        BY DEF Between
      <3>3. \A k \in Handles : ptr'[k] = IF k = h THEN o ELSE IF k = g THEN None ELSE ptr[k]
        BY DEF TypeOK
      <3>4. o # None /\ built \subseteq Handles
        BY <1>7 DEF TypeOK
      <3>5. QED
        BY <3>1, <3>2, <3>3, <3>4 DEF Shares
    <2>2. Cardinality(Shares(o)') = Cardinality(Shares(o))
      <3>1. IsFiniteSet(Shares(o)) /\ IsFiniteSet(Shares(o) \ {g})
        BY FiniteShares, FS_RemoveElement
      <3>2. Cardinality(Shares(o) \ {g}) = Cardinality(Shares(o)) - 1
        BY <2>1, <3>1, FS_RemoveElement
      <3>3. Cardinality(Shares(o)') = Cardinality(Shares(o) \ {g}) + 1
        BY <2>1, <3>1, FS_AddElement
      <3>4. Cardinality(Shares(o)) \in Nat
        BY <3>1, FS_CardinalityType
      <3>5. QED
        BY <3>2, <3>3, <3>4
    <2>3. \A u \in Threads : ~Deletes(u, o)
      BY <2>1 DEF OneDeletes
    <2>4. OneDeletes'
      BY <1>4, <1>5, <2>3 DEF OneDeletes
    <2>5. SharesCounted'
      <3> SUFFICES ASSUME NEW x \in Objects
                   PROVE  /\ Shares(x)' # {} => x \in live'
                          /\ x \in live' => rf'[x] = Cardinality(Shares(x)')
                          /\ x \in live' /\ Shares(x)' = {} =>
                                \E u \in Threads : Deletes(u, x)'
        BY DEF SharesCounted
      <3>1. CASE x = o
        <4>1. Shares(o) # {} /\ Shares(o)' # {} /\ x = ptr[g]
          BY <2>1, <3>1
        <4>2. QED
          BY <2>2, <3>1, <4>1 DEF SharesCounted
      <3>2. CASE x # o
        BY <1>4, <1>5, <3>2 DEF SharesCounted
      <3>3. QED
        BY <3>1, <3>2
    <2>6. QED
      BY <1>1, <1>2, <1>3, <2>4, <2>5
  <1>8. QED
    BY <1>6, <1>7

\* The handle that an operation works on still owns its share until it releases it.
LEMMA ToShares ==
    ASSUME SharedInv, NEW t \in Threads, pc[t] = "release",
           ptr[request[t].to] # None
    PROVE  ptr[request[t].to] \in Objects /\ request[t].to \in Shares(ptr[request[t].to])
  BY DEF SharedInv, Busy, CallsFit, Exclusive, TypeOK, Shares, Between

LEMMA ReleasesShare ==
    ASSUME SharedInv, NEW t \in Threads, ReleaseShare(t)
    PROVE  SharedInv'
  <1> USE DEF SharedInv, ReleaseShare, Decrement, Released, End, Busy
  <1> PICK h \in Handles, o \in Objects :
          h = request[t].to /\ o = ptr[h] /\ h \in Shares(o) /\ h \in built
    BY ToShares DEF CallsFit, TypeOK
  <1>1. o \in live
    BY DEF SharesCounted
  <1>2. TypeOK'
    <2>1. NoCall \in Calls
      BY DEF Calls, NoCall
    <2>2. CASE request[t].do = "destroy"
      BY <1>1, <2>1, <2>2 DEF TypeOK
    <2>3. CASE request[t].do # "destroy"
      BY <1>1, <2>3 DEF TypeOK
    <2>4. QED
      BY <2>2, <2>3
  <1>3. CallsFit'
    BY DEF CallsFit, Exclusive, TypeOK, NoCall
  <1>4. Exclusive'
    BY DEF Exclusive, TypeOK
  <1>5. \A u \in Threads, x \in Objects : Deletes(u, x)' <=> Deletes(u, x)
    BY DEF Deletes, CallsFit, TypeOK, NoCall
  <1>6. \A x \in Objects : x # o => Shares(x)' = Shares(x)
    BY DEF Shares, Between, TypeOK, Exclusive, CallsFit
  <1>7. Shares(o)' = Shares(o) \ {h}
    <2>1. CASE request[t].do = "destroy"
      <3>1. built' = built \ {h}
        BY <2>1
      <3>2. \A k \in built' : Between(k)' <=> Between(k)
        BY <2>1 DEF Between, TypeOK, CallsFit, NoCall
      <3>3. QED
        BY <3>1, <3>2 DEF Shares
    <2>2. CASE request[t].do # "destroy"
      BY <2>2 DEF Shares, Between, TypeOK, Exclusive, CallsFit
    <2>3. QED
      BY <2>1, <2>2
  <1>8. Cardinality(Shares(o)') = Cardinality(Shares(o)) - 1 /\ Shares(o)' # {}
    <2>1. IsFiniteSet(Shares(o))
      BY <1>1, FiniteShares
    <2>2. Cardinality(Shares(o) \ {h}) = Cardinality(Shares(o)) - 1
      BY <1>1, <2>1, FS_RemoveElement
    <2>3. Cardinality(Shares(o)) # 1 /\ Cardinality(Shares(o)) \in Nat
      BY <1>1, <2>1, FS_CardinalityType DEF SharesCounted
    <2>4. Cardinality({}) = 0
      BY FS_EmptySet
    <2>5. Cardinality(Shares(o) \ {h}) # 0
      BY <2>2, <2>3
    <2>6. QED
      BY <1>7, <2>2, <2>4, <2>5
  <1>9. \A u \in Threads : ~Deletes(u, o)
    BY <1>1 DEF OneDeletes
  <1>10. OneDeletes'
    BY <1>5, <1>6, <1>9 DEF OneDeletes
  <1>11. SharesCounted'
    <2> SUFFICES ASSUME NEW x \in Objects
                 PROVE  /\ Shares(x)' # {} => x \in live'
                        /\ x \in live' => rf'[x] = Cardinality(Shares(x)')
                        /\ x \in live' /\ Shares(x)' = {} =>
                              \E u \in Threads : Deletes(u, x)'
      BY DEF SharesCounted
    <2>1. CASE x = o
      <3>1. rf'[o] = rf[o] - 1 /\ o \in live'
        BY <1>1 DEF TypeOK
      <3>2. rf[o] = Cardinality(Shares(o))
        BY <1>1 DEF SharesCounted
      <3>3. QED
        BY <1>8, <2>1, <3>1, <3>2
    <2>2. CASE x # o
      BY <1>5, <1>6, <2>2 DEF SharesCounted, TypeOK
    <2>3. QED
      BY <2>1, <2>2
  <1>12. QED
    BY <1>2, <1>3, <1>4, <1>10, <1>11

LEMMA ReleasesLast ==
    ASSUME SharedInv, NEW t \in Threads, ReleaseLast(t)
    PROVE  SharedInv'
  <1> USE DEF SharedInv, ReleaseLast, Decrement, Busy
  <1> PICK h \in Handles, o \in Objects :
          h = request[t].to /\ o = ptr[h] /\ h \in Shares(o) /\ h \in built
    BY ToShares DEF CallsFit, TypeOK
  <1>1. o \in live /\ rf[o] = 1 /\ Cardinality(Shares(o)) = 1
    BY DEF SharesCounted
  <1>2. Shares(o) = {h}
    <2>1. PICK k : Shares(o) = {k}
      BY <1>1, FiniteShares, FS_Singleton
    <2>2. QED
      BY <2>1
  <1>3. TypeOK'
    BY DEF TypeOK
  <1>4. CallsFit'
    BY DEF CallsFit, TypeOK
  <1>5. Exclusive'
    BY DEF Exclusive, TypeOK
  <1>6. \A x \in Objects : x # o => Shares(x)' = Shares(x)
    BY DEF Shares, Between, TypeOK, Exclusive, CallsFit
  <1>7. Shares(o)' = {}
    BY <1>2 DEF Shares, Between, TypeOK
  <1>8. \A u \in Threads : ~Deletes(u, o)
    BY DEF OneDeletes
  <1>9. \A u \in Threads, x \in Objects : Deletes(u, x)' <=> Deletes(u, x) \/ (u = t /\ x = o)
    BY DEF Deletes, TypeOK
  <1>10. OneDeletes'
    BY <1>1, <1>6, <1>7, <1>8, <1>9 DEF OneDeletes
  <1>11. SharesCounted'
    <2> SUFFICES ASSUME NEW x \in Objects
                 PROVE  /\ Shares(x)' # {} => x \in live'
                        /\ x \in live' => rf'[x] = Cardinality(Shares(x)')
                        /\ x \in live' /\ Shares(x)' = {} =>
                              \E u \in Threads : Deletes(u, x)'
      BY DEF SharesCounted
    <2>1. CASE x = o
      <3>1. rf'[o] = 0 /\ Cardinality({}) = 0
        BY <1>1, FS_EmptySet DEF TypeOK
      <3>2. QED
        BY <1>7, <1>9, <2>1, <3>1
    <2>2. CASE x # o
      BY <1>6, <1>9, <2>2 DEF SharesCounted, TypeOK
    <2>3. QED
      BY <2>1, <2>2
  <1>12. QED
    BY <1>3, <1>4, <1>5, <1>10, <1>11

LEMMA Deleting ==
    ASSUME SharedInv, NEW t \in Threads, Delete(t)
    PROVE  SharedInv'
  <1> USE DEF SharedInv, Delete, Released, End, Busy
  <1> PICK h \in Handles, o \in Objects : h = request[t].to /\ o = ptr[h] /\ h \in built
    BY DEF CallsFit, TypeOK
  <1>1. Deletes(t, o) /\ o \in live /\ Shares(o) = {}
    BY DEF Deletes, OneDeletes
  <1>2. TypeOK'
    <2>1. NoCall \in Calls
      BY DEF Calls, NoCall
    <2>2. CASE request[t].do = "destroy"
      BY <2>1, <2>2 DEF TypeOK
    <2>3. CASE request[t].do # "destroy"
      BY <2>3 DEF TypeOK
    <2>4. QED
      BY <2>2, <2>3
  <1>3. CallsFit'
    BY DEF CallsFit, Exclusive, TypeOK, NoCall
  <1>4. Exclusive'
    BY DEF Exclusive, TypeOK
  <1>5. \A x \in Objects : Shares(x)' = Shares(x)
    <2>1. CASE request[t].do = "destroy"
      <3>1. built' = built \ {h}
        BY <2>1
      <3>2. \A k \in built' : Between(k)' <=> Between(k)
        BY <2>1 DEF Between, TypeOK, CallsFit, NoCall
      <3>3. Between(h)
        BY DEF Between
      <3>4. QED
        BY <3>1, <3>2, <3>3 DEF Shares
    <2>2. CASE request[t].do # "destroy"
      BY <2>2 DEF Shares, Between, TypeOK
    <2>3. QED
      BY <2>1, <2>2
  <1>6. \A u \in Threads, x \in Objects : Deletes(u, x)' <=> Deletes(u, x) /\ u # t
    BY DEF Deletes, TypeOK, NoCall
  <1>7. \A u \in Threads \ {t} : ~Deletes(u, o)
    BY <1>1 DEF OneDeletes
  <1>8. OneDeletes'
    BY <1>5, <1>6, <1>7 DEF OneDeletes, TypeOK
  <1>9. \A u \in Threads, x \in Objects \ {o} : Deletes(u, x)' <=> Deletes(u, x)
    BY <1>6 DEF Deletes
  <1>10. SharesCounted'
    <2> SUFFICES ASSUME NEW x \in Objects
                 PROVE  /\ Shares(x)' # {} => x \in live'
                        /\ x \in live' => rf'[x] = Cardinality(Shares(x)')
                        /\ x \in live' /\ Shares(x)' = {} =>
                              \E u \in Threads : Deletes(u, x)'
      BY DEF SharesCounted
    <2>1. CASE x = o
      BY <1>1, <1>5, <2>1 DEF TypeOK
    <2>2. CASE x # o
      BY <1>5, <1>9, <2>2 DEF SharesCounted, TypeOK
    <2>3. QED
      BY <2>1, <2>2
  <1>11. QED
    BY <1>2, <1>3, <1>4, <1>8, <1>10

\* The object whose count is raised is alive: the handle copied from has a share.
LEMMA FromShares ==
    ASSUME SharedInv, NEW t \in Threads, pc[t] = "increment"
    PROVE  /\ ptr[request[t].to] \in Objects
           /\ request[t].from \in Shares(ptr[request[t].to])
           /\ ptr[request[t].to] \in live
  <1>1. /\ ptr[request[t].to] \in Objects
        /\ request[t].from \in Shares(ptr[request[t].to])
    BY SharedPtrAssumption DEF SharedInv, Busy, CallsFit, Exclusive, TypeOK, Calls, Shares, Between
  <1>2. QED
    BY <1>1 DEF SharedInv, SharesCounted

LEMMA Increments ==
    ASSUME SharedInv, NEW t \in Threads, Increment(t)
    PROVE  SharedInv'
  <1> USE DEF SharedInv, Increment, End, Busy
  <1> PICK h \in Handles, o \in Objects :
          h = request[t].to /\ o = ptr[h] /\ h \in built /\ Shares(o) # {} /\ o \in live
    BY FromShares DEF CallsFit, TypeOK
  <1>1. Between(h)
    BY DEF Between
  <1>2. TypeOK'
    BY DEF TypeOK, Calls, NoCall
  <1>3. CallsFit'
    BY DEF CallsFit, TypeOK
  <1>4. Exclusive'
    BY DEF Exclusive, TypeOK
  <1>5. \A u \in Threads, x \in Objects : Deletes(u, x)' <=> Deletes(u, x)
    BY DEF Deletes, TypeOK, NoCall
  <1>6. \A k \in built : Between(k)' <=> Between(k) /\ k # h
    BY DEF Between, TypeOK, NoCall, Exclusive
  <1>7. \A x \in Objects : x # o => Shares(x)' = Shares(x)
    BY <1>6 DEF Shares
  <1>8. Shares(o)' = Shares(o) \cup {h} /\ h \notin Shares(o)
    BY <1>1, <1>6 DEF Shares
  <1>9. Cardinality(Shares(o)') = Cardinality(Shares(o)) + 1
    <2>1. IsFiniteSet(Shares(o))
      BY FiniteShares
    <2>2. Cardinality(Shares(o) \cup {h}) = Cardinality(Shares(o)) + 1
      BY <1>8, <2>1, FS_AddElement
    <2>3. QED
      BY <1>8, <2>2
  <1>10. OneDeletes'
    BY <1>5, <1>7 DEF OneDeletes
  <1>11. SharesCounted'
    <2> SUFFICES ASSUME NEW x \in Objects
                 PROVE  /\ Shares(x)' # {} => x \in live'
                        /\ x \in live' => rf'[x] = Cardinality(Shares(x)')
                        /\ x \in live' /\ Shares(x)' = {} =>
                              \E u \in Threads : Deletes(u, x)'
      BY DEF SharesCounted
    <2>1. CASE x = o
      <3>1. rf'[o] = rf[o] + 1 /\ o \in live'
        BY DEF TypeOK
      <3>2. rf[o] = Cardinality(Shares(o))
        BY DEF SharesCounted
      <3>3. QED
        BY <1>8, <1>9, <2>1, <3>1, <3>2
    <2>2. CASE x # o
      BY <1>5, <1>7, <2>2 DEF SharesCounted, TypeOK
    <2>3. QED
      BY <2>1, <2>2
  <1>12. QED
    BY <1>2, <1>3, <1>4, <1>10, <1>11

-----------------------------------------------------------------------------
LEMMA Initially == Init => SharedInv
  <1> SUFFICES ASSUME Init PROVE SharedInv
    OBVIOUS
  <1>1. TypeOK
    BY DEF Init, TypeOK, Calls, NoCall
  <1>2. CallsFit /\ Exclusive /\ OneDeletes
    BY DEF Init, CallsFit, Exclusive, OneDeletes, Busy, Deletes
  <1>3. SharesCounted
    BY DEF Init, SharesCounted, Shares
  <1>4. QED
    BY <1>1, <1>2, <1>3 DEF SharedInv

LEMMA Inductive == SharedInv /\ [Next]_vars => SharedInv'
  <1> SUFFICES ASSUME SharedInv, [Next]_vars PROVE SharedInv'
    OBVIOUS
  <1>1. ASSUME NEW t \in Threads, Step(t) PROVE SharedInv'
    BY <1>1, Constructs, CopyConstructs, MoveConstructs, Assigns, Destroys, ReleasesNothing,
       ReleasesShare, ReleasesLast, Deleting, AssignTakes, Increments DEF Step
  <1>2. CASE UNCHANGED vars
    <2>1. TypeOK' /\ CallsFit' /\ Exclusive'
      BY <1>2 DEF vars, SharedInv, TypeOK, CallsFit, Exclusive, Busy
    <2>2. \A o \in Objects : Shares(o)' = Shares(o)
      BY <1>2 DEF vars, Shares, Between
    <2>3. \A t \in Threads, o \in Objects : Deletes(t, o)' <=> Deletes(t, o)
      BY <1>2 DEF vars, Deletes
    <2>4. OneDeletes' /\ SharesCounted'
      BY <1>2, <2>1, <2>2, <2>3, SameShares DEF vars
    <2>5. QED
      BY <2>1, <2>4 DEF SharedInv
  <1>3. QED
    BY <1>1, <1>2 DEF Next

LEMMA UsesAlive == SharedInv => NoUseAfterFree
  <1> SUFFICES ASSUME SharedInv, NEW t \in Threads,
                      pc[t] \notin {"idle", "take"}, ptr[request[t].to] # None
               PROVE  ptr[request[t].to] \in live
    BY DEF NoUseAfterFree
  <1>1. CASE pc[t] = "release"
    BY <1>1, ToShares DEF SharedInv, SharesCounted
  <1>2. CASE pc[t] = "increment"
    BY <1>2, FromShares
  <1>3. CASE pc[t] = "delete"
    BY <1>3 DEF SharedInv, OneDeletes, Deletes, CallsFit, Busy, TypeOK
  <1>4. QED
    BY <1>1, <1>2, <1>3 DEF SharedInv, TypeOK

\* X::shared_ptr's count is the number of handles that share the object, which is alive
\* as long as there are any and is not forgotten when there are none; no thread deletes
\* an object twice or touches the count of a deleted one, however the threads'
\* operations on the handles interleave.
THEOREM Freed == AnySpec => []FreedOnce
  <1>1. AnyInit => SharedInv
    BY Initially DEF AnyInit
  <1>2. SharedInv /\ [AnyNext]_allVars => SharedInv'
    <2>1. [AnyNext]_allVars => [Next]_vars
      BY DEF AnyNext, allVars
    <2>2. QED
      BY <2>1, Inductive
  <1>3. SharedInv => FreedOnce
    BY UsesAlive DEF SharedInv, FreedOnce
  <1>4. QED
    BY <1>1, <1>2, <1>3, PTL DEF AnySpec
-----------------------------------------------------------------------------
\* A set of numbers has a least one.
LEMMA LeastNat ==
  ASSUME NEW T \in SUBSET Nat, T # {}
  PROVE  \E x \in T : \A y \in T : x <= y
<1>1. IsWellFoundedOn(OpToRel(<,Nat), Nat)
  BY NatLessThanWellFounded
<1>2. PICK x \in T : \A y \in T : ~ (<<y, x>> \in OpToRel(<,Nat))
  BY <1>1, WFMin, Zenon
<1> QED
  <2>1. OpToRel(<,Nat) = {ss \in Nat \X Nat : ss[1] < ss[2]}
    BY Zenon DEF OpToRel
  <2>2. ASSUME NEW y \in T PROVE ~ (y < x)
    <3>1. <<y, x>> \notin {ss \in Nat \X Nat : ss[1] < ss[2]}
      BY <1>2, <2>1, Zenon
    <3>2. <<y, x>> \in Nat \X Nat
      OBVIOUS
    <3> QED
      BY <3>1, <3>2, Zenon
  <2>3. \A y \in T : x <= y
    BY <2>2
  <2> QED
    BY <2>3

\* A function that puts v[i] before what it gives for i + 1 gives the ends of v.
LEMMA Unfold ==
  ASSUME NEW S, NEW v \in Seq(S), NEW g,
         g[Len(v) + 1] = <<>>,
         \A i \in 1 .. Len(v) : g[i] = <<v[i]>> \o g[i + 1]
  PROVE  \A i \in 1 .. Len(v) + 1 : g[i] = SubSeq(v, i, Len(v))
<1> DEFINE Bad == {k \in 0 .. Len(v) : g[Len(v) + 1 - k] # SubSeq(v, Len(v) + 1 - k, Len(v))}
<1>0. Len(v) \in Nat
  OBVIOUS
<1>1. 0 \notin Bad
  <2>1. SubSeq(v, Len(v) + 1, Len(v)) = <<>>
    BY <1>0, SubSeqEmpty
  <2>2. Len(v) + 1 - 0 = Len(v) + 1
    BY <1>0
  <2> QED
    BY <2>1, <2>2, Zenon
<1>2. ASSUME Bad # {} PROVE FALSE
  <2>1. Bad \in SUBSET Nat
    BY <1>0
  <2>2. PICK k \in Bad : \A j \in Bad : k <= j
    BY <1>2, <2>1, LeastNat
  <2>3. k \in 1 .. Len(v) /\ k - 1 \notin Bad /\ k - 1 \in 0 .. Len(v)
    <3>1. k # 0 /\ k \in 0 .. Len(v)
      BY <1>1, <2>2
    <3> HIDE DEF Bad
    <3> QED
      BY <1>0, <2>2, <3>1
  <2> DEFINE i == Len(v) + 1 - k
  <2>4. i \in 1 .. Len(v) /\ i + 1 = Len(v) + 1 - (k - 1)
    BY <2>3, <1>0
  <2>5. g[i + 1] = SubSeq(v, i + 1, Len(v))
    BY <2>3, <2>4
  <2>6. g[i] = <<v[i]>> \o SubSeq(v, i + 1, Len(v))
    BY <2>4, <2>5
  <2>7. Len(v) \in i .. Len(v)
    BY <2>4, <1>0
  <2>8. SubSeq(v, i, Len(v)) = <<v[i]>> \o SubSeq(v, i + 1, Len(v))
    BY <2>4, <2>7, SubSeqRecursiveFirst
  <2> QED
    BY <2>2, <2>6, <2>8
<1>3. ASSUME NEW i \in 1 .. Len(v) + 1 PROVE g[i] = SubSeq(v, i, Len(v))
  <2>1. Len(v) + 1 - i \in 0 .. Len(v) /\ Len(v) + 1 - (Len(v) + 1 - i) = i
    BY <1>0
  <2> QED
    BY <1>2, <2>1
<1> QED
  BY <1>3

\* The nodes of a path without a loop.
Injective(m) == \A i, j \in 1 .. Len(m) : m[i] = m[j] => i = j

\* The nodes on a path
NodeSet(m) == {m[i] : i \in 1 .. Len(m)}

\* What f gives for at most K nodes along nx: the recursive function of Chain
Walk(K, D, nil, nx, f) ==
    [k \in 0 .. K |-> [n \in D |->
        IF k = 0 \/ n = nil THEN <<>> ELSE <<n>> \o f[k - 1][nx[n]]]]

\* There is such a function, wherever the links lead.
LEMMA WalkExists ==
  ASSUME NEW K \in Nat, NEW D, NEW nil, NEW nx, \A n \in D : n # nil => nx[n] \in D
  PROVE  \E f : f = Walk(K, D, nil, nx, f)
<1> DEFINE Bad == {k \in 0 .. K : ~ \E f : f = Walk(k, D, nil, nx, f)}
<1>1. ASSUME Bad # {} PROVE FALSE
  <2>1. Bad \in SUBSET Nat
    OBVIOUS
  <2>2. PICK k \in Bad : \A j \in Bad : k <= j
    BY <1>1, <2>1, LeastNat
  <2>3. k \in 0 .. K /\ k \in Nat
    OBVIOUS
  <2>4. CASE k = 0
    <3> DEFINE f == [j \in 0 .. 0 |-> [n \in D |-> <<>>]]
    <3>1. f = Walk(0, D, nil, nx, f)
      BY DEF Walk
    <3> QED
      BY <2>2, <2>4, <3>1
  <2>5. CASE k # 0
    <3>1. k - 1 \in 0 .. K /\ k - 1 \notin Bad
      <4> HIDE DEF Bad
      <4> QED
        BY <2>2, <2>3, <2>5
    <3>2. PICK f : f = Walk(k - 1, D, nil, nx, f)
      BY <3>1
    <3> DEFINE g == [j \in 0 .. k |-> [n \in D |->
                       IF j = 0 \/ n = nil THEN <<>>
                       ELSE IF j = k THEN <<n>> \o f[k - 1][nx[n]] ELSE f[j][n]]]
    <3>3. ASSUME NEW j \in 0 .. k - 1, NEW n \in D
          PROVE  f[j][n] = IF j = 0 \/ n = nil THEN <<>> ELSE <<n>> \o f[j - 1][nx[n]]
      <4>1. Walk(k - 1, D, nil, nx, f)[j][n] = IF j = 0 \/ n = nil THEN <<>> ELSE <<n>> \o f[j - 1][nx[n]]
        BY DEF Walk
      <4> QED
        BY <3>2, <4>1, Zenon
    <3>4. ASSUME NEW j \in 0 .. k - 1, NEW n \in D PROVE g[j][n] = f[j][n]
      <4>1. j # k /\ j \in 0 .. k
        BY <2>3
      <4> QED
        BY <3>3, <4>1
    <3>5. ASSUME NEW j \in 0 .. k, NEW n \in D
          PROVE  g[j][n] = IF j = 0 \/ n = nil THEN <<>> ELSE <<n>> \o g[j - 1][nx[n]]
      <4>1. CASE j = 0 \/ n = nil
        BY <4>1
      <4>2. CASE j # 0 /\ n # nil /\ j = k
        <5>1. g[j][n] = <<n>> \o f[k - 1][nx[n]]
          BY <4>2
        <5>2. g[k - 1][nx[n]] = f[k - 1][nx[n]]
          <6>1. k - 1 \in 0 .. k - 1 /\ nx[n] \in D
            BY <2>3, <2>5, <4>2
          <6> QED
            BY <3>4, <6>1, Zenon
        <5> HIDE DEF g
        <5> QED
          BY <4>2, <5>1, <5>2, Zenon
      <4>3. CASE j # 0 /\ n # nil /\ j # k
        <5>1. j \in 0 .. k - 1 /\ j - 1 \in 0 .. k - 1 /\ nx[n] \in D
          BY <2>3, <4>3
        <5>2. g[j][n] = f[j][n] /\ g[j - 1][nx[n]] = f[j - 1][nx[n]]
          <6> HIDE DEF g
          <6> QED
            BY <3>4, <5>1, Zenon
        <5>3. f[j][n] = <<n>> \o f[j - 1][nx[n]]
          BY <3>3, <4>3, <5>1, Zenon
        <5> HIDE DEF g
        <5> QED
          BY <4>3, <5>2, <5>3, Zenon
      <4> QED
        BY <4>1, <4>2, <4>3
    <3>6. g = [j \in 0 .. k |-> [n \in D |-> g[j][n]]]
      OBVIOUS
    <3>7. g = Walk(k, D, nil, nx, g)
      <4> HIDE DEF g
      <4> QED
        BY <3>5, <3>6 DEF Walk
    <3> HIDE DEF g
    <3> QED
      BY <2>2, <3>7
  <2> QED
    BY <2>4, <2>5
<1> QED
  BY <1>1

\* The nodes m follow one another along nx, to the last.
Linked(m, first, nil, nx) ==
    /\ first = IF Len(m) = 0 THEN nil ELSE m[1]
    /\ \A i \in 1 .. Len(m) : m[i] # nil /\ nx[m[i]] = IF i = Len(m) THEN nil ELSE m[i + 1]

\* h is the recursive function, m a path short enough for it.
Walks(K, D, nil, nx, m, first, h) ==
    /\ K \in Nat /\ nil \in D /\ (\A n \in D : n # nil => nx[n] \in D)
    /\ m \in Seq(D) /\ Len(m) <= K /\ Linked(m, first, nil, nx)
    /\ h = Walk(K, D, nil, nx, h)

\* The function finds the nodes that follow one another.
LEMMA WalkFinds ==
  ASSUME NEW K, NEW D, NEW nil, NEW nx, NEW m, NEW first, NEW h,
         Walks(K, D, nil, nx, m, first, h)
  PROVE  h[K][first] = m
<1> /\ K \in Nat /\ nil \in D /\ (\A n \in D : n # nil => nx[n] \in D)
    /\ m \in Seq(D) /\ Len(m) <= K /\ Linked(m, first, nil, nx)
  BY DEF Walks
<1>0. Len(m) \in Nat /\ \A i \in 1 .. Len(m) : m[i] \in D
  OBVIOUS
<1>1. h = Walk(K, D, nil, nx, h)
  BY Zenon DEF Walks
<1>2. ASSUME NEW k \in 0 .. K, NEW n \in D
      PROVE  h[k][n] = IF k = 0 \/ n = nil THEN <<>> ELSE <<n>> \o h[k - 1][nx[n]]
  <2>1. Walk(K, D, nil, nx, h)[k][n] = IF k = 0 \/ n = nil THEN <<>> ELSE <<n>> \o h[k - 1][nx[n]]
    BY DEF Walk
  <2> QED
    BY <1>1, <2>1, Zenon
<1> DEFINE node(i) == IF i = Len(m) + 1 THEN nil ELSE m[i]
           g == [i \in 1 .. Len(m) + 1 |-> h[K - i + 1][node(i)]]
<1>3. g[Len(m) + 1] = <<>>
  <2>1. K - (Len(m) + 1) + 1 \in 0 .. K
    BY <1>0
  <2>2. h[K - (Len(m) + 1) + 1][nil] = <<>>
    BY <1>2, <2>1, Zenon
  <2>3. Len(m) + 1 \in 1 .. Len(m) + 1
    BY <1>0
  <2> QED
    BY <2>2, <2>3
<1>4. ASSUME NEW i \in 1 .. Len(m) PROVE g[i] = <<m[i]>> \o g[i + 1]
  <2>1. /\ K - i + 1 \in 0 .. K /\ K - i + 1 # 0 /\ K - i + 1 - 1 = K - (i + 1) + 1
        /\ i # Len(m) + 1 /\ i \in 1 .. Len(m) + 1 /\ i + 1 \in 1 .. Len(m) + 1
        /\ (i + 1 = Len(m) + 1 <=> i = Len(m))
    BY <1>0
  <2>2. m[i] \in D /\ m[i] # nil /\ nx[m[i]] = node(i + 1)
    BY <1>0, <2>1 DEF Linked
  <2>3. g[i] = h[K - i + 1][m[i]] /\ g[i + 1] = h[K - (i + 1) + 1][node(i + 1)]
    BY <2>1
  <2> HIDE DEF g, node
  <2>4. PICK k \in 0 .. K : k = K - i + 1 /\ k # 0 /\ K - i + 1 - 1 = k - 1
    BY <2>1
  <2>5. h[k][m[i]] = IF k = 0 \/ m[i] = nil THEN <<>> ELSE <<m[i]>> \o h[k - 1][nx[m[i]]]
    BY <1>2, <2>2, Zenon
  <2>6. h[k][m[i]] = <<m[i]>> \o h[k - 1][nx[m[i]]]
    BY <2>2, <2>4, <2>5, Zenon
  <2> QED
    BY <2>1, <2>2, <2>3, <2>4, <2>6, Zenon
<1>5. g[1] = SubSeq(m, 1, Len(m))
  <2> HIDE DEF g
  <2>1. \A i \in 1 .. Len(m) + 1 : g[i] = SubSeq(m, i, Len(m))
    BY <1>3, <1>4, Unfold, Zenon
  <2>2. 1 \in 1 .. Len(m) + 1
    BY <1>0
  <2> QED
    BY <2>1, <2>2, Zenon
<1>6. g[1] = h[K][first]
  <2>1. 1 \in 1 .. Len(m) + 1 /\ K - 1 + 1 = K /\ (1 = Len(m) + 1 <=> Len(m) = 0)
    BY <1>0
  <2>2. g[1] = h[K - 1 + 1][node(1)] /\ node(1) = first
    BY <2>1 DEF Linked
  <2> HIDE DEF g, node
  <2> QED
    BY <2>1, <2>2
<1> QED
  BY <1>5, <1>6, SubSeqFull, Zenon

\* A chain without a loop has as many nodes as its length.
LEMMA RangeCounts ==
  ASSUME NEW S, NEW s \in Seq(S), Injective(s)
  PROVE  IsFiniteSet(NodeSet(s)) /\ Cardinality(NodeSet(s)) = Len(s)
<1> DEFINE T == {s[i] : i \in 1 .. Len(s)}
<1>1. Len(s) \in Nat /\ s \in [1 .. Len(s) -> T]
  OBVIOUS
<1>2. s \in Bijection(1 .. Len(s), T)
  BY <1>1 DEF Injective, Bijection, Injection, Surjection, IsInjective
<1>3. ExistsBijection(1 .. Len(s), T)
  BY <1>2 DEF ExistsBijection
<1>4. IsFiniteSet(1 .. Len(s)) /\ Cardinality(1 .. Len(s)) = Len(s)
  BY <1>1, FS_Interval
<1> QED
  BY <1>3, <1>4, FS_Bijection DEF NodeSet

\* A new node at the end of a chain.
LEMMA NodesAppend ==
  ASSUME NEW D, NEW m \in Seq(D), Injective(m), NEW f \in D, f \notin NodeSet(m)
  PROVE  \E z \in Seq(D) :
            /\ Injective(z) /\ NodeSet(z) = NodeSet(m) \cup {f}
            /\ Len(z) = Len(m) + 1 /\ z[Len(m) + 1] = f /\ \A i \in 1 .. Len(m) : z[i] = m[i]
<1>1. PICK z : z = Append(m, f)
  OBVIOUS
<1>2. /\ z \in Seq(D) /\ Len(z) = Len(m) + 1 /\ z[Len(m) + 1] = f /\ Len(m) \in Nat
      /\ \A i \in 1 .. Len(m) : z[i] = m[i]
  BY <1>1, AppendProperties
<1>3. /\ \A i \in 1 .. Len(z) : i \in 1 .. Len(m) \/ i = Len(m) + 1
      /\ \A i \in 1 .. Len(m) : i \in 1 .. Len(z) /\ m[i] # f /\ m[i] \in NodeSet(m)
      /\ Len(m) + 1 \in 1 .. Len(z)
  BY <1>2 DEF NodeSet
<1>4. Injective(z)
  BY <1>2, <1>3 DEF Injective
<1>5. NodeSet(z) = NodeSet(m) \cup {f}
  <2>1. ASSUME NEW x \in NodeSet(z) PROVE x \in NodeSet(m) \cup {f}
    <3>1. PICK i \in 1 .. Len(z) : x = z[i]
      BY DEF NodeSet
    <3> QED
      BY <1>2, <1>3, <3>1
  <2>2. ASSUME NEW x \in NodeSet(m) PROVE x \in NodeSet(z)
    <3>1. PICK i \in 1 .. Len(m) : x = m[i]
      BY DEF NodeSet
    <3> QED
      BY <1>2, <1>3, <3>1 DEF NodeSet
  <2>3. f \in NodeSet(z)
    BY <1>2, <1>3 DEF NodeSet
  <2> QED
    BY <2>1, <2>2, <2>3
<1> QED
  BY <1>2, <1>4, <1>5

\* A chain without its first node.
LEMMA NodesTail ==
  ASSUME NEW D, NEW m \in Seq(D), Injective(m), Len(m) # 0
  PROVE  \E z \in Seq(D) :
            /\ Injective(z) /\ NodeSet(z) = NodeSet(m) \ {m[1]}
            /\ Len(z) = Len(m) - 1 /\ \A i \in 1 .. Len(z) : z[i] = m[i + 1]
<1>1. PICK z : z = Tail(m)
  OBVIOUS
<1>2. /\ z \in Seq(D) /\ Len(z) = Len(m) - 1 /\ Len(m) \in Nat
      /\ \A i \in 1 .. Len(z) : z[i] = m[i + 1]
  BY <1>1, HeadTailProperties
<1>3. /\ \A i \in 1 .. Len(z) : i + 1 \in 1 .. Len(m) /\ i + 1 # 1
      /\ \A i \in 1 .. Len(m) : i = 1 \/ (i - 1 \in 1 .. Len(z) /\ z[i - 1] = m[i])
      /\ 1 \in 1 .. Len(m)
  BY <1>2
<1>4. Injective(z)
  <2>1. ASSUME NEW i \in 1 .. Len(z), NEW j \in 1 .. Len(z), z[i] = z[j] PROVE i = j
    <3>1. i + 1 = j + 1
      BY <1>2, <1>3, <2>1 DEF Injective
    <3> QED
      BY <3>1
  <2> QED
    BY <2>1 DEF Injective
<1>5. NodeSet(z) = NodeSet(m) \ {m[1]}
  <2>1. ASSUME NEW i \in 1 .. Len(z) PROVE z[i] \in NodeSet(m) /\ z[i] # m[1]
    BY <1>2, <1>3 DEF NodeSet, Injective
  <2>2. ASSUME NEW i \in 1 .. Len(m), m[i] # m[1] PROVE m[i] \in NodeSet(z)
    BY <1>3, <2>2 DEF NodeSet
  <2>3. \A x \in NodeSet(z) : \E i \in 1 .. Len(z) : x = z[i]
    BY DEF NodeSet
  <2>4. \A x \in NodeSet(m) : \E i \in 1 .. Len(m) : x = m[i]
    BY DEF NodeSet
  <2> QED
    BY <2>1, <2>2, <2>3, <2>4
<1> QED
  BY <1>2, <1>4, <1>5

\* The new links nx2 put n at the end of the path m.
Appends(D, nil, nx, m, first, n, nx2, z) ==
    /\ z = Append(m, n)
    /\ m \in Seq(D) /\ Injective(m) /\ Linked(m, first, nil, nx)
    /\ n \in D /\ n # nil /\ n \notin NodeSet(m) /\ nx2[n] = nil
    /\ Len(m) # 0 => nx2[m[Len(m)]] = n
    /\ \A i \in 1 .. Len(m) : i # Len(m) => nx2[m[i]] = nx[m[i]]

\* A node at the end of a chain.
LEMMA LinkedAppend ==
  ASSUME NEW D, NEW nil, NEW nx, NEW m, NEW first, NEW n, NEW nx2,
         NEW z, Appends(D, nil, nx, m, first, n, nx2, z)
  PROVE  /\ z \in Seq(D) /\ Injective(z) /\ Len(z) = Len(m) + 1 /\ z[Len(z)] = n
         /\ \A i \in 1 .. Len(m) : z[i] = m[i]
         /\ NodeSet(z) = NodeSet(m) \cup {n}
         /\ Linked(z, IF Len(m) = 0 THEN n ELSE first, nil, nx2)
<1> /\ m \in Seq(D) /\ Injective(m) /\ Linked(m, first, nil, nx)
    /\ n \in D /\ n # nil /\ n \notin NodeSet(m) /\ nx2[n] = nil
    /\ Len(m) # 0 => nx2[m[Len(m)]] = n
    /\ \A i \in 1 .. Len(m) : i # Len(m) => nx2[m[i]] = nx[m[i]]
    /\ z = Append(m, n)
  BY DEF Appends
<1>1. /\ z \in Seq(D) /\ Len(z) = Len(m) + 1 /\ z[Len(m) + 1] = n /\ Len(m) \in Nat
      /\ \A i \in 1 .. Len(m) : z[i] = m[i]
  BY AppendProperties
<1>2. /\ \A i \in 1 .. Len(z) : i \in 1 .. Len(m) \/ i = Len(m) + 1
      /\ \A i \in 1 .. Len(m) : i \in 1 .. Len(z) /\ m[i] # n /\ m[i] \in NodeSet(m) /\ i # Len(m) + 1
      /\ Len(m) + 1 \in 1 .. Len(z) /\ 1 \in 1 .. Len(z)
  BY <1>1 DEF NodeSet
<1>3. Injective(z)
  BY <1>1, <1>2 DEF Injective
<1>4. NodeSet(z) = NodeSet(m) \cup {n}
  <2>1. NodeSet(m) \subseteq NodeSet(z) /\ n \in NodeSet(z)
    BY <1>1, <1>2 DEF NodeSet
  <2>2. NodeSet(z) \subseteq NodeSet(m) \cup {n}
    BY <1>1, <1>2 DEF NodeSet
  <2> QED
    BY <2>1, <2>2
<1>5. ASSUME NEW i \in 1 .. Len(z)
      PROVE  z[i] # nil /\ nx2[z[i]] = IF i = Len(z) THEN nil ELSE z[i + 1]
  <2>1. CASE i = Len(m) + 1
    BY <1>1, <2>1
  <2>2. CASE i \in 1 .. Len(m) /\ i = Len(m)
    BY <1>1, <2>2 DEF Linked
  <2>3. CASE i \in 1 .. Len(m) /\ i # Len(m)
    <3>1. i + 1 \in 1 .. Len(m) /\ i # Len(z)
      BY <1>1, <2>3
    <3> QED
      BY <1>1, <2>3, <3>1 DEF Linked
  <2> QED
    BY <1>2, <2>1, <2>2, <2>3
<1>6. (IF Len(m) = 0 THEN n ELSE first) = IF Len(z) = 0 THEN nil ELSE z[1]
  <2>1. CASE Len(m) = 0
    BY <1>1, <2>1
  <2>2. CASE Len(m) # 0
    <3>1. 1 \in 1 .. Len(m)
      BY <1>1, <2>2
    <3> QED
      BY <1>1, <2>2, <3>1 DEF Linked
  <2> QED
    BY <2>1, <2>2
<1>7. Linked(z, IF Len(m) = 0 THEN n ELSE first, nil, nx2)
  BY <1>5, <1>6 DEF Linked
<1> QED
  BY <1>1, <1>3, <1>4, <1>7

\* z is the path m without its first node.
Tails(D, nil, nx, m, first, z) ==
    /\ m \in Seq(D) /\ Injective(m) /\ Linked(m, first, nil, nx) /\ Len(m) # 0 /\ z = Tail(m)

\* A chain without its first node, with the links of the others as they were
LEMMA LinkedTail ==
  ASSUME NEW D, NEW nil, NEW nx, NEW m, NEW first, NEW z, Tails(D, nil, nx, m, first, z)
  PROVE  /\ z \in Seq(D) /\ Injective(z) /\ Len(z) = Len(m) - 1
         /\ \A i \in 1 .. Len(z) : z[i] = m[i + 1]
         /\ Linked(z, nx[first], nil, nx)
<1> m \in Seq(D) /\ Injective(m) /\ Linked(m, first, nil, nx) /\ Len(m) # 0 /\ z = Tail(m)
  BY DEF Tails
<1>1. /\ z \in Seq(D) /\ Len(z) = Len(m) - 1 /\ Len(m) \in Nat
      /\ \A i \in 1 .. Len(z) : z[i] = m[i + 1]
  BY HeadTailProperties
<1>2. /\ \A i \in 1 .. Len(z) : i + 1 \in 1 .. Len(m) /\ (i = Len(z) <=> i + 1 = Len(m))
      /\ 1 \in 1 .. Len(m) /\ (Len(z) = 0 <=> 1 = Len(m))
  BY <1>1
<1>3. Injective(z)
  <2>1. ASSUME NEW i \in 1 .. Len(z), NEW j \in 1 .. Len(z), z[i] = z[j] PROVE i = j
    <3>1. i + 1 = j + 1
      BY <1>1, <1>2, <2>1 DEF Injective
    <3> QED
      BY <3>1
  <2> QED
    BY <2>1 DEF Injective
<1>4. ASSUME NEW i \in 1 .. Len(z)
      PROVE  z[i] # nil /\ nx[z[i]] = IF i = Len(z) THEN nil ELSE z[i + 1]
  <2>1. m[i + 1] # nil /\ nx[m[i + 1]] = IF i + 1 = Len(m) THEN nil ELSE m[i + 1 + 1]
    BY <1>2 DEF Linked
  <2>2. i # Len(z) => i + 1 \in 1 .. Len(z)
    <3>1. Len(z) \in Nat
      OBVIOUS
    <3> QED
      BY <3>1
  <2> QED
    BY <1>1, <1>2, <2>1, <2>2
<1>5. nx[first] = IF Len(z) = 0 THEN nil ELSE z[1]
  <2>1. first = m[1] /\ nx[m[1]] = IF 1 = Len(m) THEN nil ELSE m[1 + 1]
    BY <1>2 DEF Linked
  <2>2. Len(z) # 0 => 1 \in 1 .. Len(z)
    BY <1>1
  <2> QED
    BY <1>1, <1>2, <2>1, <2>2
<1> QED
  BY <1>1, <1>3, <1>4, <1>5 DEF Linked

-----------------------------------------------------------------------------
(***************************************************************************)
(* threadsafe_lookup_table.h.  A value is in the bucket of its hash only,  *)
(* so an insertion behind the loop of empty() is of a value that has not   *)
(* been in the table all the time.                                         *)
(***************************************************************************)
TableTypes ==
    /\ bucket \in [Table!Indices -> SUBSET Values]
    /\ call \in [Threads -> {"none", "empty", "size", "is_empty", "sized"}]
    /\ at \in [Threads -> 0 .. NumBuckets]
    /\ stayed \in [Threads -> SUBSET Values]

\* Every value where its hash says, and what has stayed is there
Hashed == /\ \A b \in Table!Indices : \A v \in bucket[b] : Table!GetBucket(v) = b
          /\ \A t \in Threads : stayed[t] \subseteq Table!All

\* The buckets that the loop of empty() has left behind had nothing that stayed.
LookedBehind ==
    /\ \A t \in Threads : call[t] = "none" => at[t] = 0
    /\ \A t \in Threads : call[t] = "is_empty" => at[t] = NumBuckets
    /\ \A t \in Threads : call[t] \in {"empty", "is_empty"} =>
          \A b \in Table!Indices : b < at[t] => bucket[b] \cap stayed[t] = {}

TableInv == kind = "table" => TableTypes /\ Hashed /\ LookedBehind

\* The index of a bucket
LEMMA BucketIndex ==
  ASSUME NEW v \in Values
  PROVE  Table!GetBucket(v) \in Table!Indices
<1>1. v \in Nat /\ NumBuckets \in Nat \ {0}
  BY DataStructAssumption
<1> QED
  BY <1>1 DEF Table!GetBucket, Table!Indices

LEMMA TableInserts ==
  ASSUME TableTypes, Hashed, LookedBehind, NEW v \in Values, Table!Insert(v)
  PROVE  TableTypes' /\ Hashed' /\ LookedBehind'
<1>1. PICK g \in Table!Indices : g = Table!GetBucket(v)
  BY BucketIndex
<1>2. /\ v \notin bucket[g] /\ bucket' = [bucket EXCEPT ![g] = @ \cup {v}]
      /\ UNCHANGED <<call, at, sum, stayed>>
  BY <1>1 DEF Table!Insert, Table!Find
<1>3. TableTypes'
  BY <1>2 DEF TableTypes
<1>4. \A b \in Table!Indices : v \notin bucket[b]
  BY <1>1, <1>2 DEF Hashed
<1>5. \A t \in Threads : v \notin stayed[t]
  BY <1>4 DEF Hashed, Table!All
<1>6. \A b \in Table!Indices : bucket[b] \subseteq bucket'[b]
  BY <1>2 DEF TableTypes
<1>7. Hashed'
  <2>1. \A b \in Table!Indices : \A w \in bucket'[b] : Table!GetBucket(w) = b
    BY <1>1, <1>2 DEF Hashed, TableTypes
  <2>2. \A t \in Threads : stayed'[t] \subseteq Table!All'
    BY <1>2, <1>6 DEF Hashed, Table!All
  <2> QED
    BY <2>1, <2>2 DEF Hashed
<1>8. LookedBehind'
  BY <1>2, <1>5 DEF LookedBehind, TableTypes
<1> QED
  BY <1>3, <1>7, <1>8

LEMMA TableErases ==
  ASSUME TableTypes, Hashed, LookedBehind, NEW v \in Values, Table!Erase(v)
  PROVE  TableTypes' /\ Hashed' /\ LookedBehind'
<1>1. PICK g \in Table!Indices : g = Table!GetBucket(v)
  BY BucketIndex
<1>2. /\ bucket' = [bucket EXCEPT ![g] = @ \ {v}]
      /\ stayed' = [t \in Threads |-> stayed[t] \ {v}]
      /\ UNCHANGED <<call, at, sum>>
  BY <1>1 DEF Table!Erase
<1>3. TableTypes'
  BY <1>2 DEF TableTypes
<1>4. Hashed'
  <2>1. \A b \in Table!Indices : \A w \in bucket'[b] : Table!GetBucket(w) = b
    BY <1>2 DEF Hashed, TableTypes
  <2>2. ASSUME NEW t \in Threads, NEW w \in stayed'[t] PROVE w \in Table!All'
    <3>1. w \in stayed[t] /\ w # v
      BY <1>2
    <3>2. PICK b \in Table!Indices : w \in bucket[b]
      BY <3>1 DEF Hashed, Table!All
    <3>3. w \in bucket'[b]
      BY <1>2, <3>1, <3>2 DEF TableTypes
    <3> QED
      BY <3>3 DEF Table!All
  <2> QED
    BY <2>1, <2>2 DEF Hashed
<1>5. LookedBehind'
  BY <1>2 DEF LookedBehind, TableTypes
<1> QED
  BY <1>3, <1>4, <1>5

\* The steps of the threads in empty() and size(); the buckets stay as they are.
LEMMA TableLooks ==
  ASSUME TableTypes, Hashed, LookedBehind, NEW t \in Threads,
         Table!Begin(t) \/ Table!Look(t) \/ Table!Add(t) \/ Table!Return(t)
  PROVE  TableTypes' /\ Hashed' /\ LookedBehind'
<1>0. NumBuckets \in Nat \ {0}
  BY DataStructAssumption
<1>1. CASE Table!Begin(t)
  <2> USE <1>1 DEF Table!Begin
  <2>1. Table!All \in SUBSET Values
    BY DEF Table!All, TableTypes
  <2>2. TableTypes'
    BY <2>1 DEF TableTypes
  <2>3. Hashed'
    BY DEF Hashed, TableTypes, Table!All
  <2>4. LookedBehind'
    BY <1>0 DEF LookedBehind, TableTypes, Table!Indices
  <2> QED
    BY <2>2, <2>3, <2>4
<1>2. CASE Table!Look(t)
  <2> USE <1>2 DEF Table!Look
  <2>1. TableTypes'
    BY <1>0 DEF TableTypes
  <2>2. Hashed'
    BY DEF Hashed, Table!All
  <2>3. \A u \in Threads : u # t => call'[u] = call[u] /\ at'[u] = at[u]
    BY DEF TableTypes
  <2>4. LookedBehind'
    <3>1. CASE at[t] < NumBuckets /\ bucket[at[t]] = {}
      <4>1. call'[t] = "empty" /\ at'[t] = at[t] + 1 /\ call[t] = "empty" /\ at[t] \in Nat
        BY <1>0, <3>1 DEF TableTypes
      <4>2. \A b \in Table!Indices : b < at[t] + 1 => b < at[t] \/ b = at[t]
        BY <1>0, <4>1 DEF Table!Indices
      <4>3. \A b \in Table!Indices : b < at'[t] => bucket[b] \cap stayed[t] = {}
        BY <3>1, <4>1, <4>2 DEF LookedBehind
      <4> QED
        BY <2>3, <4>1, <4>3 DEF LookedBehind
    <3>2. CASE at[t] < NumBuckets /\ bucket[at[t]] # {}
      <4>1. call'[t] = "none" /\ at'[t] = 0
        BY <1>0, <3>2 DEF TableTypes
      <4> QED
        BY <2>3, <4>1 DEF LookedBehind
    <3>3. CASE at[t] = NumBuckets
      <4>1. call'[t] = "is_empty" /\ at'[t] = NumBuckets /\ call[t] = "empty"
        BY <1>0, <3>3 DEF TableTypes
      <4> QED
        BY <2>3, <3>3, <4>1 DEF LookedBehind
    <3> QED
      BY <3>1, <3>2, <3>3
  <2> QED
    BY <2>1, <2>2, <2>4
<1>3. CASE Table!Add(t)
  <2> USE <1>3 DEF Table!Add
  <2>1. TableTypes'
    BY <1>0 DEF TableTypes
  <2>2. Hashed'
    BY DEF Hashed, Table!All
  <2>3. LookedBehind'
    BY <1>0 DEF LookedBehind, TableTypes, Table!Indices
  <2> QED
    BY <2>1, <2>2, <2>3
<1>4. CASE Table!Return(t)
  <2> USE <1>4 DEF Table!Return
  <2>1. TableTypes'
    BY <1>0 DEF TableTypes
  <2>2. Hashed'
    BY DEF Hashed, Table!All
  <2>3. LookedBehind'
    BY <1>0 DEF LookedBehind, TableTypes, Table!Indices
  <2> QED
    BY <2>1, <2>2, <2>3
<1> QED
  BY <1>1, <1>2, <1>3, <1>4

\* Nobody turns into an object of another class.
LEMMA KindStays == AnyNext => kind' = kind
<1>1. Queue!Next => kind' = kind
  BY DEF Queue!Next, Queue!PushLinked, Queue!PopLinked, Queue!PushDummy, Queue!PopDummy,
         Queue!PushRing, Queue!PopRing, Queue!Draw, Queue!vars
<1> QED
  BY <1>1 DEF AnyNext, ContainerNext

\* The step of another class leaves what the table has alone.
LEMMA TableMoves ==
  ASSUME [AnyNext]_allVars, kind = "table"
  PROVE  Table!Next \/ UNCHANGED <<bucket, call, at, sum, stayed>>
<1>1. Queue!Next => kind \in {"linked", "dummy", "ring"} \/ UNCHANGED Queue!vars
  BY DEF Queue!Next, Queue!PushLinked, Queue!PopLinked, Queue!PushDummy, Queue!PopDummy,
         Queue!PushRing, Queue!PopRing
<1> QED
  BY <1>1 DEF AnyNext, ContainerNext, allVars, containerVars, lockedVars

LEMMA TableStays == TableInv /\ [AnyNext]_allVars => TableInv'
<1> SUFFICES ASSUME TableInv, [AnyNext]_allVars, kind' = "table" PROVE TableInv'
  BY DEF TableInv
<1>1. kind = "table"
  BY KindStays DEF allVars
<1>2. TableTypes /\ Hashed /\ LookedBehind
  BY <1>1 DEF TableInv
<1>3. CASE Table!Next
  BY <1>2, <1>3, TableInserts, TableErases, TableLooks DEF Table!Next, TableInv
<1>4. CASE UNCHANGED <<bucket, call, at, sum, stayed>>
  BY <1>2, <1>4 DEF TableInv, TableTypes, Hashed, LookedBehind, Table!All
<1> QED
  BY <1>1, <1>3, <1>4, TableMoves

LEMMA TableStarts == AnyInit => TableInv
<1> SUFFICES ASSUME AnyInit, kind = "table" PROVE TableInv
  BY DEF TableInv
<1>1. Table!Init
  BY DEF AnyInit, ContainerInit, Queue!Init, Queue!InitLinked, Queue!InitDummy, Queue!InitRing
<1>2. TableTypes /\ Hashed /\ LookedBehind
  BY <1>1, DataStructAssumption DEF Table!Init, TableTypes, Hashed, LookedBehind, Table!Indices
<1> QED
  BY <1>2 DEF TableInv

\* empty() of the table with a mutex in each bucket never answers true while a value has
\* been in the table since the call, wherever the loop was when other threads inserted
\* and erased; for any threads, values and number of buckets.
THEOREM HonestlyEmpty == AnySpec => []EmptyIsHonest
<1>1. AnyInit => TableInv
  BY TableStarts
<1>2. TableInv /\ [AnyNext]_allVars => TableInv'
  BY TableStays
<1>3. TableInv => EmptyIsHonest
  <2> SUFFICES ASSUME TableInv, kind = "table", NEW t \in Threads, call[t] = "is_empty"
               PROVE  stayed[t] = {}
    BY DEF EmptyIsHonest, Table!EmptyIsHonest
  <2>1. TableTypes /\ Hashed /\ LookedBehind
    BY DEF TableInv
  <2>2. NumBuckets \in Nat
    BY DataStructAssumption
  <2>3. \A b \in Table!Indices : bucket[b] \cap stayed[t] = {}
    BY <2>1, <2>2 DEF LookedBehind, Table!Indices
  <2> QED
    BY <2>1, <2>3 DEF Hashed, Table!All
<1> QED
  BY <1>1, <1>2, <1>3, PTL DEF AnySpec
-----------------------------------------------------------------------------
(***************************************************************************)
(* The queues without locks.  Some sequence s lies in the queue: in the    *)
(* nodes m, which follow one another from head_, of which the dummy is the *)
(* last, or in the slots of the ring.                                      *)
(***************************************************************************)
Numbered(s) == /\ pushed \in Nat /\ taken \subseteq 1 .. pushed
               /\ s \in Seq(Nat) /\ \A i \in 1 .. Len(s) : s[i] \in 1 .. pushed

InNodes(m, s) == /\ next \in [Nodes -> Nodes \cup {-1}] /\ data \in [Nodes -> Nat]
                 /\ m \in Seq(Nodes) /\ Injective(m) /\ Linked(m, head, -1, next)
                 /\ \A i \in 1 .. Len(s) : i \in 1 .. Len(m) /\ data[m[i]] = s[i]

LinkedHolds(s) == \E m : /\ InNodes(m, s) /\ Len(m) = Len(s)
                         /\ Len(m) # 0 => tail = m[Len(m)]

DummyHolds(s) == \E m : /\ InNodes(m, s) /\ Len(m) = Len(s) + 1
                        /\ tail = m[Len(m)]

Slot(i) == IF head + i - 1 < Capacity THEN head + i - 1 ELSE head + i - 1 - Capacity

RingHolds(s) ==
    /\ data \in [0 .. Capacity - 1 -> Nat]
    /\ head \in 0 .. Capacity - 1 /\ tail \in 0 .. Capacity - 1
    /\ Len(s) = IF tail >= head THEN tail - head ELSE tail - head + Capacity
    /\ \A i \in 1 .. Len(s) : s[i] = data[Slot(i)]

QueueHolds(s) == /\ Numbered(s)
                 /\ kind = "linked" => LinkedHolds(s)
                 /\ kind = "dummy" => DummyHolds(s)
                 /\ kind = "ring" => RingHolds(s)

QueueInv == IsQueue => \E s : QueueHolds(s)

\* A push of the next value, and a pop.
Pushed(s, z) == z = Append(s, pushed') /\ pushed' = pushed + 1 /\ taken' = taken
Popped(s, z) == /\ s # <<>> /\ z = Tail(s) /\ taken' = taken \cup {Head(s)} /\ pushed' = pushed

LEMMA NumberedPush ==
  ASSUME NEW s, Numbered(s), pushed' = pushed + 1, taken' = taken
  PROVE  \E z : /\ Numbered(z)' /\ Pushed(s, z) /\ Len(z) = Len(s) + 1
                /\ \A i \in 1 .. Len(s) : z[i] = s[i]
                /\ z[Len(s) + 1] = pushed' /\ pushed' \in Nat
<1>1. PICK z : z = Append(s, pushed')
  OBVIOUS
<1>2. s \in Seq(Nat) /\ pushed' \in Nat /\ Len(s) \in Nat
  BY DEF Numbered
<1>3. /\ z \in Seq(Nat) /\ Len(z) = Len(s) + 1 /\ z[Len(s) + 1] = pushed'
      /\ \A i \in 1 .. Len(s) : z[i] = s[i]
  BY <1>1, <1>2, AppendProperties
<1>4. \A i \in 1 .. Len(z) : z[i] \in 1 .. pushed'
  <2>1. \A i \in 1 .. Len(z) : i \in 1 .. Len(s) \/ i = Len(s) + 1
    BY <1>2, <1>3
  <2>2. pushed' \in 1 .. pushed' /\ 1 .. pushed \subseteq 1 .. pushed'
    BY DEF Numbered
  <2> QED
    BY <1>3, <2>1, <2>2 DEF Numbered
<1>5. taken' \subseteq 1 .. pushed'
  BY DEF Numbered
<1> QED
  BY <1>1, <1>2, <1>3, <1>4, <1>5 DEF Numbered, Pushed

LEMMA NumberedPop ==
  ASSUME NEW s, Numbered(s), Len(s) # 0, pushed' = pushed, taken' = taken \cup {s[1]}
  PROVE  \E z : /\ Numbered(z)' /\ Popped(s, z) /\ Len(z) = Len(s) - 1
                /\ \A i \in 1 .. Len(z) : z[i] = s[i + 1]
<1>1. PICK z : z = Tail(s)
  OBVIOUS
<1>2. s \in Seq(Nat) /\ pushed \in Nat /\ Len(s) \in Nat /\ s # <<>>
  BY DEF Numbered
<1>3. z \in Seq(Nat) /\ Len(z) = Len(s) - 1 /\ \A i \in 1 .. Len(z) : z[i] = s[i + 1]
  BY <1>1, <1>2, HeadTailProperties
<1>4. (\A i \in 1 .. Len(z) : i + 1 \in 1 .. Len(s)) /\ 1 \in 1 .. Len(s)
  BY <1>2, <1>3
<1>5. Head(s) = s[1]
  BY <1>2
<1> QED
  BY <1>1, <1>2, <1>3, <1>4, <1>5 DEF Numbered, Popped

LEMMA QueueNodes ==
  /\ Queue!Nil = -1 /\ Nodes \subseteq Nat /\ -1 \notin Nodes /\ IsFiniteSet(Nodes)
  /\ Cardinality(Nodes) \in Nat
  BY DataStructAssumption, FS_CardinalityType DEF Queue!Nil

\* Chain returns the nodes that follow one another from head_.
LEMMA QueueChain == \A m, s : InNodes(m, s) => Queue!Chain(head) = m
<1> SUFFICES ASSUME NEW m, NEW s, InNodes(m, s) PROVE Queue!Chain(head) = m
  OBVIOUS
<1>1. m \in Seq(Nodes) /\ Injective(m) /\ Linked(m, head, -1, next) /\ next \in [Nodes -> Nodes \cup {-1}]
  BY DEF InNodes
<1>2. Len(m) <= Cardinality(Nodes)
  <2>1. IsFiniteSet(NodeSet(m)) /\ Cardinality(NodeSet(m)) = Len(m)
    BY <1>1, RangeCounts
  <2>2. NodeSet(m) \subseteq Nodes
    BY <1>1 DEF NodeSet
  <2> QED
    BY <2>1, <2>2, QueueNodes, FS_Subset
<1>3. PICK h : h = CHOOSE f : f = Walk(Cardinality(Nodes), Nodes \cup {-1}, -1, next, f)
  OBVIOUS
<1>4. h[Cardinality(Nodes)][head] = m
  <2>1. PICK K, D : K = Cardinality(Nodes) /\ D = Nodes \cup {-1}
    OBVIOUS
  <2>2. K \in Nat /\ -1 \in D /\ m \in Seq(D) /\ Len(m) <= K
    BY <1>1, <1>2, <2>1, QueueNodes
  <2>3. \A n \in D : n # -1 => next[n] \in D
    BY <1>1, <2>1
  <2>4. h = Walk(K, D, -1, next, h)
    <3>1. \E f : f = Walk(K, D, -1, next, f)
      BY <2>2, <2>3, WalkExists
    <3> QED
      BY <1>3, <2>1, <3>1, Zenon
  <2>5. h[K][head] = m
    <3>1. PICK nil, nx, first : nil = -1 /\ nx = next /\ first = head
      OBVIOUS
    <3>2. Walks(K, D, nil, nx, m, first, h)
      BY <1>1, <2>2, <2>3, <2>4, <3>1, Zenon DEF Walks
    <3>3. h[K][first] = m
      BY <3>2, WalkFinds
    <3> QED
      BY <3>1, <3>3, Zenon
  <2> QED
    BY <2>1, <2>5
<1>5. Queue!Chain(head) = h[Cardinality(Nodes)][head]
  BY <1>3, Zenon DEF Queue!Chain, Queue!Nil, Queue!Cardinality, Cardinality, Walk
<1> QED
  BY <1>4, <1>5, Zenon

\* The index of a slot one round further.
LEMMA AroundTheRing ==
  ASSUME Capacity \in Nat \ {0}, NEW n \in 0 .. 2 * Capacity - 1
  PROVE  n % Capacity = IF n < Capacity THEN n ELSE n - Capacity
<1>1. CASE n < Capacity
  BY <1>1
<1>2. CASE n >= Capacity
  <2>1. n = 1 * Capacity + (n - Capacity) /\ n - Capacity \in 0 .. Capacity - 1
    BY <1>2
  <2> QED
    BY <1>2, <2>1
<1> QED
  BY <1>1, <1>2

LEMMA QueueElementsAre == \A s : IsQueue /\ QueueHolds(s) => QueueElements = s
<1> SUFFICES ASSUME NEW s, IsQueue, QueueHolds(s) PROVE QueueElements = s
  OBVIOUS
<1>1. QueueElements = Queue!Elements
  BY DEF QueueElements
<1>2. s \in Seq(Nat) /\ Len(s) \in Nat /\ s = [i \in 1 .. Len(s) |-> s[i]]
  BY DEF QueueHolds, Numbered
<1>3. CASE kind = "linked"
  <2>1. PICK m : InNodes(m, s) /\ Len(m) = Len(s)
    BY <1>3 DEF QueueHolds, LinkedHolds
  <2>2. Queue!Chain(head) = m
    BY <2>1, QueueChain
  <2>3. Queue!Elements = [i \in 1 .. Len(Queue!Chain(head)) |-> data[Queue!Chain(head)[i]]]
    BY <1>3 DEF Queue!Elements
  <2>4. Queue!Elements = [i \in 1 .. Len(m) |-> data[m[i]]]
    BY <2>2, <2>3
  <2>5. \A i \in 1 .. Len(s) : data[m[i]] = s[i]
    BY <2>1 DEF InNodes
  <2> QED
    BY <1>1, <1>2, <2>1, <2>4, <2>5
<1>4. CASE kind = "dummy"
  <2>1. PICK m : InNodes(m, s) /\ Len(m) = Len(s) + 1
    BY <1>4 DEF QueueHolds, DummyHolds
  <2>2. Queue!Chain(head) = m
    BY <2>1, QueueChain
  <2>3. Queue!Elements = [i \in 1 .. Len(Queue!Chain(head)) - 1 |-> data[Queue!Chain(head)[i]]]
    BY <1>4 DEF Queue!Elements
  <2>4. Queue!Elements = [i \in 1 .. Len(m) - 1 |-> data[m[i]]]
    BY <2>2, <2>3
  <2>5. \A i \in 1 .. Len(s) : data[m[i]] = s[i]
    BY <2>1 DEF InNodes
  <2> QED
    BY <1>1, <1>2, <2>1, <2>4, <2>5
<1>5. CASE kind = "ring"
  <2>1. RingHolds(s) /\ Capacity \in Nat \ {0}
    BY <1>5, DataStructAssumption DEF QueueHolds
  <2>2. tail - head + Capacity \in 0 .. 2 * Capacity - 1 /\ Len(s) < Capacity
    BY <2>1 DEF RingHolds
  <2>3. Queue!Count = Len(s)
    <3>1. Queue!Count = IF tail - head + Capacity < Capacity THEN tail - head + Capacity
                        ELSE (tail - head + Capacity) - Capacity
      BY <2>1, <2>2, AroundTheRing, Zenon DEF Queue!Count
    <3> QED
      BY <2>1, <3>1 DEF RingHolds
  <2>4. \A i \in 1 .. Len(s) : data[(head + i - 1) % Capacity] = s[i]
    <3> SUFFICES ASSUME NEW i \in 1 .. Len(s) PROVE data[(head + i - 1) % Capacity] = s[i]
      OBVIOUS
    <3>1. PICK n : n = head + i - 1
      OBVIOUS
    <3>2. n \in 0 .. 2 * Capacity - 1
      <4>1. head \in 0 .. Capacity - 1 /\ i \in Nat /\ i > 0 /\ i < Capacity
        BY <1>2, <2>1, <2>2 DEF RingHolds
      <4> QED
        BY <2>1, <3>1, <4>1
    <3>3. n % Capacity = IF n < Capacity THEN n ELSE n - Capacity
      BY <2>1, <3>2, AroundTheRing, Zenon
    <3>4. (head + i - 1) % Capacity = Slot(i)
      <4>1. Slot(i) = IF n < Capacity THEN n ELSE n - Capacity
        BY <3>1, <1>2, <2>1 DEF Slot, RingHolds
      <4> QED
        BY <3>1, <3>3, <4>1, Zenon
    <3> QED
      BY <2>1, <3>4 DEF RingHolds
  <2>5. Queue!Elements = [i \in 1 .. Queue!Count |-> data[(head + i - 1) % Capacity]]
    BY <1>5 DEF Queue!Elements
  <2> QED
    BY <1>1, <1>2, <2>3, <2>4, <2>5
<1> QED
  BY <1>3, <1>4, <1>5 DEF IsQueue

\* A new node is none of those that follow one another from head_.
LEMMA QueueFree ==
  ASSUME NEW m, NEW s, InNodes(m, s), NEW n, Queue!NewNode(n)
  PROVE  n \notin NodeSet(m)
<1>1. Queue!Chain(head) = m
  BY QueueChain
<1>2. \A i \in 1 .. Len(m) : m[i] # n
  BY <1>1 DEF Queue!NewNode, Queue!Free
<1> QED
  BY <1>2 DEF NodeSet

LEMMA LinkedPush ==
  ASSUME NEW s, Numbered(s), LinkedHolds(s), Queue!PushLinked
  PROVE  \E z : Numbered(z)' /\ LinkedHolds(z)' /\ Pushed(s, z)
<1>1. PICK m : InNodes(m, s) /\ Len(m) = Len(s) /\ (Len(m) # 0 => tail = m[Len(m)])
  BY DEF LinkedHolds
<1>2. /\ next \in [Nodes -> Nodes \cup {-1}] /\ data \in [Nodes -> Nat]
      /\ m \in Seq(Nodes) /\ Injective(m) /\ Linked(m, head, -1, next)
      /\ \A i \in 1 .. Len(s) : i \in 1 .. Len(m) /\ data[m[i]] = s[i]
  BY <1>1 DEF InNodes
<1>3. PICK n \in Nodes :
          /\ Queue!NewNode(n)
          /\ data' = [data EXCEPT ![n] = pushed']
          /\ next' = IF head # -1 THEN [next EXCEPT ![n] = -1, ![tail] = n] ELSE [next EXCEPT ![n] = -1]
          /\ head' = IF head = -1 THEN n ELSE head
          /\ tail' = n
  BY QueueNodes DEF Queue!PushLinked
<1>4. pushed' = pushed + 1 /\ taken' = taken
  BY DEF Queue!PushLinked, Queue!Draw
<1>5. PICK z : /\ Numbered(z)' /\ Pushed(s, z) /\ Len(z) = Len(s) + 1
               /\ \A i \in 1 .. Len(s) : z[i] = s[i]
               /\ z[Len(s) + 1] = pushed' /\ pushed' \in Nat
  BY <1>4, NumberedPush
<1>6. n \notin NodeSet(m) /\ n # -1 /\ Len(m) \in Nat
  BY <1>1, <1>2, <1>3, QueueFree, QueueNodes
<1>7. head = -1 <=> Len(m) = 0
  <2>1. Len(m) # 0 => 1 \in 1 .. Len(m)
    BY <1>6
  <2> QED
    BY <1>2, <2>1 DEF Linked
<1>8. \A i \in 1 .. Len(m) : m[i] \in Nodes /\ m[i] # n /\ (i # Len(m) => m[i] # m[Len(m)])
  <2>1. ASSUME NEW i \in 1 .. Len(m) PROVE m[i] # n
    BY <1>6 DEF NodeSet
  <2>2. ASSUME NEW i \in 1 .. Len(m), i # Len(m) PROVE m[i] # m[Len(m)]
    <3>1. Len(m) \in 1 .. Len(m)
      BY <1>6
    <3> QED
      BY <1>2, <2>2, <3>1 DEF Injective
  <2> QED
    BY <1>2, <2>1, <2>2
<1>9. /\ next'[n] = -1
      /\ Len(m) # 0 => next'[m[Len(m)]] = n
      /\ \A i \in 1 .. Len(m) : i # Len(m) => next'[m[i]] = next[m[i]]
  <2>1. CASE Len(m) = 0
    BY <1>2, <1>3, <1>7, <2>1
  <2>2. CASE Len(m) # 0
    <3>1. Len(m) \in 1 .. Len(m) /\ tail = m[Len(m)] /\ tail \in Nodes /\ tail # n
      BY <1>1, <1>6, <1>8, <2>2
    <3>2. next' = [next EXCEPT ![n] = -1, ![tail] = n]
      BY <1>3, <1>7, <2>2
    <3> QED
      BY <1>2, <1>8, <3>1, <3>2
  <2> QED
    BY <2>1, <2>2
<1>10. PICK y : y = Append(m, n)
  OBVIOUS
<1>11. /\ y \in Seq(Nodes) /\ Injective(y) /\ Len(y) = Len(m) + 1 /\ y[Len(y)] = n
       /\ \A i \in 1 .. Len(m) : y[i] = m[i]
       /\ Linked(y, IF Len(m) = 0 THEN n ELSE head, -1, next')
  <2>1. n \in Nodes /\ n # -1 /\ n \notin NodeSet(m)
    BY <1>3, <1>6
  <2> QED
    <3>1. PICK D, nil, nx, nx2, first : D = Nodes /\ nil = -1 /\ nx = next /\ nx2 = next' /\ first = head
      OBVIOUS
    <3>2. Appends(D, nil, nx, m, first, n, nx2, y)
      BY <1>2, <1>9, <1>10, <2>1, <3>1, Zenon DEF Appends
    <3>3. /\ y \in Seq(D) /\ Injective(y) /\ Len(y) = Len(m) + 1 /\ y[Len(y)] = n
          /\ (\A i \in 1 .. Len(m) : y[i] = m[i])
          /\ Linked(y, IF Len(m) = 0 THEN n ELSE first, nil, nx2)
      BY <3>2, LinkedAppend
    <3> QED
      BY <3>1, <3>3, Zenon
<1>12. InNodes(y, z)'
  <2>1. Linked(y, head', -1, next')
    BY <1>3, <1>7, <1>11
  <2>2. next' \in [Nodes -> Nodes \cup {-1}] /\ data' \in [Nodes -> Nat]
    BY <1>2, <1>3, <1>5
  <2>3. ASSUME NEW i \in 1 .. Len(z) PROVE i \in 1 .. Len(y) /\ data'[y[i]] = z[i]
    <3>1. i \in 1 .. Len(y) /\ (i \in 1 .. Len(s) \/ i = Len(s) + 1)
      BY <1>1, <1>5, <1>6, <1>11
    <3>2. CASE i \in 1 .. Len(s)
      <4>1. y[i] = m[i] /\ z[i] = s[i] /\ m[i] \in Nodes /\ m[i] # n /\ data[m[i]] = s[i]
        BY <1>1, <1>2, <1>5, <1>8, <1>11, <3>2
      <4> QED
        BY <1>2, <1>3, <3>1, <4>1
    <3>3. CASE i = Len(s) + 1
      <4>1. y[i] = n /\ z[i] = pushed'
        BY <1>1, <1>5, <1>11, <3>3
      <4> QED
        BY <1>2, <1>3, <3>1, <4>1
    <3> QED
      BY <3>1, <3>2, <3>3
  <2> QED
    BY <1>11, <2>1, <2>2, <2>3 DEF InNodes
<1>13. Len(y) = Len(z) /\ tail' = y[Len(y)]
  BY <1>1, <1>3, <1>5, <1>11
<1> QED
  BY <1>5, <1>12, <1>13 DEF LinkedHolds

\* The first node leaves; the links and the data stay.
LEMMA NodesPop ==
  ASSUME NEW s, Numbered(s), NEW m, InNodes(m, s), Len(s) # 0, Len(m) \in {Len(s), Len(s) + 1},
         pushed' = pushed, taken' = taken \cup {data[head]},
         head' = next[head], next' = next, data' = data
  PROVE  \E y, z : /\ Numbered(z)' /\ Popped(s, z) /\ Len(z) = Len(s) - 1
                   /\ InNodes(y, z)' /\ Len(y) = Len(m) - 1
                   /\ Len(y) # 0 => y[Len(y)] = m[Len(m)]
<1>1. /\ next \in [Nodes -> Nodes \cup {-1}] /\ data \in [Nodes -> Nat]
      /\ m \in Seq(Nodes) /\ Injective(m) /\ Linked(m, head, -1, next)
      /\ \A i \in 1 .. Len(s) : i \in 1 .. Len(m) /\ data[m[i]] = s[i]
  BY DEF InNodes
<1>2. Len(m) \in Nat /\ Len(s) \in Nat /\ Len(m) # 0 /\ 1 \in 1 .. Len(s)
  <2>1. Len(m) \in Nat /\ Len(s) \in Nat
    BY <1>1 DEF Numbered
  <2> QED
    BY <2>1
<1>3. head = m[1] /\ data[head] = s[1]
  BY <1>1, <1>2 DEF Linked
<1>4. PICK z : /\ Numbered(z)' /\ Popped(s, z) /\ Len(z) = Len(s) - 1
               /\ \A i \in 1 .. Len(z) : z[i] = s[i + 1]
  BY <1>3, NumberedPop
<1>5. PICK y : y = Tail(m)
  OBVIOUS
<1>6. /\ y \in Seq(Nodes) /\ Injective(y) /\ Len(y) = Len(m) - 1
      /\ \A i \in 1 .. Len(y) : y[i] = m[i + 1]
      /\ Linked(y, next[head], -1, next)
  <2>1. PICK D, nil, nx, first : D = Nodes /\ nil = -1 /\ nx = next /\ first = head
    OBVIOUS
  <2>2. Tails(D, nil, nx, m, first, y)
    BY <1>1, <1>2, <1>5, <2>1, Zenon DEF Tails
  <2>3. /\ y \in Seq(D) /\ Injective(y) /\ Len(y) = Len(m) - 1
        /\ (\A i \in 1 .. Len(y) : y[i] = m[i + 1]) /\ Linked(y, nx[first], nil, nx)
    BY <2>2, LinkedTail
  <2> QED
    BY <2>1, <2>3, Zenon
<1>7. InNodes(y, z)'
  <2>1. \A i \in 1 .. Len(z) : i \in 1 .. Len(y) /\ data[y[i]] = z[i]
    <3>1. ASSUME NEW i \in 1 .. Len(z) PROVE i \in 1 .. Len(y) /\ i + 1 \in 1 .. Len(s)
      BY <1>2, <1>4, <1>6
    <3>2. ASSUME NEW i \in 1 .. Len(z) PROVE data[y[i]] = z[i]
      BY <1>1, <1>4, <1>6, <3>1
    <3> QED
      BY <3>1, <3>2
  <2>2. Linked(y, head', -1, next')
    BY <1>6, Zenon
  <2> QED
    BY <1>1, <1>6, <2>1, <2>2 DEF InNodes
<1>8. Len(y) # 0 => y[Len(y)] = m[Len(m)]
  <2>1. Len(y) # 0 => Len(y) \in 1 .. Len(y) /\ Len(y) + 1 = Len(m)
    BY <1>2, <1>6
  <2> QED
    BY <1>6, <2>1
<1> QED
  BY <1>4, <1>6, <1>7, <1>8, Zenon

LEMMA LinkedPop ==
  ASSUME NEW s, Numbered(s), LinkedHolds(s), Queue!PopLinked
  PROVE  \E z : Numbered(z)' /\ LinkedHolds(z)' /\ Popped(s, z)
<1>1. PICK m : InNodes(m, s) /\ Len(m) = Len(s) /\ (Len(m) # 0 => tail = m[Len(m)])
  BY DEF LinkedHolds
<1>2. /\ head # -1 /\ taken' = taken \cup {data[head]} /\ head' = next[head]
      /\ tail' = tail /\ next' = next /\ data' = data /\ pushed' = pushed
  BY QueueNodes DEF Queue!PopLinked
<1>3. Len(s) # 0
  BY <1>1, <1>2 DEF InNodes, Linked
<1>4. PICK y, z : /\ Numbered(z)' /\ Popped(s, z) /\ Len(z) = Len(s) - 1
                  /\ InNodes(y, z)' /\ Len(y) = Len(m) - 1
                  /\ Len(y) # 0 => y[Len(y)] = m[Len(m)]
  BY <1>1, <1>2, <1>3, NodesPop
<1>5. Len(y) = Len(z) /\ (Len(y) # 0 => tail' = y[Len(y)])
  <2>1. Len(s) \in Nat /\ Len(m) # 0
    BY <1>1, <1>3 DEF Numbered
  <2> QED
    BY <1>1, <1>2, <1>4, <2>1
<1> QED
  BY <1>4, <1>5 DEF LinkedHolds

LEMMA DummyPop ==
  ASSUME NEW s, Numbered(s), DummyHolds(s), Queue!PopDummy
  PROVE  \E z : Numbered(z)' /\ DummyHolds(z)' /\ Popped(s, z)
<1>1. PICK m : InNodes(m, s) /\ Len(m) = Len(s) + 1 /\ tail = m[Len(m)]
  BY DEF DummyHolds
<1>2. /\ head # tail /\ taken' = taken \cup {data[head]} /\ head' = next[head]
      /\ tail' = tail /\ next' = next /\ data' = data /\ pushed' = pushed
  BY DEF Queue!PopDummy
<1>3. Len(s) # 0 /\ Len(s) \in Nat
  <2>1. Len(s) \in Nat
    BY DEF Numbered
  <2>2. Len(s) = 0 => Len(m) = 1 /\ head = m[1]
    BY <1>1 DEF InNodes, Linked
  <2> QED
    BY <1>1, <1>2, <2>1, <2>2
<1>4. PICK y, z : /\ Numbered(z)' /\ Popped(s, z) /\ Len(z) = Len(s) - 1
                  /\ InNodes(y, z)' /\ Len(y) = Len(m) - 1
                  /\ Len(y) # 0 => y[Len(y)] = m[Len(m)]
  BY <1>1, <1>2, <1>3, NodesPop
<1>5. Len(y) = Len(z) + 1 /\ tail' = y[Len(y)]
  BY <1>1, <1>2, <1>3, <1>4
<1> QED
  BY <1>4, <1>5 DEF DummyHolds

\* The node that was the dummy gets the value too, and the new one is the dummy.
LEMMA DummyPush ==
  ASSUME NEW s, Numbered(s), DummyHolds(s), Queue!PushDummy
  PROVE  \E z : Numbered(z)' /\ DummyHolds(z)' /\ Pushed(s, z)
<1>1. PICK m : InNodes(m, s) /\ Len(m) = Len(s) + 1 /\ tail = m[Len(m)]
  BY DEF DummyHolds
<1>2. /\ next \in [Nodes -> Nodes \cup {-1}] /\ data \in [Nodes -> Nat]
      /\ m \in Seq(Nodes) /\ Injective(m) /\ Linked(m, head, -1, next)
      /\ \A i \in 1 .. Len(s) : i \in 1 .. Len(m) /\ data[m[i]] = s[i]
  BY <1>1 DEF InNodes
<1>3. PICK n \in Nodes :
          /\ Queue!NewNode(n)
          /\ data' = [data EXCEPT ![n] = pushed', ![tail] = pushed']
          /\ next' = [next EXCEPT ![n] = -1, ![tail] = n]
          /\ tail' = n
  BY QueueNodes DEF Queue!PushDummy
<1>4. pushed' = pushed + 1 /\ taken' = taken /\ head' = head
  BY DEF Queue!PushDummy, Queue!Draw
<1>5. PICK z : /\ Numbered(z)' /\ Pushed(s, z) /\ Len(z) = Len(s) + 1
               /\ \A i \in 1 .. Len(s) : z[i] = s[i]
               /\ z[Len(s) + 1] = pushed' /\ pushed' \in Nat
  BY <1>4, NumberedPush
<1>6. n \notin NodeSet(m) /\ n # -1 /\ Len(s) \in Nat /\ Len(m) \in 1 .. Len(m) /\ Len(m) # 0
  <2>1. n \notin NodeSet(m) /\ n # -1
    BY <1>1, <1>3, QueueFree, QueueNodes
  <2>2. Len(s) \in Nat
    BY DEF Numbered
  <2> QED
    BY <1>1, <2>1, <2>2
<1>7. \A i \in 1 .. Len(m) : m[i] \in Nodes /\ m[i] # n /\ (i # Len(m) => m[i] # tail)
  <2>1. ASSUME NEW i \in 1 .. Len(m) PROVE m[i] # n
    BY <1>6 DEF NodeSet
  <2>2. ASSUME NEW i \in 1 .. Len(m), i # Len(m) PROVE m[i] # tail
    BY <1>1, <1>2, <1>6, <2>2 DEF Injective
  <2> QED
    BY <1>2, <2>1, <2>2
<1>8. tail \in Nodes /\ tail # n
  BY <1>1, <1>6, <1>7
<1>9. /\ next'[n] = -1 /\ next'[tail] = n
      /\ \A i \in 1 .. Len(m) : i # Len(m) => next'[m[i]] = next[m[i]] /\ data'[m[i]] = data[m[i]]
      /\ data'[tail] = pushed'
      /\ next' \in [Nodes -> Nodes \cup {-1}] /\ data' \in [Nodes -> Nat]
  BY <1>2, <1>3, <1>5, <1>7, <1>8
<1>10. PICK y : y = Append(m, n)
  OBVIOUS
<1>11. /\ y \in Seq(Nodes) /\ Injective(y) /\ Len(y) = Len(m) + 1 /\ y[Len(y)] = n
       /\ \A i \in 1 .. Len(m) : y[i] = m[i]
       /\ Linked(y, head, -1, next')
  <2>1. PICK D, nil, nx, nx2, first : D = Nodes /\ nil = -1 /\ nx = next /\ nx2 = next' /\ first = head
    OBVIOUS
  <2>2. Appends(D, nil, nx, m, first, n, nx2, y)
    BY <1>1, <1>2, <1>3, <1>6, <1>9, <1>10, <2>1, Zenon DEF Appends
  <2>3. /\ y \in Seq(D) /\ Injective(y) /\ Len(y) = Len(m) + 1 /\ y[Len(y)] = n
        /\ (\A i \in 1 .. Len(m) : y[i] = m[i])
        /\ Linked(y, IF Len(m) = 0 THEN n ELSE first, nil, nx2)
    BY <2>2, LinkedAppend
  <2> QED
    BY <1>6, <2>1, <2>3, Zenon
<1>12. InNodes(y, z)'
  <2>1. Linked(y, head', -1, next')
    BY <1>4, <1>11, Zenon
  <2>2. ASSUME NEW i \in 1 .. Len(z) PROVE i \in 1 .. Len(y) /\ data'[y[i]] = z[i]
    <3>1. i \in 1 .. Len(m) /\ i \in 1 .. Len(y) /\ (i = Len(m) \/ (i \in 1 .. Len(s) /\ i # Len(m)))
      BY <1>1, <1>5, <1>6, <1>11
    <3>2. CASE i = Len(m)
      <4>1. y[i] = tail /\ z[i] = pushed'
        BY <1>1, <1>5, <1>11, <3>1, <3>2
      <4> QED
        BY <1>9, <3>1, <4>1
    <3>3. CASE i \in 1 .. Len(s) /\ i # Len(m)
      <4>1. y[i] = m[i] /\ z[i] = s[i] /\ data'[m[i]] = data[m[i]] /\ data[m[i]] = s[i]
        BY <1>2, <1>5, <1>9, <1>11, <3>1, <3>3
      <4> QED
        BY <3>1, <4>1
    <3> QED
      BY <3>1, <3>2, <3>3
  <2> QED
    BY <1>9, <1>11, <2>1, <2>2 DEF InNodes
<1>13. Len(y) = Len(z) + 1 /\ tail' = y[Len(y)]
  BY <1>1, <1>3, <1>5, <1>11
<1> QED
  BY <1>5, <1>12, <1>13 DEF DummyHolds

\* ring::push: the slot before head_ stays free, so that a full ring does not look
\* like an empty one.
LEMMA RingPush ==
  ASSUME NEW s, Numbered(s), RingHolds(s), Queue!PushRing
  PROVE  \E z : Numbered(z)' /\ RingHolds(z)' /\ Pushed(s, z)
<1>1. /\ (tail + 1) % Capacity # head /\ data' = [data EXCEPT ![tail] = pushed']
      /\ tail' = (tail + 1) % Capacity /\ head' = head
      /\ pushed' = pushed + 1 /\ taken' = taken
  BY DEF Queue!PushRing, Queue!Draw
<1>2. PICK z : /\ Numbered(z)' /\ Pushed(s, z) /\ Len(z) = Len(s) + 1
               /\ \A i \in 1 .. Len(s) : z[i] = s[i]
               /\ z[Len(s) + 1] = pushed' /\ pushed' \in Nat
  BY <1>1, NumberedPush
<1>3. Len(s) \in Nat /\ Capacity \in Nat \ {0}
  BY DataStructAssumption DEF Numbered
<1>4. /\ data \in [0 .. Capacity - 1 -> Nat] /\ head \in 0 .. Capacity - 1 /\ tail \in 0 .. Capacity - 1
      /\ Len(s) = IF tail >= head THEN tail - head ELSE tail - head + Capacity
      /\ \A i \in 1 .. Len(s) : s[i] = data[Slot(i)]
  BY DEF RingHolds
<1>5. tail' = (IF tail + 1 < Capacity THEN tail + 1 ELSE 0) /\ tail' # head
  <2>1. PICK n : n = tail + 1
    OBVIOUS
  <2>2. n \in 0 .. 2 * Capacity - 1 /\ (n < Capacity \/ n = Capacity)
    BY <1>3, <1>4, <2>1
  <2>3. n % Capacity = IF n < Capacity THEN n ELSE n - Capacity
    BY <1>3, <2>2, AroundTheRing, Zenon
  <2>4. tail' = n % Capacity /\ tail' # head
    BY <1>1, <2>1, Zenon
  <2> QED
    BY <1>3, <2>1, <2>2, <2>3, <2>4
<1>6. Len(z) = IF tail' >= head' THEN tail' - head' ELSE tail' - head' + Capacity
  <2>1. CASE tail + 1 < Capacity
    <3>1. tail' = tail + 1 /\ tail' # head /\ head' = head /\ Len(z) = Len(s) + 1
      BY <1>1, <1>2, <1>5, <2>1
    <3> QED
      BY <1>3, <1>4, <3>1
  <2>2. CASE ~ (tail + 1 < Capacity)
    <3>1. tail' = 0 /\ tail = Capacity - 1 /\ head # 0 /\ head' = head /\ Len(z) = Len(s) + 1
      BY <1>1, <1>2, <1>3, <1>4, <1>5, <2>2
    <3> QED
      BY <1>3, <1>4, <3>1
  <2> QED
    BY <2>1, <2>2
<1>7. Slot(Len(s) + 1) = tail /\ \A i \in 1 .. Len(s) : Slot(i) \in 0 .. Capacity - 1 /\ Slot(i) # tail
  BY <1>3, <1>4 DEF Slot
<1>8. \A i \in 1 .. Len(z) : z[i] = data'[Slot(i)']
  <2>1. \A i : Slot(i)' = Slot(i)
    BY <1>1 DEF Slot
  <2>2. data'[tail] = pushed' /\ \A j \in 0 .. Capacity - 1 : j # tail => data'[j] = data[j]
    BY <1>1, <1>4
  <2>3. ASSUME NEW i \in 1 .. Len(z) PROVE z[i] = data'[Slot(i)]
    <3>1. CASE i = Len(s) + 1
      BY <1>2, <1>7, <2>2, <3>1
    <3>2. CASE i \in 1 .. Len(s)
      <4>1. Slot(i) \in 0 .. Capacity - 1 /\ Slot(i) # tail /\ s[i] = data[Slot(i)] /\ z[i] = s[i]
        BY <1>2, <1>4, <1>7, <3>2
      <4> QED
        BY <2>2, <4>1
    <3> QED
      BY <1>2, <1>3, <3>1, <3>2
  <2> QED
    BY <2>1, <2>3
<1>9. RingHolds(z)'
  <2>1. data' \in [0 .. Capacity - 1 -> Nat] /\ head' \in 0 .. Capacity - 1 /\ tail' \in 0 .. Capacity - 1
    BY <1>1, <1>2, <1>3, <1>4, <1>5
  <2> QED
    BY <1>6, <1>8, <2>1 DEF RingHolds
<1> QED
  BY <1>2, <1>9

LEMMA RingPop ==
  ASSUME NEW s, Numbered(s), RingHolds(s), Queue!PopRing
  PROVE  \E z : Numbered(z)' /\ RingHolds(z)' /\ Popped(s, z)
<1>1. /\ head' = (head + 1) % Capacity /\ tail' = tail /\ data' = data /\ pushed' = pushed
      /\ taken' = taken \cup {data[head]} /\ head # tail
  BY DEF Queue!PopRing
<1>2. Len(s) \in Nat /\ Capacity \in Nat \ {0}
  BY DataStructAssumption DEF Numbered
<1>3. /\ data \in [0 .. Capacity - 1 -> Nat] /\ head \in 0 .. Capacity - 1 /\ tail \in 0 .. Capacity - 1
      /\ Len(s) = IF tail >= head THEN tail - head ELSE tail - head + Capacity
      /\ \A i \in 1 .. Len(s) : s[i] = data[Slot(i)]
  BY DEF RingHolds
<1>4. Len(s) # 0 /\ s[1] = data[head]
  <2>1. Len(s) # 0 /\ 1 \in 1 .. Len(s) /\ Slot(1) = head
    BY <1>1, <1>2, <1>3 DEF Slot
  <2> QED
    BY <1>3, <2>1
<1>5. PICK z : /\ Numbered(z)' /\ Popped(s, z) /\ Len(z) = Len(s) - 1
               /\ \A i \in 1 .. Len(z) : z[i] = s[i + 1]
  BY <1>1, <1>4, NumberedPop
<1>6. head' = IF head + 1 < Capacity THEN head + 1 ELSE 0
  <2>1. PICK n : n = head + 1
    OBVIOUS
  <2>2. n \in 0 .. 2 * Capacity - 1 /\ (n < Capacity \/ n = Capacity)
    BY <1>2, <1>3, <2>1
  <2>3. n % Capacity = IF n < Capacity THEN n ELSE n - Capacity
    BY <1>2, <2>2, AroundTheRing, Zenon
  <2>4. head' = n % Capacity
    BY <1>1, <2>1, Zenon
  <2> QED
    BY <1>2, <2>1, <2>2, <2>3, <2>4
<1>7. Len(z) = IF tail' >= head' THEN tail' - head' ELSE tail' - head' + Capacity
  <2>1. CASE head + 1 < Capacity
    <3>1. head' = head + 1 /\ tail' = tail /\ Len(z) = Len(s) - 1 /\ head # tail
      BY <1>1, <1>5, <1>6, <2>1
    <3>2. Len(s) = IF tail >= head THEN tail - head ELSE tail - head + Capacity
      BY <1>3
    <3> QED
      BY <1>2, <1>3, <3>1, <3>2
  <2>2. CASE ~ (head + 1 < Capacity)
    <3>1. head' = 0 /\ head = Capacity - 1 /\ tail' = tail /\ tail \in Nat /\ tail < head
      BY <1>1, <1>2, <1>3, <1>6, <2>2
    <3> QED
      BY <1>2, <1>3, <1>5, <3>1
  <2> QED
    BY <2>1, <2>2
<1>8. \A i \in 1 .. Len(z) : Slot(i)' = Slot(i + 1) /\ i + 1 \in 1 .. Len(s)
  <2> SUFFICES ASSUME NEW i \in 1 .. Len(z)
               PROVE  Slot(i)' = Slot(i + 1) /\ i + 1 \in 1 .. Len(s)
    OBVIOUS
  <2>1. i \in Nat /\ i >= 1 /\ i + 1 \in 1 .. Len(s) /\ Len(s) < Capacity
    BY <1>2, <1>3, <1>5
  <2>2. CASE head + 1 < Capacity
    BY <1>2, <1>3, <1>6, <2>1, <2>2 DEF Slot
  <2>3. CASE ~ (head + 1 < Capacity)
    <3>1. head' = 0 /\ head = Capacity - 1
      BY <1>2, <1>3, <1>6, <2>3
    <3> QED
      BY <1>2, <1>3, <2>1, <3>1 DEF Slot
  <2> QED
    BY <2>2, <2>3
<1>9. RingHolds(z)'
  <2>1. \A i \in 1 .. Len(z) : z[i] = data'[Slot(i)']
    BY <1>1, <1>3, <1>5, <1>8
  <2>2. data' \in [0 .. Capacity - 1 -> Nat] /\ head' \in 0 .. Capacity - 1 /\ tail' \in 0 .. Capacity - 1
    BY <1>1, <1>2, <1>3, <1>6
  <2> QED
    BY <1>7, <2>1, <2>2 DEF RingHolds
<1> QED
  BY <1>5, <1>9

\* Every step of a queue without locks is a push of the next value, a pop, or leaves
\* the elements alone.
LEMMA QueueMoves ==
  ASSUME NEW s, IsQueue, QueueHolds(s), AnyNext
  PROVE  \E z : QueueHolds(z)' /\ (Pushed(s, z) \/ Popped(s, z) \/ (z = s /\ UNCHANGED <<pushed, taken>>))
<1>1. kind' = kind
  BY KindStays
<1>2. Queue!Next
  BY DEF AnyNext, ContainerNext, IsQueue
<1>3. Numbered(s)
  BY DEF QueueHolds
<1>4. CASE kind = "linked"
  <2>1. LinkedHolds(s)
    BY <1>4 DEF QueueHolds
  <2>2. ASSUME NEW z, Numbered(z)', LinkedHolds(z)' PROVE QueueHolds(z)'
    BY <1>1, <1>4, <2>2 DEF QueueHolds
  <2>3. CASE Queue!PushLinked
    BY <1>3, <2>1, <2>2, <2>3, LinkedPush
  <2>4. CASE Queue!PopLinked
    BY <1>3, <2>1, <2>2, <2>4, LinkedPop
  <2>5. CASE UNCHANGED Queue!vars
    <3>1. QueueHolds(s)'
      BY <2>5, <1>3, <2>1, <2>2 DEF Queue!vars, Numbered, LinkedHolds, InNodes
    <3> QED
      BY <2>5, <3>1 DEF Queue!vars
  <2> QED
    BY <1>2, <1>4, <2>3, <2>4, <2>5 DEF Queue!Next, Queue!PushDummy, Queue!PopDummy, Queue!PushRing, Queue!PopRing
<1>5. CASE kind = "dummy"
  <2>1. DummyHolds(s)
    BY <1>5 DEF QueueHolds
  <2>2. ASSUME NEW z, Numbered(z)', DummyHolds(z)' PROVE QueueHolds(z)'
    BY <1>1, <1>5, <2>2 DEF QueueHolds
  <2>3. CASE Queue!PushDummy
    BY <1>3, <2>1, <2>2, <2>3, DummyPush
  <2>4. CASE Queue!PopDummy
    BY <1>3, <2>1, <2>2, <2>4, DummyPop
  <2>5. CASE UNCHANGED Queue!vars
    <3>1. QueueHolds(s)'
      BY <2>5, <1>3, <2>1, <2>2 DEF Queue!vars, Numbered, DummyHolds, InNodes
    <3> QED
      BY <2>5, <3>1 DEF Queue!vars
  <2> QED
    BY <1>2, <1>5, <2>3, <2>4, <2>5 DEF Queue!Next, Queue!PushLinked, Queue!PopLinked, Queue!PushRing, Queue!PopRing
<1>6. CASE kind = "ring"
  <2>1. RingHolds(s)
    BY <1>6 DEF QueueHolds
  <2>2. ASSUME NEW z, Numbered(z)', RingHolds(z)' PROVE QueueHolds(z)'
    BY <1>1, <1>6, <2>2 DEF QueueHolds
  <2>3. CASE Queue!PushRing
    BY <1>3, <2>1, <2>2, <2>3, RingPush
  <2>4. CASE Queue!PopRing
    BY <1>3, <2>1, <2>2, <2>4, RingPop
  <2>5. CASE UNCHANGED Queue!vars
    <3>1. QueueHolds(s)'
      BY <2>5, <1>3, <2>1, <2>2 DEF Queue!vars, Numbered, RingHolds, Slot
    <3> QED
      BY <2>5, <3>1 DEF Queue!vars
  <2> QED
    BY <1>2, <1>6, <2>3, <2>4, <2>5 DEF Queue!Next, Queue!PushLinked, Queue!PopLinked, Queue!PushDummy, Queue!PopDummy
<1> QED
  BY <1>4, <1>5, <1>6 DEF IsQueue

\* Queues start empty, and the objects of other kinds push nothing.
LEMMA QueueStarts == AnyInit => pushed = 0 /\ taken = {} /\ (IsQueue => QueueHolds(<<>>))
<1> SUFFICES ASSUME AnyInit PROVE pushed = 0 /\ taken = {} /\ (IsQueue => QueueHolds(<<>>))
  OBVIOUS
<1>1. pushed = 0 /\ taken = {}
  BY DEF AnyInit, ContainerInit, NoContainer, NoQueue, Queue!Init
<1>2. Numbered(<<>>)
  BY <1>1 DEF Numbered
<1>3. IsQueue => Queue!Init
  BY DEF IsQueue, AnyInit, ContainerInit
<1>4. kind = "linked" /\ Queue!Init => LinkedHolds(<<>>)
  <2> SUFFICES ASSUME Queue!InitLinked PROVE LinkedHolds(<<>>)
    BY DEF Queue!Init, Queue!InitDummy, Queue!InitRing
  <2>1. head = -1 /\ next = [n \in Nodes |-> -1] /\ data = [n \in Nodes |-> 0]
    BY QueueNodes DEF Queue!InitLinked
  <2>2. InNodes(<<>>, <<>>)
    BY <2>1 DEF InNodes, Injective, Linked
  <2> QED
    BY <2>2 DEF LinkedHolds
<1>5. kind = "dummy" /\ Queue!Init => DummyHolds(<<>>)
  <2> SUFFICES ASSUME Queue!InitDummy PROVE DummyHolds(<<>>)
    BY DEF Queue!Init, Queue!InitLinked, Queue!InitRing
  <2>1. /\ head = Queue!First /\ tail = Queue!First
        /\ next = [n \in Nodes |-> -1] /\ data = [n \in Nodes |-> 0]
    BY QueueNodes DEF Queue!InitDummy
  <2>2. Queue!First \in Nodes /\ Queue!First # -1
    <3>1. \E n \in Nodes : \A k \in Nodes : n <= k
      BY QueueNodes, DataStructAssumption, LeastNat
    <3>2. Queue!First \in Nodes
      BY <3>1 DEF Queue!First
    <3> QED
      BY <3>2, QueueNodes
  <2>3. PICK m : m = <<head>>
    OBVIOUS
  <2>4. m \in Seq(Nodes) /\ Len(m) = 1 /\ m[1] = head
    BY <2>1, <2>2, <2>3
  <2>5. InNodes(m, <<>>)
    BY <2>1, <2>2, <2>4 DEF InNodes, Injective, Linked
  <2>6. Len(m) = Len(<<>>) + 1 /\ tail = m[Len(m)]
    BY <2>1, <2>4
  <2> QED
    BY <2>5, <2>6 DEF DummyHolds
<1>6. kind = "ring" /\ Queue!Init => RingHolds(<<>>)
  <2> SUFFICES ASSUME Queue!InitRing PROVE RingHolds(<<>>)
    BY DEF Queue!Init, Queue!InitLinked, Queue!InitDummy
  <2> QED
    BY DataStructAssumption DEF Queue!InitRing, RingHolds
<1> QED
  BY <1>1, <1>2, <1>3, <1>4, <1>5, <1>6 DEF QueueHolds

\* No queue: what does not change is pushed, popped and counted.
LEMMA NoQueueMoves == ~IsQueue /\ AnyNext => UNCHANGED <<pushed, taken>>
<1> SUFFICES ASSUME ~IsQueue, AnyNext PROVE UNCHANGED <<pushed, taken>>
  OBVIOUS
<1>1. Queue!Next => UNCHANGED <<pushed, taken>>
  BY DEF IsQueue, Queue!Next, Queue!PushLinked, Queue!PopLinked, Queue!PushDummy, Queue!PopDummy,
         Queue!PushRing, Queue!PopRing, Queue!vars
<1> QED
  BY <1>1 DEF AnyNext, ContainerNext, queueVars, containerVars

\* Nothing that concerns the queues has changed.
LEMMA QueueStays == ASSUME NEW s, QueueHolds(s), UNCHANGED allVars PROVE QueueHolds(s)'
  BY DEF QueueHolds, Numbered, LinkedHolds, DummyHolds, InNodes, RingHolds, Slot, allVars, containerVars,
         listVars, queueVars

\* A value that is pushed is handed out once, in the order of the pushes, by each of
\* the queues without locks, for every capacity and every set of nodes.
THEOREM QueuesInOrder == AnySpec => ImplementsFifoQueue
<1>1. AnyInit => QueueInv /\ Fifo!Init
  <2> SUFFICES ASSUME AnyInit PROVE QueueInv /\ QueueElements = <<>> /\ taken = {}
    BY DEF Fifo!Init
  <2>1. CASE IsQueue
    BY <2>1, QueueStarts, QueueElementsAre DEF QueueInv
  <2>2. CASE ~IsQueue
    BY <2>2, QueueStarts DEF QueueInv, QueueElements
  <2> QED
    BY <2>1, <2>2
<1>2. QueueInv /\ [AnyNext]_allVars => QueueInv'
  <2> SUFFICES ASSUME QueueInv, [AnyNext]_allVars, IsQueue' PROVE (\E s : QueueHolds(s))'
    BY DEF QueueInv
  <2>1. IsQueue
    BY KindStays DEF IsQueue, allVars
  <2>2. PICK s : QueueHolds(s)
    BY <2>1 DEF QueueInv
  <2>3. CASE AnyNext
    BY <2>1, <2>2, <2>3, QueueMoves
  <2>4. CASE UNCHANGED allVars
    BY <2>2, <2>4, QueueStays
  <2> QED
    BY <2>3, <2>4
<1>3. (\A s : IsQueue /\ QueueHolds(s) => QueueElements = s)'
  BY QueueElementsAre, PTL
<1>4. QueueInv /\ [AnyNext]_allVars =>
         [\/ Fifo!Pop /\ UNCHANGED pushed
          \/ Fifo!Push(pushed')]_<<QueueElements, taken, pushed>>
  <2> SUFFICES ASSUME QueueInv, [AnyNext]_allVars
               PROVE  \/ Fifo!Pop /\ UNCHANGED pushed
                      \/ Fifo!Push(pushed')
                      \/ UNCHANGED <<QueueElements, taken, pushed>>
    OBVIOUS
  <2>1. kind' = kind
    BY KindStays DEF allVars
  <2>2. CASE ~IsQueue
    <3>1. UNCHANGED <<pushed, taken>>
      BY <2>2, NoQueueMoves DEF allVars, containerVars, queueVars
    <3>2. QueueElements' = QueueElements
      BY <2>1, <2>2 DEF QueueElements, IsQueue
    <3> QED
      BY <3>1, <3>2
  <2>3. CASE IsQueue
    <3>1. PICK s : QueueHolds(s)
      BY <2>3 DEF QueueInv
    <3>2. QueueElements = s /\ IsQueue'
      BY <2>1, <2>3, <3>1, QueueElementsAre DEF IsQueue
    <3>3. CASE AnyNext
      <4>1. PICK z : /\ QueueHolds(z)'
                     /\ Pushed(s, z) \/ Popped(s, z) \/ (z = s /\ UNCHANGED <<pushed, taken>>)
        BY <2>3, <3>1, <3>3, QueueMoves
      <4>2. QueueElements' = z
        BY <1>3, <3>2, <4>1
      <4>3. CASE Pushed(s, z)
        <5>1. Numbered(s)
          BY <3>1 DEF QueueHolds
        <5>2. pushed' \notin 1 .. pushed
          BY <4>3, <5>1 DEF Pushed, Numbered
        <5>3. pushed' \notin taken /\ \A i \in 1 .. Len(s) : s[i] # pushed'
          BY <5>1, <5>2 DEF Numbered
        <5> QED
          BY <3>2, <4>2, <4>3, <5>3 DEF Pushed, Fifo!Push
      <4>4. CASE Popped(s, z)
        BY <3>2, <4>2, <4>4 DEF Popped, Fifo!Pop
      <4> QED
        BY <3>2, <4>1, <4>2, <4>3, <4>4
    <3>4. CASE UNCHANGED allVars
      <4>1. QueueElements' = s
        BY <1>3, <3>1, <3>2, <3>4, QueueStays
      <4> QED
        BY <3>2, <3>4, <4>1 DEF allVars, containerVars, queueVars
    <3> QED
      BY <3>3, <3>4
  <2> QED
    BY <2>2, <2>3
<1> QED
  BY <1>1, <1>2, <1>4, PTL DEF AnySpec, ImplementsFifoQueue
-----------------------------------------------------------------------------
(***************************************************************************)
(* list.h.  The nodes c[l] lie in the list l, linked in both directions;   *)
(* no node lies in two lists, and the links of the nodes that are with the *)
(* caller or do not exist are nullptr.                                     *)
(***************************************************************************)
\* The nodes m follow one another from first to last, and back.
Doubly(D, nil, m, first, last, nx, pv) ==
    /\ m \in Seq(D) /\ Injective(m) /\ Linked(m, first, nil, nx)
    /\ last = IF Len(m) = 0 THEN nil ELSE m[Len(m)]
    /\ \A i \in 1 .. Len(m) : pv[m[i]] = IF i = 1 THEN nil ELSE m[i - 1]

\* The nodes m with the links nx2 and pv2 that are the same for them.
LEMMA DoublySame ==
  ASSUME NEW D, NEW nil, NEW m, NEW first, NEW last, NEW nx, NEW pv, NEW nx2, NEW pv2,
         Doubly(D, nil, m, first, last, nx, pv),
         \A n \in NodeSet(m) : nx2[n] = nx[n] /\ pv2[n] = pv[n]
  PROVE  Doubly(D, nil, m, first, last, nx2, pv2)
<1>1. \A i \in 1 .. Len(m) : nx2[m[i]] = nx[m[i]] /\ pv2[m[i]] = pv[m[i]]
  BY DEF NodeSet
<1> QED
  BY <1>1 DEF Doubly, Linked

\* n is linked behind the last node, as by push_back.
LinksBehind(D, nil, m, first, last, nx, pv, n, nx2, pv2, y) ==
    /\ y = Append(m, n)
    /\ Doubly(D, nil, m, first, last, nx, pv)
    /\ n \in D /\ n # nil /\ n \notin NodeSet(m)
    /\ nx2[n] = nil /\ pv2[n] = last
    /\ \A x \in NodeSet(m) : /\ pv2[x] = pv[x]
                             /\ nx2[x] = IF x = last THEN n ELSE nx[x]

LEMMA DoublyAppend ==
  ASSUME NEW D, NEW nil, NEW m, NEW first, NEW last, NEW nx, NEW pv, NEW n, NEW nx2, NEW pv2,
         NEW y, LinksBehind(D, nil, m, first, last, nx, pv, n, nx2, pv2, y)
  PROVE  /\ Doubly(D, nil, y, IF Len(m) = 0 THEN n ELSE first, n, nx2, pv2)
         /\ NodeSet(y) = NodeSet(m) \cup {n}
<1>1. /\ m \in Seq(D) /\ Injective(m) /\ Linked(m, first, nil, nx)
      /\ last = IF Len(m) = 0 THEN nil ELSE m[Len(m)]
      /\ \A i \in 1 .. Len(m) : pv[m[i]] = IF i = 1 THEN nil ELSE m[i - 1]
      /\ n \in D /\ n # nil /\ n \notin NodeSet(m) /\ nx2[n] = nil /\ pv2[n] = last
      /\ y = Append(m, n)
  BY DEF LinksBehind, Doubly
<1>2. Len(m) \in Nat /\ \A i \in 1 .. Len(m) : m[i] \in NodeSet(m)
  BY <1>1 DEF NodeSet
<1>3. \A i \in 1 .. Len(m) : /\ pv2[m[i]] = pv[m[i]]
                             /\ nx2[m[i]] = IF m[i] = last THEN n ELSE nx[m[i]]
  BY <1>2 DEF LinksBehind
<1>4. Len(m) # 0 => Len(m) \in 1 .. Len(m) /\ last = m[Len(m)]
  BY <1>1, <1>2
<1>5. Len(m) # 0 => nx2[m[Len(m)]] = n
  BY <1>3, <1>4
<1>6. ASSUME NEW i \in 1 .. Len(m), i # Len(m) PROVE nx2[m[i]] = nx[m[i]]
  <2>1. Len(m) \in 1 .. Len(m) /\ Len(m) # 0
    BY <1>2
  <2>2. m[i] # last
    BY <1>1, <1>4, <1>6, <2>1 DEF Injective
  <2> QED
    BY <1>3, <2>2
<1>7. Appends(D, nil, nx, m, first, n, nx2, y)
  BY <1>1, <1>5, <1>6 DEF Appends
<1>8. /\ y \in Seq(D) /\ Injective(y) /\ Len(y) = Len(m) + 1 /\ y[Len(y)] = n
      /\ \A i \in 1 .. Len(m) : y[i] = m[i]
      /\ NodeSet(y) = NodeSet(m) \cup {n}
      /\ Linked(y, IF Len(m) = 0 THEN n ELSE first, nil, nx2)
  BY <1>7, LinkedAppend
<1>9. n = IF Len(y) = 0 THEN nil ELSE y[Len(y)]
  BY <1>2, <1>8
<1>10. ASSUME NEW i \in 1 .. Len(y) PROVE pv2[y[i]] = IF i = 1 THEN nil ELSE y[i - 1]
  <2>1. CASE i = Len(y)
    <3>1. pv2[y[i]] = last /\ (i = 1 <=> Len(m) = 0)
      BY <1>1, <1>2, <1>8, <2>1
    <3>2. i # 1 => i - 1 = Len(m) /\ i - 1 \in 1 .. Len(m)
      BY <1>2, <1>8, <2>1
    <3> QED
      BY <1>1, <1>8, <3>1, <3>2
  <2>2. CASE i # Len(y)
    <3>1. i \in 1 .. Len(m) /\ (i # 1 => i - 1 \in 1 .. Len(m))
      BY <1>2, <1>8, <2>2
    <3> QED
      BY <1>1, <1>3, <1>8, <3>1
  <2> QED
    BY <2>1, <2>2
<1> QED
  BY <1>8, <1>9, <1>10 DEF Doubly

\* The sequence without its element at i.
LEMMA WithoutIs ==
  ASSUME NEW D, NEW m \in Seq(D), NEW i \in 1 .. Len(m), NEW y, y = Deques!Without(m, i)
  PROVE  /\ y \in Seq(D) /\ Len(y) = Len(m) - 1
         /\ \A j \in 1 .. Len(y) : y[j] = IF j < i THEN m[j] ELSE m[j + 1]
<1>0. Len(m) \in Nat /\ i \in Nat
  OBVIOUS
<1>1. PICK u, v : u = SubSeq(m, 1, i - 1) /\ v = SubSeq(m, i + 1, Len(m))
  OBVIOUS
<1>2. u \in Seq(D) /\ Len(u) = i - 1 /\ \A j \in 1 .. i - 1 : u[j] = m[j]
  <2>1. PICK a, b : a = 1 /\ b = i - 1
    OBVIOUS
  <2>2. a \in Int /\ b \in Int /\ \A j \in a .. b : m[j] \in D
    BY <1>0, <2>1
  <2>3. /\ SubSeq(m, a, b) \in Seq(D) /\ Len(SubSeq(m, a, b)) = IF a <= b THEN b - a + 1 ELSE 0
        /\ \A j \in 1 .. b - a + 1 : SubSeq(m, a, b)[j] = m[a + j - 1]
    BY <2>2, SubSeqProperties
  <2>4. /\ u \in Seq(D) /\ Len(u) = IF a <= b THEN b - a + 1 ELSE 0
        /\ \A j \in 1 .. b - a + 1 : u[j] = m[a + j - 1]
    BY <1>1, <2>1, <2>3, Zenon
  <2>5. (IF a <= b THEN b - a + 1 ELSE 0) = i - 1 /\ b - a + 1 = i - 1 /\ \A j \in 1 .. i - 1 : a + j - 1 = j
    BY <1>0, <2>1
  <2> QED
    BY <2>4, <2>5
<1>3. v \in Seq(D) /\ Len(v) = Len(m) - i /\ \A j \in 1 .. Len(m) - i : v[j] = m[i + j]
  <2>1. PICK a, b : a = i + 1 /\ b = Len(m)
    OBVIOUS
  <2>2. a \in Int /\ b \in Int /\ \A j \in a .. b : m[j] \in D
    BY <1>0, <2>1
  <2>3. /\ SubSeq(m, a, b) \in Seq(D) /\ Len(SubSeq(m, a, b)) = IF a <= b THEN b - a + 1 ELSE 0
        /\ \A j \in 1 .. b - a + 1 : SubSeq(m, a, b)[j] = m[a + j - 1]
    BY <2>2, SubSeqProperties
  <2>4. /\ v \in Seq(D) /\ Len(v) = IF a <= b THEN b - a + 1 ELSE 0
        /\ \A j \in 1 .. b - a + 1 : v[j] = m[a + j - 1]
    BY <1>1, <2>1, <2>3, Zenon
  <2>5. (IF a <= b THEN b - a + 1 ELSE 0) = Len(m) - i /\ b - a + 1 = Len(m) - i
        /\ \A j \in 1 .. Len(m) - i : a + j - 1 = i + j
    BY <1>0, <2>1
  <2> QED
    BY <2>4, <2>5
<1>4. y = u \o v
  BY <1>1 DEF Deques!Without
<1>5. /\ y \in Seq(D) /\ Len(y) = Len(u) + Len(v)
      /\ \A j \in 1 .. Len(u) + Len(v) : y[j] = IF j <= Len(u) THEN u[j] ELSE v[j - Len(u)]
  <2>1. /\ u \o v \in Seq(D) /\ Len(u \o v) = Len(u) + Len(v)
        /\ \A j \in 1 .. Len(u) + Len(v) : (u \o v)[j] = IF j <= Len(u) THEN u[j] ELSE v[j - Len(u)]
    BY <1>2, <1>3, ConcatProperties
  <2> QED
    BY <1>4, <2>1, Zenon
<1>6. Len(y) = Len(m) - 1
  BY <1>0, <1>2, <1>3, <1>5
<1>7. ASSUME NEW j \in 1 .. Len(y) PROVE y[j] = IF j < i THEN m[j] ELSE m[j + 1]
  <2>1. CASE j < i
    <3>1. j \in 1 .. i - 1 /\ j <= Len(u) /\ j \in 1 .. Len(u) + Len(v)
      BY <1>0, <1>2, <1>5, <2>1
    <3> QED
      BY <1>2, <1>5, <2>1, <3>1
  <2>2. CASE ~ (j < i)
    <3>1. PICK k : k = j - Len(u)
      OBVIOUS
    <3>2. k \in 1 .. Len(m) - i /\ i + k = j + 1 /\ ~ (j <= Len(u)) /\ j \in 1 .. Len(u) + Len(v)
      BY <1>0, <1>2, <1>3, <1>6, <1>5, <2>2, <3>1
    <3> QED
      BY <1>3, <1>5, <2>2, <3>1, <3>2
  <2> QED
    BY <2>1, <2>2
<1> QED
  BY <1>5, <1>6, <1>7

\* The other elements remain.
LEMMA NodesWithout ==
  ASSUME NEW D, NEW m \in Seq(D), Injective(m), NEW i \in 1 .. Len(m), NEW y, y = Deques!Without(m, i)
  PROVE  y \in Seq(D) /\ Injective(y) /\ NodeSet(y) = NodeSet(m) \ {m[i]}
<1>1. Injective(m) /\ i \in 1 .. Len(m)
  OBVIOUS
<1>2. /\ y \in Seq(D) /\ Len(y) = Len(m) - 1
      /\ \A j \in 1 .. Len(y) : y[j] = IF j < i THEN m[j] ELSE m[j + 1]
  BY WithoutIs
<1>3. Len(m) \in Nat /\ i \in Nat /\ Len(m) # 0 /\ i >= 1 /\ i <= Len(m)
  OBVIOUS
\* where the elements of y come from
<1>4. ASSUME NEW j \in 1 .. Len(y)
      PROVE  \E k \in 1 .. Len(m) : y[j] = m[k] /\ k # i /\ k = IF j < i THEN j ELSE j + 1
  <2>1. CASE j < i
    <3>1. j \in 1 .. Len(m) /\ j # i
      BY <1>2, <1>3, <2>1
    <3> QED
      BY <1>2, <2>1, <3>1
  <2>2. CASE ~ (j < i)
    <3>1. j + 1 \in 1 .. Len(m) /\ j + 1 # i
      BY <1>2, <1>3, <2>2
    <3> QED
      BY <1>2, <2>2, <3>1
  <2> QED
    BY <2>1, <2>2
<1>5. Injective(y)
  <2>1. ASSUME NEW j \in 1 .. Len(y), NEW l \in 1 .. Len(y), y[j] = y[l] PROVE j = l
    <3>1. PICK a \in 1 .. Len(m) : y[j] = m[a] /\ a # i /\ a = IF j < i THEN j ELSE j + 1
      BY <1>4
    <3>2. PICK b \in 1 .. Len(m) : y[l] = m[b] /\ b # i /\ b = IF l < i THEN l ELSE l + 1
      BY <1>4
    <3>3. m[a] = m[b]
      BY <2>1, <3>1, <3>2
    <3>4. a = b
      BY <1>1, <3>3 DEF Injective
    <3> QED
      BY <1>3, <3>1, <3>2, <3>4
  <2> QED
    BY <2>1 DEF Injective
<1>6. NodeSet(y) = NodeSet(m) \ {m[i]}
  <2>1. ASSUME NEW j \in 1 .. Len(y) PROVE y[j] \in NodeSet(m) \ {m[i]}
    <3>1. PICK a \in 1 .. Len(m) : y[j] = m[a] /\ a # i
      BY <1>4
    <3> QED
      BY <1>1, <3>1 DEF Injective, NodeSet
  <2>2. ASSUME NEW a \in 1 .. Len(m), m[a] # m[i] PROVE m[a] \in NodeSet(y)
    <3>1. a # i
      BY <2>2
    <3>2. CASE a < i
      <4>1. a \in 1 .. Len(y) /\ y[a] = m[a]
        BY <1>2, <1>3, <3>2
      <4> QED
        BY <4>1 DEF NodeSet
    <3>3. CASE ~ (a < i)
      <4>1. PICK b : b = a - 1
        OBVIOUS
      <4>2. b \in 1 .. Len(y) /\ ~ (b < i) /\ b + 1 = a
        BY <1>2, <1>3, <3>1, <3>3, <4>1
      <4>3. y[b] = m[a]
        BY <1>2, <4>2
      <4> QED
        BY <4>2, <4>3 DEF NodeSet
    <3> QED
      BY <3>2, <3>3
  <2> QED
    BY <2>1, <2>2 DEF NodeSet
<1> QED
  BY <1>2, <1>5, <1>6

\* The node at i is taken out and its neighbours are linked to one another.
Unlinks(D, nil, m, first, last, nx, pv, i, nx2, pv2, y) ==
    /\ y = Deques!Without(m, i)
    /\ Doubly(D, nil, m, first, last, nx, pv)
    /\ i \in 1 .. Len(m)
    /\ \A j \in 1 .. Len(m) : j # i =>
          /\ nx2[m[j]] = IF j = i - 1 THEN nx[m[i]] ELSE nx[m[j]]
          /\ pv2[m[j]] = IF j = i + 1 THEN pv[m[i]] ELSE pv[m[j]]

LEMMA DoublyRemove ==
  ASSUME NEW D, NEW nil, NEW m, NEW first, NEW last, NEW nx, NEW pv, NEW i, NEW nx2, NEW pv2,
         NEW y, Unlinks(D, nil, m, first, last, nx, pv, i, nx2, pv2, y)
  PROVE  /\ Doubly(D, nil, y, IF i = 1 THEN nx[m[i]] ELSE first,
                              IF i = Len(m) THEN pv[m[i]] ELSE last, nx2, pv2)
         /\ NodeSet(y) = NodeSet(m) \ {m[i]}
<1>1. /\ m \in Seq(D) /\ Injective(m) /\ i \in 1 .. Len(m)
      /\ first = IF Len(m) = 0 THEN nil ELSE m[1]
      /\ \A j \in 1 .. Len(m) : m[j] # nil /\ nx[m[j]] = IF j = Len(m) THEN nil ELSE m[j + 1]
      /\ last = IF Len(m) = 0 THEN nil ELSE m[Len(m)]
      /\ \A j \in 1 .. Len(m) : pv[m[j]] = IF j = 1 THEN nil ELSE m[j - 1]
      /\ \A j \in 1 .. Len(m) : j # i =>
            /\ nx2[m[j]] = IF j = i - 1 THEN nx[m[i]] ELSE nx[m[j]]
            /\ pv2[m[j]] = IF j = i + 1 THEN pv[m[i]] ELSE pv[m[j]]
      /\ y = Deques!Without(m, i)
  BY DEF Unlinks, Doubly, Linked
<1>2. /\ y \in Seq(D) /\ Len(y) = Len(m) - 1
      /\ \A j \in 1 .. Len(y) : y[j] = IF j < i THEN m[j] ELSE m[j + 1]
  BY <1>1, WithoutIs
<1>3. Len(m) \in Nat /\ i \in Nat /\ Len(m) # 0 /\ i >= 1 /\ i <= Len(m)
  BY <1>1
\* where the elements of y come from
<1>4. ASSUME NEW j \in 1 .. Len(y)
      PROVE  \E k \in 1 .. Len(m) : y[j] = m[k] /\ k # i /\ k = IF j < i THEN j ELSE j + 1
  <2>1. CASE j < i
    <3>1. j \in 1 .. Len(m) /\ j # i
      BY <1>2, <1>3, <2>1
    <3> QED
      BY <1>2, <2>1, <3>1
  <2>2. CASE ~ (j < i)
    <3>1. j + 1 \in 1 .. Len(m) /\ j + 1 # i
      BY <1>2, <1>3, <2>2
    <3> QED
      BY <1>2, <2>2, <3>1
  <2> QED
    BY <2>1, <2>2
<1>5. Injective(y) /\ NodeSet(y) = NodeSet(m) \ {m[i]}
  BY <1>1, NodesWithout
<1>7. ASSUME NEW j \in 1 .. Len(y)
      PROVE  y[j] # nil /\ nx2[y[j]] = IF j = Len(y) THEN nil ELSE y[j + 1]
  <2>0. PICK k \in 1 .. Len(m) : y[j] = m[k] /\ k # i /\ k = IF j < i THEN j ELSE j + 1
    BY <1>4
  <2>1. y[j] # nil /\ nx2[y[j]] = IF k = i - 1 THEN nx[m[i]] ELSE nx[m[k]]
    BY <1>1, <2>0
  <2>2. CASE k = i - 1
    <3>1. j = i - 1 /\ (j = Len(y) <=> i = Len(m)) /\ ~ (j + 1 < i) /\ j + 1 = i
      BY <1>2, <1>3, <2>0, <2>2
    <3>2. j # Len(y) => j + 1 \in 1 .. Len(y)
      BY <1>2, <1>3
    <3>3. j # Len(y) => y[j + 1] = m[i + 1]
      BY <1>2, <3>1, <3>2
    <3>4. nx[m[i]] = IF i = Len(m) THEN nil ELSE m[i + 1]
      BY <1>1
    <3> QED
      BY <2>1, <2>2, <3>1, <3>3, <3>4
  <2>3. CASE k # i - 1
    <3>1. (j = Len(y) <=> k = Len(m)) /\ (j < i => j + 1 < i)
      BY <1>2, <1>3, <2>0, <2>3
    <3>2. j # Len(y) => j + 1 \in 1 .. Len(y)
      BY <1>2, <1>3
    <3>3. j # Len(y) => y[j + 1] = m[k + 1]
      <4>1. CASE j < i
        BY <1>2, <2>0, <3>1, <3>2, <4>1
      <4>2. CASE ~ (j < i)
        <5>1. ~ (j + 1 < i) /\ k + 1 = (j + 1) + 1
          BY <1>3, <2>0, <4>2
        <5> QED
          BY <1>2, <3>2, <5>1
      <4> QED
        BY <4>1, <4>2
    <3>4. nx[m[k]] = IF k = Len(m) THEN nil ELSE m[k + 1]
      BY <1>1
    <3> QED
      BY <2>1, <2>3, <3>1, <3>3, <3>4
  <2> QED
    BY <2>2, <2>3
<1>8. ASSUME NEW j \in 1 .. Len(y) PROVE pv2[y[j]] = IF j = 1 THEN nil ELSE y[j - 1]
  <2>0. PICK k \in 1 .. Len(m) : y[j] = m[k] /\ k # i /\ k = IF j < i THEN j ELSE j + 1
    BY <1>4
  <2>1. pv2[y[j]] = IF k = i + 1 THEN pv[m[i]] ELSE pv[m[k]]
    BY <1>1, <2>0
  <2>2. CASE k = i + 1
    <3>1. j = i /\ (j = 1 <=> i = 1)
      BY <1>3, <2>0, <2>2
    <3>2. PICK l : l = j - 1
      OBVIOUS
    <3>3. j # 1 => l \in 1 .. Len(y) /\ l < i /\ l = i - 1
      BY <1>2, <1>3, <3>1, <3>2
    <3>4. j # 1 => y[l] = m[l]
      BY <1>2, <3>3
    <3>5. pv[m[i]] = IF i = 1 THEN nil ELSE m[i - 1]
      BY <1>1
    <3> QED
      BY <2>1, <2>2, <3>1, <3>2, <3>3, <3>4, <3>5
  <2>3. CASE k # i + 1
    <3>1. PICK l : l = j - 1
      OBVIOUS
    <3>2. pv[m[k]] = IF k = 1 THEN nil ELSE m[k - 1]
      BY <1>1
    <3>3. CASE j < i
      <4>1. k = j /\ (j # 1 => l \in 1 .. Len(y) /\ l < i)
        BY <1>2, <1>3, <2>0, <3>1, <3>3
      <4>2. j # 1 => y[l] = m[l]
        BY <1>2, <4>1
      <4> QED
        BY <2>1, <2>3, <3>1, <3>2, <4>1, <4>2
    <3>4. CASE ~ (j < i)
      <4>1. k = j + 1 /\ k # 1 /\ j # 1 /\ l \in 1 .. Len(y) /\ ~ (l < i) /\ l + 1 = k - 1
        BY <1>2, <1>3, <2>0, <2>3, <3>1, <3>4
      <4>2. y[l] = m[k - 1]
        BY <1>2, <4>1
      <4> QED
        BY <2>1, <2>3, <3>1, <3>2, <4>1, <4>2
    <3> QED
      BY <3>3, <3>4
  <2> QED
    BY <2>2, <2>3
<1>9. (IF i = 1 THEN nx[m[i]] ELSE first) = IF Len(y) = 0 THEN nil ELSE y[1]
  <2>1. CASE i = 1
    <3>1. nx[m[1]] = IF 1 = Len(m) THEN nil ELSE m[1 + 1]
      BY <1>1, <2>1
    <3>2. (1 = Len(m) <=> Len(y) = 0) /\ (Len(y) # 0 => 1 \in 1 .. Len(y))
      BY <1>2, <1>3
    <3> QED
      BY <1>2, <2>1, <3>1, <3>2
  <2>2. CASE i # 1
    <3>1. Len(y) # 0 /\ 1 \in 1 .. Len(y) /\ 1 < i
      BY <1>2, <1>3, <2>2
    <3> QED
      BY <1>1, <1>2, <1>3, <2>2, <3>1
  <2> QED
    BY <2>1, <2>2
<1>10. (IF i = Len(m) THEN pv[m[i]] ELSE last) = IF Len(y) = 0 THEN nil ELSE y[Len(y)]
  <2>1. PICK l : l = Len(y)
    OBVIOUS
  <2>2. CASE i = Len(m)
    <3>1. pv[m[i]] = IF i = 1 THEN nil ELSE m[i - 1]
      BY <1>1
    <3>2. (i = 1 <=> l = 0) /\ l = i - 1 /\ (l # 0 => l \in 1 .. Len(y) /\ l < i)
      BY <1>2, <1>3, <2>1, <2>2
    <3> QED
      BY <1>2, <2>1, <2>2, <3>1, <3>2
  <2>3. CASE i # Len(m)
    <3>1. l # 0 /\ l \in 1 .. Len(y) /\ ~ (l < i) /\ l + 1 = Len(m)
      BY <1>2, <1>3, <2>1, <2>3
    <3> QED
      BY <1>1, <1>2, <1>3, <2>1, <2>3, <3>1
  <2> QED
    BY <2>2, <2>3
<1> QED
  BY <1>2, <1>5, <1>7, <1>8, <1>9, <1>10 DEF Doubly, Linked

Covered(Ls, c, n) == \E l \in Ls : n \in NodeSet(c[l])

\* Addresses of nodes
NodesAre(Ns) == Ns \subseteq Nat /\ -1 \notin Ns /\ IsFiniteSet(Ns) /\ Cardinality(Ns) \in Nat

ListTypes(Ls, Ns) ==
    /\ next \in [Ns -> Ns \cup {-1}] /\ prev \in [Ns -> Ns \cup {-1}]
    /\ head \in [Ls -> Ns \cup {-1}] /\ tail \in [Ls -> Ns \cup {-1}]
    /\ held \subseteq alive /\ alive \subseteq Ns

\* The lists Ls consist of the nodes c[l], which are some of Ns.
ListHolds(Ls, Ns, c) ==
    /\ ListTypes(Ls, Ns)
    /\ c \in [Ls -> Seq(Ns)]
    /\ \A l \in Ls : Doubly(Ns, -1, c[l], head[l], tail[l], next, prev)
    /\ \A l, k \in Ls : l # k => NodeSet(c[l]) \cap NodeSet(c[k]) = {}
    /\ \A n \in Ns : n \in alive \ held <=> Covered(Ls, c, n)
    /\ \A n \in Ns : n \notin alive \ held => next[n] = -1 /\ prev[n] = -1

\* What the operations of list.h do, for any nodes
Attaches(l, n) == IF tail[l] = -1
                  THEN head' = [head EXCEPT ![l] = n] /\ next' = next /\ prev' = prev
                  ELSE /\ next' = [next EXCEPT ![tail[l]] = n]
                       /\ prev' = [prev EXCEPT ![n] = tail[l]]
                       /\ head' = head
PopsFront(Ns, l) ==
    /\ head[l] # -1 /\ head' = [head EXCEPT ![l] = next[head[l]]]
    /\ tail' = (IF next[head[l]] = -1 THEN [tail EXCEPT ![l] = -1] ELSE tail)
    /\ next' = [next EXCEPT ![head[l]] = -1]
    /\ prev' = [x \in Ns |-> IF x \in {head[l], next[head[l]]} THEN -1 ELSE prev[x]]
    /\ held' = held \cup {head[l]} /\ alive' = alive
PopsBack(Ns, l) ==
    /\ tail[l] # -1 /\ tail' = [tail EXCEPT ![l] = prev[tail[l]]]
    /\ head' = (IF prev[tail[l]] = -1 THEN [head EXCEPT ![l] = -1] ELSE head)
    /\ prev' = [prev EXCEPT ![tail[l]] = -1]
    /\ next' = [x \in Ns |-> IF x \in {tail[l], prev[tail[l]]} THEN -1 ELSE next[x]]
    /\ held' = held \cup {tail[l]} /\ alive' = alive
CutsOut(l, n) ==
    /\ next' = [next EXCEPT ![prev[n]] = next[n], ![n] = -1]
    /\ prev' = [prev EXCEPT ![next[n]] = prev[n], ![n] = -1]
    /\ held' = held \cup {n} /\ head' = head /\ tail' = tail /\ alive' = alive

\* The function of Chain finds the nodes of the list.
Follow(Ns) == CHOOSE f : f = Walk(Cardinality(Ns), Ns \cup {-1}, -1, next, f)

LEMMA ChainIs ==
  ASSUME NEW Ls, NEW Ns, NodesAre(Ns), NEW c, ListHolds(Ls, Ns, c), NEW l \in Ls
  PROVE  Follow(Ns)[Cardinality(Ns)][head[l]] = c[l]
<1> PICK h : h = Follow(Ns)
  OBVIOUS
<1> PICK m : m = c[l]
  OBVIOUS
<1>1. /\ m \in Seq(Ns) /\ Injective(m) /\ Linked(m, head[l], -1, next)
      /\ next \in [Ns -> Ns \cup {-1}]
  BY DEF ListHolds, ListTypes, Doubly
<1>2. Len(m) <= Cardinality(Ns)
  <2>1. IsFiniteSet(NodeSet(m)) /\ Cardinality(NodeSet(m)) = Len(m)
    BY <1>1, RangeCounts
  <2>2. NodeSet(m) \subseteq Ns
    BY <1>1 DEF NodeSet
  <2> QED
    BY <2>1, <2>2, FS_Subset DEF NodesAre
<1>3. PICK K, D, nil, nx, first : /\ K = Cardinality(Ns) /\ D = Ns \cup {-1}
                                  /\ nil = -1 /\ nx = next /\ first = head[l]
  OBVIOUS
<1>4. K \in Nat /\ nil \in D /\ m \in Seq(D) /\ Len(m) <= K
  BY <1>1, <1>2, <1>3 DEF NodesAre
<1>5. \A n \in D : n # nil => nx[n] \in D
  BY <1>1, <1>3
<1>6. h = Walk(K, D, nil, nx, h)
  <2>1. \E f : f = Walk(K, D, nil, nx, f)
    BY <1>4, <1>5, WalkExists
  <2> QED
    BY <1>3, <2>1, Zenon DEF Follow
<1>7. Walks(K, D, nil, nx, m, first, h)
  BY <1>1, <1>3, <1>4, <1>5, <1>6, Zenon DEF Walks
<1>8. h[K][first] = m
  BY <1>7, WalkFinds
<1> QED
  BY <1>3, <1>8, Zenon

\* The nodes of one list change, and with them no links but theirs.
LEMMA ListStep ==
  ASSUME NEW Ls, NEW Ns, NodesAre(Ns), NEW c, ListHolds(Ls, Ns, c), NEW l \in Ls, NEW y, ListTypes(Ls, Ns)',
         \A k \in Ls : k # l => head'[k] = head[k] /\ tail'[k] = tail[k],
         Doubly(Ns, -1, y, head'[l], tail'[l], next', prev'),
         \A n \in Ns : n \notin NodeSet(c[l]) \cup NodeSet(y) => next'[n] = next[n] /\ prev'[n] = prev[n],
         \A n \in NodeSet(c[l]) \ NodeSet(y) : next'[n] = -1 /\ prev'[n] = -1,
         \A n \in NodeSet(y) : n \in NodeSet(c[l]) \/ n \notin alive \ held,
         \A n \in Ns : n \in alive' \ held' <=>
                                \/ n \in NodeSet(y)
                                \/ n \in alive \ held /\ n \notin NodeSet(c[l])
  PROVE  ListHolds(Ls, Ns, [c EXCEPT ![l] = y])'
<1>1. PICK d : d = [c EXCEPT ![l] = y]
  OBVIOUS
<1>2. /\ c \in [Ls -> Seq(Ns)]
      /\ \A k \in Ls : Doubly(Ns, -1, c[k], head[k], tail[k], next, prev)
      /\ \A k, j \in Ls : k # j => NodeSet(c[k]) \cap NodeSet(c[j]) = {}
      /\ \A n \in Ns : n \in alive \ held <=> Covered(Ls, c, n)
      /\ \A n \in Ns : n \notin alive \ held => next[n] = -1 /\ prev[n] = -1
  BY DEF ListHolds
<1>3. y \in Seq(Ns)
  BY DEF Doubly
<1>4. d \in [Ls -> Seq(Ns)] /\ d[l] = y /\ \A k \in Ls : k # l => d[k] = c[k]
  BY <1>1, <1>2, <1>3
<1>5. \A k \in Ls : NodeSet(c[k]) \subseteq Ns /\ \A n \in NodeSet(c[k]) : n \in alive \ held
  <2>1. ASSUME NEW k \in Ls, NEW n \in NodeSet(c[k]) PROVE n \in Ns /\ Covered(Ls, c, n)
    BY <1>2 DEF NodeSet, Covered
  <2> QED
    BY <1>2, <2>1
<1>6. NodeSet(y) \subseteq Ns
  BY <1>3 DEF NodeSet
<1>7. \A k \in Ls : k # l => NodeSet(y) \cap NodeSet(c[k]) = {}
  <2> SUFFICES ASSUME NEW k \in Ls, k # l, NEW n \in NodeSet(y), n \in NodeSet(c[k]) PROVE FALSE
    OBVIOUS
  <2>1. n \in NodeSet(c[l])
    BY <1>5
  <2> QED
    BY <1>2, <2>1
<1>8. \A k \in Ls : Doubly(Ns, -1, d[k], head'[k], tail'[k], next', prev')
  <2> SUFFICES ASSUME NEW k \in Ls, k # l
               PROVE  Doubly(Ns, -1, c[k], head'[k], tail'[k], next', prev')
    BY <1>4
  <2>1. \A n \in NodeSet(c[k]) : next'[n] = next[n] /\ prev'[n] = prev[n]
    BY <1>2, <1>5, <1>7
  <2>2. Doubly(Ns, -1, c[k], head[k], tail[k], next, prev)
    BY <1>2
  <2>3. PICK nx, pv, nx2, pv2, nil, D : /\ nx = next /\ pv = prev /\ nx2 = next' /\ pv2 = prev'
                                        /\ nil = -1 /\ D = Ns
    OBVIOUS
  <2>4. Doubly(D, nil, c[k], head[k], tail[k], nx2, pv2)
    <3>1. Doubly(D, nil, c[k], head[k], tail[k], nx, pv)
      BY <2>2, <2>3, Zenon
    <3>2. \A n \in NodeSet(c[k]) : nx2[n] = nx[n] /\ pv2[n] = pv[n]
      BY <2>1, <2>3, Zenon
    <3> QED
      BY <3>1, <3>2, DoublySame
  <2>5. head'[k] = head[k] /\ tail'[k] = tail[k]
    OBVIOUS
  <2> QED
    BY <2>3, <2>4, <2>5, Zenon
<1>9. \A k, j \in Ls : k # j => NodeSet(d[k]) \cap NodeSet(d[j]) = {}
  BY <1>2, <1>4, <1>7
<1>10. \A n \in Ns : n \in alive' \ held' <=> Covered(Ls, d, n)
  <2> SUFFICES ASSUME NEW n \in Ns PROVE n \in alive' \ held' <=> Covered(Ls, d, n)
    OBVIOUS
  <2>1. Covered(Ls, d, n) <=> n \in NodeSet(y) \/ \E k \in Ls : k # l /\ n \in NodeSet(c[k])
    BY <1>4 DEF Covered
  <2>2. (\E k \in Ls : k # l /\ n \in NodeSet(c[k])) <=> n \in alive \ held /\ n \notin NodeSet(c[l])
    BY <1>2 DEF Covered
  <2> QED
    BY <2>1, <2>2
<1>11. \A n \in Ns : n \notin alive' \ held' => next'[n] = -1 /\ prev'[n] = -1
  BY <1>2
<1>12. ListHolds(Ls, Ns, d)'
  BY <1>4, <1>8, <1>9, <1>10, <1>11 DEF ListHolds, Covered
<1> QED
  BY <1>1, <1>12

\* push_back puts n, which is in no list and whose links are nullptr, behind the others.
LEMMA ListPush ==
  ASSUME NEW Ls, NEW Ns, NodesAre(Ns), NEW c, ListHolds(Ls, Ns, c), NEW l \in Ls, NEW n \in Ns, n \notin alive \ held,
         Attaches(l, n), tail' = [tail EXCEPT ![l] = n],
         alive' = alive \cup {n}, held' = held \ {n}
  PROVE  ListHolds(Ls, Ns, [c EXCEPT ![l] = Append(c[l], n)])'
<1>1. /\ ListTypes(Ls, Ns) /\ c \in [Ls -> Seq(Ns)]
      /\ Doubly(Ns, -1, c[l], head[l], tail[l], next, prev)
      /\ \A x \in Ns : x \in alive \ held <=> Covered(Ls, c, x)
      /\ next[n] = -1 /\ prev[n] = -1
  BY DEF ListHolds
<1>2. PICK m : m = c[l]
  OBVIOUS
<1>3. PICK y : y = Append(m, n)
  OBVIOUS
<1>4. /\ m \in Seq(Ns) /\ NodeSet(m) \subseteq Ns /\ n \notin NodeSet(m)
      /\ NodeSet(m) \subseteq alive \ held
      /\ (tail[l] # -1 => tail[l] \in NodeSet(m)) /\ (Len(m) = 0 <=> tail[l] = -1)
      /\ (tail[l] = -1 => NodeSet(m) = {})
  <2>1. m \in Seq(Ns) /\ Len(m) \in Nat
    BY <1>1, <1>2
  <2>2. NodeSet(m) \subseteq Ns
    BY <2>1 DEF NodeSet
  <2>3. NodeSet(m) \subseteq alive \ held
    BY <1>1, <1>2, <2>2 DEF Covered
  <2>4. Len(m) # 0 => Len(m) \in 1 .. Len(m) /\ tail[l] = m[Len(m)] /\ m[Len(m)] \in NodeSet(m)
    BY <1>1, <1>2, <2>1 DEF Doubly, NodeSet
  <2>5. Len(m) = 0 => tail[l] = -1 /\ NodeSet(m) = {}
    BY <1>1, <1>2, <2>1 DEF Doubly, NodeSet
  <2> QED
    BY <2>1, <2>2, <2>3, <2>4, <2>5 DEF NodesAre
<1>5. ListTypes(Ls, Ns)'
  <2>1. /\ next' \in [Ns -> Ns \cup {-1}] /\ prev' \in [Ns -> Ns \cup {-1}]
        /\ head' \in [Ls -> Ns \cup {-1}] /\ tail' \in [Ls -> Ns \cup {-1}]
    BY <1>1 DEF Attaches, ListTypes, NodesAre
  <2> QED
    BY <1>1, <2>1 DEF ListTypes
<1>6. alive' = alive \cup {n} /\ held' = held \ {n}
  OBVIOUS
<1>7. /\ next'[n] = -1 /\ prev'[n] = tail[l]
      /\ \A x \in Ns \ {n} : /\ prev'[x] = prev[x]
                                    /\ next'[x] = IF x = tail[l] THEN n ELSE next[x]
      /\ head'[l] = (IF Len(m) = 0 THEN n ELSE head[l]) /\ tail'[l] = n
      /\ \A k \in Ls : k # l => head'[k] = head[k] /\ tail'[k] = tail[k]
  <2>1. CASE tail[l] = -1
    <3>1. head' = [head EXCEPT ![l] = n] /\ next' = next /\ prev' = prev
      BY <2>1 DEF Attaches, NodesAre
    <3> QED
      BY <1>1, <1>4, <2>1, <3>1 DEF ListTypes, NodesAre
  <2>2. CASE tail[l] # -1
    <3>1. next' = [next EXCEPT ![tail[l]] = n] /\ prev' = [prev EXCEPT ![n] = tail[l]] /\ head' = head
      BY <2>2 DEF Attaches, NodesAre
    <3>2. tail[l] \in Ns /\ tail[l] # n
      BY <1>4, <2>2
    <3> QED
      BY <1>1, <1>4, <2>2, <3>1, <3>2 DEF ListTypes
  <2> QED
    BY <2>1, <2>2
<1>8. Doubly(Ns, -1, y, head'[l], tail'[l], next', prev') /\ NodeSet(y) = NodeSet(m) \cup {n}
  <2>1. PICK D, nil, first, last, nx, pv, nx2, pv2 :
            /\ D = Ns /\ nil = -1 /\ first = head[l] /\ last = tail[l]
            /\ nx = next /\ pv = prev /\ nx2 = next' /\ pv2 = prev'
    OBVIOUS
  <2>2. \A x \in NodeSet(m) : prev'[x] = prev[x] /\ next'[x] = IF x = tail[l] THEN n ELSE next[x]
    BY <1>4, <1>7
  <2>3. n # -1
    BY DEF NodesAre
  <2>4. LinksBehind(D, nil, m, first, last, nx, pv, n, nx2, pv2, y)
    BY <1>1, <1>2, <1>3, <1>4, <1>7, <2>1, <2>2, <2>3, Zenon DEF LinksBehind
  <2>5. /\ Doubly(D, nil, y, IF Len(m) = 0 THEN n ELSE first, n, nx2, pv2)
        /\ NodeSet(y) = NodeSet(m) \cup {n}
    BY <2>4, DoublyAppend
  <2> QED
    BY <1>7, <2>1, <2>5, Zenon
<1>9. \A x \in Ns : x \notin NodeSet(m) \cup NodeSet(y) => next'[x] = next[x] /\ prev'[x] = prev[x]
  BY <1>4, <1>7, <1>8 DEF NodesAre
<1>10. ListHolds(Ls, Ns, [c EXCEPT ![l] = y])'
  <2>1. NodeSet(m) \ NodeSet(y) = {} /\ \A x \in NodeSet(y) : x \in NodeSet(m) \/ x \notin alive \ held
    BY <1>8
  <2>2. \A x \in Ns : x \in alive' \ held' <=>
                                \/ x \in NodeSet(y)
                                \/ x \in alive \ held /\ x \notin NodeSet(m)
    BY <1>4, <1>6, <1>8
  <2> QED
    BY <1>2, <1>5, <1>7, <1>8, <1>9, <2>1, <2>2, ListStep
<1> QED
  BY <1>2, <1>3, <1>10

\* The node at i leaves the list l, of which the nodes are m.
Takes(Ns, l, m, i) ==
    /\ i \in 1 .. Len(m)
    /\ head' = [head EXCEPT ![l] = IF i = 1 THEN next[m[i]] ELSE head[l]]
    /\ tail' = [tail EXCEPT ![l] = IF i = Len(m) THEN prev[m[i]] ELSE tail[l]]
    /\ next' \in [Ns -> Ns \cup {-1}] /\ prev' \in [Ns -> Ns \cup {-1}]
    /\ next'[m[i]] = -1 /\ prev'[m[i]] = -1
    /\ \A x \in Ns : x # m[i] =>
          /\ next'[x] = IF x = prev[m[i]] THEN next[m[i]] ELSE next[x]
          /\ prev'[x] = IF x = next[m[i]] THEN prev[m[i]] ELSE prev[x]
    /\ held' = held \cup {m[i]} /\ alive' = alive

\* m are the nodes of the list l, with one at i.
LiesIn(Ls, Ns, c, l, m, i) ==
    NodesAre(Ns) /\ ListHolds(Ls, Ns, c) /\ l \in Ls /\ m = c[l] /\ i \in 1 .. Len(m)

\* What a node of a list is linked to
LEMMA ListNeighbours ==
  ASSUME NEW Ls, NEW Ns, NEW c, NEW l, NEW m, NEW i, LiesIn(Ls, Ns, c, l, m, i)
  PROVE  /\ m[i] \in Ns /\ m[i] \in NodeSet(m) /\ m[i] \in alive \ held
         /\ next[m[i]] = IF i = Len(m) THEN -1 ELSE m[i + 1]
         /\ prev[m[i]] = IF i = 1 THEN -1 ELSE m[i - 1]
         /\ head[l] = m[1] /\ tail[l] = m[Len(m)] /\ 1 \in 1 .. Len(m) /\ Len(m) \in 1 .. Len(m)
         /\ (i # Len(m) => i + 1 \in 1 .. Len(m)) /\ (i # 1 => i - 1 \in 1 .. Len(m))
<1> ListHolds(Ls, Ns, c) /\ l \in Ls /\ m = c[l] /\ i \in 1 .. Len(m)
  BY DEF LiesIn
<1>1. /\ m \in Seq(Ns) /\ Doubly(Ns, -1, m, head[l], tail[l], next, prev)
      /\ \A x \in Ns : x \in alive \ held <=> Covered(Ls, c, x)
  BY DEF ListHolds
<1>2. Len(m) \in Nat /\ Len(m) # 0 /\ 1 \in 1 .. Len(m) /\ Len(m) \in 1 .. Len(m)
  BY <1>1
<1>3. m[i] \in Ns /\ m[i] \in NodeSet(m) /\ m[i] \in alive \ held
  <2>1. m[i] \in Ns /\ m[i] \in NodeSet(m)
    BY <1>1 DEF NodeSet
  <2> QED
    BY <1>1, <2>1 DEF Covered
<1>4. /\ next[m[i]] = IF i = Len(m) THEN -1 ELSE m[i + 1]
      /\ prev[m[i]] = IF i = 1 THEN -1 ELSE m[i - 1]
      /\ head[l] = m[1] /\ tail[l] = m[Len(m)]
  BY <1>1, <1>2 DEF Doubly, Linked
<1>5. (i # Len(m) => i + 1 \in 1 .. Len(m)) /\ (i # 1 => i - 1 \in 1 .. Len(m))
  BY <1>2
<1> QED
  BY <1>2, <1>3, <1>4, <1>5

LEMMA ListTake ==
  ASSUME NEW Ls, NEW Ns, NodesAre(Ns), NEW c, ListHolds(Ls, Ns, c),
         NEW l \in Ls, NEW m, m = c[l], NEW i, Takes(Ns, l, m, i)
  PROVE  ListHolds(Ls, Ns, [c EXCEPT ![l] = Deques!Without(c[l], i)])'
<1>0. /\ ListTypes(Ls, Ns) /\ c \in [Ls -> Seq(Ns)]
      /\ Doubly(Ns, -1, m, head[l], tail[l], next, prev)
      /\ \A x \in Ns : x \in alive \ held <=> Covered(Ls, c, x)
  BY DEF ListHolds
<1>1. /\ i \in 1 .. Len(m) /\ m \in Seq(Ns) /\ Len(m) \in Nat /\ Injective(m)
      /\ held' = held \cup {m[i]} /\ alive' = alive
      /\ next' \in [Ns -> Ns \cup {-1}] /\ prev' \in [Ns -> Ns \cup {-1}]
      /\ next'[m[i]] = -1 /\ prev'[m[i]] = -1
  BY <1>0 DEF Takes, Doubly
<1>2. \A x \in Ns : x # m[i] =>
          /\ next'[x] = IF x = prev[m[i]] THEN next[m[i]] ELSE next[x]
          /\ prev'[x] = IF x = next[m[i]] THEN prev[m[i]] ELSE prev[x]
  BY DEF Takes
<1>3. /\ m[i] \in Ns /\ m[i] \in NodeSet(m) /\ m[i] \in alive \ held
      /\ next[m[i]] = IF i = Len(m) THEN -1 ELSE m[i + 1]
      /\ prev[m[i]] = IF i = 1 THEN -1 ELSE m[i - 1]
      /\ (i # Len(m) => i + 1 \in 1 .. Len(m)) /\ (i # 1 => i - 1 \in 1 .. Len(m))
  <2>1. LiesIn(Ls, Ns, c, l, m, i)
    BY <1>1 DEF LiesIn
  <2> QED
    BY <2>1, ListNeighbours
<1>4. /\ head'[l] = (IF i = 1 THEN next[m[i]] ELSE head[l])
      /\ tail'[l] = (IF i = Len(m) THEN prev[m[i]] ELSE tail[l])
      /\ \A k \in Ls : k # l => head'[k] = head[k] /\ tail'[k] = tail[k]
      /\ head' \in [Ls -> Ns \cup {-1}] /\ tail' \in [Ls -> Ns \cup {-1}]
  BY <1>0, <1>3 DEF Takes, ListTypes
<1>5. ListTypes(Ls, Ns)'
  BY <1>0, <1>1, <1>3, <1>4 DEF ListTypes
<1>6. PICK y : y = Deques!Without(m, i)
  OBVIOUS
<1>7. \A j \in 1 .. Len(m) : j # i =>
          /\ next'[m[j]] = IF j = i - 1 THEN next[m[i]] ELSE next[m[j]]
          /\ prev'[m[j]] = IF j = i + 1 THEN prev[m[i]] ELSE prev[m[j]]
  <2> SUFFICES ASSUME NEW j \in 1 .. Len(m), j # i
               PROVE  /\ next'[m[j]] = IF j = i - 1 THEN next[m[i]] ELSE next[m[j]]
                      /\ prev'[m[j]] = IF j = i + 1 THEN prev[m[i]] ELSE prev[m[j]]
    OBVIOUS
  <2>1. m[j] \in Ns /\ m[j] # m[i] /\ m[j] # -1
    BY <1>1 DEF Injective, NodesAre
  <2>2. m[j] = prev[m[i]] <=> j = i - 1
    <3>1. CASE i = 1
      BY <1>3, <2>1, <3>1
    <3>2. CASE i # 1
      BY <1>1, <1>3, <3>2 DEF Injective
    <3> QED
      BY <3>1, <3>2
  <2>3. m[j] = next[m[i]] <=> j = i + 1
    <3>1. CASE i = Len(m)
      BY <1>1, <1>3, <2>1, <3>1
    <3>2. CASE i # Len(m)
      BY <1>1, <1>3, <3>2 DEF Injective
    <3> QED
      BY <3>1, <3>2
  <2> QED
    BY <1>2, <2>1, <2>2, <2>3
<1>8. Doubly(Ns, -1, y, head'[l], tail'[l], next', prev') /\ NodeSet(y) = NodeSet(m) \ {m[i]}
  <2>1. PICK D, nil, first, last, nx, pv, nx2, pv2 :
            /\ D = Ns /\ nil = -1 /\ first = head[l] /\ last = tail[l]
            /\ nx = next /\ pv = prev /\ nx2 = next' /\ pv2 = prev'
    OBVIOUS
  <2>2. Unlinks(D, nil, m, first, last, nx, pv, i, nx2, pv2, y)
    BY <1>0, <1>1, <1>6, <1>7, <2>1, Zenon DEF Unlinks
  <2>3. /\ Doubly(D, nil, y, IF i = 1 THEN nx[m[i]] ELSE first,
                             IF i = Len(m) THEN pv[m[i]] ELSE last, nx2, pv2)
        /\ NodeSet(y) = NodeSet(m) \ {m[i]}
    BY <2>2, DoublyRemove
  <2> QED
    BY <1>4, <2>1, <2>3, Zenon
<1>9. \A x \in Ns : x \notin NodeSet(m) \cup NodeSet(y) => next'[x] = next[x] /\ prev'[x] = prev[x]
  <2> SUFFICES ASSUME NEW x \in Ns, x \notin NodeSet(m) PROVE next'[x] = next[x] /\ prev'[x] = prev[x]
    OBVIOUS
  <2>1. x # -1 /\ \A j \in 1 .. Len(m) : x # m[j]
    BY DEF NodeSet, NodesAre
  <2>2. x # m[i] /\ x # prev[m[i]] /\ x # next[m[i]]
    BY <1>1, <1>3, <2>1
  <2> QED
    BY <1>2, <2>2
<1>10. \A x \in NodeSet(m) \ NodeSet(y) : next'[x] = -1 /\ prev'[x] = -1
  BY <1>1, <1>8
<1>11. \A x \in NodeSet(y) : x \in NodeSet(m)
  BY <1>8
<1>12. \A x \in Ns : x \in alive' \ held' <=>
                                \/ x \in NodeSet(y)
                                \/ x \in alive \ held /\ x \notin NodeSet(m)
  <2>1. \A x \in NodeSet(m) : x \in alive \ held
    <3>1. \A x \in NodeSet(m) : x \in Ns
      BY <1>1 DEF NodeSet
    <3> QED
      BY <1>0, <3>1 DEF Covered
  <2> QED
    BY <1>1, <1>3, <1>8, <2>1
<1>13. ListHolds(Ls, Ns, [c EXCEPT ![l] = y])'
  BY <1>4, <1>5, <1>8, <1>9, <1>10, <1>11, <1>12, ListStep
<1> QED
  BY <1>6, <1>13

\* pop_front, pop_back and erase take out one node.
LEMMA PopFrontTakes ==
  ASSUME NEW Ls, NEW Ns, NodesAre(Ns), NEW c, ListHolds(Ls, Ns, c), NEW l \in Ls, NEW m, m = c[l], PopsFront(Ns, l)
  PROVE  Takes(Ns, l, m, 1) /\ m[1] = head[l]
<1>0. ListTypes(Ls, Ns) /\ Doubly(Ns, -1, m, head[l], tail[l], next, prev)
  BY DEF ListHolds
<1>1. /\ head[l] # -1 /\ head' = [head EXCEPT ![l] = next[head[l]]]
      /\ tail' = (IF next[head[l]] = -1 THEN [tail EXCEPT ![l] = -1] ELSE tail)
      /\ next' = [next EXCEPT ![head[l]] = -1]
      /\ prev' = [x \in Ns |-> IF x \in {head[l], next[head[l]]} THEN -1 ELSE prev[x]]
      /\ held' = held \cup {head[l]} /\ alive' = alive
  BY DEF PopsFront, NodesAre
<1>2. Len(m) \in Nat /\ Len(m) # 0 /\ 1 \in 1 .. Len(m)
  <2>1. Len(m) \in Nat /\ Len(m) # 0
    BY <1>0, <1>1 DEF Doubly, Linked
  <2> QED
    BY <2>1
<1>3. /\ m[1] \in Ns /\ head[l] = m[1]
      /\ next[m[1]] = IF 1 = Len(m) THEN -1 ELSE m[1 + 1]
      /\ prev[m[1]] = -1
      /\ (1 # Len(m) => 1 + 1 \in 1 .. Len(m))
  <2>1. PICK i \in 1 .. Len(m) : i = 1
    BY <1>2
  <2>2. /\ m[i] \in Ns /\ head[l] = m[1]
        /\ next[m[i]] = IF i = Len(m) THEN -1 ELSE m[i + 1]
        /\ prev[m[i]] = IF i = 1 THEN -1 ELSE m[i - 1]
        /\ (i # Len(m) => i + 1 \in 1 .. Len(m))
    <3>1. LiesIn(Ls, Ns, c, l, m, i)
      BY <2>1 DEF LiesIn
    <3> QED
      BY <3>1, ListNeighbours
  <2> QED
    BY <2>1, <2>2
<1>4. next[m[1]] = -1 <=> 1 = Len(m)
  <2>1. 1 # Len(m) => m[1 + 1] \in Ns
    BY <1>0, <1>3 DEF Doubly
  <2> QED
    BY <1>3, <2>1 DEF NodesAre
<1>5. /\ head' = [head EXCEPT ![l] = next[m[1]]]
      /\ tail' = [tail EXCEPT ![l] = IF 1 = Len(m) THEN prev[m[1]] ELSE tail[l]]
  <2>1. tail = [tail EXCEPT ![l] = tail[l]]
    BY <1>0 DEF ListTypes
  <2> QED
    BY <1>1, <1>3, <1>4, <2>1
<1>6. /\ next' \in [Ns -> Ns \cup {-1}] /\ prev' \in [Ns -> Ns \cup {-1}]
      /\ next'[m[1]] = -1 /\ prev'[m[1]] = -1
  BY <1>0, <1>1, <1>3 DEF ListTypes
<1>7. \A x \in Ns : x # m[1] =>
          /\ next'[x] = IF x = prev[m[1]] THEN next[m[1]] ELSE next[x]
          /\ prev'[x] = IF x = next[m[1]] THEN prev[m[1]] ELSE prev[x]
  BY <1>0, <1>1, <1>3 DEF ListTypes, NodesAre
<1> QED
  BY <1>1, <1>2, <1>3, <1>5, <1>6, <1>7 DEF Takes

LEMMA PopBackTakes ==
  ASSUME NEW Ls, NEW Ns, NodesAre(Ns), NEW c, ListHolds(Ls, Ns, c), NEW l \in Ls, NEW m, m = c[l], PopsBack(Ns, l)
  PROVE  Takes(Ns, l, m, Len(m)) /\ m[Len(m)] = tail[l]
<1>0. ListTypes(Ls, Ns) /\ Doubly(Ns, -1, m, head[l], tail[l], next, prev)
  BY DEF ListHolds
<1>1. /\ tail[l] # -1 /\ tail' = [tail EXCEPT ![l] = prev[tail[l]]]
      /\ head' = (IF prev[tail[l]] = -1 THEN [head EXCEPT ![l] = -1] ELSE head)
      /\ prev' = [prev EXCEPT ![tail[l]] = -1]
      /\ next' = [x \in Ns |-> IF x \in {tail[l], prev[tail[l]]} THEN -1 ELSE next[x]]
      /\ held' = held \cup {tail[l]} /\ alive' = alive
  BY DEF PopsBack, NodesAre
<1>2. Len(m) \in Nat /\ Len(m) # 0 /\ Len(m) \in 1 .. Len(m)
  <2>1. Len(m) \in Nat /\ Len(m) # 0
    BY <1>0, <1>1 DEF Doubly
  <2> QED
    BY <2>1
<1>3. PICK i \in 1 .. Len(m) : i = Len(m)
  BY <1>2
<1>4. /\ m[i] \in Ns /\ tail[l] = m[i]
      /\ next[m[i]] = -1
      /\ prev[m[i]] = IF i = 1 THEN -1 ELSE m[i - 1]
      /\ (i # 1 => i - 1 \in 1 .. Len(m))
  <2>1. /\ m[i] \in Ns /\ tail[l] = m[Len(m)]
        /\ next[m[i]] = IF i = Len(m) THEN -1 ELSE m[i + 1]
        /\ prev[m[i]] = IF i = 1 THEN -1 ELSE m[i - 1]
        /\ (i # 1 => i - 1 \in 1 .. Len(m))
    <3>1. LiesIn(Ls, Ns, c, l, m, i)
      BY <1>3 DEF LiesIn
    <3> QED
      BY <3>1, ListNeighbours
  <2> QED
    BY <1>3, <2>1
<1>5. prev[m[i]] = -1 <=> i = 1
  <2>1. i # 1 => m[i - 1] \in Ns
    BY <1>0, <1>4 DEF Doubly
  <2> QED
    BY <1>4, <2>1 DEF NodesAre
<1>6. /\ tail' = [tail EXCEPT ![l] = prev[m[i]]]
      /\ head' = [head EXCEPT ![l] = IF i = 1 THEN next[m[i]] ELSE head[l]]
  <2>1. head = [head EXCEPT ![l] = head[l]]
    BY <1>0 DEF ListTypes
  <2> QED
    BY <1>1, <1>4, <1>5, <2>1
<1>7. /\ next' \in [Ns -> Ns \cup {-1}] /\ prev' \in [Ns -> Ns \cup {-1}]
      /\ next'[m[i]] = -1 /\ prev'[m[i]] = -1
  BY <1>0, <1>1, <1>4 DEF ListTypes
<1>8. \A x \in Ns : x # m[i] =>
          /\ next'[x] = IF x = prev[m[i]] THEN next[m[i]] ELSE next[x]
          /\ prev'[x] = IF x = next[m[i]] THEN prev[m[i]] ELSE prev[x]
  BY <1>0, <1>1, <1>4 DEF ListTypes, NodesAre
<1>9. Takes(Ns, l, m, i)
  BY <1>1, <1>2, <1>3, <1>4, <1>6, <1>7, <1>8 DEF Takes
<1> QED
  BY <1>3, <1>4, <1>9

LEMMA CutTakes ==
  ASSUME NEW Ls, NEW Ns, NodesAre(Ns), NEW c, ListHolds(Ls, Ns, c),
         NEW l \in Ls, NEW m, m = c[l], NEW i \in 1 .. Len(m),
         m[i] # head[l], m[i] # tail[l], CutsOut(l, m[i])
  PROVE  Takes(Ns, l, m, i)
<1>0. ListTypes(Ls, Ns) /\ Doubly(Ns, -1, m, head[l], tail[l], next, prev)
  BY DEF ListHolds
<1>1. /\ m[i] \in Ns
      /\ next[m[i]] = IF i = Len(m) THEN -1 ELSE m[i + 1]
      /\ prev[m[i]] = IF i = 1 THEN -1 ELSE m[i - 1]
      /\ head[l] = m[1] /\ tail[l] = m[Len(m)]
      /\ (i # Len(m) => i + 1 \in 1 .. Len(m)) /\ (i # 1 => i - 1 \in 1 .. Len(m))
  <2>1. LiesIn(Ls, Ns, c, l, m, i)
    BY DEF LiesIn
  <2> QED
    BY <2>1, ListNeighbours
<1>2. i # 1 /\ i # Len(m)
  BY <1>1
<1>3. PICK a, b, n : a = prev[m[i]] /\ b = next[m[i]] /\ n = m[i]
  OBVIOUS
<1>4. a \in Ns /\ b \in Ns /\ n \in Ns /\ a # n /\ b # n
  <2>1. a = m[i - 1] /\ b = m[i + 1] /\ i - 1 # i /\ i + 1 # i
    BY <1>1, <1>2, <1>3
  <2> QED
    BY <1>0, <1>1, <1>2, <1>3, <2>1 DEF Doubly, Injective
<1>5. /\ next' = [next EXCEPT ![a] = b, ![n] = -1] /\ prev' = [prev EXCEPT ![b] = a, ![n] = -1]
      /\ held' = held \cup {n} /\ head' = head /\ tail' = tail /\ alive' = alive
  BY <1>3 DEF CutsOut, NodesAre
<1>6. /\ next' \in [Ns -> Ns \cup {-1}] /\ prev' \in [Ns -> Ns \cup {-1}]
      /\ next'[n] = -1 /\ prev'[n] = -1
      /\ \A x \in Ns : x # n =>
            /\ next'[x] = IF x = a THEN b ELSE next[x]
            /\ prev'[x] = IF x = b THEN a ELSE prev[x]
  BY <1>0, <1>4, <1>5 DEF ListTypes
<1>7. head = [head EXCEPT ![l] = head[l]] /\ tail = [tail EXCEPT ![l] = tail[l]]
  BY <1>0 DEF ListTypes
<1> QED
  BY <1>2, <1>3, <1>5, <1>6, <1>7 DEF Takes

\* The node n leaves the list by the operation that erase chooses.
Erases(Ns, l, n) == \/ n = head[l] /\ PopsFront(Ns, l)
                    \/ n # head[l] /\ n = tail[l] /\ PopsBack(Ns, l)
                    \/ n # head[l] /\ n # tail[l] /\ CutsOut(l, n)

LEMMA EraseTakes ==
  ASSUME NEW Ls, NEW Ns, NEW c, NEW l, NEW m, NEW i, LiesIn(Ls, Ns, c, l, m, i), Erases(Ns, l, m[i])
  PROVE  Takes(Ns, l, m, i)
<1> /\ NodesAre(Ns) /\ ListHolds(Ls, Ns, c) /\ l \in Ls /\ m = c[l] /\ i \in 1 .. Len(m)
  BY DEF LiesIn
<1>1. /\ head[l] = m[1] /\ tail[l] = m[Len(m)] /\ 1 \in 1 .. Len(m) /\ Len(m) \in 1 .. Len(m)
  BY ListNeighbours
<1>2. Injective(m)
  BY DEF ListHolds, Doubly
<1>3. CASE m[i] = head[l] /\ PopsFront(Ns, l)
  <2>1. i = 1
    BY <1>1, <1>2, <1>3 DEF Injective
  <2> QED
    BY <1>3, <2>1, PopFrontTakes
<1>4. CASE m[i] # head[l] /\ m[i] = tail[l] /\ PopsBack(Ns, l)
  <2>1. i = Len(m)
    BY <1>1, <1>2, <1>4 DEF Injective
  <2>2. Takes(Ns, l, m, Len(m))
    BY <1>4, PopBackTakes
  <2> QED
    BY <2>1, <2>2
<1>5. CASE m[i] # head[l] /\ m[i] # tail[l] /\ CutsOut(l, m[i])
  BY <1>5, CutTakes
<1> QED
  BY <1>3, <1>4, <1>5 DEF Erases

-----------------------------------------------------------------------------
(***************************************************************************)
(* The lists of test_list.cpp, between any of the operations.              *)
(***************************************************************************)
ListInv == kind = "list" => \E c : ListHolds(Lists, ListNodes, c)

LEMMA ListNodesAre == NodesAre(ListNodes) /\ List!Nil = -1
  BY DataStructAssumption, FS_CardinalityType DEF NodesAre, List!Nil

LEMMA ListOps ==
  /\ \A l, n : List!Attach(l, n) <=> Attaches(l, n)
  /\ \A l : List!PopFront(l) => PopsFront(ListNodes, l)
  /\ \A l : List!PopBack(l) => PopsBack(ListNodes, l)
  /\ \A l, n : List!Cut(l, n) => CutsOut(l, n)
  BY ListNodesAre DEF List!Attach, List!PopFront, List!PopBack, List!Cut, Attaches, PopsFront,
                      PopsBack, CutsOut

\* Chain returns the nodes of the list.
LEMMA ListChain == \A c : ListHolds(Lists, ListNodes, c) => \A l \in Lists : List!Chain(l) = c[l]
<1> SUFFICES ASSUME NEW c, ListHolds(Lists, ListNodes, c), NEW l \in Lists PROVE List!Chain(l) = c[l]
  OBVIOUS
<1>1. Follow(ListNodes)[Cardinality(ListNodes)][head[l]] = c[l]
  BY ListNodesAre, ChainIs
<1>2. List!Chain(l) = Follow(ListNodes)[Cardinality(ListNodes)][head[l]]
  BY Zenon DEF List!Chain, List!Nil, List!Cardinality, Cardinality, Walk, Follow
<1> QED
  BY <1>1, <1>2, Zenon

LEMMA ListErase ==
  ASSUME NEW c, ListHolds(Lists, ListNodes, c), NEW l \in Lists, NEW m, m = c[l], NEW d, List!Erase(l, d)
  PROVE  \E i \in 1 .. Len(m) : Takes(ListNodes, l, m, i)
<1>1. List!Chain(l) = m
  BY ListChain
<1>2. PICK n \in List!Find(l, d) : Erases(ListNodes, l, n)
  BY ListOps DEF List!Erase, Erases
<1>3. PICK i \in 1 .. Len(m) : m[i] = n
  BY <1>1 DEF List!Find
<1>4. LiesIn(Lists, ListNodes, c, l, m, i)
  BY <1>3, ListNodesAre DEF LiesIn
<1> QED
  BY <1>2, <1>3, <1>4, EraseTakes

\* The destructor deletes the nodes of one list.
LEMMA ListDestroy ==
  ASSUME NEW c, ListHolds(Lists, ListNodes, c), NEW l \in Lists, List!Destroy(l)
  PROVE  ListHolds(Lists, ListNodes, [c EXCEPT ![l] = <<>>])'
<1>0. /\ ListTypes(Lists, ListNodes) /\ c \in [Lists -> Seq(ListNodes)]
      /\ \A x \in ListNodes : x \in alive \ held <=> Covered(Lists, c, x)
  BY DEF ListHolds
<1>1. PICK gone : gone = {c[l][i] : i \in 1 .. Len(c[l])}
  OBVIOUS
<1>2. gone = NodeSet(c[l]) /\ gone \subseteq ListNodes
  BY <1>0, <1>1 DEF NodeSet
<1>3. /\ head' = [head EXCEPT ![l] = -1] /\ tail' = [tail EXCEPT ![l] = -1]
      /\ alive' = alive \ gone /\ held' = held
      /\ next' = [n \in ListNodes |-> IF n \in gone THEN -1 ELSE next[n]]
      /\ prev' = [n \in ListNodes |-> IF n \in gone THEN -1 ELSE prev[n]]
  <2>1. List!Chain(l) = c[l]
    BY ListChain
  <2> QED
    BY <1>1, <2>1, ListNodesAre, Zenon DEF List!Destroy
<1>4. \A x \in gone : x \in alive \ held
  BY <1>0, <1>2 DEF Covered
<1>5. ListTypes(Lists, ListNodes)'
  BY <1>0, <1>3, <1>4 DEF ListTypes
<1>6. NodeSet(<<>>) = {}
  BY DEF NodeSet
<1>7. head'[l] = -1 /\ tail'[l] = -1 /\ \A k \in Lists : k # l => head'[k] = head[k] /\ tail'[k] = tail[k]
  BY <1>0, <1>3 DEF ListTypes
<1>8. Doubly(ListNodes, -1, <<>>, head'[l], tail'[l], next', prev')
  BY <1>7 DEF Doubly, Linked, Injective
<1>9. /\ \A n \in ListNodes : n \notin gone => next'[n] = next[n] /\ prev'[n] = prev[n]
      /\ \A n \in gone : next'[n] = -1 /\ prev'[n] = -1
  BY <1>2, <1>3
<1>10. \A n \in ListNodes : n \in alive' \ held' <=> n \in alive \ held /\ n \notin gone
  BY <1>3
<1> QED
  BY <1>2, <1>5, <1>6, <1>7, <1>8, <1>9, <1>10, ListNodesAre, ListStep

\* The queues step only when they are there, or not at all.
LEMMA ListMoves ==
  ASSUME [AnyNext]_allVars, kind = "list"
  PROVE  List!Next \/ UNCHANGED listVars
<1>1. Queue!Next => UNCHANGED Queue!vars
  BY DEF Queue!Next, Queue!PushLinked, Queue!PopLinked, Queue!PushDummy, Queue!PopDummy,
         Queue!PushRing, Queue!PopRing, Queue!vars
<1> QED
  BY <1>1 DEF AnyNext, ContainerNext, allVars, containerVars, Queue!vars, listVars

\* Every operation on a list has the effect of one of the operations that a deque has.
LEMMA ListOperates ==
  ASSUME NEW c, ListHolds(Lists, ListNodes, c), List!Next
  PROVE  \E l \in Lists : \E y :
            /\ ListHolds(Lists, ListNodes, [c EXCEPT ![l] = y])'
            /\ \/ \E i \in 1 .. Len(c[l]) : y = Deques!Without(c[l], i) /\ held' = held \cup {c[l][i]}
               \/ y = <<>> /\ held' = held
               \/ \E n \in ListNodes : /\ ~Covered(Lists, c, n) /\ y = Append(c[l], n)
                                       /\ held' = held \ {n}
<1>0. PICK l \in Lists : \/ List!PopFront(l) \/ List!PopBack(l) \/ List!Destroy(l)
                         \/ \E d \in ListValues : List!PushBack(l, d) \/ List!Erase(l, d)
                         \/ \E n \in ListNodes : List!PushBackNode(l, n)
  BY DEF List!Next
<1>1. ASSUME NEW i, Takes(ListNodes, l, c[l], i)
      PROVE  \E y : /\ ListHolds(Lists, ListNodes, [c EXCEPT ![l] = y])'
                    /\ \E j \in 1 .. Len(c[l]) : y = Deques!Without(c[l], j) /\ held' = held \cup {c[l][j]}
  <2>1. ListHolds(Lists, ListNodes, [c EXCEPT ![l] = Deques!Without(c[l], i)])'
    BY <1>1, ListNodesAre, ListTake
  <2> QED
    BY <1>1, <2>1 DEF Takes
<1>2. ASSUME NEW n \in ListNodes, n \notin alive \ held, List!Attach(l, n), tail' = [tail EXCEPT ![l] = n],
             alive' = alive \cup {n}, held' = held \ {n}
      PROVE  \E y : /\ ListHolds(Lists, ListNodes, [c EXCEPT ![l] = y])'
                    /\ ~Covered(Lists, c, n) /\ y = Append(c[l], n) /\ held' = held \ {n}
  <2>1. ListHolds(Lists, ListNodes, [c EXCEPT ![l] = Append(c[l], n)])'
    BY <1>2, ListNodesAre, ListOps, ListPush
  <2> QED
    BY <1>2, <2>1 DEF ListHolds
<1>3. CASE List!PopFront(l)
  <2>1. Takes(ListNodes, l, c[l], 1)
    BY <1>3, ListNodesAre, ListOps, PopFrontTakes
  <2> QED
    BY <1>1, <2>1
<1>4. CASE List!PopBack(l)
  <2>1. Takes(ListNodes, l, c[l], Len(c[l]))
    BY <1>4, ListNodesAre, ListOps, PopBackTakes
  <2> QED
    BY <1>1, <2>1
<1>5. CASE List!Destroy(l)
  <2>1. ListHolds(Lists, ListNodes, [c EXCEPT ![l] = <<>>])' /\ held' = held
    BY <1>5, ListDestroy DEF List!Destroy
  <2> QED
    BY <2>1
<1>6. CASE \E d \in ListValues : List!Erase(l, d)
  <2>1. \E i : Takes(ListNodes, l, c[l], i)
    BY <1>6, ListErase
  <2> QED
    BY <1>1, <2>1
<1>7. CASE \E d \in ListValues : List!PushBack(l, d)
  <2>1. PICK n \in ListNodes \ alive : /\ alive' = alive \cup {n} /\ List!Attach(l, n)
                                       /\ tail' = [tail EXCEPT ![l] = n] /\ held' = held
    BY <1>7 DEF List!PushBack
  <2>2. held' = held \ {n}
    BY <2>1 DEF ListHolds, ListTypes
  <2> QED
    BY <1>2, <2>1, <2>2
<1>8. CASE \E n \in ListNodes : List!PushBackNode(l, n)
  <2>1. PICK n \in ListNodes : /\ n \in held /\ held' = held \ {n} /\ List!Attach(l, n)
                               /\ tail' = [tail EXCEPT ![l] = n] /\ alive' = alive
    BY <1>8 DEF List!PushBackNode
  <2>2. alive' = alive \cup {n}
    BY <2>1 DEF ListHolds, ListTypes
  <2> QED
    BY <1>2, <2>1, <2>2
<1> QED
  BY <1>0, <1>3, <1>4, <1>5, <1>6, <1>7, <1>8

DequeOf == [l \in Lists |-> IF kind = "list" THEN List!Chain(l) ELSE <<>>]
HeldOf == IF kind = "list" THEN held ELSE {}

LEMMA DequeOfIs == \A c : kind = "list" /\ ListHolds(Lists, ListNodes, c) => DequeOf = c
<1> SUFFICES ASSUME NEW c, kind = "list", ListHolds(Lists, ListNodes, c) PROVE DequeOf = c
  OBVIOUS
<1>1. \A l \in Lists : List!Chain(l) = c[l]
  BY ListChain
<1>2. c \in [Lists -> Seq(ListNodes)]
  BY DEF ListHolds
<1> QED
  BY <1>1, <1>2 DEF DequeOf

\* Lists start empty.
LEMMA ListStarts == AnyInit /\ kind = "list" => ListHolds(Lists, ListNodes, [l \in Lists |-> <<>>]) /\ held = {}
<1> SUFFICES ASSUME AnyInit, kind = "list" PROVE ListHolds(Lists, ListNodes, [l \in Lists |-> <<>>]) /\ held = {}
  OBVIOUS
<1>1. List!Init
  BY DEF AnyInit, ContainerInit, Queue!Init, Queue!InitLinked, Queue!InitDummy, Queue!InitRing
<1>2. /\ head = [l \in Lists |-> -1] /\ tail = [l \in Lists |-> -1]
      /\ next = [n \in ListNodes |-> -1] /\ prev = [n \in ListNodes |-> -1]
      /\ alive = {} /\ held = {}
  BY <1>1, ListNodesAre DEF List!Init
<1>3. PICK c : c = [l \in Lists |-> <<>>]
  OBVIOUS
<1>4. ListTypes(Lists, ListNodes)
  BY <1>2 DEF ListTypes
<1>5. c \in [Lists -> Seq(ListNodes)] /\ \A l \in Lists : c[l] = <<>>
  BY <1>3
<1>6. NodeSet(<<>>) = {}
  BY DEF NodeSet
<1>7. \A l \in Lists : Doubly(ListNodes, -1, c[l], head[l], tail[l], next, prev)
  BY <1>2, <1>5 DEF Doubly, Linked, Injective
<1>8. \A n \in ListNodes : ~Covered(Lists, c, n)
  BY <1>5, <1>6 DEF Covered
<1> QED
  BY <1>2, <1>3, <1>4, <1>5, <1>6, <1>7, <1>8 DEF ListHolds

LEMMA ListStays == ASSUME NEW c, ListHolds(Lists, ListNodes, c), UNCHANGED listVars PROVE ListHolds(Lists, ListNodes, c)'
  BY DEF ListHolds, ListTypes, listVars

LEMMA ListInvKept == ListInv /\ [AnyNext]_allVars => ListInv'
<1> SUFFICES ASSUME ListInv, [AnyNext]_allVars, kind' = "list" PROVE (\E c : ListHolds(Lists, ListNodes, c))'
  BY DEF ListInv
<1>1. kind = "list"
  BY KindStays DEF allVars
<1>2. PICK c : ListHolds(Lists, ListNodes, c)
  BY <1>1 DEF ListInv
<1>3. CASE List!Next
  BY <1>2, <1>3, ListOperates
<1>4. CASE UNCHANGED listVars
  BY <1>2, <1>4, ListStays
<1> QED
  BY <1>1, <1>3, <1>4, ListMoves

\* Nodes leave a list of list.h in the order in which they were pushed, or from where
\* they are erased, and no operation on one list disturbs another, for all sets of
\* lists and nodes.
THEOREM ListsAreDeques == AnySpec => ImplementsDeques
<1>1. AnyInit => ListInv /\ Deques!Init
  <2> SUFFICES ASSUME AnyInit PROVE ListInv /\ DequeOf = [l \in Lists |-> <<>>] /\ HeldOf = {}
    BY DEF Deques!Init, DequeOf, HeldOf
  <2>1. CASE kind = "list"
    BY <2>1, ListStarts, DequeOfIs DEF ListInv, HeldOf
  <2>2. CASE kind # "list"
    BY <2>2 DEF ListInv, DequeOf, HeldOf
  <2> QED
    BY <2>1, <2>2
<1>2. (\A c : kind = "list" /\ ListHolds(Lists, ListNodes, c) => DequeOf = c)'
  BY DequeOfIs, PTL
<1>3. ListInv /\ [AnyNext]_allVars => [Deques!Next]_Deques!vars
  <2> SUFFICES ASSUME ListInv, [AnyNext]_allVars
               PROVE  \/ \E l \in Lists : \/ Deques!Remove(l) \/ Deques!Clear(l)
                                          \/ \E n \in ListNodes : Deques!PushBack(l, n)
                      \/ UNCHANGED <<DequeOf, HeldOf>>
    BY DEF Deques!Next, Deques!vars, DequeOf, HeldOf
  <2>1. kind' = kind
    BY KindStays DEF allVars
  <2>2. CASE kind # "list"
    BY <2>1, <2>2 DEF DequeOf, HeldOf
  <2>3. CASE kind = "list"
    <3>1. PICK c : ListHolds(Lists, ListNodes, c)
      BY <2>3 DEF ListInv
    <3>2. DequeOf = c /\ HeldOf = held /\ HeldOf' = held'
      BY <2>1, <2>3, <3>1, DequeOfIs DEF HeldOf
    <3>3. CASE UNCHANGED listVars
      <4>1. DequeOf' = c
        BY <1>2, <2>1, <2>3, <3>1, <3>3, ListStays
      <4> QED
        BY <3>2, <3>3, <4>1 DEF listVars
    <3>4. CASE List!Next
      <4>0. PICK l \in Lists : \E y :
                /\ ListHolds(Lists, ListNodes, [c EXCEPT ![l] = y])'
                /\ \/ \E i \in 1 .. Len(c[l]) : y = Deques!Without(c[l], i) /\ held' = held \cup {c[l][i]}
                   \/ y = <<>> /\ held' = held
                   \/ \E n \in ListNodes : /\ ~Covered(Lists, c, n) /\ y = Append(c[l], n)
                                           /\ held' = held \ {n}
        BY <3>1, <3>4, ListOperates
      <4>1. PICK y :
                /\ ListHolds(Lists, ListNodes, [c EXCEPT ![l] = y])'
                /\ \/ \E i \in 1 .. Len(c[l]) : y = Deques!Without(c[l], i) /\ held' = held \cup {c[l][i]}
                   \/ y = <<>> /\ held' = held
                   \/ \E n \in ListNodes : /\ ~Covered(Lists, c, n) /\ y = Append(c[l], n)
                                           /\ held' = held \ {n}
        BY <4>0
      <4>2. DequeOf' = [DequeOf EXCEPT ![l] = y] /\ DequeOf[l] = c[l]
        BY <1>2, <2>1, <2>3, <3>2, <4>1
      <4>3. ASSUME NEW i \in 1 .. Len(c[l]), y = Deques!Without(c[l], i), held' = held \cup {c[l][i]}
            PROVE  Deques!Remove(l)
        <5>1. DequeOf' = [DequeOf EXCEPT ![l] = Deques!Without(DequeOf[l], i)]
          BY <4>2, <4>3
        <5>2. HeldOf' = HeldOf \cup {DequeOf[l][i]} /\ i \in 1 .. Len(DequeOf[l])
          BY <3>2, <4>2, <4>3
        <5> QED
          BY <5>1, <5>2 DEF Deques!Remove, DequeOf, HeldOf
      <4>4. ASSUME y = <<>>, held' = held PROVE Deques!Clear(l)
        <5>1. DequeOf' = [DequeOf EXCEPT ![l] = <<>>] /\ HeldOf' = HeldOf
          BY <3>2, <4>2, <4>4
        <5> QED
          BY <5>1 DEF Deques!Clear, DequeOf, HeldOf
      <4>5. ASSUME NEW n \in ListNodes, ~Covered(Lists, c, n), y = Append(c[l], n), held' = held \ {n}
            PROVE  Deques!PushBack(l, n)
        <5>1. DequeOf' = [DequeOf EXCEPT ![l] = Append(DequeOf[l], n)] /\ HeldOf' = HeldOf \ {n}
          BY <3>2, <4>2, <4>5
        <5>2. ~ \E k \in Lists : \E i \in 1 .. Len(DequeOf[k]) : DequeOf[k][i] = n
          BY <3>2, <4>5 DEF Covered, NodeSet
        <5> QED
          BY <5>1, <5>2 DEF Deques!PushBack, Deques!InList, DequeOf, HeldOf
      <4> QED
        BY <4>1, <4>3, <4>4, <4>5
    <3> QED
      BY <2>3, <3>3, <3>4, ListMoves
  <2> QED
    BY <2>2, <2>3
<1> QED
  BY <1>1, <1>3, ListInvKept, PTL DEF AnySpec, ImplementsDeques, Deques!Spec
-----------------------------------------------------------------------------
(***************************************************************************)
(* list.h, read from tail_ along prev.                                     *)
(***************************************************************************)
\* A function that puts v[i] behind what it gives for i - 1 gives the beginnings of v.
LEMMA UnfoldBack ==
  ASSUME NEW S, NEW v \in Seq(S), NEW g,
         g[0] = <<>>,
         \A i \in 1 .. Len(v) : g[i] = g[i - 1] \o <<v[i]>>
  PROVE  \A i \in 0 .. Len(v) : g[i] = SubSeq(v, 1, i)
<1> DEFINE Bad == {i \in 0 .. Len(v) : g[i] # SubSeq(v, 1, i)}
<1>0. Len(v) \in Nat
  OBVIOUS
<1>1. 0 \notin Bad
  <2>1. SubSeq(v, 1, 0) = <<>>
    BY SubSeqEmpty
  <2> QED
    BY <2>1
<1>2. ASSUME Bad # {} PROVE FALSE
  <2>1. Bad \in SUBSET Nat
    BY <1>0
  <2>2. PICK i \in Bad : \A j \in Bad : i <= j
    BY <1>2, <2>1, LeastNat
  <2>3. i \in 1 .. Len(v) /\ i - 1 \notin Bad /\ i - 1 \in 0 .. Len(v)
    <3>1. i # 0 /\ i \in 0 .. Len(v)
      BY <1>1, <2>2
    <3> HIDE DEF Bad
    <3> QED
      BY <1>0, <2>2, <3>1
  <2>4. g[i - 1] = SubSeq(v, 1, i - 1)
    BY <2>3
  <2>5. g[i] = SubSeq(v, 1, i - 1) \o <<v[i]>>
    BY <2>3, <2>4
  <2>6. 1 \in 1 .. Len(v) /\ i \in 1 .. Len(v)
    BY <2>3, <1>0
  <2>7. SubSeq(v, 1, i) = SubSeq(v, 1, i - 1) \o <<v[i]>>
    BY <2>6, SubSeqRecursiveSecond
  <2> QED
    BY <2>2, <2>5, <2>7
<1> QED
  BY <1>2

\* What f gives for at most K nodes along pv: the recursive function of Backward
WalkBack(K, D, nil, nx, f) ==
    [k \in 0 .. K |-> [n \in D |->
        IF k = 0 \/ n = nil THEN <<>> ELSE f[k - 1][nx[n]] \o <<n>>]]

\* There is this function, too.
LEMMA WalkBackExists ==
  ASSUME NEW K \in Nat, NEW D, NEW nil, NEW nx, \A n \in D : n # nil => nx[n] \in D
  PROVE  \E f : f = WalkBack(K, D, nil, nx, f)
<1> DEFINE Bad == {k \in 0 .. K : ~ \E f : f = WalkBack(k, D, nil, nx, f)}
<1>1. ASSUME Bad # {} PROVE FALSE
  <2>1. Bad \in SUBSET Nat
    OBVIOUS
  <2>2. PICK k \in Bad : \A j \in Bad : k <= j
    BY <1>1, <2>1, LeastNat
  <2>3. k \in 0 .. K /\ k \in Nat
    OBVIOUS
  <2>4. CASE k = 0
    <3> DEFINE f == [j \in 0 .. 0 |-> [n \in D |-> <<>>]]
    <3>1. f = WalkBack(0, D, nil, nx, f)
      BY DEF WalkBack
    <3> QED
      BY <2>2, <2>4, <3>1
  <2>5. CASE k # 0
    <3>1. k - 1 \in 0 .. K /\ k - 1 \notin Bad
      <4> HIDE DEF Bad
      <4> QED
        BY <2>2, <2>3, <2>5
    <3>2. PICK f : f = WalkBack(k - 1, D, nil, nx, f)
      BY <3>1
    <3> DEFINE g == [j \in 0 .. k |-> [n \in D |->
                       IF j = 0 \/ n = nil THEN <<>>
                       ELSE IF j = k THEN f[k - 1][nx[n]] \o <<n>> ELSE f[j][n]]]
    <3>3. ASSUME NEW j \in 0 .. k - 1, NEW n \in D
          PROVE  f[j][n] = IF j = 0 \/ n = nil THEN <<>> ELSE f[j - 1][nx[n]] \o <<n>>
      <4>1. WalkBack(k - 1, D, nil, nx, f)[j][n] = IF j = 0 \/ n = nil THEN <<>> ELSE f[j - 1][nx[n]] \o <<n>>
        BY DEF WalkBack
      <4> QED
        BY <3>2, <4>1, Zenon
    <3>4. ASSUME NEW j \in 0 .. k - 1, NEW n \in D PROVE g[j][n] = f[j][n]
      <4>1. j # k /\ j \in 0 .. k
        BY <2>3
      <4> QED
        BY <3>3, <4>1
    <3>5. ASSUME NEW j \in 0 .. k, NEW n \in D
          PROVE  g[j][n] = IF j = 0 \/ n = nil THEN <<>> ELSE g[j - 1][nx[n]] \o <<n>>
      <4>1. CASE j = 0 \/ n = nil
        BY <4>1
      <4>2. CASE j # 0 /\ n # nil /\ j = k
        <5>1. g[j][n] = f[k - 1][nx[n]] \o <<n>>
          BY <4>2
        <5>2. g[k - 1][nx[n]] = f[k - 1][nx[n]]
          <6>1. k - 1 \in 0 .. k - 1 /\ nx[n] \in D
            BY <2>3, <2>5, <4>2
          <6> QED
            BY <3>4, <6>1, Zenon
        <5> HIDE DEF g
        <5> QED
          BY <4>2, <5>1, <5>2, Zenon
      <4>3. CASE j # 0 /\ n # nil /\ j # k
        <5>1. j \in 0 .. k - 1 /\ j - 1 \in 0 .. k - 1 /\ nx[n] \in D
          BY <2>3, <4>3
        <5>2. g[j][n] = f[j][n] /\ g[j - 1][nx[n]] = f[j - 1][nx[n]]
          <6> HIDE DEF g
          <6> QED
            BY <3>4, <5>1, Zenon
        <5>3. f[j][n] = f[j - 1][nx[n]] \o <<n>>
          BY <3>3, <4>3, <5>1, Zenon
        <5> HIDE DEF g
        <5> QED
          BY <4>3, <5>2, <5>3, Zenon
      <4> QED
        BY <4>1, <4>2, <4>3
    <3>6. g = [j \in 0 .. k |-> [n \in D |-> g[j][n]]]
      OBVIOUS
    <3>7. g = WalkBack(k, D, nil, nx, g)
      <4> HIDE DEF g
      <4> QED
        BY <3>5, <3>6 DEF WalkBack
    <3> HIDE DEF g
    <3> QED
      BY <2>2, <3>7
  <2> QED
    BY <2>4, <2>5
<1> QED
  BY <1>1

\* h is the recursive function, m a path short enough for it.
WalksBack(K, D, nil, m, first, last, nx, pv, h) ==
    /\ K \in Nat /\ nil \in D
    /\ Doubly(D, nil, m, first, last, nx, pv) /\ Len(m) <= K
    /\ h = WalkBack(K, D, nil, pv, h)

LEMMA WalkBackFinds ==
  ASSUME NEW K, NEW D, NEW nil, NEW m, NEW first, NEW last, NEW nx, NEW pv, NEW h,
         WalksBack(K, D, nil, m, first, last, nx, pv, h)
  PROVE  h[K][last] = m
<1>0. /\ K \in Nat /\ nil \in D /\ m \in Seq(D) /\ Len(m) \in Nat /\ Len(m) <= K
      /\ last = IF Len(m) = 0 THEN nil ELSE m[Len(m)]
      /\ \A i \in 1 .. Len(m) : /\ m[i] \in D /\ m[i] # nil
                                /\ pv[m[i]] = IF i = 1 THEN nil ELSE m[i - 1]
  BY DEF WalksBack, Doubly, Linked
<1>1. h = WalkBack(K, D, nil, pv, h)
  BY Zenon DEF WalksBack
<1>2. ASSUME NEW k \in 0 .. K, NEW n \in D
      PROVE  h[k][n] = IF k = 0 \/ n = nil THEN <<>> ELSE h[k - 1][pv[n]] \o <<n>>
  <2>1. WalkBack(K, D, nil, pv, h)[k][n] = IF k = 0 \/ n = nil THEN <<>> ELSE h[k - 1][pv[n]] \o <<n>>
    BY DEF WalkBack
  <2> QED
    BY <1>1, <2>1, Zenon
<1> DEFINE node(i) == IF i = 0 THEN nil ELSE m[i]
           g == [i \in 0 .. Len(m) |-> h[K - Len(m) + i][node(i)]]
<1>3. g[0] = <<>>
  <2>1. K - Len(m) + 0 \in 0 .. K /\ 0 \in 0 .. Len(m)
    BY <1>0
  <2>2. h[K - Len(m) + 0][nil] = <<>>
    BY <1>0, <1>2, <2>1, Zenon
  <2> QED
    BY <2>1, <2>2
<1>4. ASSUME NEW i \in 1 .. Len(m) PROVE g[i] = g[i - 1] \o <<m[i]>>
  <2>0. PICK k : k = K - Len(m) + i
    OBVIOUS
  <2>1. /\ k \in 0 .. K /\ k # 0 /\ k - 1 = K - Len(m) + (i - 1)
        /\ i # 0 /\ i \in 0 .. Len(m) /\ i - 1 \in 0 .. Len(m) /\ (i - 1 = 0 <=> i = 1)
    BY <1>0, <2>0
  <2>2. m[i] \in D /\ m[i] # nil /\ pv[m[i]] = node(i - 1)
    BY <1>0, <2>1
  <2>3. g[i] = h[K - Len(m) + i][m[i]] /\ g[i - 1] = h[K - Len(m) + (i - 1)][node(i - 1)]
    BY <2>1
  <2> HIDE DEF g, node
  <2>4. h[k][m[i]] = IF k = 0 \/ m[i] = nil THEN <<>> ELSE h[k - 1][pv[m[i]]] \o <<m[i]>>
    BY <1>2, <2>1, <2>2, Zenon
  <2>5. h[k][m[i]] = h[k - 1][pv[m[i]]] \o <<m[i]>>
    BY <2>1, <2>2, <2>4, Zenon
  <2> QED
    BY <2>0, <2>1, <2>2, <2>3, <2>5, Zenon
<1>5. g[Len(m)] = SubSeq(m, 1, Len(m))
  <2> HIDE DEF g
  <2>1. \A i \in 0 .. Len(m) : g[i] = SubSeq(m, 1, i)
    BY <1>0, <1>3, <1>4, UnfoldBack, Zenon
  <2>2. Len(m) \in 0 .. Len(m)
    BY <1>0
  <2> QED
    BY <2>1, <2>2, Zenon
<1>6. g[Len(m)] = h[K][last]
  <2>1. Len(m) \in 0 .. Len(m) /\ K - Len(m) + Len(m) = K
    BY <1>0
  <2>2. g[Len(m)] = h[K - Len(m) + Len(m)][node(Len(m))] /\ node(Len(m)) = last
    BY <1>0, <2>1
  <2> HIDE DEF g, node
  <2> QED
    BY <2>1, <2>2
<1> QED
  BY <1>0, <1>5, <1>6, SubSeqFull, Zenon

\* Read backward, the list has the same nodes.
LEMMA ListBackward == \A c : ListHolds(Lists, ListNodes, c) => \A l \in Lists : List!Backward(l) = c[l]
<1> SUFFICES ASSUME NEW c, ListHolds(Lists, ListNodes, c), NEW l \in Lists PROVE List!Backward(l) = c[l]
  OBVIOUS
<1> PICK m : m = c[l]
  OBVIOUS
<1>1. /\ m \in Seq(ListNodes) /\ Injective(m) /\ Doubly(ListNodes, -1, m, head[l], tail[l], next, prev)
      /\ prev \in [ListNodes -> ListNodes \cup {-1}]
  BY DEF ListHolds, ListTypes, Doubly
<1>2. Len(m) <= Cardinality(ListNodes)
  <2>1. IsFiniteSet(NodeSet(m)) /\ Cardinality(NodeSet(m)) = Len(m)
    BY <1>1, RangeCounts
  <2>2. NodeSet(m) \subseteq ListNodes
    BY <1>1 DEF NodeSet
  <2> QED
    BY <2>1, <2>2, ListNodesAre, FS_Subset DEF NodesAre
<1>3. PICK h : h = CHOOSE f : f = WalkBack(Cardinality(ListNodes), ListNodes \cup {-1}, -1, prev, f)
  OBVIOUS
<1>4. h[Cardinality(ListNodes)][tail[l]] = m
  <2>1. PICK K, D, nil, nx, pv, first, last :
            /\ K = Cardinality(ListNodes) /\ D = ListNodes \cup {-1} /\ nil = -1
            /\ nx = next /\ pv = prev /\ first = head[l] /\ last = tail[l]
    OBVIOUS
  <2>2. K \in Nat /\ nil \in D /\ Len(m) <= K /\ \A n \in D : n # nil => pv[n] \in D
    BY <1>1, <1>2, <2>1, ListNodesAre DEF NodesAre
  <2>3. Doubly(D, nil, m, first, last, nx, pv)
    <3>1. Doubly(ListNodes, nil, m, first, last, nx, pv)
      BY <1>1, <2>1, Zenon
    <3>2. m \in Seq(D)
      BY <1>1, <2>1
    <3> QED
      BY <3>1, <3>2, Zenon DEF Doubly
  <2>4. h = WalkBack(K, D, nil, pv, h)
    <3>1. \E f : f = WalkBack(K, D, nil, pv, f)
      BY <2>2, WalkBackExists
    <3> QED
      BY <1>3, <2>1, <3>1, Zenon
  <2>5. WalksBack(K, D, nil, m, first, last, nx, pv, h)
    BY <2>2, <2>3, <2>4, Zenon DEF WalksBack
  <2>6. h[K][last] = m
    BY <2>5, WalkBackFinds
  <2> QED
    BY <2>1, <2>6, Zenon
<1>5. List!Backward(l) = h[Cardinality(ListNodes)][tail[l]]
  BY <1>3, Zenon DEF List!Backward, List!Nil, List!Cardinality, Cardinality, WalkBack
<1> QED
  BY <1>4, <1>5, Zenon

\* A list reads the same from both ends, and a node is in one list or with the caller,
\* with no links to the list that it has left, whatever the order of the operations of
\* list.h on the lists.
THEOREM ListsMirrored == AnySpec => []LinksMirror
<1>1. AnyInit => ListInv
  BY ListStarts DEF ListInv
<1>2. ListInv => LinksMirror
  <2> SUFFICES ASSUME ListInv, kind = "list" PROVE List!LinksMirror
    BY DEF LinksMirror
  <2>1. PICK c : ListHolds(Lists, ListNodes, c)
    BY DEF ListInv
  <2>2. \A l \in Lists : List!Chain(l) = c[l] /\ List!Backward(l) = c[l]
    BY <2>1, ListChain, ListBackward
  <2>3. ASSUME NEW n \in held PROVE next[n] = -1 /\ prev[n] = -1
    BY <2>1 DEF ListHolds, ListTypes
  <2>4. ASSUME NEW n \in alive, n \notin held
        PROVE  \E l \in Lists : \E i \in 1 .. Len(List!Chain(l)) : List!Chain(l)[i] = n
    <3>1. Covered(Lists, c, n)
      BY <2>1, <2>4 DEF ListHolds, ListTypes
    <3> QED
      BY <2>2, <3>1 DEF Covered, NodeSet
  <2> QED
    BY <2>2, <2>3, <2>4, ListNodesAre DEF List!LinksMirror
<1> QED
  BY <1>1, <1>2, ListInvKept, PTL DEF AnySpec

\* A loop of K rounds that begins with e and makes step[i] of what there is in its i-th
\* round has a history.
Loops(S, e, K, step) == e \in S /\ K \in Nat /\ step \in [1 .. K -> [S -> S]]
History(S, e, K, step, f) ==
    f \in [0 .. K -> S] /\ f[0] = e /\ \A i \in 1 .. K : f[i] = step[i][f[i - 1]]

LEMMA LoopExists ==
  ASSUME NEW S, NEW e, NEW K, NEW step, Loops(S, e, K, step)
  PROVE  \E f : History(S, e, K, step, f)
<1> e \in S /\ K \in Nat /\ step \in [1 .. K -> [S -> S]]
  BY DEF Loops
<1> DEFINE Loop(k, f) == f[0] = e /\ \A i \in 1 .. k : f[i] = step[i][f[i - 1]]
           Bad == {k \in 0 .. K : ~ \E f \in [0 .. k -> S] : Loop(k, f)}
<1>1. ASSUME Bad # {} PROVE FALSE
  <2>1. Bad \in SUBSET Nat
    OBVIOUS
  <2>2. PICK k \in Bad : \A j \in Bad : k <= j
    BY <1>1, <2>1, LeastNat
  <2>3. k \in 0 .. K /\ k \in Nat
    OBVIOUS
  <2>4. CASE k = 0
    <3>1. [j \in 0 .. 0 |-> e] \in [0 .. 0 -> S] /\ Loop(0, [j \in 0 .. 0 |-> e])
      OBVIOUS
    <3> QED
      BY <2>2, <2>4, <3>1
  <2>5. CASE k # 0
    <3>1. k - 1 \in 0 .. K /\ k - 1 \notin Bad /\ k \in 1 .. K
      <4> HIDE DEF Bad
      <4> QED
        BY <2>2, <2>3, <2>5
    <3>2. PICK f \in [0 .. k - 1 -> S] : Loop(k - 1, f)
      BY <3>1
    <3> DEFINE g == [j \in 0 .. k |-> IF j = k THEN step[k][f[k - 1]] ELSE f[j]]
    <3>3. step[k][f[k - 1]] \in S
      <4>1. k - 1 \in 0 .. k - 1 /\ k \in 1 .. K
        BY <2>3, <3>1
      <4> QED
        BY <3>2, <4>1
    <3>4. g \in [0 .. k -> S]
      BY <2>3, <3>2, <3>3
    <3>5. g[0] = e
      BY <2>3, <2>5, <3>2
    <3>6. ASSUME NEW i \in 1 .. k PROVE g[i] = step[i][g[i - 1]]
      <4>1. i \in 0 .. k /\ i - 1 \in 0 .. k /\ i - 1 # k /\ i - 1 \in 0 .. k - 1
        BY <2>3
      <4>2. g[i - 1] = f[i - 1]
        BY <4>1
      <4>3. CASE i = k
        BY <4>1, <4>2, <4>3
      <4>4. CASE i # k
        <5>1. i \in 1 .. k - 1
          BY <2>3, <4>4
        <5>2. g[i] = f[i] /\ f[i] = step[i][f[i - 1]]
          BY <3>2, <4>1, <4>4, <5>1
        <5> QED
          BY <4>2, <5>2
      <4> QED
        BY <4>3, <4>4
    <3> HIDE DEF g
    <3> QED
      BY <2>2, <3>4, <3>5, <3>6
  <2> QED
    BY <2>4, <2>5
<1>2. K \in 0 .. K
  OBVIOUS
<1>3. PICK f \in [0 .. K -> S] : Loop(K, f)
  BY <1>1, <1>2
<1> QED
  BY <1>3 DEF History

-----------------------------------------------------------------------------
(***************************************************************************)
(* threadsafe_lookup_table1.h: trial division by 6k - 1 and 6k + 1 finds   *)
(* the primes.                                                             *)
(***************************************************************************)
\* No number between 1 and m divides m.
Undivided(m) == \A k \in 2 .. m - 1 : m % k # 0

LEMMA Divides ==
  ASSUME NEW m \in Nat, NEW d \in Nat \ {0}, m % d = 0
  PROVE  \E e \in Nat : m = d * e
<1> DEFINE e == m \div d
<1>1. m = d * e + (m % d) /\ e \in Nat
  OBVIOUS
<1> QED
  BY <1>1

LEMMA Multiple ==
  ASSUME NEW m \in Nat, NEW d \in Nat \ {0}, NEW e \in Nat, m = d * e
  PROVE  m % d = 0
OBVIOUS

\* What divides a divisor divides the number.
LEMMA DivisorOfDivisor ==
  ASSUME NEW m \in Nat, NEW d \in Nat \ {0}, NEW e \in Nat, m = d * e, NEW q \in Nat \ {0}, m % q # 0
  PROVE  d % q # 0
<1> SUFFICES ASSUME d % q = 0 PROVE FALSE
  OBVIOUS
<1>0. d \in Nat
  OBVIOUS
<1>1. PICK a \in Nat : d = q * a
  BY <1>0, Divides
<1>2. PICK z \in Nat : z = a * e
  OBVIOUS
<1>3. m = q * z
  BY <1>1, <1>2
<1>4. m % q = 0
  BY <1>3, Multiple
<1> QED
  BY <1>4

LEMMA Sixes ==
  ASSUME NEW d \in Nat, d % 2 # 0, d % 3 # 0, d >= 2
  PROVE  d >= 5 /\ \/ (d - 5) % 6 = 0
                   \/ d - 2 >= 5 /\ (d - 2 - 5) % 6 = 0
OBVIOUS

LEMMA SquaresOrder ==
  ASSUME NEW d \in Nat, NEW e \in Nat, NEW r \in Nat, d <= e, d * e <= r * r
  PROVE  d <= r
<1> SUFFICES ASSUME d > r PROVE FALSE
  OBVIOUS
<1>1. d >= r + 1 /\ e >= r + 1
  OBVIOUS
<1>2. d * e >= (r + 1) * (r + 1)
  BY <1>1
<1> QED
  BY <1>2

LEMMA RootExists ==
  ASSUME NEW m \in Nat
  PROVE  LET r == Table1!CeilSqrt(m)
         IN  r \in 0 .. m /\ r * r >= m /\ \A s \in 0 .. r - 1 : s * s < m
<1> DEFINE Over == {r \in 0 .. m : r * r >= m}
<1>1. m \in Over
  OBVIOUS
<1>2. Over \in SUBSET Nat
  OBVIOUS
<1>3. PICK r \in Over : \A y \in Over : r <= y
  BY <1>1, <1>2, LeastNat
<1>4. \A s \in 0 .. r - 1 : s \in Nat /\ s \notin Over /\ s \in 0 .. m
  BY <1>3
<1>5. \A s \in 0 .. r - 1 : s * s < m
  BY <1>4
<1>6. \E x \in 0 .. m : x * x >= m /\ \A s \in 0 .. x - 1 : s * s < m
  BY <1>3, <1>5
<1> QED
  BY <1>6, Zenon DEF Table1!CeilSqrt

LEMMA TrialDivision ==
  ASSUME NEW m \in Nat, Table1!IsPrime(m)
  PROVE  Undivided(m)
<1> SUFFICES ASSUME NEW k0 \in 2 .. m - 1, m % k0 = 0 PROVE FALSE
  BY DEF Undivided
<1> DEFINE Divisors == {k \in 2 .. m - 1 : m % k = 0}
<1>1. k0 \in Divisors /\ Divisors \in SUBSET Nat
  OBVIOUS
<1>2. PICK d \in Divisors : \A k \in Divisors : d <= k
  BY <1>1, LeastNat
<1>3. d \in Nat \ {0} /\ d >= 2 /\ d <= m - 1 /\ m % d = 0
  BY <1>2
<1>4. PICK e \in Nat : m = d * e
  BY <1>3, Divides
<1>5. e \in 2 .. m - 1
  <2>1. e # 0 /\ e # 1
    BY <1>3, <1>4
  <2>2. e >= 2
    BY <2>1
  <2>3. d * e >= 2 * e
    BY <1>3, <2>2
  <2> QED
    BY <1>3, <1>4, <2>2, <2>3
<1>6. m % e = 0
  <2>1. m = e * d /\ e \in Nat \ {0} /\ d \in Nat
    BY <1>3, <1>4, <1>5
  <2> QED
    BY <2>1, Multiple
<1>7. d <= e
  BY <1>2, <1>5, <1>6
<1>8. PICK r \in Nat : r = Table1!CeilSqrt(m) /\ r * r >= m
  BY RootExists
<1>9. d <= r
  <2>1. d * e <= r * r
    BY <1>4, <1>8, <1>3
  <2> QED
    BY <1>3, <1>7, <2>1, SquaresOrder
<1>10. m = 2 \/ m = 3 \/ (m % 2 # 0 /\ m % 3 # 0)
  BY DEF Table1!IsPrime
<1>11. CASE m = 2 \/ m = 3
  <2>1. m # 2
    BY <1>3
  <2>2. m = 3 /\ d = 2
    BY <1>3, <1>11, <2>1
  <2> QED
    BY <1>3, <2>2
<1>12. CASE m # 2 /\ m # 3
  <2>1. m % 2 # 0 /\ m % 3 # 0
    BY <1>10, <1>12
  <2>2. ASSUME NEW q \in Nat \ {0}, m % q # 0 PROVE d % q # 0
    BY <1>3, <1>4, <2>2, DivisorOfDivisor, Zenon
  <2>3. d % 2 # 0 /\ d % 3 # 0
    <3>1. 2 \in Nat \ {0} /\ 3 \in Nat \ {0}
      OBVIOUS
    <3> QED
      BY <2>1, <2>2, <3>1, Zenon
  <2>4. d >= 5 /\ ((d - 5) % 6 = 0 \/ (d - 2 >= 5 /\ (d - 2 - 5) % 6 = 0))
    BY <1>3, <2>3, Sixes
  <2>5. ~ (m <= 3)
    BY <1>3, <1>12
  <2>6. \A i \in 5 .. r : (i - 5) % 6 = 0 => m % i # 0 /\ m % (i + 2) # 0
    BY <1>8, <2>5, Zenon DEF Table1!IsPrime
  <2>7. CASE (d - 5) % 6 = 0
    <3>1. d \in 5 .. r
      BY <1>3, <1>9, <2>4
    <3> QED
      BY <1>3, <2>6, <2>7, <3>1
  <2>8. CASE d - 2 >= 5 /\ (d - 2 - 5) % 6 = 0
    <3>1. PICK i \in 5 .. r : i = d - 2
      BY <1>3, <1>9, <2>8
    <3>2. (i - 5) % 6 = 0 /\ i + 2 = d
      BY <1>3, <2>8, <3>1
    <3> QED
      BY <1>3, <2>6, <3>2
  <2> QED
    BY <2>4, <2>7, <2>8
<1> QED
  BY <1>11, <1>12

LEMMA PrimesPass ==
  ASSUME NEW m \in Nat, m > 1, Undivided(m)
  PROVE  Table1!IsPrime(m)
<1>1. CASE m <= 3
  BY <1>1 DEF Table1!IsPrime
<1>2. CASE m > 3
  <2>1. 2 \in 2 .. m - 1 /\ 3 \in 2 .. m - 1
    BY <1>2
  <2>2. m % 2 # 0 /\ m % 3 # 0
    BY <2>1 DEF Undivided
  <2>3. PICK r : r = Table1!CeilSqrt(m) /\ r \in 0 .. m /\ \A s \in 0 .. r - 1 : s * s < m
    BY RootExists, Zenon
  <2>4. ASSUME NEW i \in 5 .. r PROVE m % i # 0 /\ m % (i + 2) # 0
    <3>1. PICK s \in 0 .. r - 1 : s = r - 1 /\ s >= 4
      BY <2>3
    <3>2. s * s < m
      BY <2>3
    <3>3. s * s >= 4 * s
      BY <3>1
    <3>4. r + 2 < m
      BY <2>3, <3>1, <3>2, <3>3
    <3>5. i \in 2 .. m - 1 /\ i + 2 \in 2 .. m - 1
      BY <2>3, <3>4
    <3> QED
      BY <3>5 DEF Undivided
  <2> QED
    BY <1>2, <2>2, <2>3, <2>4, Zenon DEF Table1!IsPrime
<1> QED
  BY <1>1, <1>2

\* There are primes beyond every number (Euclid).
LEMMA ProductOfAll ==
  ASSUME NEW c \in Nat
  PROVE  \E m \in Nat \ {0} : \A k \in 1 .. c : m % k = 0
<1> DEFINE S == Nat \ {0}
           step == [i \in 1 .. c |-> [x \in S |-> i * x]]
<1>1. step \in [1 .. c -> [S -> S]]
  <2>1. ASSUME NEW i \in 1 .. c, NEW x \in S PROVE i * x \in S
    <3>1. i \in Nat /\ i >= 1 /\ x \in Nat /\ x >= 1
      OBVIOUS
    <3>2. i * x >= 1 /\ i * x \in Nat
      BY <3>1
    <3> QED
      BY <3>2
  <2> QED
    BY <2>1
<1>2. 1 \in S
  OBVIOUS
<1>3. PICK f : History(S, 1, c, step, f)
  <2>1. Loops(S, 1, c, step)
    BY <1>1, <1>2 DEF Loops
  <2> HIDE DEF S, step
  <2> QED
    BY <2>1, LoopExists
<1>4. f \in [0 .. c -> S] /\ \A i \in 1 .. c : f[i] = step[i][f[i - 1]]
  BY <1>3 DEF History
<1>5. ASSUME NEW i \in 1 .. c PROVE i - 1 \in 0 .. c /\ f[i - 1] \in S /\ f[i] = i * f[i - 1]
  <2>1. i - 1 \in 0 .. c
    OBVIOUS
  <2>2. f[i - 1] \in S
    BY <1>4, <2>1
  <2>3. step[i][f[i - 1]] = i * f[i - 1]
    <3> HIDE DEF S
    <3> QED
      BY <2>2, Zenon
  <2> QED
    BY <1>4, <2>1, <2>2, <2>3
<1> DEFINE Bad == {i \in 0 .. c : ~ \A k \in 1 .. i : f[i] % k = 0}
<1>6. ASSUME Bad # {} PROVE FALSE
  <2>1. Bad \in SUBSET Nat
    OBVIOUS
  <2>2. PICK i \in Bad : \A j \in Bad : i <= j
    BY <1>6, <2>1, LeastNat
  <2>3. PICK k \in 1 .. i : f[i] % k # 0
    OBVIOUS
  <2>4. i \in 1 .. c /\ i - 1 \notin Bad /\ i - 1 \in 0 .. c
    <3>1. i \in 0 .. c /\ i # 0
      BY <2>3
    <3> HIDE DEF Bad
    <3> QED
      BY <2>2, <3>1
  <2>5. PICK x \in Nat : x = f[i - 1] /\ f[i] = i * x /\ i \in Nat \ {0}
    BY <1>5, <2>4
  <2>6. CASE k = i
    <3>1. i * x \in Nat /\ i * x = i * x
      BY <2>5
    <3>2. f[i] % i = 0
      BY <2>5, <3>1, Multiple
    <3> QED
      BY <2>3, <2>6, <3>2
  <2>7. CASE k # i
    <3>1. k \in 1 .. i - 1 /\ k \in Nat \ {0}
      BY <2>3, <2>4, <2>7
    <3>2. x % k = 0
      BY <2>4, <2>5, <3>1
    <3>3. PICK a \in Nat : x = k * a
      BY <2>5, <3>1, <3>2, Divides
    <3>4. PICK y \in Nat : y = i * a
      BY <2>5
    <3>5. f[i] = k * y /\ f[i] \in Nat
      BY <2>5, <3>1, <3>3, <3>4
    <3>6. f[i] % k = 0
      BY <3>1, <3>5, Multiple
    <3> QED
      BY <2>3, <3>6
  <2> QED
    BY <2>6, <2>7
<1>7. c \notin Bad /\ c \in 0 .. c
  <2> HIDE DEF Bad
  <2> QED
    BY <1>6
<1>8. f[c] \in S /\ \A k \in 1 .. c : f[c] % k = 0
  BY <1>4, <1>7
<1> QED
  BY <1>8

LEMMA PrimeBeyond ==
  ASSUME NEW c \in Nat
  PROVE  \E q \in Nat : q > c /\ q > 1 /\ Undivided(q)
<1>1. PICK m \in Nat \ {0} : \A k \in 1 .. c : m % k = 0
  BY ProductOfAll
<1>2. PICK z \in Nat : z = m + 1 /\ z >= 2
  BY <1>1
<1> DEFINE Divisors == {d \in 2 .. z : z % d = 0}
<1>3. z \in Divisors /\ Divisors \in SUBSET Nat
  <2>1. z % z = 0
    BY <1>2
  <2> QED
    BY <1>2, <2>1
<1>4. PICK q \in Divisors : \A d \in Divisors : q <= d
  BY <1>3, LeastNat
<1>5. q \in Nat \ {0} /\ q >= 2 /\ q <= z /\ z % q = 0
  BY <1>4
<1>6. PICK e \in Nat : z = q * e
  BY <1>5, Divides
<1>7. Undivided(q)
  <2>1. SUFFICES ASSUME NEW k \in 2 .. q - 1 PROVE q % k # 0
    BY DEF Undivided
  <2>2. k \in Nat \ {0} /\ k \in 2 .. z
    BY <1>5
  <2>3. k \notin Divisors
    <3> HIDE DEF Divisors
    <3> QED
      BY <1>4, <1>5
  <2>4. z % k # 0
    BY <2>2, <2>3
  <2> QED
    BY <1>2, <1>5, <1>6, <2>2, <2>4, DivisorOfDivisor, Zenon
<1>8. q > c
  <2>1. SUFFICES ASSUME q <= c PROVE FALSE
    BY <1>5
  <2>2. m % q = 0 /\ m \in Nat
    BY <1>1, <1>5, <2>1
  <2>3. PICK a \in Nat : m = q * a
    BY <1>5, <2>2, Divides
  <2>4. PICK b \in Int : b = e - a
    BY <1>6, <2>3
  <2>5. q * b = 1
    BY <1>2, <1>5, <1>6, <2>3, <2>4
  <2>6. CASE b >= 1
    <3>1. q * b >= 2 * b
      BY <1>5, <2>6
    <3> QED
      BY <2>5, <2>6, <3>1
  <2>7. CASE b <= 0
    <3>1. q * b <= 0
      BY <1>5, <2>7
    <3> QED
      BY <2>5, <3>1
  <2> QED
    BY <2>6, <2>7
<1> QED
  BY <1>5, <1>7, <1>8

(***************************************************************************)
(* get_double_prime_number tries every second number.                      *)
(***************************************************************************)
\* What it can find from m on
Ahead(m) == {q \in Nat : q >= m /\ (q - m) % 2 = 0 /\ Table1!IsPrime(q)}

Search(f) == [m \in Nat |-> IF Table1!IsPrime(m) THEN m ELSE f[m + 2]]

LEMMA SearchExists == \E f : f = Search(f)
<1> DEFINE f == [m \in Nat |-> CHOOSE q \in Ahead(m) : \A k \in Ahead(m) : q <= k]
<1>1. ASSUME NEW m \in Nat PROVE f[m] = IF Table1!IsPrime(m) THEN m ELSE f[m + 2]
  <2>1. CASE Table1!IsPrime(m)
    <3>1. m \in Ahead(m) /\ \A k \in Ahead(m) : k \in Nat /\ m <= k
      BY <2>1 DEF Ahead
    <3>2. \A q \in Ahead(m) : (\A k \in Ahead(m) : q <= k) => q = m
      BY <3>1
    <3>3. (CHOOSE q \in Ahead(m) : \A k \in Ahead(m) : q <= k) = m
      BY <3>1, <3>2
    <3> QED
      BY <2>1, <3>3
  <2>2. CASE ~ Table1!IsPrime(m)
    <3>1. ASSUME NEW q \in Nat, q # m PROVE q >= m /\ (q - m) % 2 = 0 <=> q >= m + 2 /\ (q - (m + 2)) % 2 = 0
      BY <3>1
    <3>2. ASSUME NEW q \in Nat PROVE q \in Ahead(m) <=> q \in Ahead(m + 2)
      <4>1. CASE q = m
        <5>1. ~ (q >= m + 2)
          BY <4>1
        <5> QED
          BY <2>2, <4>1, <5>1 DEF Ahead
      <4>2. CASE q # m
        BY <3>1, <4>2 DEF Ahead
      <4> QED
        BY <4>1, <4>2
    <3>3. Ahead(m) = Ahead(m + 2)
      BY <3>2 DEF Ahead
    <3>4. PICK x \in Nat : x = m + 2
      OBVIOUS
    <3>5. f[x] = CHOOSE q \in Ahead(x) : \A k \in Ahead(x) : q <= k
      BY Zenon
    <3>6. f[m] = CHOOSE q \in Ahead(m) : \A k \in Ahead(m) : q <= k
      BY Zenon
    <3>7. f[m] = f[x]
      <4> HIDE DEF f
      <4> QED
        BY <3>3, <3>4, <3>5, <3>6, Zenon
    <3> HIDE DEF f
    <3> QED
      BY <2>2, <3>4, <3>7, Zenon
  <2> QED
    BY <2>1, <2>2
<1>2. f = [m \in Nat |-> f[m]]
  OBVIOUS
<1> HIDE DEF f
<1>3. f = Search(f)
  BY <1>1, <1>2, Zenon DEF Search
<1> QED
  BY <1>3, Zenon

LEMMA SearchFinds ==
  ASSUME NEW f, f = Search(f), NEW m \in Nat, Ahead(m) # {}
  PROVE  f[m] \in Ahead(m)
<1>1. ASSUME NEW x \in Nat PROVE f[x] = IF Table1!IsPrime(x) THEN x ELSE f[x + 2]
  <2>1. Search(f)[x] = IF Table1!IsPrime(x) THEN x ELSE f[x + 2]
    BY DEF Search
  <2> QED
    BY <2>1, Zenon
<1>2. Ahead(m) \in SUBSET Nat
  BY DEF Ahead
<1>3. PICK q \in Ahead(m) : \A k \in Ahead(m) : q <= k
  BY <1>2, LeastNat
<1>4. q \in Nat /\ q >= m /\ (q - m) % 2 = 0 /\ Table1!IsPrime(q)
  BY <1>3 DEF Ahead
<1>5. PICK h \in Nat : q - m = 2 * h
  <2>1. q - m \in Nat /\ 2 \in Nat \ {0}
    BY <1>4
  <2> QED
    BY <1>4, <2>1, Divides
<1> DEFINE Bad == {j \in 0 .. h : f[q - 2 * j] # q}
<1>6. ASSUME Bad # {} PROVE FALSE
  <2>1. Bad \in SUBSET Nat
    BY <1>5
  <2>2. PICK j \in Bad : \A i \in Bad : j <= i
    BY <1>6, <2>1, LeastNat
  <2>3. j \in 0 .. h /\ f[q - 2 * j] # q
    OBVIOUS
  <2>4. j # 0
    <3>1. SUFFICES ASSUME j = 0 PROVE f[q - 2 * j] = q
      BY <2>3
    <3>2. q - 2 * j = q
      BY <1>4, <3>1
    <3> QED
      BY <1>1, <1>4, <3>2, Zenon
  <2>5. j - 1 \in 0 .. h /\ j - 1 \notin Bad
    <3> HIDE DEF Bad
    <3> QED
      BY <1>5, <2>2, <2>3, <2>4
  <2>6. PICK x \in Nat : x = q - 2 * j /\ x >= m /\ x < q /\ x + 2 = q - 2 * (j - 1) /\ x - m = 2 * (h - j)
    BY <1>4, <1>5, <2>3, <2>4
  <2>7. ~ Table1!IsPrime(x)
    <3>1. (x - m) % 2 = 0
      BY <1>5, <2>3, <2>6
    <3>2. x \notin Ahead(m)
      BY <1>3, <1>4, <2>6
    <3> QED
      BY <2>6, <3>1, <3>2 DEF Ahead
  <2>8. f[x] = f[x + 2]
    BY <1>1, <2>7
  <2>9. f[q - 2 * (j - 1)] = q
    BY <2>5
  <2> QED
    BY <2>3, <2>6, <2>8, <2>9
<1>7. f[m] = q
  <2>1. h \in 0 .. h /\ h \notin Bad
    <3> HIDE DEF Bad
    <3> QED
      BY <1>5, <1>6
  <2>2. q - 2 * h = m
    BY <1>4, <1>5
  <2> QED
    BY <2>1, <2>2
<1> QED
  BY <1>3, <1>7

LEMMA DoublesToPrime ==
  ASSUME NEW n \in Nat \ {0}
  PROVE  LET m == Table1!DoublePrime(n)
         IN  m \in Nat /\ m > n /\ m > 1 /\ Undivided(m)
<1>1. PICK c \in Nat : c = 2 * n /\ c >= 2
  OBVIOUS
<1>2. PICK q \in Nat : q > c /\ q > 1 /\ Undivided(q)
  BY PrimeBeyond
<1>3. q % 2 # 0
  <2>1. 2 \in 2 .. q - 1
    BY <1>1, <1>2
  <2> QED
    BY <1>2, <2>1 DEF Undivided
<1>4. q >= 2 * n + 1 /\ (q - (2 * n + 1)) % 2 = 0
  BY <1>1, <1>2, <1>3
<1>5. q \in Ahead(2 * n + 1)
  BY <1>2, <1>4, PrimesPass DEF Ahead
<1>6. PICK f : f = Search(f) /\ Table1!DoublePrime(n) = f[2 * n + 1]
  <2>1. \E f : f = Search(f)
    BY SearchExists
  <2> QED
    BY <2>1, Zenon DEF Table1!DoublePrime, Search
<1>7. 2 * n + 1 \in Nat /\ Ahead(2 * n + 1) # {}
  BY <1>5
<1>8. f[2 * n + 1] \in Ahead(2 * n + 1)
  BY <1>6, <1>7, SearchFinds
<1>9. PICK m : m = Table1!DoublePrime(n)
  OBVIOUS
<1>10. m \in Nat /\ m >= 2 * n + 1 /\ Table1!IsPrime(m)
  BY <1>6, <1>8, <1>9 DEF Ahead
<1>11. m > n /\ m > 1
  BY <1>10
<1> QED
  BY <1>9, <1>10, <1>11, TrialDivision

-----------------------------------------------------------------------------
(***************************************************************************)
(* threadsafe_lookup_table1.h: the buckets.  Each holds, once, the values  *)
(* of the table whose hash leads to it; what the loops of do_rehash visit  *)
(* are the values of the table, once, and where they put them is where     *)
(* their hash leads among the new buckets.                                 *)
(***************************************************************************)
\* Two chains without a common node, one after the other
Apart(D, s, t) == /\ s \in Seq(D) /\ t \in Seq(D) /\ Injective(s) /\ Injective(t)
                  /\ NodeSet(s) \cap NodeSet(t) = {}

LEMMA NodesConcat ==
  ASSUME NEW D, NEW s, NEW t, Apart(D, s, t)
  PROVE  s \o t \in Seq(D) /\ Injective(s \o t) /\ NodeSet(s \o t) = NodeSet(s) \cup NodeSet(t)
<1> /\ s \in Seq(D) /\ t \in Seq(D) /\ Injective(s) /\ Injective(t)
    /\ NodeSet(s) \cap NodeSet(t) = {}
  BY DEF Apart
<1>1. PICK z : z = s \o t
  OBVIOUS
<1>2. /\ z \in Seq(D) /\ Len(z) = Len(s) + Len(t) /\ Len(s) \in Nat /\ Len(t) \in Nat
      /\ \A i \in 1 .. Len(z) : z[i] = IF i <= Len(s) THEN s[i] ELSE t[i - Len(s)]
  BY <1>1, ConcatProperties
<1>3. ASSUME NEW i \in 1 .. Len(z)
      PROVE  \/ i \in 1 .. Len(s) /\ z[i] = s[i] /\ z[i] \in NodeSet(s)
             \/ i - Len(s) \in 1 .. Len(t) /\ z[i] = t[i - Len(s)] /\ z[i] \in NodeSet(t)
  <2>1. CASE i <= Len(s)
    BY <1>2, <2>1 DEF NodeSet
  <2>2. CASE ~ (i <= Len(s))
    <3>1. i - Len(s) \in 1 .. Len(t)
      BY <1>2, <2>2
    <3> QED
      BY <1>2, <2>2, <3>1 DEF NodeSet
  <2> QED
    BY <2>1, <2>2
<1>4. Injective(z)
  <2>1. ASSUME NEW i \in 1 .. Len(z), NEW j \in 1 .. Len(z), z[i] = z[j] PROVE i = j
    <3>1. CASE i \in 1 .. Len(s) /\ z[i] = s[i] /\ z[i] \in NodeSet(s)
      <4>1. j \in 1 .. Len(s) /\ z[j] = s[j]
        BY <1>3, <2>1, <3>1
      <4> QED
        BY <2>1, <3>1, <4>1 DEF Injective
    <3>2. CASE i - Len(s) \in 1 .. Len(t) /\ z[i] = t[i - Len(s)] /\ z[i] \in NodeSet(t)
      <4>1. j - Len(s) \in 1 .. Len(t) /\ z[j] = t[j - Len(s)]
        BY <1>3, <2>1, <3>2
      <4>2. i - Len(s) = j - Len(s)
        BY <2>1, <3>2, <4>1 DEF Injective
      <4> QED
        BY <1>2, <4>2
    <3> QED
      BY <1>3, <3>1, <3>2
  <2> QED
    BY <2>1 DEF Injective
<1>5. NodeSet(z) = NodeSet(s) \cup NodeSet(t)
  <2>1. ASSUME NEW x \in NodeSet(z) PROVE x \in NodeSet(s) \cup NodeSet(t)
    <3>1. PICK i \in 1 .. Len(z) : x = z[i]
      BY DEF NodeSet
    <3> QED
      BY <1>3, <3>1
  <2>2. ASSUME NEW i \in 1 .. Len(s) PROVE s[i] \in NodeSet(z)
    <3>1. i \in 1 .. Len(z) /\ i <= Len(s)
      BY <1>2
    <3>2. z[i] = s[i]
      BY <1>2, <3>1
    <3> QED
      BY <3>1, <3>2 DEF NodeSet
  <2>3. ASSUME NEW i \in 1 .. Len(t) PROVE t[i] \in NodeSet(z)
    <3>0. i + Len(s) \in 1 .. Len(z)
      BY <1>2
    <3>1. PICK j \in 1 .. Len(z) : j = i + Len(s) /\ ~ (j <= Len(s)) /\ j - Len(s) = i
      BY <1>2, <3>0
    <3>2. z[j] = t[i]
      BY <1>2, <3>1
    <3> QED
      BY <3>1, <3>2 DEF NodeSet
  <2>4. \A x \in NodeSet(s) : \E i \in 1 .. Len(s) : x = s[i]
    BY DEF NodeSet
  <2>5. \A x \in NodeSet(t) : \E i \in 1 .. Len(t) : x = t[i]
    BY DEF NodeSet
  <2> QED
    BY <2>1, <2>2, <2>3, <2>4, <2>5
<1> QED
  BY <1>1, <1>2, <1>4, <1>5

\* n buckets that hold the values C, each where its remainder says and once
Placed(bs, n, C) ==
    /\ n \in Nat \ {0} /\ C \in SUBSET Nat /\ bs \in [0 .. n - 1 -> Seq(Nat)]
    /\ \A b \in 0 .. n - 1 : Injective(bs[b]) /\ NodeSet(bs[b]) = {v \in C : v % n = b}

LEMMA CountIs ==
  ASSUME NEW bs, NEW n \in Nat \ {0}, DOMAIN bs = 0 .. n - 1
  PROVE  Table1!Count(bs) = n
<1>1. Cardinality(0 .. n - 1) = n
  <2>1. Cardinality(0 .. n - 1) = IF 0 > n - 1 THEN 0 ELSE n - 1 - 0 + 1
    BY FS_Interval
  <2> QED
    BY <2>1
<1> QED
  BY <1>1 DEF Table1!Count, Table1!Cardinality, Cardinality

\* from[b] of InOrder
Rest(bs, n, f) == [b \in 0 .. n |-> IF b = n THEN <<>> ELSE bs[b] \o f[b + 1]]

LEMMA RestExists ==
  ASSUME NEW bs, NEW n \in Nat \ {0}, bs \in [0 .. n - 1 -> Seq(Nat)]
  PROVE  \E f : f = Rest(bs, n, f)
<1> DEFINE step == [i \in 1 .. n |-> [x \in Seq(Nat) |-> bs[n - i] \o x]]
<1>1. step \in [1 .. n -> [Seq(Nat) -> Seq(Nat)]]
  <2>1. ASSUME NEW i \in 1 .. n, NEW x \in Seq(Nat) PROVE bs[n - i] \o x \in Seq(Nat)
    <3>1. n - i \in 0 .. n - 1
      OBVIOUS
    <3>2. bs[n - i] \in Seq(Nat)
      BY <3>1
    <3> QED
      BY <3>2, ConcatProperties
  <2> QED
    BY <2>1
<1>2. <<>> \in Seq(Nat)
  OBVIOUS
<1>3. n \in Nat
  OBVIOUS
<1> HIDE DEF step
<1>4. PICK g \in [0 .. n -> Seq(Nat)] : g[0] = <<>> /\ \A i \in 1 .. n : g[i] = step[i][g[i - 1]]
  <2>1. Loops(Seq(Nat), <<>>, n, step)
    BY <1>1, <1>2, <1>3 DEF Loops
  <2>2. PICK g : History(Seq(Nat), <<>>, n, step, g)
    BY <2>1, LoopExists
  <2> QED
    BY <2>2 DEF History
<1> DEFINE f == [b \in 0 .. n |-> g[n - b]]
<1>5. ASSUME NEW b \in 0 .. n PROVE f[b] = IF b = n THEN <<>> ELSE bs[b] \o f[b + 1]
  <2>1. CASE b = n
    <3>1. n - b = 0
      BY <2>1
    <3> QED
      BY <1>4, <2>1, <3>1
  <2>2. CASE b # n
    <3>1. PICK i \in 1 .. n : i = n - b /\ n - i = b /\ n - (b + 1) = i - 1 /\ b + 1 \in 0 .. n /\ i - 1 \in 0 .. n
      BY <2>2
    <3>2. f[b] = g[i] /\ f[b + 1] = g[i - 1] /\ g[i - 1] \in Seq(Nat)
      BY <1>4, <3>1
    <3>3. g[i] = step[i][g[i - 1]]
      BY <1>4
    <3>4. step[i][g[i - 1]] = bs[n - i] \o g[i - 1]
      BY <3>2, Zenon DEF step
    <3> QED
      BY <2>2, <3>1, <3>2, <3>3, <3>4, Zenon
  <2> QED
    BY <2>1, <2>2
<1>6. f = Rest(bs, n, f)
  <2>1. f = [b \in 0 .. n |-> f[b]]
    OBVIOUS
  <2> HIDE DEF f
  <2> QED
    BY <1>5, <2>1, Zenon DEF Rest
<1> QED
  BY <1>6

LEMMA InOrderIs ==
  ASSUME NEW bs, NEW n \in Nat \ {0}, bs \in [0 .. n - 1 -> Seq(Nat)]
  PROVE  \E f : f = Rest(bs, n, f) /\ Table1!InOrder(bs) = f[0]
<1>1. \E f : f = Rest(bs, n, f)
  BY RestExists
<1>2. Table1!Count(bs) = n
  BY CountIs
<1> QED
  BY <1>1, <1>2, Zenon DEF Table1!InOrder, Rest

LEMMA Remainder ==
  ASSUME NEW v \in Nat, NEW n \in Nat \ {0}
  PROVE  v % n \in 0 .. n - 1
OBVIOUS

\* s goes through the values C, each of them once.
Enumerates(s, C) == s \in Seq(Nat) /\ Injective(s) /\ NodeSet(s) = C

LEMMA InOrderHolds ==
  ASSUME NEW bs, NEW n, NEW C, Placed(bs, n, C)
  PROVE  Enumerates(Table1!InOrder(bs), C)
<1>0. /\ n \in Nat \ {0} /\ n \in Nat /\ C \in SUBSET Nat /\ bs \in [0 .. n - 1 -> Seq(Nat)]
      /\ \A b \in 0 .. n - 1 : Injective(bs[b]) /\ NodeSet(bs[b]) = {v \in C : v % n = b}
  BY DEF Placed
<1>1. PICK f : f = Rest(bs, n, f) /\ Table1!InOrder(bs) = f[0]
  BY <1>0, InOrderIs
<1>2. ASSUME NEW b \in 0 .. n PROVE f[b] = IF b = n THEN <<>> ELSE bs[b] \o f[b + 1]
  <2>1. Rest(bs, n, f)[b] = IF b = n THEN <<>> ELSE bs[b] \o f[b + 1]
    BY DEF Rest
  <2> QED
    BY <1>1, <2>1, Zenon
<1>3. PICK rem \in [C -> 0 .. n - 1] : \A v \in C : v % n = rem[v]
  <2> DEFINE rem == [v \in C |-> v % n]
  <2>1. rem \in [C -> 0 .. n - 1]
    BY <1>0, Remainder
  <2>2. \A v \in C : v % n = rem[v]
    OBVIOUS
  <2> HIDE DEF rem
  <2> QED
    BY <2>1, <2>2
<1> DEFINE From(b) == {v \in C : rem[v] >= b}
           Bad == {k \in 0 .. n : ~ Enumerates(f[n - k], From(n - k))}
<1>4. ASSUME Bad # {} PROVE FALSE
  <2>1. Bad \in SUBSET Nat
    BY <1>0
  <2>2. PICK k \in Bad : \A j \in Bad : k <= j
    BY <1>4, <2>1, LeastNat
  <2>3. k \in 0 .. n /\ k \in Nat /\ ~ Enumerates(f[n - k], From(n - k))
    OBVIOUS
  <2>4. CASE k = 0
    <3>1. n - k = n /\ n \in 0 .. n
      BY <1>0, <2>4
    <3>2. f[n - k] = <<>>
      BY <1>2, <3>1
    <3>3. From(n - k) = {}
      <4>1. \A v \in C : ~ (rem[v] >= n)
        BY <1>0, <1>3
      <4> QED
        BY <3>1, <4>1
    <3>4. Enumerates(<<>>, {})
      BY DEF Enumerates, Injective, NodeSet
    <3> QED
      BY <2>3, <3>2, <3>3, <3>4
  <2>5. CASE k # 0
    <3>1. k - 1 \in 0 .. n /\ k - 1 \notin Bad
      <4> HIDE DEF Bad
      <4> QED
        BY <1>0, <2>2, <2>3, <2>5
    <3>2. PICK b \in 0 .. n - 1 : b = n - k /\ b + 1 = n - (k - 1) /\ b # n /\ b \in 0 .. n
      BY <1>0, <2>3, <2>5
    <3>3. Enumerates(f[b + 1], From(b + 1))
      BY <3>1, <3>2
    <3>4. f[b] = bs[b] \o f[b + 1]
      BY <1>2, <3>2
    <3>5. /\ bs[b] \in Seq(Nat) /\ Injective(bs[b]) /\ NodeSet(bs[b]) = {v \in C : rem[v] = b}
          /\ f[b + 1] \in Seq(Nat) /\ Injective(f[b + 1]) /\ NodeSet(f[b + 1]) = From(b + 1)
      <4>1. NodeSet(bs[b]) = {v \in C : v % n = b}
        BY <1>0
      <4>2. {v \in C : v % n = b} = {v \in C : rem[v] = b}
        BY <1>3
      <4> QED
        BY <1>0, <3>3, <4>1, <4>2 DEF Enumerates
    <3>6. NodeSet(bs[b]) \cap NodeSet(f[b + 1]) = {}
      <4>1. \A v \in C : rem[v] = b => ~ (rem[v] >= b + 1)
        BY <1>0
      <4> QED
        BY <3>5, <4>1
    <3>7. PICK z \in Seq(Nat) : /\ z = bs[b] \o f[b + 1] /\ Injective(z)
                                /\ NodeSet(z) = NodeSet(bs[b]) \cup NodeSet(f[b + 1])
      <4>1. Apart(Nat, bs[b], f[b + 1])
        BY <3>5, <3>6 DEF Apart
      <4>2. PICK z : z = bs[b] \o f[b + 1]
        OBVIOUS
      <4>3. z \in Seq(Nat) /\ Injective(z) /\ NodeSet(z) = NodeSet(bs[b]) \cup NodeSet(f[b + 1])
        BY <4>1, <4>2, NodesConcat
      <4> QED
        BY <4>2, <4>3
    <3>8. {v \in C : rem[v] = b} \cup From(b + 1) = From(b)
      <4>1. \A v \in C : rem[v] >= b <=> rem[v] = b \/ rem[v] >= b + 1
        BY <1>0, <1>3
      <4> QED
        BY <4>1
    <3>9. Enumerates(f[b], From(b))
      BY <3>4, <3>5, <3>7, <3>8, Zenon DEF Enumerates
    <3> QED
      BY <2>3, <3>2, <3>9
  <2> QED
    BY <2>4, <2>5
<1>5. n \in 0 .. n /\ n - n = 0
  BY <1>0
<1>6. Enumerates(f[n - n], From(n - n))
  <2>1. n \notin Bad
    <3> HIDE DEF Bad
    <3> QED
      BY <1>4
  <2> QED
    BY <1>5, <2>1
<1>7. From(0) = C
  <2>1. \A v \in C : rem[v] >= 0
    BY <1>0, <1>3
  <2> QED
    BY <2>1
<1> HIDE DEF From
<1> QED
  BY <1>1, <1>5, <1>6, <1>7

\* Append and erase in one bucket
LEMMA Appended ==
  ASSUME NEW m \in Seq(Nat), Injective(m), NEW v \in Nat, v \notin NodeSet(m)
  PROVE  /\ Append(m, v) \in Seq(Nat) /\ Injective(Append(m, v))
         /\ NodeSet(Append(m, v)) = NodeSet(m) \cup {v}
<1>1. PICK z \in Seq(Nat) :
        /\ Injective(z) /\ NodeSet(z) = NodeSet(m) \cup {v}
        /\ Len(z) = Len(m) + 1 /\ z[Len(m) + 1] = v /\ \A i \in 1 .. Len(m) : z[i] = m[i]
  BY NodesAppend
<1>2. PICK y : y = Append(m, v)
  OBVIOUS
<1>3. y \in Seq(Nat) /\ Len(y) = Len(m) + 1 /\ y[Len(m) + 1] = v /\ \A i \in 1 .. Len(m) : y[i] = m[i]
  BY <1>2, AppendProperties
<1>4. ASSUME NEW i \in 1 .. Len(z) PROVE z[i] = y[i]
  <2>1. i \in 1 .. Len(m) \/ i = Len(m) + 1
    BY <1>1
  <2> QED
    BY <1>1, <1>3, <2>1
<1>5. z = y
  BY <1>1, <1>3, <1>4, SeqEqual, Zenon
<1> QED
  BY <1>1, <1>2, <1>5

\* The index of the first v
FirstAt(m, v) == CHOOSE j \in 1 .. Len(m) : m[j] = v /\ \A k \in 1 .. j - 1 : m[k] # v

LEMMA FirstExists ==
  ASSUME NEW D, NEW m \in Seq(D), NEW v, v \in NodeSet(m)
  PROVE  /\ FirstAt(m, v) \in 1 .. Len(m) /\ m[FirstAt(m, v)] = v
         /\ \A k \in 1 .. FirstAt(m, v) - 1 : m[k] # v
<1>1. PICK T : T = {j \in 1 .. Len(m) : m[j] = v}
  OBVIOUS
<1>2. T \in SUBSET Nat /\ T # {}
  BY <1>1 DEF NodeSet
<1>3. PICK i \in T : \A j \in T : i <= j
  BY <1>2, LeastNat
<1>4. ASSUME NEW k \in 1 .. i - 1 PROVE m[k] # v
  <2>1. k \in 1 .. Len(m) /\ ~ (i <= k)
    BY <1>1, <1>2, <1>3
  <2> QED
    BY <1>1, <1>3, <2>1
<1>5. \E j \in 1 .. Len(m) : m[j] = v /\ \A k \in 1 .. j - 1 : m[k] # v
  BY <1>1, <1>3, <1>4
<1> QED
  BY <1>5, Zenon DEF FirstAt

\* There is no other first one.
LEMMA FirstIs ==
  ASSUME NEW D, NEW m \in Seq(D), NEW v, NEW i \in 1 .. Len(m), m[i] = v,
         \A k \in 1 .. i - 1 : m[k] # v
  PROVE  FirstAt(m, v) = i
<1>1. PICK j : j = FirstAt(m, v)
  OBVIOUS
<1>2. v \in NodeSet(m)
  BY DEF NodeSet
<1>3. j \in 1 .. Len(m) /\ m[j] = v /\ \A k \in 1 .. j - 1 : m[k] # v
  BY <1>1, <1>2, FirstExists
<1>4. ~ (i < j) /\ ~ (j < i)
  BY <1>3
<1> QED
  BY <1>1, <1>3, <1>4

LEMMA EraseIs ==
  ASSUME NEW m, NEW v
  PROVE  Table1!BucketErase(m, v) = Deques!Without(m, FirstAt(m, v))
BY Zenon DEF Table1!BucketErase, Deques!Without, FirstAt

LEMMA Erased ==
  ASSUME NEW m \in Seq(Nat), Injective(m), NEW v \in NodeSet(m)
  PROVE  /\ Table1!BucketErase(m, v) \in Seq(Nat) /\ Injective(Table1!BucketErase(m, v))
         /\ NodeSet(Table1!BucketErase(m, v)) = NodeSet(m) \ {v}
<1>1. PICK i : i = FirstAt(m, v)
  OBVIOUS
<1>2. i \in 1 .. Len(m) /\ m[i] = v
  BY <1>1, FirstExists
<1>3. PICK y : y = Deques!Without(m, i)
  OBVIOUS
<1>4. Table1!BucketErase(m, v) = y
  BY <1>1, <1>3, EraseIs
<1>5. y \in Seq(Nat) /\ Injective(y) /\ NodeSet(y) = NodeSet(m) \ {m[i]}
  BY <1>2, <1>3, NodesWithout
<1> QED
  BY <1>2, <1>4, <1>5

LEMMA PlacedAdds ==
  ASSUME NEW bs, NEW n, NEW C, Placed(bs, n, C), NEW v \in Nat, v \notin C
  PROVE  Placed([bs EXCEPT ![v % n] = Append(bs[v % n], v)], n, C \cup {v})
<1>0. /\ n \in Nat \ {0} /\ n \in Nat /\ C \in SUBSET Nat /\ bs \in [0 .. n - 1 -> Seq(Nat)]
      /\ \A b \in 0 .. n - 1 : Injective(bs[b]) /\ NodeSet(bs[b]) = {w \in C : w % n = b}
  BY DEF Placed
<1>1. PICK h \in 0 .. n - 1 : h = v % n
  <2>1. v % n \in 0 .. n - 1
    BY <1>0, Remainder
  <2> QED
    BY <2>1
<1>2. PICK y : y = Append(bs[h], v)
  OBVIOUS
<1>3. bs[h] \in Seq(Nat) /\ Injective(bs[h]) /\ v \notin NodeSet(bs[h])
  BY <1>0
<1>4. y \in Seq(Nat) /\ Injective(y) /\ NodeSet(y) = NodeSet(bs[h]) \cup {v}
  BY <1>2, <1>3, Appended
<1>5. PICK bs2 : bs2 = [bs EXCEPT ![h] = y]
  OBVIOUS
<1>6. /\ bs2 \in [0 .. n - 1 -> Seq(Nat)]
      /\ \A b \in 0 .. n - 1 : bs2[b] = IF b = h THEN y ELSE bs[b]
  BY <1>0, <1>4, <1>5
<1>7. ASSUME NEW b \in 0 .. n - 1
      PROVE  Injective(bs2[b]) /\ NodeSet(bs2[b]) = {w \in C \cup {v} : w % n = b}
  <2>1. CASE b = h
    BY <1>0, <1>1, <1>4, <1>6, <2>1
  <2>2. CASE b # h
    BY <1>0, <1>1, <1>6, <2>2
  <2> QED
    BY <2>1, <2>2
<1>8. Placed(bs2, n, C \cup {v})
  BY <1>0, <1>6, <1>7 DEF Placed
<1> QED
  BY <1>1, <1>2, <1>5, <1>8

LEMMA PlacedErases ==
  ASSUME NEW bs, NEW n, NEW C, Placed(bs, n, C), NEW v \in C
  PROVE  Placed([bs EXCEPT ![v % n] = Table1!BucketErase(bs[v % n], v)], n, C \ {v})
<1>0. /\ n \in Nat \ {0} /\ n \in Nat /\ C \in SUBSET Nat /\ bs \in [0 .. n - 1 -> Seq(Nat)]
      /\ \A b \in 0 .. n - 1 : Injective(bs[b]) /\ NodeSet(bs[b]) = {w \in C : w % n = b}
  BY DEF Placed
<1>1. PICK h \in 0 .. n - 1 : h = v % n
  <2>1. v % n \in 0 .. n - 1
    BY <1>0, Remainder
  <2> QED
    BY <2>1
<1>2. PICK y : y = Table1!BucketErase(bs[h], v)
  OBVIOUS
<1>3. bs[h] \in Seq(Nat) /\ Injective(bs[h]) /\ v \in NodeSet(bs[h])
  BY <1>0, <1>1
<1>4. y \in Seq(Nat) /\ Injective(y) /\ NodeSet(y) = NodeSet(bs[h]) \ {v}
  BY <1>2, <1>3, Erased
<1>5. PICK bs2 : bs2 = [bs EXCEPT ![h] = y]
  OBVIOUS
<1>6. /\ bs2 \in [0 .. n - 1 -> Seq(Nat)]
      /\ \A b \in 0 .. n - 1 : bs2[b] = IF b = h THEN y ELSE bs[b]
  BY <1>0, <1>4, <1>5
<1>7. ASSUME NEW b \in 0 .. n - 1
      PROVE  Injective(bs2[b]) /\ NodeSet(bs2[b]) = {w \in C \ {v} : w % n = b}
  <2>1. CASE b = h
    BY <1>0, <1>1, <1>4, <1>6, <2>1
  <2>2. CASE b # h
    BY <1>0, <1>1, <1>6, <2>2
  <2> QED
    BY <2>1, <2>2
<1>8. Placed(bs2, n, C \ {v})
  BY <1>0, <1>6, <1>7 DEF Placed
<1> QED
  BY <1>1, <1>2, <1>5, <1>8

\* moved of Spread, with n buckets
Moved(bs, s, n, f) == [i \in 0 .. Len(s) |->
                          IF i = 0 THEN bs ELSE [f[i - 1] EXCEPT ![s[i] % n] = Append(@, s[i])]]

LEMMA PutInBucket ==
  ASSUME NEW n \in Nat \ {0}, NEW x \in [0 .. n - 1 -> Seq(Nat)], NEW v \in Nat
  PROVE  [x EXCEPT ![v % n] = Append(@, v)] \in [0 .. n - 1 -> Seq(Nat)]
<1>1. PICK h \in 0 .. n - 1 : h = v % n
  <2>1. v % n \in 0 .. n - 1
    BY Remainder
  <2> QED
    BY <2>1
<1>2. Append(x[h], v) \in Seq(Nat)
  BY AppendProperties
<1> QED
  BY <1>1, <1>2

LEMMA MovedExists ==
  ASSUME NEW s \in Seq(Nat), NEW n \in Nat \ {0}, NEW bs \in [0 .. n - 1 -> Seq(Nat)]
  PROVE  \E f : f = Moved(bs, s, n, f)
<1> DEFINE V == [0 .. n - 1 -> Seq(Nat)]
           step == [i \in 1 .. Len(s) |-> [x \in V |-> [x EXCEPT ![s[i] % n] = Append(@, s[i])]]]
<1>0. Len(s) \in Nat /\ \A i \in 1 .. Len(s) : s[i] \in Nat
  OBVIOUS
<1>1. bs \in V
  OBVIOUS
<1>2. step \in [1 .. Len(s) -> [V -> V]]
  <2>1. ASSUME NEW i \in 1 .. Len(s), NEW x \in V
        PROVE  [x EXCEPT ![s[i] % n] = Append(@, s[i])] \in V
    BY <1>0, PutInBucket
  <2> QED
    BY <2>1
<1>3. PICK f : History(V, bs, Len(s), step, f)
  <2>1. Loops(V, bs, Len(s), step)
    BY <1>0, <1>1, <1>2 DEF Loops
  <2> HIDE DEF V, step
  <2> QED
    BY <2>1, LoopExists
<1>4. f \in [0 .. Len(s) -> V] /\ f[0] = bs /\ \A i \in 1 .. Len(s) : f[i] = step[i][f[i - 1]]
  BY <1>3 DEF History
<1>5. ASSUME NEW i \in 0 .. Len(s)
      PROVE  f[i] = IF i = 0 THEN bs ELSE [f[i - 1] EXCEPT ![s[i] % n] = Append(@, s[i])]
  <2>1. CASE i = 0
    BY <1>4, <2>1
  <2>2. CASE i # 0
    <3>1. i \in 1 .. Len(s) /\ i - 1 \in 0 .. Len(s)
      BY <1>0, <2>2
    <3>2. f[i - 1] \in V /\ f[i] = step[i][f[i - 1]]
      BY <1>4, <3>1
    <3>3. step[i][f[i - 1]] = [f[i - 1] EXCEPT ![s[i] % n] = Append(@, s[i])]
      <4> HIDE DEF V
      <4> QED
        BY <3>1, <3>2, Zenon
    <3> QED
      BY <2>2, <3>2, <3>3, Zenon
  <2> QED
    BY <2>1, <2>2
<1>6. f = [i \in 0 .. Len(s) |-> f[i]]
  BY <1>4
<1>7. \A i \in 0 .. Len(s) :
         f[i] = IF i = 0 THEN bs
                ELSE [f[i - 1] EXCEPT ![s[i] % n] = Append(f[i - 1][s[i] % n], s[i])]
  BY <1>5, Zenon
<1> HIDE DEF V, step
<1>8. \A i \in 0 .. Len(s) : f[i] = Moved(bs, s, n, f)[i]
  BY <1>7, Zenon DEF Moved
<1>9. Moved(bs, s, n, f) = [i \in 0 .. Len(s) |-> Moved(bs, s, n, f)[i]]
  BY Zenon DEF Moved
<1>10. f = Moved(bs, s, n, f)
  BY <1>6, <1>8, <1>9, Zenon
<1> QED
  BY <1>10, Zenon

\* What f makes of the buckets bs in the rounds of Spread
Rounds(bs, s, n, f) ==
    /\ f[0] = bs
    /\ \A i \in 1 .. Len(s) : f[i] = [f[i - 1] EXCEPT ![s[i] % n] = Append(f[i - 1][s[i] % n], s[i])]

LEMMA SpreadIs ==
  ASSUME NEW s \in Seq(Nat), NEW n \in Nat \ {0}, NEW bs \in [0 .. n - 1 -> Seq(Nat)]
  PROVE  \E f : Rounds(bs, s, n, f) /\ Table1!Spread(s, bs) = f[Len(s)]
<1>1. \E f : f = Moved(bs, s, n, f)
  BY MovedExists
<1>2. Table1!Count(bs) = n
  BY CountIs
<1>3. PICK f : f = Moved(bs, s, n, f) /\ Table1!Spread(s, bs) = f[Len(s)]
  <2>1. \E f : f = Moved(bs, s, Table1!Count(bs), f)
    BY <1>1, <1>2
  <2>2. PICK f : f = Moved(bs, s, Table1!Count(bs), f) /\ Table1!Spread(s, bs) = f[Len(s)]
    BY <2>1, Zenon DEF Table1!Spread, Moved
  <2> QED
    BY <1>2, <2>2
<1>4. ASSUME NEW i \in 0 .. Len(s)
      PROVE  f[i] = IF i = 0 THEN bs
                    ELSE [f[i - 1] EXCEPT ![s[i] % n] = Append(f[i - 1][s[i] % n], s[i])]
  <2>1. Moved(bs, s, n, f)[i] = IF i = 0 THEN bs
                            ELSE [f[i - 1] EXCEPT ![s[i] % n] = Append(f[i - 1][s[i] % n], s[i])]
    BY Zenon DEF Moved
  <2> QED
    BY <1>3, <2>1, Zenon
<1>5. 0 \in 0 .. Len(s) /\ \A i \in 1 .. Len(s) : i \in 0 .. Len(s) /\ i # 0
  OBVIOUS
<1>6. Rounds(bs, s, n, f)
  BY <1>4, <1>5, Zenon DEF Rounds
<1> QED
  BY <1>3, <1>6

LEMMA SpreadHolds ==
  ASSUME NEW s, NEW C, NEW n \in Nat \ {0}, C \in SUBSET Nat, Enumerates(s, C)
  PROVE  Placed(Table1!Spread(s, [b \in 0 .. n - 1 |-> <<>>]), n, C)
<1>0. s \in Seq(Nat) /\ Injective(s) /\ NodeSet(s) = C /\ n \in Nat
  BY DEF Enumerates
<1>1. Len(s) \in Nat /\ \A i \in 1 .. Len(s) : s[i] \in Nat
  BY <1>0
<1> PICK e : e = [b \in 0 .. n - 1 |-> <<>>]
  OBVIOUS
<1> e \in [0 .. n - 1 -> Seq(Nat)]
  OBVIOUS
<1>2. PICK f : Rounds(e, s, n, f) /\ Table1!Spread(s, e) = f[Len(s)]
  BY <1>0, SpreadIs
<1>3. /\ f[0] = e
      /\ \A i \in 1 .. Len(s) : f[i] = [f[i - 1] EXCEPT ![s[i] % n] = Append(f[i - 1][s[i] % n], s[i])]
  BY <1>2 DEF Rounds
<1> DEFINE First(k) == {s[j] : j \in 1 .. k}
           Bad == {k \in 0 .. Len(s) : ~ Placed(f[k], n, First(k))}
<1>4. ASSUME Bad # {} PROVE FALSE
  <2>1. Bad \in SUBSET Nat
    BY <1>1
  <2>2. PICK k \in Bad : \A j \in Bad : k <= j
    BY <1>4, <2>1, LeastNat
  <2>3. k \in 0 .. Len(s) /\ k \in Nat /\ ~ Placed(f[k], n, First(k))
    BY <1>1
  <2>4. CASE k = 0
    <3>1. First(k) = {} /\ f[k] = e
      <4>1. First(k) = {}
        BY <2>4
      <4>2. f[k] = e
        BY <1>3, <2>4, Zenon
      <4> QED
        BY <4>1, <4>2
    <3>2. Placed(e, n, {})
      <4>1. Injective(<<>>) /\ NodeSet(<<>>) = {}
        BY DEF Injective, NodeSet
      <4> QED
        BY <4>1 DEF Placed
    <3> QED
      BY <2>3, <3>1, <3>2
  <2>5. CASE k # 0
    <3>1. k - 1 \in 0 .. Len(s) /\ k - 1 \notin Bad /\ k \in 1 .. Len(s)
      <4> HIDE DEF Bad
      <4> QED
        BY <1>1, <2>2, <2>3, <2>5
    <3>2. Placed(f[k - 1], n, First(k - 1))
      BY <3>1
    <3>3. s[k] \in Nat /\ s[k] \notin First(k - 1)
      <4>1. ASSUME NEW j \in 1 .. k - 1 PROVE s[k] # s[j]
        <5>1. j \in 1 .. Len(s) /\ j # k
          BY <2>3
        <5> QED
          BY <1>0, <3>1, <5>1 DEF Injective
      <4> QED
        BY <1>1, <3>1, <4>1
    <3>4. First(k) = First(k - 1) \cup {s[k]}
      <4>1. \A j \in 1 .. k : j \in 1 .. k - 1 \/ j = k
        BY <2>3
      <4>2. \A j \in 1 .. k - 1 : j \in 1 .. k
        BY <2>3
      <4>3. k \in 1 .. k
        BY <3>1
      <4> QED
        BY <4>1, <4>2, <4>3
    <3>5. f[k] = [f[k - 1] EXCEPT ![s[k] % n] = Append(f[k - 1][s[k] % n], s[k])]
      BY <1>3, <3>1, Zenon
    <3> HIDE DEF First
    <3>6. PICK x, c, v : x = f[k - 1] /\ c = First(k - 1) /\ v = s[k]
      OBVIOUS
    <3>7. Placed([x EXCEPT ![v % n] = Append(x[v % n], v)], n, c \cup {v})
      BY <3>2, <3>3, <3>6, PlacedAdds
    <3>8. Placed(f[k], n, First(k))
      BY <3>4, <3>5, <3>6, <3>7, Zenon
    <3> QED
      BY <2>3, <3>8
  <2> QED
    BY <2>4, <2>5
<1>5. Placed(f[Len(s)], n, First(Len(s)))
  <2>1. Len(s) \notin Bad /\ Len(s) \in 0 .. Len(s)
    <3> HIDE DEF Bad
    <3> QED
      BY <1>1, <1>4
  <2> QED
    BY <2>1
<1>6. First(Len(s)) = C
  BY <1>0 DEF NodeSet
<1> QED
  BY <1>2, <1>5, <1>6, Zenon

\* The state of the table: the invariant
Keeps(bs, sz, n, C) ==
    /\ Placed(bs, n, C) /\ C \in SUBSET Values /\ IsFiniteSet(C)
    /\ sz = Cardinality(C) /\ sz <= n /\ Undivided(n)

RehashInv == kind = "table1" => \E n, C : Keeps(buckets, size, n, C)

LEMMA BucketOf ==
  ASSUME NEW bs, NEW n, NEW C, Placed(bs, n, C), NEW v \in Nat
  PROVE  v % n \in 0 .. n - 1 /\ Table1!Count(bs) = n /\ (Table1!In(v, bs[v % n]) <=> v \in C)
<1>1. /\ n \in Nat \ {0} /\ bs \in [0 .. n - 1 -> Seq(Nat)]
      /\ \A b \in 0 .. n - 1 : NodeSet(bs[b]) = {w \in C : w % n = b}
  BY DEF Placed
<1>2. v % n \in 0 .. n - 1
  BY <1>1, Remainder
<1>3. Table1!Count(bs) = n
  BY <1>1, CountIs
<1>4. Table1!In(v, bs[v % n]) <=> v \in NodeSet(bs[v % n])
  BY DEF Table1!In, NodeSet
<1>5. PICK h \in 0 .. n - 1 : h = v % n
  BY <1>2
<1>6. NodeSet(bs[h]) = {w \in C : w % n = h}
  BY <1>1
<1> QED
  BY <1>2, <1>3, <1>4, <1>5, <1>6, Zenon

LEMMA FoundBehind ==
  ASSUME NEW n, NEW C, Keeps(buckets, size, n, C)
  PROVE  Table1!PlacedByHash /\ Table1!GrowsToPrimes
<1>0. /\ Placed(buckets, n, C) /\ C \in SUBSET Values /\ C \in SUBSET Nat /\ IsFiniteSet(C)
      /\ size = Cardinality(C) /\ size <= n /\ Undivided(n)
      /\ n \in Nat \ {0} /\ buckets \in [0 .. n - 1 -> Seq(Nat)]
      /\ \A b \in 0 .. n - 1 : NodeSet(buckets[b]) = {w \in C : w % n = b}
  BY DEF Keeps, Placed
<1>1. Table1!Count(buckets) = n
  BY <1>0, CountIs
<1>2. PICK s : s = Table1!InOrder(buckets)
  OBVIOUS
<1>3. s \in Seq(Nat) /\ Injective(s) /\ NodeSet(s) = C
  BY <1>0, <1>2, InOrderHolds DEF Enumerates
<1>4. Len(s) = Cardinality(C)
  BY <1>3, RangeCounts
<1>5. ASSUME NEW v \in Values PROVE Table1!Find(v) <=> v \in C
  <2>1. v \in Nat
    BY DataStructAssumption
  <2>2. Table1!In(v, buckets[v % n]) <=> v \in C
    BY <1>0, <2>1, BucketOf
  <2> QED
    BY <1>1, <2>2, Zenon DEF Table1!Find, Table1!Bucket
<1>6. ASSUME NEW v PROVE Table1!In(v, s) <=> v \in C
  BY <1>3 DEF Table1!In, NodeSet
<1>7. {v \in Values : Table1!Find(v)} = C
  BY <1>0, <1>5
<1>8. Table1!Empty <=> \A b \in DOMAIN buckets : buckets[b] = <<>>
  <2>1. Table1!Empty <=> C = {}
    BY <1>0, FS_EmptySet DEF Table1!Empty
  <2>2. ASSUME C = {}, NEW b \in DOMAIN buckets PROVE buckets[b] = <<>>
    <3>1. buckets[b] \in Seq(Nat) /\ NodeSet(buckets[b]) = {}
      BY <1>0, <2>2
    <3>2. ~ (1 \in 1 .. Len(buckets[b]))
      BY <3>1 DEF NodeSet
    <3>3. Len(buckets[b]) = 0
      BY <3>1, <3>2
    <3> QED
      BY <3>1, <3>3, EmptySeq
  <2>3. ASSUME NEW v \in C, \A b \in DOMAIN buckets : buckets[b] = <<>> PROVE FALSE
    <3>1. v % n \in 0 .. n - 1
      BY <1>0, Remainder
    <3>2. PICK h \in 0 .. n - 1 : h = v % n
      BY <3>1
    <3>3. v \in NodeSet(buckets[h]) /\ buckets[h] = <<>>
      BY <1>0, <2>3, <3>2
    <3> QED
      BY <3>3 DEF NodeSet
  <2> QED
    BY <2>1, <2>2, <2>3
<1>9. Table1!PlacedByHash
  <2>1. \A v \in Values : Table1!Find(v) <=> Table1!In(v, Table1!InOrder(buckets))
    BY <1>2, <1>5, <1>6, Zenon
  <2>2. size = Len(Table1!InOrder(buckets))
    BY <1>0, <1>2, <1>4
  <2>3. size = Table1!Cardinality({v \in Values : Table1!Find(v)})
    BY <1>0, <1>7, Zenon DEF Table1!Cardinality, Cardinality
  <2>4. size <= Table1!Count(buckets)
    BY <1>0, <1>1
  <2> QED
    BY <1>8, <2>1, <2>2, <2>3, <2>4, Zenon DEF Table1!PlacedByHash
<1>10. Table1!GrowsToPrimes
  BY <1>0, <1>1, Zenon DEF Table1!GrowsToPrimes, Undivided
<1> QED
  BY <1>9, <1>10

\* do_rehash with the number of buckets that get_double_prime_number finds
LEMMA GrownHolds ==
  ASSUME NEW bs, NEW n, NEW C, Placed(bs, n, C), NEW c \in Nat, c >= n
  PROVE  \E k \in Nat : /\ k > c /\ Undivided(k)
                        /\ Placed(Table1!Grow(bs, Table1!DoublePrime(c)), k, C)
<1>0. n \in Nat \ {0} /\ bs \in [0 .. n - 1 -> Seq(Nat)] /\ C \in SUBSET Nat
  BY DEF Placed
<1>1. Table1!Count(bs) = n
  BY <1>0, CountIs
<1>2. PICK k : k = Table1!DoublePrime(c)
  OBVIOUS
<1>3. k \in Nat /\ k > c /\ Undivided(k)
  <2>1. c \in Nat \ {0}
    BY <1>0
  <2> QED
    BY <1>2, <2>1, DoublesToPrime, Zenon
<1>4. k > n /\ k \in Nat \ {0}
  BY <1>0, <1>3
<1>5. Enumerates(Table1!InOrder(bs), C)
  BY InOrderHolds
<1>6. Placed(Table1!Spread(Table1!InOrder(bs), [b \in 0 .. k - 1 |-> <<>>]), k, C)
  BY <1>0, <1>4, <1>5, SpreadHolds
<1>7. Table1!Grow(bs, k) = Table1!Spread(Table1!InOrder(bs), [b \in 0 .. k - 1 |-> <<>>])
  BY <1>1, <1>4, Zenon DEF Table1!Grow
<1> QED
  BY <1>2, <1>3, <1>6, <1>7

LEMMA InsertKeeps ==
  ASSUME NEW n, NEW C, Keeps(buckets, size, n, C), NEW v \in Values, Table1!Insert(v)
  PROVE  \E k, X : Keeps(buckets', size', k, X)
<1>0. /\ Placed(buckets, n, C) /\ C \in SUBSET Values /\ IsFiniteSet(C)
      /\ size = Cardinality(C) /\ size <= n /\ Undivided(n)
      /\ n \in Nat \ {0} /\ n \in Nat /\ buckets \in [0 .. n - 1 -> Seq(Nat)]
  BY DEF Keeps, Placed
<1>1. v \in Nat
  BY DataStructAssumption
<1>2. Table1!Count(buckets) = n /\ v % n \in 0 .. n - 1 /\ (Table1!In(v, buckets[v % n]) <=> v \in C)
  BY <1>0, <1>1, BucketOf
<1>3. PICK added : added = [buckets EXCEPT ![v % n] = Table1!BucketInsert(buckets[v % n], v)]
  OBVIOUS
<1>4. /\ added # buckets /\ size' = size + 1
      /\ buckets' = IF size' > n THEN Table1!Grow(added, Table1!DoublePrime(n)) ELSE added
  <2>1. [buckets EXCEPT ![Table1!Bucket(v)] = Table1!BucketInsert(buckets[Table1!Bucket(v)], v)] = added
    BY <1>2, <1>3, Zenon DEF Table1!Bucket
  <2>2. Table1!MaxLoadFactor * n = n
    BY <1>0 DEF Table1!MaxLoadFactor
  <2>3. /\ added # buckets /\ size' = size + 1
        /\ buckets' = IF size' > Table1!MaxLoadFactor * Table1!Count(buckets)
                      THEN Table1!Grow(added, Table1!DoublePrime(Table1!Count(buckets))) ELSE added
    BY <2>1, Zenon DEF Table1!Insert
  <2> QED
    BY <1>2, <2>2, <2>3, Zenon
<1>5. v \notin C
  <2>1. SUFFICES ASSUME v \in C PROVE added = buckets
    BY <1>4
  <2>2. Table1!BucketInsert(buckets[v % n], v) = buckets[v % n]
    BY <1>2, <2>1, Zenon DEF Table1!BucketInsert
  <2>3. PICK h \in 0 .. n - 1 : h = v % n
    BY <1>2
  <2> QED
    BY <1>0, <1>3, <2>2, <2>3
<1>6. Placed(added, n, C \cup {v})
  <2>1. Table1!BucketInsert(buckets[v % n], v) = Append(buckets[v % n], v)
    BY <1>2, <1>5, Zenon DEF Table1!BucketInsert
  <2> QED
    BY <1>0, <1>1, <1>3, <1>5, <2>1, PlacedAdds
<1>7. PICK X : X = C \cup {v}
  OBVIOUS
<1>8. X \in SUBSET Values /\ IsFiniteSet(X) /\ Cardinality(X) = size + 1 /\ size \in Nat
  BY <1>0, <1>5, <1>7, FS_AddElement, FS_CardinalityType
<1>9. CASE size' > n
  <2>1. n >= n
    BY <1>0
  <2>2. PICK k \in Nat : /\ k > n /\ Undivided(k)
                         /\ Placed(Table1!Grow(added, Table1!DoublePrime(n)), k, X)
    BY <1>0, <1>6, <1>7, <2>1, GrownHolds
  <2>3. Placed(buckets', k, X)
    BY <1>4, <1>9, <2>2, Zenon
  <2>4. size' <= k
    BY <1>0, <1>4, <1>8, <2>2
  <2>5. Keeps(buckets', size', k, X)
    BY <1>4, <1>8, <2>2, <2>3, <2>4 DEF Keeps
  <2> QED
    BY <2>5
<1>10. CASE ~ (size' > n)
  <2>1. size' <= n
    BY <1>0, <1>4, <1>8, <1>10
  <2>2. Keeps(buckets', size', n, X)
    BY <1>0, <1>4, <1>6, <1>7, <1>8, <1>10, <2>1 DEF Keeps
  <2> QED
    BY <2>2
<1> QED
  BY <1>9, <1>10

LEMMA EraseKeeps ==
  ASSUME NEW n, NEW C, Keeps(buckets, size, n, C), NEW v \in Values, Table1!Erase(v)
  PROVE  \E k, X : Keeps(buckets', size', k, X)
<1>0. /\ Placed(buckets, n, C) /\ C \in SUBSET Values /\ IsFiniteSet(C)
      /\ size = Cardinality(C) /\ size <= n /\ Undivided(n) /\ n \in Nat
  BY DEF Keeps, Placed
<1>1. v \in Nat
  BY DataStructAssumption
<1>2. Table1!Count(buckets) = n /\ v % n \in 0 .. n - 1 /\ (Table1!In(v, buckets[v % n]) <=> v \in C)
  BY <1>0, <1>1, BucketOf
<1>3. /\ v \in C /\ size' = size - 1
      /\ buckets' = [buckets EXCEPT ![v % n] = Table1!BucketErase(buckets[v % n], v)]
  BY <1>2, Zenon DEF Table1!Erase, Table1!Find, Table1!Bucket
<1>4. Placed(buckets', n, C \ {v})
  BY <1>0, <1>3, PlacedErases
<1>5. PICK X : X = C \ {v}
  OBVIOUS
<1>6. X \in SUBSET Values /\ IsFiniteSet(X) /\ Cardinality(X) = size - 1 /\ size \in Nat
  BY <1>0, <1>3, <1>5, FS_RemoveElement, FS_CardinalityType
<1>7. size' <= n
  BY <1>0, <1>3, <1>6
<1>8. Keeps(buckets', size', n, X)
  BY <1>0, <1>3, <1>4, <1>5, <1>6, <1>7 DEF Keeps
<1> QED
  BY <1>8

LEMMA ReserveKeeps ==
  ASSUME NEW n, NEW C, Keeps(buckets, size, n, C), NEW c \in Reserves, Table1!Reserve(c)
  PROVE  \E k, X : Keeps(buckets', size', k, X)
<1>0. /\ Placed(buckets, n, C) /\ C \in SUBSET Values /\ IsFiniteSet(C)
      /\ size = Cardinality(C) /\ size <= n /\ n \in Nat \ {0} /\ n \in Nat
      /\ buckets \in [0 .. n - 1 -> Seq(Nat)]
  BY DEF Keeps, Placed
<1>1. Table1!Count(buckets) = n
  BY <1>0, CountIs
<1>2. c > n /\ buckets' = Table1!Grow(buckets, Table1!DoublePrime(c)) /\ size' = size
  BY <1>1, Zenon DEF Table1!Reserve
<1>3. c \in Nat /\ c >= n
  BY <1>0, <1>2, DataStructAssumption
<1>4. PICK k \in Nat : k > c /\ Undivided(k) /\ Placed(buckets', k, C)
  BY <1>0, <1>2, <1>3, GrownHolds
<1>5. size \in Nat
  BY <1>0, FS_CardinalityType
<1>6. size' <= k
  BY <1>0, <1>2, <1>3, <1>4, <1>5
<1>7. Keeps(buckets', size', k, C)
  BY <1>0, <1>2, <1>4, <1>6 DEF Keeps
<1> QED
  BY <1>7

LEMMA RehashStarts == AnyInit => RehashInv
<1> SUFFICES ASSUME AnyInit, kind = "table1" PROVE \E n, C : Keeps(buckets, size, n, C)
  BY DEF RehashInv
<1>1. buckets = [b \in {0} |-> <<>>] /\ size = 0
  BY DEF AnyInit, ContainerInit, Queue!Init, Queue!InitLinked, Queue!InitDummy, Queue!InitRing,
         Table1!Init
<1>2. Placed(buckets, 1, {})
  <2>1. Injective(<<>>) /\ NodeSet(<<>>) = {}
    BY DEF Injective, NodeSet
  <2> QED
    BY <1>1, <2>1 DEF Placed
<1>3. IsFiniteSet({}) /\ Cardinality({}) = 0
  BY FS_EmptySet
<1>4. Undivided(1)
  BY DEF Undivided
<1>5. Keeps(buckets, size, 1, {})
  BY <1>1, <1>2, <1>3, <1>4 DEF Keeps
<1> QED
  BY <1>5

LEMMA RehashMoves ==
  ASSUME [AnyNext]_allVars, kind = "table1"
  PROVE  Table1!Next \/ UNCHANGED <<buckets, size>>
<1>1. Queue!Next => kind \in {"linked", "dummy", "ring"} \/ UNCHANGED Queue!vars
  BY DEF Queue!Next, Queue!PushLinked, Queue!PopLinked, Queue!PushDummy, Queue!PopDummy,
         Queue!PushRing, Queue!PopRing
<1> QED
  BY <1>1 DEF AnyNext, ContainerNext, allVars, containerVars

LEMMA RehashStays == RehashInv /\ [AnyNext]_allVars => RehashInv'
<1> SUFFICES ASSUME RehashInv, [AnyNext]_allVars, (kind = "table1")'
             PROVE  \E n, C : Keeps(buckets', size', n, C)
  BY DEF RehashInv, Keeps
<1>1. kind = "table1"
  BY KindStays DEF allVars
<1>2. PICK n, C : Keeps(buckets, size, n, C)
  BY <1>1 DEF RehashInv
<1>3. CASE Table1!Next
  BY <1>2, <1>3, InsertKeeps, EraseKeeps, ReserveKeeps DEF Table1!Next
<1>4. CASE UNCHANGED <<buckets, size>>
  BY <1>2, <1>4
<1> QED
  BY <1>1, <1>3, <1>4, RehashMoves

\* find finds every value that is in the table, wherever the rehashes moved it, size_
\* counts the values and there are a prime number of buckets, for any values and any
\* numbers to reserve (insert, erase, reserve and do_rehash of threadsafe_lookup_table1.h).
THEOREM FoundInPrimes == AnySpec => []FoundAfterRehash
<1>1. RehashInv => FoundAfterRehash
  BY FoundBehind DEF RehashInv, FoundAfterRehash
<1> QED
  BY <1>1, RehashStarts, RehashStays, PTL DEF AnySpec
-----------------------------------------------------------------------------
(***************************************************************************)
(* threadsafe_lookup_table2.h: what the loops of do_rehash make of the     *)
(* values when they take one at a time.                                    *)
(***************************************************************************)
\* f[b] are the values of the buckets from b on.
Rows(bs, n, f) == /\ n \in Nat \ {0} /\ bs \in [0 .. n - 1 -> Seq(Nat)]
                  /\ f \in [0 .. n -> Seq(Nat)] /\ f[n] = <<>>
                  /\ \A b \in 0 .. n - 1 : f[b] = bs[b] \o f[b + 1]

LEMMA RowsExist ==
  ASSUME NEW bs, NEW n \in Nat \ {0}, bs \in [0 .. n - 1 -> Seq(Nat)]
  PROVE  \E f : Rows(bs, n, f) /\ Table1!InOrder(bs) = f[0]
<1>0. n \in Nat
  OBVIOUS
<1>1. PICK f : f = Rest(bs, n, f) /\ Table1!InOrder(bs) = f[0]
  BY InOrderIs
<1>2. ASSUME NEW b \in 0 .. n PROVE f[b] = IF b = n THEN <<>> ELSE bs[b] \o f[b + 1]
  <2>1. Rest(bs, n, f)[b] = IF b = n THEN <<>> ELSE bs[b] \o f[b + 1]
    BY DEF Rest
  <2> QED
    BY <1>1, <2>1, Zenon
<1>3. f = [b \in 0 .. n |-> f[b]]
  <2>1. Rest(bs, n, f) = [b \in 0 .. n |-> Rest(bs, n, f)[b]]
    BY Zenon DEF Rest
  <2> QED
    BY <1>1, <2>1, Zenon
<1> DEFINE Bad == {k \in 0 .. n : f[n - k] \notin Seq(Nat)}
<1>4. ASSUME Bad # {} PROVE FALSE
  <2>1. Bad \in SUBSET Nat
    BY <1>0
  <2>2. PICK k \in Bad : \A j \in Bad : k <= j
    BY <1>4, <2>1, LeastNat
  <2>3. k \in 0 .. n /\ f[n - k] \notin Seq(Nat)
    OBVIOUS
  <2>4. CASE k = 0
    <3>1. f[n - k] = <<>>
      BY <1>0, <1>2, <2>4
    <3> QED
      BY <2>3, <3>1
  <2>5. CASE k # 0
    <3>1. k - 1 \in 0 .. n /\ k - 1 \notin Bad
      <4> HIDE DEF Bad
      <4> QED
        BY <1>0, <2>2, <2>3, <2>5
    <3>2. PICK b \in 0 .. n - 1 : b = n - k /\ b + 1 = n - (k - 1) /\ b # n /\ b \in 0 .. n
      BY <1>0, <2>3, <2>5
    <3>3. f[b + 1] \in Seq(Nat) /\ bs[b] \in Seq(Nat)
      BY <3>1, <3>2
    <3>4. f[b] = bs[b] \o f[b + 1]
      BY <1>2, <3>2
    <3>5. f[b] \in Seq(Nat)
      BY <3>3, <3>4, ConcatProperties
    <3> QED
      BY <2>3, <3>2, <3>5
  <2> QED
    BY <2>4, <2>5
<1>5. ASSUME NEW b \in 0 .. n PROVE f[b] \in Seq(Nat)
  <2>1. PICK k \in 0 .. n : b = n - k
    <3>1. n - b \in 0 .. n /\ b = n - (n - b)
      BY <1>0
    <3> QED
      BY <3>1
  <2>2. k \notin Bad
    <3> HIDE DEF Bad
    <3> QED
      BY <1>4
  <2> QED
    BY <2>1, <2>2
<1>6. f \in [0 .. n -> Seq(Nat)]
  BY <1>3, <1>5
<1>7. n \in 0 .. n /\ \A b \in 0 .. n - 1 : b \in 0 .. n /\ b # n
  BY <1>0
<1>8. Rows(bs, n, f)
  BY <1>2, <1>6, <1>7 DEF Rows
<1> QED
  BY <1>1, <1>8

\* Buckets that are equal from k on
EqualFrom(bs, bs2, n, f, g, k) ==
    Rows(bs, n, f) /\ Rows(bs2, n, g) /\ k \in 0 .. n /\ \A b \in k .. n - 1 : bs[b] = bs2[b]

LEMMA RowsAgree ==
  ASSUME NEW bs, NEW bs2, NEW n, NEW f, NEW g, NEW k, EqualFrom(bs, bs2, n, f, g, k)
  PROVE  f[k] = g[k]
<1> Rows(bs, n, f) /\ Rows(bs2, n, g) /\ k \in 0 .. n /\ \A b \in k .. n - 1 : bs[b] = bs2[b]
  BY DEF EqualFrom
<1>0. /\ n \in Nat /\ f[n] = <<>> /\ g[n] = <<>>
      /\ \A b \in 0 .. n - 1 : f[b] = bs[b] \o f[b + 1] /\ g[b] = bs2[b] \o g[b + 1]
  BY DEF Rows
<1> DEFINE Bad == {j \in 0 .. n - k : f[n - j] # g[n - j]}
<1>1. ASSUME Bad # {} PROVE FALSE
  <2>1. Bad \in SUBSET Nat
    BY <1>0
  <2>2. PICK j \in Bad : \A i \in Bad : j <= i
    BY <1>1, <2>1, LeastNat
  <2>3. j \in 0 .. n - k /\ f[n - j] # g[n - j]
    OBVIOUS
  <2>4. j # 0
    BY <1>0, <2>3
  <2>5. j - 1 \in 0 .. n - k /\ j - 1 \notin Bad
    <3> HIDE DEF Bad
    <3> QED
      BY <1>0, <2>2, <2>3, <2>4
  <2>6. PICK b \in k .. n - 1 : b = n - j /\ b + 1 = n - (j - 1) /\ b \in 0 .. n - 1
    BY <1>0, <2>3, <2>4
  <2>7. f[b + 1] = g[b + 1]
    BY <2>5, <2>6
  <2> QED
    BY <1>0, <2>3, <2>6, <2>7
<1>2. n - k \in 0 .. n - k /\ n - (n - k) = k
  BY <1>0
<1>3. n - k \notin Bad
  <2> HIDE DEF Bad
  <2> QED
    BY <1>1
<1> QED
  BY <1>2, <1>3

\* The empty buckets before k hold no values.
EmptyTo(bs, n, f, k) == Rows(bs, n, f) /\ k \in 0 .. n /\ \A b \in 0 .. k - 1 : bs[b] = <<>>

LEMMA RowsSkip ==
  ASSUME NEW bs, NEW n, NEW f, NEW k, EmptyTo(bs, n, f, k)
  PROVE  f[0] = f[k]
<1> Rows(bs, n, f) /\ k \in 0 .. n /\ \A b \in 0 .. k - 1 : bs[b] = <<>>
  BY DEF EmptyTo
<1>a. /\ n \in Nat \ {0} /\ f \in [0 .. n -> Seq(Nat)]
      /\ \A b \in 0 .. n - 1 : f[b] = bs[b] \o f[b + 1]
  BY DEF Rows
<1>b. n \in Nat
  BY <1>a
<1>c. k \in Nat
  BY <1>b
<1>0. /\ n \in Nat /\ k \in Nat /\ f \in [0 .. n -> Seq(Nat)]
      /\ \A b \in 0 .. n - 1 : f[b] = bs[b] \o f[b + 1]
  BY <1>a, <1>b, <1>c, Zenon
<1> DEFINE Bad == {j \in 0 .. k : f[0] # f[j]}
<1>1. ASSUME Bad # {} PROVE FALSE
  <2>1. Bad \in SUBSET Nat
    BY <1>0
  <2>2. PICK j \in Bad : \A i \in Bad : j <= i
    BY <1>1, <2>1, LeastNat
  <2>3. j \in 0 .. k /\ f[0] # f[j]
    OBVIOUS
  <2>4. j # 0
    BY <2>3
  <2>5. j - 1 \in 0 .. k /\ j - 1 \notin Bad
    <3> HIDE DEF Bad
    <3> QED
      BY <1>0, <2>2, <2>3, <2>4
  <2>6. PICK b \in 0 .. k - 1 : b = j - 1 /\ b + 1 = j /\ b \in 0 .. n - 1 /\ j \in 0 .. n
    BY <1>0, <2>3, <2>4
  <2>7. f[0] = f[b]
    BY <2>5, <2>6
  <2>8. f[b] = <<>> \o f[j] /\ f[j] \in Seq(Nat)
    BY <1>0, <2>6
  <2>9. f[b] = f[j]
    BY <2>8, ConcatEmptySeq
  <2> QED
    BY <2>3, <2>7, <2>9
<1>2. k \in 0 .. k
  BY <1>0
<1>3. k \notin Bad
  <2> HIDE DEF Bad
  <2> QED
    BY <1>1
<1> QED
  BY <1>2, <1>3

LEMMA NothingInOrder ==
  ASSUME NEW bs, NEW n \in Nat \ {0}, bs \in [0 .. n - 1 -> Seq(Nat)], \A b \in 0 .. n - 1 : bs[b] = <<>>
  PROVE  Table1!InOrder(bs) = <<>>
<1>1. PICK f : Rows(bs, n, f) /\ Table1!InOrder(bs) = f[0]
  BY RowsExist
<1>2. n \in 0 .. n
  OBVIOUS
<1>3. f[0] = f[n]
  <2>1. EmptyTo(bs, n, f, n)
    BY <1>1, <1>2 DEF EmptyTo
  <2> QED
    BY <2>1, RowsSkip
<1> QED
  BY <1>1, <1>3 DEF Rows

LEMMA FirstOfThree ==
  ASSUME NEW d \in Nat, NEW t \in Seq(Nat), NEW r \in Seq(Nat)
  PROVE  (<<d>> \o t) \o r = <<d>> \o (t \o r)
OBVIOUS

\* The first value of the first bucket that is not empty is taken out.
FirstLies(bs, n, k, d, t, s) ==
    /\ s = <<d>> \o Table1!InOrder([bs EXCEPT ![k] = t])
    /\ n \in Nat \ {0} /\ bs \in [0 .. n - 1 -> Seq(Nat)]
    /\ k \in 0 .. n - 1 /\ \A b \in 0 .. k - 1 : bs[b] = <<>>
    /\ d \in Nat /\ t \in Seq(Nat) /\ bs[k] = <<d>> \o t

LEMMA FirstInOrder ==
  ASSUME NEW bs, NEW n, NEW k, NEW d, NEW t, NEW s, FirstLies(bs, n, k, d, t, s)
  PROVE  Table1!InOrder(bs) = s
<1> /\ s = <<d>> \o Table1!InOrder([bs EXCEPT ![k] = t])
    /\ n \in Nat \ {0} /\ bs \in [0 .. n - 1 -> Seq(Nat)]
    /\ k \in 0 .. n - 1 /\ \A b \in 0 .. k - 1 : bs[b] = <<>>
    /\ d \in Nat /\ t \in Seq(Nat) /\ bs[k] = <<d>> \o t
  BY DEF FirstLies
<1>0. n \in Nat /\ k \in Nat /\ k \in 0 .. n /\ k + 1 \in 0 .. n
  OBVIOUS
<1>1. PICK bs2 : bs2 = [bs EXCEPT ![k] = t]
  OBVIOUS
<1>2. bs2 \in [0 .. n - 1 -> Seq(Nat)] /\ bs2[k] = t /\ \A b \in 0 .. n - 1 : b # k => bs2[b] = bs[b]
  BY <1>1
<1>3. PICK f : Rows(bs, n, f) /\ Table1!InOrder(bs) = f[0]
  BY RowsExist
<1>4. PICK g : Rows(bs2, n, g) /\ Table1!InOrder(bs2) = g[0]
  BY <1>2, RowsExist
<1>5. f[0] = f[k]
  <2>1. EmptyTo(bs, n, f, k)
    BY <1>0, <1>3 DEF EmptyTo
  <2> QED
    BY <2>1, RowsSkip
<1>6. g[0] = g[k]
  <2>1. \A b \in 0 .. k - 1 : b \in 0 .. n - 1 /\ b # k
    BY <1>0
  <2>2. EmptyTo(bs2, n, g, k)
    BY <1>0, <1>2, <1>4, <2>1 DEF EmptyTo
  <2> QED
    BY <2>2, RowsSkip
<1>7. f[k + 1] = g[k + 1]
  <2>1. \A b \in k + 1 .. n - 1 : b \in 0 .. n - 1 /\ b # k
    BY <1>0
  <2>2. EqualFrom(bs, bs2, n, f, g, k + 1)
    BY <1>0, <1>2, <1>3, <1>4, <2>1 DEF EqualFrom
  <2> QED
    BY <2>2, RowsAgree
<1>8. f[k] = (<<d>> \o t) \o f[k + 1] /\ g[k] = t \o g[k + 1] /\ f[k + 1] \in Seq(Nat)
  BY <1>0, <1>2, <1>3, <1>4 DEF Rows
<1>9. (<<d>> \o t) \o f[k + 1] = <<d>> \o (t \o f[k + 1])
  <2>1. PICK r : r = f[k + 1]
    OBVIOUS
  <2>2. r \in Seq(Nat)
    BY <1>8, <2>1
  <2>3. (<<d>> \o t) \o r = <<d>> \o (t \o r)
    BY <2>2, FirstOfThree
  <2> QED
    BY <2>1, <2>3
<1> QED
  BY <1>1, <1>3, <1>4, <1>5, <1>6, <1>7, <1>8, <1>9

LEMMA InOrderTyped ==
  ASSUME NEW bs, NEW n \in Nat \ {0}, bs \in [0 .. n - 1 -> Seq(Nat)]
  PROVE  Table1!InOrder(bs) \in Seq(Nat)
<1>1. PICK f : Rows(bs, n, f) /\ Table1!InOrder(bs) = f[0]
  BY RowsExist
<1>2. 0 \in 0 .. n
  OBVIOUS
<1> QED
  BY <1>1, <1>2 DEF Rows

\* Without values Spread leaves the buckets as they are, ...
LEMMA SpreadNone ==
  ASSUME NEW n \in Nat \ {0}, NEW bs \in [0 .. n - 1 -> Seq(Nat)]
  PROVE  Table1!Spread(<<>>, bs) = bs
<1>1. PICK s : s = <<>>
  OBVIOUS
<1>2. s \in Seq(Nat) /\ Len(s) = 0
  BY <1>1
<1>3. PICK f : Rounds(bs, s, n, f) /\ Table1!Spread(s, bs) = f[Len(s)]
  BY <1>2, SpreadIs
<1> QED
  BY <1>1, <1>2, <1>3 DEF Rounds

\* ... and the first value can as well be put into its bucket before.
PutsFirst(bs, n, d, w, s, bs2) ==
    /\ n \in Nat \ {0} /\ bs \in [0 .. n - 1 -> Seq(Nat)] /\ d \in Nat /\ w \in Seq(Nat)
    /\ s = <<d>> \o w /\ bs2 = [bs EXCEPT ![d % n] = Append(bs[d % n], d)]

LEMMA SpreadFirst ==
  ASSUME NEW bs, NEW n, NEW d, NEW w, NEW s, NEW bs2, PutsFirst(bs, n, d, w, s, bs2)
  PROVE  Table1!Spread(s, bs) = Table1!Spread(w, bs2)
<1> /\ n \in Nat \ {0} /\ bs \in [0 .. n - 1 -> Seq(Nat)] /\ d \in Nat /\ w \in Seq(Nat)
    /\ s = <<d>> \o w
  BY DEF PutsFirst
<1>1. s = <<d>> \o w
  OBVIOUS
<1>2. s \in Seq(Nat) /\ Len(s) = Len(w) + 1 /\ s[1] = d /\ \A i \in 1 .. Len(w) : s[i + 1] = w[i]
  BY <1>1
<1>3. Len(w) \in Nat
  OBVIOUS
<1>4. bs2 = [bs EXCEPT ![d % n] = Append(bs[d % n], d)]
  BY DEF PutsFirst
<1>5. bs2 \in [0 .. n - 1 -> Seq(Nat)]
  BY <1>4, PutInBucket
<1>6. PICK f : Rounds(bs, s, n, f) /\ Table1!Spread(s, bs) = f[Len(s)]
  BY <1>2, SpreadIs
<1>7. PICK g : Rounds(bs2, w, n, g) /\ Table1!Spread(w, bs2) = g[Len(w)]
  BY <1>5, SpreadIs
<1>8. f[1] = g[0]
  <2>1. 1 \in 1 .. Len(s) /\ 1 - 1 = 0
    BY <1>2, <1>3
  <2>2. f[1] = [f[1 - 1] EXCEPT ![s[1] % n] = Append(f[1 - 1][s[1] % n], s[1])]
    BY <1>6, <2>1 DEF Rounds
  <2>3. f[1 - 1] = bs /\ g[0] = bs2
    BY <1>6, <1>7, <2>1 DEF Rounds
  <2> QED
    BY <1>2, <1>4, <2>2, <2>3, Zenon
<1> DEFINE Bad == {i \in 0 .. Len(w) : f[i + 1] # g[i]}
<1>9. ASSUME Bad # {} PROVE FALSE
  <2>1. Bad \in SUBSET Nat
    BY <1>3
  <2>2. PICK i \in Bad : \A j \in Bad : i <= j
    BY <1>9, <2>1, LeastNat
  <2>3. i \in 0 .. Len(w) /\ f[i + 1] # g[i]
    OBVIOUS
  <2>4. i # 0
    BY <1>8, <2>3
  <2>5. i - 1 \in 0 .. Len(w) /\ i - 1 \notin Bad
    <3> HIDE DEF Bad
    <3> QED
      BY <1>3, <2>2, <2>3, <2>4
  <2>6. PICK j : j = i - 1
    OBVIOUS
  <2>7. PICK k : k = i + 1
    OBVIOUS
  <2>8. i \in 1 .. Len(w) /\ k \in 1 .. Len(s) /\ k - 1 = i /\ j + 1 = i
    BY <1>2, <1>3, <2>3, <2>4, <2>6, <2>7
  <2>9. f[i] = g[j]
    BY <2>5, <2>6, <2>8
  <2>10. f[k] = [f[i] EXCEPT ![s[k] % n] = Append(f[i][s[k] % n], s[k])]
    BY <1>6, <2>8 DEF Rounds
  <2>11. g[i] = [g[j] EXCEPT ![w[i] % n] = Append(g[j][w[i] % n], w[i])]
    BY <1>7, <2>6, <2>8 DEF Rounds
  <2>12. s[k] = w[i]
    BY <1>2, <2>7, <2>8
  <2> QED
    BY <2>3, <2>7, <2>9, <2>10, <2>11, <2>12, Zenon
<1>10. Len(w) \in 0 .. Len(w) /\ Len(w) \notin Bad
  <2> HIDE DEF Bad
  <2> QED
    BY <1>3, <1>9
<1>11. f[Len(w) + 1] = g[Len(w)]
  BY <1>10
<1> QED
  BY <1>1, <1>2, <1>4, <1>6, <1>7, <1>11, Zenon
-----------------------------------------------------------------------------
(***************************************************************************)
(* threadsafe_lookup_table2.h.  The nodes c[<<g, b>>] lie in the bucket b  *)
(* of the vector g.  A rehash takes them out of one vector, from bucket 0  *)
(* on, so that its buckets below at are empty, and the other vector is     *)
(* empty when it starts.  What becomes of the table is a function of the   *)
(* values of these nodes that no step of a rehash changes (Outcome).       *)
(***************************************************************************)
BucketPlaces == {0, 1} \X (0 .. MaxBuckets - 1)

\* The values of nodes, and of the buckets of a vector
DataIn(dt, m) == [i \in 1 .. Len(m) |-> dt[m[i]]]
ValuesIn(c, dt, g, n) == [b \in 0 .. n - 1 |-> DataIn(dt, c[<<g, b>>])]

\* The values that a rehash still has to move when it has the node q
ToMove(bs, dt, q) == IF q = -1 THEN Table1!InOrder(bs) ELSE <<dt[q]>> \o Table1!InOrder(bs)

\* What a rehash to w buckets, or none, is going to leave
Outcome(c, dt, g, n, w, q) ==
    IF w = 0 THEN ValuesIn(c, dt, g, n)
    ELSE Table1!Spread(ToMove(ValuesIn(c, dt, g, n), dt, q), ValuesIn(c, dt, 1 - g, w))

\* The state of the table: the invariant
TableHolds(c) ==
    /\ ListHolds(BucketPlaces, Nodes, c)
    /\ data \in [Nodes -> Nat \cup {-1}] /\ \A n \in alive : data[n] \in Nat
    /\ gen \in {0, 1} /\ count \in 1 .. MaxBuckets /\ at \in 0 .. count
    /\ grow \in 0 .. MaxBuckets /\ (grow # 0 => grow > count)
    /\ p \in Nodes \cup {-1} /\ (p # -1 => p \in held) /\ (grow = 0 => p = -1 /\ at = 0)
    /\ \A b \in 0 .. MaxBuckets - 1 : /\ b >= count \/ b < at => c[<<gen, b>>] = <<>>
                                      /\ b >= grow => c[<<1 - gen, b>>] = <<>>

MovesInv == kind = "table2" => \E c : TableHolds(c)

LEMMA TableNodesAre == NodesAre(Nodes) /\ Table2!L!Nil = -1 /\ Table2!Places = BucketPlaces
  BY DataStructAssumption, FS_CardinalityType DEF NodesAre, Table2!L!Nil, Table2!Places, BucketPlaces

LEMMA TableOps ==
  /\ \A l, n : Table2!L!Attach(l, n) <=> Attaches(l, n)
  /\ \A l : Table2!L!PopFront(l) => PopsFront(Nodes, l)
  /\ \A l : Table2!L!PopBack(l) => PopsBack(Nodes, l)
  /\ \A l, n : Table2!L!Cut(l, n) => CutsOut(l, n)
  BY TableNodesAre DEF Table2!L!Attach, Table2!L!PopFront, Table2!L!PopBack, Table2!L!Cut, Attaches,
                       PopsFront, PopsBack, CutsOut

LEMMA TableChain ==
  \A c : ListHolds(BucketPlaces, Nodes, c) => \A l \in BucketPlaces : Table2!L!Chain(l) = c[l]
<1> SUFFICES ASSUME NEW c, ListHolds(BucketPlaces, Nodes, c), NEW l \in BucketPlaces
             PROVE  Table2!L!Chain(l) = c[l]
  OBVIOUS
<1>1. Follow(Nodes)[Cardinality(Nodes)][head[l]] = c[l]
  BY TableNodesAre, ChainIs
<1>2. Table2!L!Chain(l) = Follow(Nodes)[Cardinality(Nodes)][head[l]]
  BY Zenon DEF Table2!L!Chain, Table2!L!Nil, Table2!L!Cardinality, Cardinality, Walk, Follow
<1> QED
  BY <1>1, <1>2, Zenon

\* The two modules that name the table of version 1 name the same operations.
LEMMA SameTable ==
  /\ \A bs : Table2!R!InOrder(bs) = Table1!InOrder(bs)
  /\ \A s, bs : Table2!R!Spread(s, bs) = Table1!Spread(s, bs)
  /\ \A n : Table2!R!DoublePrime(n) = Table1!DoublePrime(n)
  /\ Table2!R!MaxLoadFactor = 1
<1>1. \A bs : Table2!R!InOrder(bs) = Table1!InOrder(bs)
  BY Zenon DEF Table2!R!InOrder, Table1!InOrder, Table2!R!Count, Table1!Count,
               Table2!R!Cardinality, Table1!Cardinality, Cardinality
<1>2. \A s, bs : Table2!R!Spread(s, bs) = Table1!Spread(s, bs)
  BY Zenon DEF Table2!R!Spread, Table1!Spread, Table2!R!Count, Table1!Count,
               Table2!R!Cardinality, Table1!Cardinality, Cardinality
<1>3. \A n : Table2!R!DoublePrime(n) = Table1!DoublePrime(n)
  BY Zenon DEF Table2!R!DoublePrime, Table1!DoublePrime, Table2!R!IsPrime, Table1!IsPrime,
               Table2!R!CeilSqrt, Table1!CeilSqrt
<1> QED
  BY <1>1, <1>2, <1>3 DEF Table2!R!MaxLoadFactor

LEMMA SameValues ==
  /\ \A bs : Values1!Count(bs) = Table1!Count(bs)
  /\ \A s, v : Values1!BucketInsert(s, v) = Table1!BucketInsert(s, v)
  /\ \A s, v : Values1!BucketErase(s, v) = Table1!BucketErase(s, v)
  /\ \A s, v : Values1!In(v, s) = Table1!In(v, s)
  /\ \A n : Values1!DoublePrime(n) = Table1!DoublePrime(n)
  /\ \A bs, n : Values1!Grow(bs, n) = Table1!Grow(bs, n)
  /\ Values1!MaxLoadFactor = 1
<1>1. \A bs : Values1!Count(bs) = Table1!Count(bs)
  BY Zenon DEF Values1!Count, Table1!Count, Values1!Cardinality, Table1!Cardinality, Cardinality
<1>2. /\ \A s, v : Values1!BucketInsert(s, v) = Table1!BucketInsert(s, v)
      /\ \A s, v : Values1!BucketErase(s, v) = Table1!BucketErase(s, v)
      /\ \A s, v : Values1!In(v, s) = Table1!In(v, s)
  BY Zenon DEF Values1!BucketInsert, Table1!BucketInsert, Values1!BucketErase, Table1!BucketErase,
               Values1!In, Table1!In
<1>3. \A n : Values1!DoublePrime(n) = Table1!DoublePrime(n)
  BY Zenon DEF Values1!DoublePrime, Table1!DoublePrime, Values1!IsPrime, Table1!IsPrime,
               Values1!CeilSqrt, Table1!CeilSqrt
<1>4. \A bs : Values1!InOrder(bs) = Table1!InOrder(bs)
  BY Zenon DEF Values1!InOrder, Table1!InOrder, Values1!Count, Table1!Count,
               Values1!Cardinality, Table1!Cardinality, Cardinality
<1>5. \A s, bs : Values1!Spread(s, bs) = Table1!Spread(s, bs)
  BY Zenon DEF Values1!Spread, Table1!Spread, Values1!Count, Table1!Count,
               Values1!Cardinality, Table1!Cardinality, Cardinality
<1>6. \A bs, n : Values1!Grow(bs, n) = Table1!Grow(bs, n)
  BY <1>1, <1>4, <1>5, Zenon DEF Values1!Grow, Table1!Grow
<1> QED
  BY <1>1, <1>2, <1>3, <1>6 DEF Values1!MaxLoadFactor

\* The values of the table are the outcome, by what TableHolds names.
LEMMA OutcomeIs ==
  \A c : TableHolds(c) => Table2!Buckets = Outcome(c, data, gen, count, grow, p)
<1> SUFFICES ASSUME NEW c, TableHolds(c) PROVE Table2!Buckets = Outcome(c, data, gen, count, grow, p)
  OBVIOUS
<1>0. /\ gen \in {0, 1} /\ 1 - gen \in {0, 1} /\ count \in Nat /\ count <= MaxBuckets
      /\ grow \in Nat /\ grow <= MaxBuckets /\ MaxBuckets \in Nat
      /\ ListHolds(BucketPlaces, Nodes, c)
  BY DataStructAssumption DEF TableHolds
<1>1. ASSUME NEW g \in {0, 1}, NEW n \in Nat, n <= MaxBuckets
      PROVE  Table2!Vector(g, n) = ValuesIn(c, data, g, n)
  <2>1. ASSUME NEW b \in 0 .. n - 1 PROVE Table2!DataOf(<<g, b>>) = DataIn(data, c[<<g, b>>])
    <3>1. <<g, b>> \in BucketPlaces
      BY <1>0, <1>1 DEF BucketPlaces
    <3>2. Table2!L!Chain(<<g, b>>) = c[<<g, b>>]
      BY <1>0, <3>1, TableChain
    <3> QED
      BY <3>2, Zenon DEF Table2!DataOf, DataIn
  <2> QED
    BY <2>1, Zenon DEF Table2!Vector, ValuesIn
<1>2. /\ Table2!Vector(gen, count) = ValuesIn(c, data, gen, count)
      /\ Table2!Vector(1 - gen, grow) = ValuesIn(c, data, 1 - gen, grow)
  BY <1>0, <1>1
<1>3. Table2!Waiting = ToMove(ValuesIn(c, data, gen, count), data, p)
  BY <1>2, SameTable, TableNodesAre, Zenon DEF Table2!Waiting, ToMove
<1> QED
  BY <1>2, <1>3, SameTable, Zenon DEF Table2!Buckets, Outcome

\* The values of a list: of the same nodes, ...
LEMMA DataSame ==
  ASSUME NEW dt, NEW dt2, NEW m, \A n \in NodeSet(m) : dt2[n] = dt[n]
  PROVE  DataIn(dt2, m) = DataIn(dt, m)
<1>1. \A i \in 1 .. Len(m) : dt2[m[i]] = dt[m[i]]
  BY DEF NodeSet
<1> QED
  BY <1>1 DEF DataIn

\* ... each a natural number, ...
LEMMA DataTyped ==
  ASSUME NEW D, NEW dt, NEW m \in Seq(D), \A n \in NodeSet(m) : dt[n] \in Nat
  PROVE  /\ DataIn(dt, m) \in Seq(Nat) /\ Len(DataIn(dt, m)) = Len(m)
         /\ \A i \in 1 .. Len(m) : DataIn(dt, m)[i] = dt[m[i]]
<1>1. \A i \in 1 .. Len(m) : dt[m[i]] \in Nat
  BY DEF NodeSet
<1>2. Len(m) \in Nat
  OBVIOUS
<1> QED
  BY <1>1, <1>2 DEF DataIn

\* ... of one node more, ...
LEMMA DataAppend ==
  ASSUME NEW D, NEW dt, NEW m \in Seq(D), NEW n \in D,
         \A k \in NodeSet(m) : dt[k] \in Nat, dt[n] \in Nat
  PROVE  DataIn(dt, Append(m, n)) = Append(DataIn(dt, m), dt[n])
<1>1. PICK y : y = Append(m, n)
  OBVIOUS
<1>2. /\ y \in Seq(D) /\ Len(y) = Len(m) + 1 /\ y[Len(m) + 1] = n /\ Len(m) \in Nat
      /\ \A i \in 1 .. Len(m) : y[i] = m[i]
  BY <1>1, AppendProperties
<1>3. PICK s : s = DataIn(dt, m)
  OBVIOUS
<1>4. s \in Seq(Nat) /\ Len(s) = Len(m) /\ \A i \in 1 .. Len(m) : s[i] = dt[m[i]]
  BY <1>3, DataTyped
<1>5. PICK z : z = Append(s, dt[n])
  OBVIOUS
<1>6. /\ z \in Seq(Nat) /\ Len(z) = Len(s) + 1 /\ z[Len(s) + 1] = dt[n]
      /\ \A i \in 1 .. Len(s) : z[i] = s[i]
  BY <1>4, <1>5, AppendProperties
<1>7. ASSUME NEW k \in NodeSet(y) PROVE dt[k] \in Nat
  <2>1. PICK i \in 1 .. Len(y) : k = y[i]
    BY DEF NodeSet
  <2>2. i \in 1 .. Len(m) \/ i = Len(m) + 1
    BY <1>2, <2>1
  <2> QED
    BY <1>2, <2>1, <2>2 DEF NodeSet
<1>8. PICK x : x = DataIn(dt, y)
  OBVIOUS
<1>9. x \in Seq(Nat) /\ Len(x) = Len(y) /\ \A i \in 1 .. Len(y) : x[i] = dt[y[i]]
  BY <1>2, <1>7, <1>8, DataTyped
<1>10. \A i \in 1 .. Len(x) : x[i] = z[i]
  <2> SUFFICES ASSUME NEW i \in 1 .. Len(x) PROVE x[i] = z[i]
    OBVIOUS
  <2>1. i \in 1 .. Len(y) /\ (i \in 1 .. Len(m) \/ i = Len(m) + 1)
    BY <1>2, <1>9
  <2>2. x[i] = dt[y[i]]
    BY <1>9, <2>1
  <2>3. CASE i \in 1 .. Len(m)
    BY <1>2, <1>4, <1>6, <2>2, <2>3
  <2>4. CASE i = Len(m) + 1
    BY <1>2, <1>4, <1>6, <2>2, <2>4
  <2> QED
    BY <2>1, <2>3, <2>4
<1>11. x = z
  BY <1>2, <1>4, <1>6, <1>9, <1>10, SeqEqual, Zenon
<1> QED
  BY <1>1, <1>3, <1>5, <1>8, <1>11

\* ... of all but one of the nodes.
LEMMA DataWithout ==
  ASSUME NEW D, NEW dt, NEW m \in Seq(D), NEW i \in 1 .. Len(m), \A k \in NodeSet(m) : dt[k] \in Nat
  PROVE  DataIn(dt, Deques!Without(m, i)) = Deques!Without(DataIn(dt, m), i)
<1>1. PICK y : y = Deques!Without(m, i)
  OBVIOUS
<1>2. /\ y \in Seq(D) /\ Len(y) = Len(m) - 1 /\ Len(m) \in Nat
      /\ \A j \in 1 .. Len(y) : y[j] = IF j < i THEN m[j] ELSE m[j + 1]
  BY <1>1, WithoutIs
<1>3. PICK s : s = DataIn(dt, m)
  OBVIOUS
<1>4. s \in Seq(Nat) /\ Len(s) = Len(m) /\ \A j \in 1 .. Len(m) : s[j] = dt[m[j]]
  BY <1>3, DataTyped
<1>5. PICK z : z = Deques!Without(s, i)
  OBVIOUS
<1>6. /\ z \in Seq(Nat) /\ Len(z) = Len(s) - 1
      /\ \A j \in 1 .. Len(z) : z[j] = IF j < i THEN s[j] ELSE s[j + 1]
  BY <1>4, <1>5, WithoutIs
<1>7. \A j \in 1 .. Len(y) : j \in 1 .. Len(m) /\ j + 1 \in 1 .. Len(m)
  BY <1>2
<1>8. ASSUME NEW k \in NodeSet(y) PROVE dt[k] \in Nat
  <2>1. PICK j \in 1 .. Len(y) : k = y[j]
    BY DEF NodeSet
  <2> QED
    BY <1>2, <1>7, <2>1 DEF NodeSet
<1>9. PICK x : x = DataIn(dt, y)
  OBVIOUS
<1>10. x \in Seq(Nat) /\ Len(x) = Len(y) /\ \A j \in 1 .. Len(y) : x[j] = dt[y[j]]
  <2>1. y \in Seq(D) /\ \A k \in NodeSet(y) : dt[k] \in Nat
    BY <1>2, <1>8
  <2> QED
    BY <1>9, <2>1, DataTyped
<1>11. \A j \in 1 .. Len(x) : x[j] = z[j]
  <2> SUFFICES ASSUME NEW j \in 1 .. Len(x) PROVE x[j] = z[j]
    OBVIOUS
  <2>1. j \in 1 .. Len(y) /\ j \in 1 .. Len(z) /\ j \in 1 .. Len(m) /\ j + 1 \in 1 .. Len(m)
    BY <1>2, <1>4, <1>6, <1>7, <1>10
  <2>2. x[j] = dt[y[j]] /\ y[j] = (IF j < i THEN m[j] ELSE m[j + 1])
    BY <1>2, <1>10, <2>1
  <2>3. z[j] = (IF j < i THEN s[j] ELSE s[j + 1]) /\ s[j] = dt[m[j]] /\ s[j + 1] = dt[m[j + 1]]
    BY <1>4, <1>6, <2>1
  <2> QED
    BY <2>2, <2>3
<1>12. x = z
  BY <1>2, <1>4, <1>6, <1>10, <1>11, SeqEqual, Zenon
<1> QED
  BY <1>1, <1>3, <1>5, <1>9, <1>12

\* The first value and the others
LEMMA WithoutFirst ==
  ASSUME NEW s \in Seq(Nat), Len(s) # 0
  PROVE  s = <<s[1]>> \o Deques!Without(s, 1)
<1>0. 1 \in 1 .. Len(s) /\ Len(s) \in Nat
  OBVIOUS
<1>1. PICK y : y = Deques!Without(s, 1)
  OBVIOUS
<1>2. /\ y \in Seq(Nat) /\ Len(y) = Len(s) - 1
      /\ \A j \in 1 .. Len(y) : y[j] = IF j < 1 THEN s[j] ELSE s[j + 1]
  BY <1>0, <1>1, WithoutIs
<1>3. PICK z : z = <<s[1]>> \o y
  OBVIOUS
<1>4. /\ z \in Seq(Nat) /\ Len(z) = Len(y) + 1 /\ z[1] = s[1]
      /\ \A j \in 1 .. Len(y) : z[j + 1] = y[j]
  BY <1>0, <1>2, <1>3
<1>5. ASSUME NEW j \in 1 .. Len(s) PROVE s[j] = z[j]
  <2>1. CASE j = 1
    BY <1>4, <2>1
  <2>2. CASE j # 1
    <3>1. PICK k : k = j - 1
      OBVIOUS
    <3>2. k \in 1 .. Len(y) /\ k + 1 = j /\ ~ (k < 1)
      BY <1>0, <1>2, <2>2, <3>1
    <3> QED
      BY <1>2, <1>4, <3>2
  <2> QED
    BY <2>1, <2>2
<1>6. Len(s) = Len(z)
  BY <1>0, <1>2, <1>4
<1>7. s = z
  BY <1>4, <1>5, <1>6, SeqEqual, Zenon
<1> QED
  BY <1>1, <1>3, <1>7

\* The nodes of a bucket have values that are numbers.
LEMMA BucketData ==
  ASSUME NEW c, TableHolds(c), NEW l \in BucketPlaces
  PROVE  /\ c[l] \in Seq(Nodes) /\ NodeSet(c[l]) \subseteq alive
         /\ \A n \in NodeSet(c[l]) : data[n] \in Nat
<1>1. /\ c \in [BucketPlaces -> Seq(Nodes)]
      /\ \A n \in Nodes : n \in alive \ held <=> Covered(BucketPlaces, c, n)
      /\ \A n \in alive : data[n] \in Nat
  BY DEF TableHolds, ListHolds
<1>2. c[l] \in Seq(Nodes)
  BY <1>1
<1>3. ASSUME NEW n \in NodeSet(c[l]) PROVE n \in alive
  <2>1. n \in Nodes
    BY <1>2 DEF NodeSet
  <2> QED
    BY <1>1, <2>1 DEF Covered
<1> QED
  BY <1>1, <1>2, <1>3

LEMMA ValuesTyped ==
  ASSUME NEW c, TableHolds(c), NEW g \in {0, 1}, NEW n \in Nat, n <= MaxBuckets
  PROVE  ValuesIn(c, data, g, n) \in [0 .. n - 1 -> Seq(Nat)]
<1>1. ASSUME NEW b \in 0 .. n - 1 PROVE DataIn(data, c[<<g, b>>]) \in Seq(Nat)
  <2>1. <<g, b>> \in BucketPlaces
    BY DataStructAssumption DEF BucketPlaces
  <2>2. c[<<g, b>>] \in Seq(Nodes) /\ \A x \in NodeSet(c[<<g, b>>]) : data[x] \in Nat
    BY <2>1, BucketData
  <2> QED
    BY <2>2, DataTyped
<1> QED
  BY <1>1 DEF ValuesIn

\* Other nodes in one bucket
IsVector(c, g, n) == /\ c \in [BucketPlaces -> Seq(Nodes)]
                     /\ \A b \in 0 .. n - 1 : <<g, b>> \in BucketPlaces

LEMMA ValuesChange ==
  ASSUME NEW c, NEW g, NEW n, IsVector(c, g, n), NEW h \in 0 .. n - 1, NEW y, NEW dt
  PROVE  ValuesIn([c EXCEPT ![<<g, h>>] = y], dt, g, n)
           = [ValuesIn(c, dt, g, n) EXCEPT ![h] = DataIn(dt, y)]
<1>0. c \in [BucketPlaces -> Seq(Nodes)] /\ \A b \in 0 .. n - 1 : <<g, b>> \in BucketPlaces
  BY DEF IsVector
<1>1. PICK e : e = [c EXCEPT ![<<g, h>>] = y]
  OBVIOUS
<1>2. PICK l : l = <<g, h>>
  OBVIOUS
<1>3. e[l] = y /\ \A k \in BucketPlaces : k # l => e[k] = c[k]
  BY <1>0, <1>1, <1>2
<1>4. ASSUME NEW b \in 0 .. n - 1 PROVE e[<<g, b>>] = IF b = h THEN y ELSE c[<<g, b>>]
  <2>1. b # h => <<g, b>> # l
    BY <1>2
  <2> QED
    BY <1>0, <1>2, <1>3, <2>1
<1>5. ValuesIn(e, dt, g, n) = [ValuesIn(c, dt, g, n) EXCEPT ![h] = DataIn(dt, y)]
  BY <1>4 DEF ValuesIn
<1> QED
  BY <1>1, <1>5

LEMMA ValuesOthers ==
  ASSUME NEW c, NEW f, NEW n, IsVector(c, f, n), NEW g, f # g, NEW h, NEW y, NEW dt
  PROVE  ValuesIn([c EXCEPT ![<<g, h>>] = y], dt, f, n) = ValuesIn(c, dt, f, n)
<1>0. c \in [BucketPlaces -> Seq(Nodes)] /\ \A b \in 0 .. n - 1 : <<f, b>> \in BucketPlaces
  BY DEF IsVector
<1>1. PICK e : e = [c EXCEPT ![<<g, h>>] = y]
  OBVIOUS
<1>2. ASSUME NEW b \in 0 .. n - 1 PROVE e[<<f, b>>] = c[<<f, b>>]
  <2>1. <<f, b>> # <<g, h>>
    OBVIOUS
  <2> QED
    BY <1>0, <1>1, <2>1
<1>3. ValuesIn(e, dt, f, n) = ValuesIn(c, dt, f, n)
  BY <1>2, Zenon DEF ValuesIn
<1> QED
  BY <1>1, <1>3

\* What the invariant says of the places
LEMMA PlacesAre ==
  ASSUME NEW c, TableHolds(c)
  PROVE  /\ gen \in {0, 1} /\ 1 - gen \in {0, 1} /\ 1 - gen # gen /\ 1 - (1 - gen) = gen
         /\ count \in Nat \ {0} /\ count <= MaxBuckets /\ grow \in Nat /\ grow <= MaxBuckets
         /\ (\A b \in 0 .. count - 1 : b \in 0 .. MaxBuckets - 1 /\ <<gen, b>> \in BucketPlaces)
         /\ (\A b \in 0 .. grow - 1 : b \in 0 .. MaxBuckets - 1 /\ <<1 - gen, b>> \in BucketPlaces)
         /\ c \in [BucketPlaces -> Seq(Nodes)]
<1>1. MaxBuckets \in Nat
  BY DataStructAssumption
<1>2. /\ gen \in {0, 1} /\ 1 - gen \in {0, 1} /\ 1 - gen # gen /\ 1 - (1 - gen) = gen
      /\ count \in Nat \ {0} /\ count <= MaxBuckets /\ grow \in Nat /\ grow <= MaxBuckets
  BY <1>1 DEF TableHolds
<1>3. \A b \in 0 .. count - 1 : b \in 0 .. MaxBuckets - 1 /\ <<gen, b>> \in BucketPlaces
  <2>1. \A b \in 0 .. count - 1 : b \in 0 .. MaxBuckets - 1
    BY <1>1, <1>2
  <2> QED
    BY <1>2, <2>1 DEF BucketPlaces
<1>4. \A b \in 0 .. grow - 1 : b \in 0 .. MaxBuckets - 1 /\ <<1 - gen, b>> \in BucketPlaces
  <2>1. \A b \in 0 .. grow - 1 : b \in 0 .. MaxBuckets - 1
    BY <1>1, <1>2
  <2> QED
    BY <1>2, <2>1 DEF BucketPlaces
<1> QED
  BY <1>2, <1>3, <1>4 DEF TableHolds, ListHolds

\* The first node of the first bucket that is not empty is taken out: the list that is
\* left to move is the same.
LEMMA TakeNodeKeeps ==
  ASSUME NEW c, TableHolds(c), Table2!TakeNode
  PROVE  \E e : TableHolds(e)' /\ Outcome(e, data', gen', count', grow', p') = Outcome(c, data, gen, count, grow, p)
<1>0. /\ gen \in {0, 1} /\ 1 - gen # gen /\ count \in Nat \ {0} /\ count <= MaxBuckets
      /\ grow \in Nat /\ grow <= MaxBuckets
      /\ (\A b \in 0 .. count - 1 : b \in 0 .. MaxBuckets - 1 /\ <<gen, b>> \in BucketPlaces)
      /\ (\A b \in 0 .. grow - 1 : b \in 0 .. MaxBuckets - 1 /\ <<1 - gen, b>> \in BucketPlaces)
      /\ c \in [BucketPlaces -> Seq(Nodes)]
  BY PlacesAre
<1>1. PICK l : l = <<gen, at>>
  OBVIOUS
<1>2. /\ grow > 0 /\ p = -1 /\ at < count
      /\ PopsFront(Nodes, l) /\ p' = head[l]
      /\ size' = size /\ gen' = gen /\ count' = count /\ grow' = grow /\ at' = at /\ data' = data
  BY <1>1, TableNodesAre, TableOps DEF Table2!TakeNode, Table2!L!PopFront
<1>3. at \in 0 .. count - 1 /\ l \in BucketPlaces
  BY <1>0, <1>1, <1>2 DEF TableHolds
<1>4. PICK m : m = c[l]
  OBVIOUS
<1>5. ListHolds(BucketPlaces, Nodes, c)
  BY DEF TableHolds
<1>6. Takes(Nodes, l, m, 1) /\ m[1] = head[l]
  BY <1>2, <1>3, <1>4, <1>5, TableNodesAre, PopFrontTakes
<1>7. PICK y : y = Deques!Without(m, 1)
  OBVIOUS
<1>8. PICK e : e = [c EXCEPT ![l] = y]
  OBVIOUS
<1>9. ListHolds(BucketPlaces, Nodes, e)'
  <2>1. ListHolds(BucketPlaces, Nodes, [c EXCEPT ![l] = Deques!Without(c[l], 1)])'
    BY <1>3, <1>4, <1>5, <1>6, TableNodesAre, ListTake
  <2> QED
    BY <1>4, <1>7, <1>8, <2>1
<1>10. held' = held \cup {m[1]} /\ alive' = alive /\ 1 \in 1 .. Len(m)
  BY <1>6 DEF Takes
<1>11. /\ m \in Seq(Nodes) /\ NodeSet(m) \subseteq alive /\ \A n \in NodeSet(m) : data[n] \in Nat
  BY <1>3, <1>4, BucketData
<1>12. m[1] \in NodeSet(m) /\ m[1] \in Nodes /\ m[1] # -1 /\ data[m[1]] \in Nat
  BY <1>10, <1>11, TableNodesAre DEF NodeSet, NodesAre
<1>13. TableHolds(e)'
  <2>1. \A b \in 0 .. MaxBuckets - 1 :
             /\ b >= count \/ b < at => e[<<gen, b>>] = <<>>
             /\ b >= grow => e[<<1 - gen, b>>] = <<>>
    <3> SUFFICES ASSUME NEW b \in 0 .. MaxBuckets - 1
                 PROVE  /\ b >= count \/ b < at => e[<<gen, b>>] = <<>>
                        /\ b >= grow => e[<<1 - gen, b>>] = <<>>
      OBVIOUS
    <3>1. (b >= count \/ b < at => b # at)
      BY <1>0, <1>3
    <3>2. <<1 - gen, b>> # l /\ (b # at => <<gen, b>> # l)
      BY <1>0, <1>1
    <3>3. <<1 - gen, b>> \in BucketPlaces /\ <<gen, b>> \in BucketPlaces
      BY <1>0 DEF BucketPlaces
    <3>4. e[<<1 - gen, b>>] = c[<<1 - gen, b>>] /\ (b # at => e[<<gen, b>>] = c[<<gen, b>>])
      BY <1>0, <1>8, <3>2, <3>3
    <3>5. /\ b >= count \/ b < at => c[<<gen, b>>] = <<>>
          /\ b >= grow => c[<<1 - gen, b>>] = <<>>
      BY DEF TableHolds
    <3> QED
      BY <3>1, <3>4, <3>5
  <2>2. p' = m[1] /\ p' # -1 /\ p' \in Nodes /\ p' \in held'
    BY <1>2, <1>6, <1>10, <1>12
  <2> QED
    BY <1>2, <1>9, <1>10, <2>1, <2>2 DEF TableHolds
<1>14. PICK bs : bs = ValuesIn(c, data, gen, count)
  OBVIOUS
<1>15. PICK t : t = DataIn(data, y)
  OBVIOUS
<1>16. bs \in [0 .. count - 1 -> Seq(Nat)]
  BY <1>0, <1>14, ValuesTyped
<1>17. bs[at] = <<data[m[1]]>> \o t /\ t \in Seq(Nat)
  <2>1. PICK s : s = DataIn(data, m)
    OBVIOUS
  <2>2. s \in Seq(Nat) /\ Len(s) = Len(m) /\ s[1] = data[m[1]]
    BY <1>10, <1>11, <2>1, DataTyped
  <2>3. t = Deques!Without(s, 1)
    BY <1>7, <1>10, <1>11, <1>15, <2>1, DataWithout
  <2>4. Len(s) # 0 /\ 1 \in 1 .. Len(s)
    BY <1>10, <2>2
  <2>5. s = <<s[1]>> \o t
    BY <2>2, <2>3, <2>4, WithoutFirst
  <2>6. t \in Seq(Nat)
    BY <2>2, <2>3, <2>4, WithoutIs
  <2>7. bs[at] = s
    BY <1>1, <1>3, <1>4, <1>14, <2>1 DEF ValuesIn
  <2> QED
    BY <2>2, <2>5, <2>6, <2>7
<1>18. PICK bs2 : bs2 = [bs EXCEPT ![at] = t]
  OBVIOUS
<1>19. ValuesIn(e, data, gen, count) = bs2
  <2>1. PICK dt, g, n, h : dt = data /\ g = gen /\ n = count /\ h = at
    OBVIOUS
  <2>2. IsVector(c, g, n) /\ h \in 0 .. n - 1
    BY <1>0, <1>3, <2>1 DEF IsVector
  <2>3. ValuesIn([c EXCEPT ![<<g, h>>] = y], dt, g, n)
          = [ValuesIn(c, dt, g, n) EXCEPT ![h] = DataIn(dt, y)]
    BY <2>2, ValuesChange
  <2> QED
    BY <1>1, <1>8, <1>14, <1>15, <1>18, <2>1, <2>3, Zenon
<1>20. ValuesIn(e, data, 1 - gen, grow) = ValuesIn(c, data, 1 - gen, grow)
  <2>1. PICK dt, f, g, n, h : dt = data /\ f = 1 - gen /\ g = gen /\ n = grow /\ h = at
    OBVIOUS
  <2>2. IsVector(c, f, n) /\ f # g
    BY <1>0, <2>1 DEF IsVector
  <2>3. ValuesIn([c EXCEPT ![<<g, h>>] = y], dt, f, n) = ValuesIn(c, dt, f, n)
    BY <2>2, ValuesOthers
  <2> QED
    BY <1>1, <1>8, <2>1, <2>3, Zenon
<1>21. Table1!InOrder(bs) = <<data[m[1]]>> \o Table1!InOrder(bs2)
  <2>1. \A b \in 0 .. at - 1 : bs[b] = <<>>
    <3> SUFFICES ASSUME NEW b \in 0 .. at - 1 PROVE bs[b] = <<>>
      OBVIOUS
    <3>0. count \in Int /\ at \in Int
      BY <1>0, <1>3
    <3>1. b \in 0 .. count - 1 /\ b < at /\ b \in 0 .. MaxBuckets - 1
      <4>1. b \in 0 .. count - 1 /\ b < at
        BY <1>3, <3>0
      <4> QED
        BY <1>0, <4>1
    <3>2. c[<<gen, b>>] = <<>>
      BY <3>1 DEF TableHolds
    <3> QED
      BY <1>14, <3>1, <3>2 DEF ValuesIn, DataIn
  <2>2. PICK d, n, h : d = data[m[1]] /\ n = count /\ h = at
    OBVIOUS
  <2>3. PICK s : s = <<d>> \o Table1!InOrder([bs EXCEPT ![h] = t])
    OBVIOUS
  <2>4. FirstLies(bs, n, h, d, t, s)
    BY <1>0, <1>3, <1>12, <1>16, <1>17, <2>1, <2>2, <2>3, Zenon DEF FirstLies
  <2>5. Table1!InOrder(bs) = s
    BY <2>4, FirstInOrder
  <2> QED
    BY <1>18, <2>2, <2>3, <2>5, Zenon
<1>22. ToMove(bs2, data, m[1]) = ToMove(bs, data, -1)
  BY <1>12, <1>21, Zenon DEF ToMove
<1>23. Outcome(e, data', gen', count', grow', p') = Outcome(c, data, gen, count, grow, p)
  <2>1. PICK dt, g, n, w : dt = data /\ g = gen /\ n = count /\ w = grow
    OBVIOUS
  <2>2. Outcome(e, dt, g, n, w, m[1]) = Outcome(c, dt, g, n, w, -1)
    <3>1. w # 0
      BY <1>0, <1>2, <2>1
    <3> QED
      BY <1>14, <1>19, <1>20, <1>22, <2>1, <3>1, Zenon DEF Outcome
  <2> QED
    BY <1>2, <1>6, <2>1, <2>2, Zenon
<1> QED
  BY <1>13, <1>23

\* No node is left in the bucket.
LEMMA NextBucketKeeps ==
  ASSUME NEW c, TableHolds(c), Table2!NextBucket
  PROVE  TableHolds(c)' /\ Outcome(c, data', gen', count', grow', p') = Outcome(c, data, gen, count, grow, p)
<1>0. /\ gen \in {0, 1} /\ count \in Nat \ {0}
      /\ (\A b \in 0 .. count - 1 : b \in 0 .. MaxBuckets - 1 /\ <<gen, b>> \in BucketPlaces)
      /\ c \in [BucketPlaces -> Seq(Nodes)]
  BY PlacesAre
<1>1. /\ grow > 0 /\ at < count /\ head[<<gen, at>>] = -1 /\ at' = at + 1
      /\ UNCHANGED listVars /\ gen' = gen /\ count' = count /\ grow' = grow /\ p' = p
  BY TableNodesAre DEF Table2!NextBucket, Table2!listVars, listVars
<1>2. at \in 0 .. count - 1 /\ <<gen, at>> \in BucketPlaces /\ at \in Int
  BY <1>0, <1>1 DEF TableHolds
<1>3. c[<<gen, at>>] = <<>>
  <2>1. PICK m : m = c[<<gen, at>>]
    OBVIOUS
  <2>2. Doubly(Nodes, -1, m, -1, tail[<<gen, at>>], next, prev)
    BY <1>1, <1>2, <2>1 DEF TableHolds, ListHolds
  <2>3. m \in Seq(Nodes) /\ (Len(m) # 0 => 1 \in 1 .. Len(m))
    BY <2>2 DEF Doubly
  <2>4. Len(m) = 0
    BY <2>2, <2>3 DEF Doubly, Linked
  <2> QED
    BY <2>1, <2>3, <2>4, EmptySeq
<1>4. ListHolds(BucketPlaces, Nodes, c)'
  BY <1>1 DEF TableHolds, ListHolds, ListTypes, listVars
<1>5. \A b \in 0 .. MaxBuckets - 1 : b < at + 1 => c[<<gen, b>>] = <<>>
  <2>1. \A b \in 0 .. MaxBuckets - 1 : b < at + 1 => b < at \/ b = at
    BY <1>2
  <2> QED
    BY <1>3, <2>1 DEF TableHolds
<1>6. at + 1 \in 0 .. count
  BY <1>0, <1>1, <1>2
<1>7. TableHolds(c)'
  BY <1>1, <1>4, <1>5, <1>6 DEF TableHolds, listVars
<1> QED
  BY <1>1, <1>7 DEF listVars

\* The node goes to the end of the bucket that the hash of its value names.
LEMMA MoveNodeKeeps ==
  ASSUME NEW c, TableHolds(c), Table2!MoveNode
  PROVE  \E e : TableHolds(e)' /\ Outcome(e, data', gen', count', grow', p') = Outcome(c, data, gen, count, grow, p)
<1>0. /\ gen \in {0, 1} /\ 1 - gen \in {0, 1} /\ 1 - gen # gen
      /\ count \in Nat \ {0} /\ count \in Nat /\ count <= MaxBuckets /\ grow \in Nat /\ grow <= MaxBuckets
      /\ (\A b \in 0 .. count - 1 : b \in 0 .. MaxBuckets - 1 /\ <<gen, b>> \in BucketPlaces)
      /\ (\A b \in 0 .. grow - 1 : b \in 0 .. MaxBuckets - 1 /\ <<1 - gen, b>> \in BucketPlaces)
      /\ c \in [BucketPlaces -> Seq(Nodes)]
  BY PlacesAre
<1>1. PICK l : l = <<1 - gen, data[p] % grow>>
  OBVIOUS
<1>2. /\ p # -1 /\ p \in held /\ held' = held \ {p} /\ Attaches(l, p)
      /\ tail' = [tail EXCEPT ![l] = p] /\ data' = data /\ alive' = alive /\ p' = -1
      /\ size' = size /\ gen' = gen /\ count' = count /\ grow' = grow /\ at' = at
  BY <1>1, TableNodesAre, TableOps DEF Table2!MoveNode, Table2!L!PushBackNode
<1>3. ListHolds(BucketPlaces, Nodes, c) /\ held \subseteq alive /\ alive \subseteq Nodes
  BY DEF TableHolds, ListHolds, ListTypes
<1>4. p \in Nodes /\ p \in alive /\ data[p] \in Nat /\ grow # 0 /\ grow \in Nat \ {0}
  BY <1>0, <1>2, <1>3 DEF TableHolds
<1>5. PICK h \in 0 .. grow - 1 : h = data[p] % grow
  <2>1. PICK v \in Nat, n \in Nat \ {0} : v = data[p] /\ n = grow
    BY <1>4
  <2>2. v % n \in 0 .. n - 1
    BY Remainder
  <2> QED
    BY <2>1, <2>2
<1>6. l = <<1 - gen, h>> /\ l \in BucketPlaces
  BY <1>0, <1>1, <1>5
<1>7. PICK y : y = Append(c[l], p)
  OBVIOUS
<1>8. PICK e : e = [c EXCEPT ![l] = y]
  OBVIOUS
<1>9. ListHolds(BucketPlaces, Nodes, e)'
  <2>1. PICK n \in Nodes : n = p
    BY <1>4
  <2>2. alive' = alive \cup {n} /\ n \notin alive \ held /\ Attaches(l, n)
        /\ held' = held \ {n} /\ tail' = [tail EXCEPT ![l] = n]
    BY <1>2, <1>4, <2>1
  <2>3. ListHolds(BucketPlaces, Nodes, [c EXCEPT ![l] = Append(c[l], n)])'
    BY <1>3, <1>6, <2>2, TableNodesAre, ListPush
  <2>4. e = [c EXCEPT ![l] = Append(c[l], n)]
    BY <1>7, <1>8, <2>1
  <2> QED
    BY <2>3, <2>4
<1>10. \A b \in 0 .. MaxBuckets - 1 :
             /\ b >= count \/ b < at => e[<<gen, b>>] = <<>>
             /\ b >= grow => e[<<1 - gen, b>>] = <<>>
  <2> SUFFICES ASSUME NEW b \in 0 .. MaxBuckets - 1
               PROVE  /\ b >= count \/ b < at => e[<<gen, b>>] = <<>>
                      /\ b >= grow => e[<<1 - gen, b>>] = <<>>
    OBVIOUS
  <2>1. b >= grow => b # h
    BY <1>0, <1>5
  <2>2. <<gen, b>> # l /\ (b # h => <<1 - gen, b>> # l)
    BY <1>0, <1>6
  <2>3. <<1 - gen, b>> \in BucketPlaces /\ <<gen, b>> \in BucketPlaces
    BY <1>0 DEF BucketPlaces
  <2>4. e[<<gen, b>>] = c[<<gen, b>>] /\ (b # h => e[<<1 - gen, b>>] = c[<<1 - gen, b>>])
    BY <1>0, <1>8, <2>2, <2>3
  <2>5. /\ b >= count \/ b < at => c[<<gen, b>>] = <<>>
        /\ b >= grow => c[<<1 - gen, b>>] = <<>>
    BY DEF TableHolds
  <2> QED
    BY <2>1, <2>4, <2>5
<1>11. TableHolds(e)'
  BY <1>2, <1>4, <1>9, <1>10 DEF TableHolds
<1>12. PICK bs, w : bs = ValuesIn(c, data, 1 - gen, grow) /\ w = Table1!InOrder(ValuesIn(c, data, gen, count))
  OBVIOUS
<1>13. bs \in [0 .. grow - 1 -> Seq(Nat)] /\ w \in Seq(Nat)
  <2>1. ValuesIn(c, data, gen, count) \in [0 .. count - 1 -> Seq(Nat)]
    BY <1>0, ValuesTyped
  <2>2. bs \in [0 .. grow - 1 -> Seq(Nat)]
    BY <1>0, <1>12, ValuesTyped
  <2> QED
    BY <1>0, <1>12, <2>1, <2>2, InOrderTyped
<1>14. ValuesIn(e, data, 1 - gen, grow) = [bs EXCEPT ![h] = Append(bs[h], data[p])]
  <2>1. c[l] \in Seq(Nodes) /\ \A n \in NodeSet(c[l]) : data[n] \in Nat
    BY <1>6, BucketData
  <2>2. DataIn(data, y) = Append(DataIn(data, c[l]), data[p])
    BY <1>4, <1>7, <2>1, DataAppend
  <2>3. bs[h] = DataIn(data, c[l])
    BY <1>5, <1>6, <1>12 DEF ValuesIn
  <2>4. PICK dt, g, n : dt = data /\ g = 1 - gen /\ n = grow
    OBVIOUS
  <2>5. IsVector(c, g, n) /\ h \in 0 .. n - 1
    BY <1>0, <1>5, <2>4 DEF IsVector
  <2>6. ValuesIn([c EXCEPT ![<<g, h>>] = y], dt, g, n)
          = [ValuesIn(c, dt, g, n) EXCEPT ![h] = DataIn(dt, y)]
    BY <2>5, ValuesChange
  <2> QED
    BY <1>6, <1>8, <1>12, <2>2, <2>3, <2>4, <2>6, Zenon
<1>15. ValuesIn(e, data, gen, count) = ValuesIn(c, data, gen, count)
  <2>1. PICK dt, f, g, n : dt = data /\ f = gen /\ g = 1 - gen /\ n = count
    OBVIOUS
  <2>2. IsVector(c, f, n) /\ f # g
    BY <1>0, <2>1 DEF IsVector
  <2>3. ValuesIn([c EXCEPT ![<<g, h>>] = y], dt, f, n) = ValuesIn(c, dt, f, n)
    BY <2>2, ValuesOthers
  <2> QED
    BY <1>6, <1>8, <2>1, <2>3, Zenon
<1>16. Table1!Spread(<<data[p]>> \o w, bs) = Table1!Spread(w, [bs EXCEPT ![h] = Append(bs[h], data[p])])
  <2>1. PICK v \in Nat, n \in Nat \ {0} : v = data[p] /\ n = grow
    BY <1>4
  <2>2. bs \in [0 .. n - 1 -> Seq(Nat)]
    BY <1>13, <2>1
  <2>3. w \in Seq(Nat)
    BY <1>13
  <2>5. PICK s, bs2 : s = <<v>> \o w /\ bs2 = [bs EXCEPT ![v % n] = Append(bs[v % n], v)]
    OBVIOUS
  <2>6. PutsFirst(bs, n, v, w, s, bs2)
    BY <2>1, <2>2, <2>3, <2>5, Zenon DEF PutsFirst
  <2>7. Table1!Spread(s, bs) = Table1!Spread(w, bs2)
    BY <2>6, SpreadFirst
  <2>4. h = v % n
    BY <1>5, <2>1
  <2> QED
    BY <2>1, <2>4, <2>5, <2>7, Zenon
<1>17. Outcome(e, data', gen', count', grow', p') = Outcome(c, data, gen, count, grow, p)
  <2>1. PICK dt, g, n, k, q : dt = data /\ g = gen /\ n = count /\ k = grow /\ q = p
    OBVIOUS
  <2>2. Outcome(e, dt, g, n, k, -1) = Outcome(c, dt, g, n, k, q)
    BY <1>2, <1>4, <1>12, <1>14, <1>15, <1>16, <2>1, Zenon DEF Outcome, ToMove
  <2> QED
    BY <1>2, <2>1, <2>2, Zenon
<1> QED
  BY <1>11, <1>17

\* buckets_ becomes the vector that has been filled.
LEMMA ReplaceKeeps ==
  ASSUME NEW c, TableHolds(c), Table2!Replace
  PROVE  TableHolds(c)' /\ Outcome(c, data', gen', count', grow', p') = Outcome(c, data, gen, count, grow, p)
<1>0. /\ gen \in {0, 1} /\ 1 - gen \in {0, 1} /\ 1 - (1 - gen) = gen
      /\ count \in Nat \ {0} /\ count <= MaxBuckets /\ grow \in Nat /\ grow <= MaxBuckets
      /\ (\A b \in 0 .. count - 1 : b \in 0 .. MaxBuckets - 1 /\ <<gen, b>> \in BucketPlaces)
  BY PlacesAre
<1>1. /\ grow > 0 /\ p = -1 /\ at = count
      /\ gen' = 1 - gen /\ count' = grow /\ grow' = 0 /\ at' = 0
      /\ UNCHANGED listVars /\ p' = p
  BY TableNodesAre DEF Table2!Replace, Table2!listVars, listVars
<1>2. ListHolds(BucketPlaces, Nodes, c)'
  BY <1>1 DEF TableHolds, ListHolds, ListTypes, listVars
<1>3. \A b \in 0 .. MaxBuckets - 1 : c[<<gen, b>>] = <<>>
  <2>1. \A b \in 0 .. MaxBuckets - 1 : b >= count \/ b < at
    BY <1>0, <1>1
  <2> QED
    BY <2>1 DEF TableHolds
<1>4. \A b \in 0 .. MaxBuckets - 1 :
             /\ b >= grow \/ b < 0 => c[<<1 - gen, b>>] = <<>>
             /\ c[<<1 - (1 - gen), b>>] = <<>>
  <2>1. \A b \in 0 .. MaxBuckets - 1 : ~ (b < 0)
    OBVIOUS
  <2> QED
    BY <1>0, <1>3, <2>1 DEF TableHolds
<1>5. grow \in 1 .. MaxBuckets /\ 0 \in 0 .. grow /\ 0 \in 0 .. MaxBuckets /\ MaxBuckets \in Nat
  BY <1>0, <1>1, DataStructAssumption
<1>6. TableHolds(c)'
  BY <1>0, <1>1, <1>2, <1>4, <1>5 DEF TableHolds, listVars
<1>7. Table1!InOrder(ValuesIn(c, data, gen, count)) = <<>>
  <2>1. PICK bs : bs = ValuesIn(c, data, gen, count)
    OBVIOUS
  <2>2. bs \in [0 .. count - 1 -> Seq(Nat)]
    BY <1>0, <2>1, ValuesTyped
  <2>3. \A b \in 0 .. count - 1 : bs[b] = <<>>
    BY <1>0, <1>3, <2>1 DEF ValuesIn, DataIn
  <2> QED
    BY <1>0, <2>1, <2>2, <2>3, NothingInOrder
<1>8. PICK bs : bs = ValuesIn(c, data, 1 - gen, grow)
  OBVIOUS
<1>9. Table1!Spread(<<>>, bs) = bs
  <2>1. bs \in [0 .. grow - 1 -> Seq(Nat)] /\ grow \in Nat \ {0}
    BY <1>0, <1>1, <1>8, ValuesTyped
  <2> QED
    BY <2>1, SpreadNone
<1>10. Outcome(c, data', gen', count', grow', p') = Outcome(c, data, gen, count, grow, p)
  <2>1. PICK dt, g, n, w : dt = data /\ g = gen /\ n = count /\ w = grow
    OBVIOUS
  <2>2. w # 0
    BY <1>0, <1>1, <2>1
  <2>3. Outcome(c, dt, 1 - g, w, 0, -1) = bs
    BY <1>8, <2>1, Zenon DEF Outcome
  <2>4. Outcome(c, dt, g, n, w, -1) = bs
    BY <1>7, <1>8, <1>9, <2>1, <2>2, Zenon DEF Outcome, ToMove
  <2>5. data' = data
    BY <1>1 DEF listVars
  <2> QED
    BY <1>1, <2>1, <2>3, <2>4, <2>5, Zenon
<1> QED
  BY <1>6, <1>10

\* find of a bucket finds the node of the first such value.
LEMMA TableFind ==
  ASSUME NEW c, TableHolds(c), NEW l \in BucketPlaces, NEW v, NEW s, s = DataIn(data, c[l])
  PROVE  /\ Table2!BucketFind(l, v) <=> Table1!In(v, s)
         /\ \A n \in Table2!L!Find(l, v) : FirstAt(s, v) \in 1 .. Len(c[l]) /\ c[l][FirstAt(s, v)] = n
<1>1. PICK m : m = c[l]
  OBVIOUS
<1>2. m \in Seq(Nodes) /\ \A n \in NodeSet(m) : data[n] \in Nat
  BY <1>1, BucketData
<1>3. s \in Seq(Nat) /\ Len(s) = Len(m) /\ \A i \in 1 .. Len(m) : s[i] = data[m[i]]
  BY <1>1, <1>2, DataTyped
<1>4. Table2!L!Chain(l) = m
  BY <1>1, TableChain DEF TableHolds
<1>5. ASSUME NEW n
      PROVE  n \in Table2!L!Find(l, v) <=>
                /\ n \in Nodes
                /\ \E i \in 1 .. Len(m) : /\ m[i] = n /\ data[n] = v
                                          /\ \A j \in 1 .. i - 1 : data[m[j]] # v
  BY <1>4 DEF Table2!L!Find
<1>6. ASSUME NEW n \in Table2!L!Find(l, v)
      PROVE  FirstAt(s, v) \in 1 .. Len(m) /\ m[FirstAt(s, v)] = n /\ Table1!In(v, s)
  <2>1. PICK i \in 1 .. Len(m) : m[i] = n /\ data[n] = v /\ \A j \in 1 .. i - 1 : data[m[j]] # v
    BY <1>5
  <2>2. i \in 1 .. Len(s) /\ s[i] = v
    BY <1>3, <2>1
  <2>3. \A j \in 1 .. i - 1 : s[j] # v
    <3>1. \A j \in 1 .. i - 1 : j \in 1 .. Len(m)
      BY <1>2
    <3> QED
      BY <1>3, <2>1, <3>1
  <2>4. FirstAt(s, v) = i
    BY <1>3, <2>2, <2>3, FirstIs
  <2> QED
    BY <2>1, <2>2, <2>4 DEF Table1!In
<1>7. ASSUME Table1!In(v, s) PROVE Table2!L!Find(l, v) # {}
  <2>1. v \in NodeSet(s)
    BY <1>7 DEF Table1!In, NodeSet
  <2>2. PICK i : i = FirstAt(s, v)
    OBVIOUS
  <2>3. i \in 1 .. Len(s) /\ s[i] = v /\ \A k \in 1 .. i - 1 : s[k] # v
    BY <1>3, <2>1, <2>2, FirstExists
  <2>4. i \in 1 .. Len(m) /\ m[i] \in Nodes /\ data[m[i]] = v
    BY <1>2, <1>3, <2>3
  <2>5. \A j \in 1 .. i - 1 : data[m[j]] # v
    <3>1. \A j \in 1 .. i - 1 : j \in 1 .. Len(m)
      BY <1>2, <2>4
    <3> QED
      BY <1>3, <2>3, <3>1
  <2>6. m[i] \in Table2!L!Find(l, v)
    BY <1>5, <2>4, <2>5
  <2> QED
    BY <2>6
<1>8. Table2!BucketFind(l, v) <=> Table2!L!Find(l, v) # {}
  BY DEF Table2!BucketFind
<1> QED
  BY <1>1, <1>6, <1>7, <1>8

\* When a rehash to k buckets starts, it is going to leave what do_rehash of version 1 leaves.
LEMMA GrowthStarts ==
  ASSUME NEW e, NEW dt, NEW g, NEW n \in Nat \ {0}, NEW k \in Nat, k > n,
         \A b \in 0 .. k - 1 : e[<<1 - g, b>>] = <<>>
  PROVE  Outcome(e, dt, g, n, k, -1) = Table1!Grow(ValuesIn(e, dt, g, n), k)
<1>1. PICK bs : bs = ValuesIn(e, dt, g, n)
  OBVIOUS
<1>2. Table1!Count(bs) = n
  <2>1. DOMAIN bs = 0 .. n - 1
    BY <1>1 DEF ValuesIn
  <2> QED
    BY <2>1, CountIs
<1>3. ValuesIn(e, dt, 1 - g, k) = [b \in 0 .. k - 1 |-> <<>>]
  <2>1. \A b \in 0 .. k - 1 : DataIn(dt, e[<<1 - g, b>>]) = <<>>
    BY DEF DataIn
  <2> QED
    BY <2>1, Zenon DEF ValuesIn
<1>4. k # 0 /\ k > Table1!Count(bs)
  BY <1>2
<1>5. Table1!Grow(bs, k) = Table1!Spread(Table1!InOrder(bs), [b \in 0 .. k - 1 |-> <<>>])
  BY <1>4, Zenon DEF Table1!Grow
<1>6. Outcome(e, dt, g, n, k, -1) = Table1!Spread(Table1!InOrder(bs), [b \in 0 .. k - 1 |-> <<>>])
  BY <1>1, <1>3, <1>4, Zenon DEF Outcome, ToMove
<1> QED
  BY <1>1, <1>5, <1>6, Zenon

\* The buckets with v in its bucket, and without
With(bs, n, v) == [bs EXCEPT ![v % n] = Append(bs[v % n], v)]
Less(bs, n, v) == [bs EXCEPT ![v % n] = Table1!BucketErase(bs[v % n], v)]

LEMMA InsertMoves ==
  ASSUME NEW c, TableHolds(c), NEW v \in Nat, Table2!Insert(v),
         NEW bs, bs = ValuesIn(c, data, gen, count)
  PROVE  /\ grow = 0 /\ ~Table1!In(v, bs[v % count]) /\ size' = size + 1
         /\ \E e : /\ TableHolds(e)'
                   /\ Outcome(e, data', gen', count', grow', p')
                        = IF size' > count THEN Table1!Grow(With(bs, count, v), Table1!DoublePrime(count))
                          ELSE With(bs, count, v)
<1>0. /\ gen \in {0, 1} /\ 1 - gen \in {0, 1} /\ 1 - gen # gen
      /\ count \in Nat \ {0} /\ count \in Nat /\ count <= MaxBuckets
      /\ (\A b \in 0 .. count - 1 : b \in 0 .. MaxBuckets - 1 /\ <<gen, b>> \in BucketPlaces)
      /\ c \in [BucketPlaces -> Seq(Nodes)]
  BY PlacesAre
<1>1. PICK h \in 0 .. count - 1 : h = v % count
  <2>1. PICK n \in Nat \ {0} : n = count
    BY <1>0
  <2>2. v % n \in 0 .. n - 1
    BY Remainder
  <2> QED
    BY <2>1, <2>2
<1>2. PICK l : l = <<gen, h>>
  OBVIOUS
<1>3. l \in BucketPlaces /\ Table2!Place(v) = l
  BY <1>0, <1>1, <1>2 DEF Table2!Place
<1>4. /\ grow = 0 /\ ~Table2!BucketFind(l, v) /\ Table2!L!PushBack(l, v)
      /\ size' = size + 1 /\ gen' = gen /\ count' = count /\ at' = at /\ p' = p
      /\ IF size' > count THEN /\ grow' = Table1!DoublePrime(count)
                               /\ Table1!DoublePrime(count) <= MaxBuckets
                          ELSE grow' = grow
  <2>1. Table2!R!MaxLoadFactor * count = count
    BY <1>0, SameTable
  <2> QED
    BY <1>3, <2>1, SameTable, Zenon DEF Table2!Insert, Table2!BucketInsert, Table2!Rehash
<1>5. PICK n \in Nodes : /\ n \notin alive /\ alive' = alive \cup {n} /\ data' = [data EXCEPT ![n] = v]
                         /\ Attaches(l, n) /\ tail' = [tail EXCEPT ![l] = n] /\ held' = held
  BY <1>4, TableOps DEF Table2!L!PushBack
<1>6. PICK m : m = c[l]
  OBVIOUS
<1>7. m \in Seq(Nodes) /\ NodeSet(m) \subseteq alive /\ \A x \in NodeSet(m) : data[x] \in Nat
  BY <1>3, <1>6, BucketData
<1>8. PICK e : e = [c EXCEPT ![l] = Append(m, n)]
  OBVIOUS
<1>9. ListHolds(BucketPlaces, Nodes, e)'
  <2>1. ListHolds(BucketPlaces, Nodes, c) /\ n \notin alive \ held /\ held' = held \ {n}
    BY <1>5 DEF TableHolds, ListHolds, ListTypes
  <2>2. ListHolds(BucketPlaces, Nodes, [c EXCEPT ![l] = Append(c[l], n)])'
    BY <1>3, <1>5, <2>1, TableNodesAre, ListPush
  <2> QED
    BY <1>6, <1>8, <2>2
<1>10. p = -1 /\ at = 0 /\ data \in [Nodes -> Nat \cup {-1}] /\ \A x \in alive : data[x] \in Nat
  BY <1>4 DEF TableHolds
<1>11. PICK dt : dt = data'
  OBVIOUS
<1>12. /\ dt \in [Nodes -> Nat \cup {-1}] /\ dt[n] = v
       /\ \A x \in alive : dt[x] = data[x]
  <2>1. alive \subseteq Nodes
    BY DEF TableHolds, ListHolds, ListTypes
  <2> QED
    BY <1>5, <1>10, <1>11, <2>1
<1>13. \A b \in 0 .. MaxBuckets - 1 :
             /\ b >= count => e[<<gen, b>>] = <<>>
             /\ e[<<1 - gen, b>>] = <<>>
  <2> SUFFICES ASSUME NEW b \in 0 .. MaxBuckets - 1
               PROVE  /\ b >= count => e[<<gen, b>>] = <<>>
                      /\ e[<<1 - gen, b>>] = <<>>
    OBVIOUS
  <2>1. b >= count => b # h
    BY <1>0, <1>1
  <2>2. <<1 - gen, b>> # l /\ (b # h => <<gen, b>> # l)
    BY <1>0, <1>2
  <2>3. <<1 - gen, b>> \in BucketPlaces /\ <<gen, b>> \in BucketPlaces
    BY <1>0 DEF BucketPlaces
  <2>4. e[<<1 - gen, b>>] = c[<<1 - gen, b>>] /\ (b # h => e[<<gen, b>>] = c[<<gen, b>>])
    BY <1>0, <1>8, <2>2, <2>3
  <2>5. b >= grow
    BY <1>4
  <2>6. /\ b >= count => c[<<gen, b>>] = <<>>
        /\ b >= grow => c[<<1 - gen, b>>] = <<>>
    BY DEF TableHolds
  <2> QED
    BY <2>1, <2>4, <2>5, <2>6
<1>14. size' > count => grow' \in Nat /\ grow' > count /\ grow' \in 0 .. MaxBuckets
  <2> SUFFICES ASSUME size' > count PROVE grow' \in Nat /\ grow' > count /\ grow' \in 0 .. MaxBuckets
    OBVIOUS
  <2>1. PICK k, j : k = count /\ j = Table1!DoublePrime(k)
    OBVIOUS
  <2>2. j \in Nat /\ j > k
    BY <1>0, <2>1, DoublesToPrime
  <2>3. grow' = j /\ j <= MaxBuckets
    BY <1>4, <2>1
  <2> QED
    BY <2>1, <2>2, <2>3, DataStructAssumption
<1>15. TableHolds(e)'
  <2>1. grow' \in 0 .. MaxBuckets /\ (grow' # 0 => grow' > count)
    <3>1. 0 \in 0 .. MaxBuckets
      BY DataStructAssumption
    <3> QED
      BY <1>4, <1>14, <3>1
  <2>2. \A b \in 0 .. MaxBuckets - 1 : /\ b >= count \/ b < at => e[<<gen, b>>] = <<>>
                                       /\ b >= grow' => e[<<1 - gen, b>>] = <<>>
    <3>1. \A b \in 0 .. MaxBuckets - 1 : ~ (b < at)
      BY <1>10
    <3> QED
      BY <1>13, <3>1
  <2>3. \A x \in alive' : data'[x] \in Nat
    BY <1>5, <1>10, <1>11, <1>12
  <2>4. /\ gen' = gen /\ count' = count /\ at' = at /\ p' = p /\ p = -1 /\ at = 0
    BY <1>4, <1>10
  <2>5. gen \in {0, 1} /\ count \in 1 .. MaxBuckets /\ at \in 0 .. count
    BY DEF TableHolds
  <2>6. data' \in [Nodes -> Nat \cup {-1}]
    BY <1>11, <1>12
  <2> QED
    BY <1>9, <2>1, <2>2, <2>3, <2>4, <2>5, <2>6 DEF TableHolds
<1>16. ValuesIn(c, dt, gen, count) = bs
  <2>1. ASSUME NEW b \in 0 .. count - 1 PROVE DataIn(dt, c[<<gen, b>>]) = DataIn(data, c[<<gen, b>>])
    <3>1. PICK y : y = c[<<gen, b>>]
      OBVIOUS
    <3>2. NodeSet(y) \subseteq alive
      BY <1>0, <3>1, BucketData
    <3>3. PICK d : d = data
      OBVIOUS
    <3>4. \A x \in NodeSet(y) : dt[x] = d[x]
      BY <1>12, <3>2, <3>3
    <3>5. DataIn(dt, y) = DataIn(d, y)
      BY <3>4, DataSame
    <3> QED
      BY <3>1, <3>3, <3>5
  <2> QED
    BY <2>1, Zenon DEF ValuesIn
<1>17. ValuesIn(e, dt, gen, count) = With(bs, count, v)
  <2>1. DataIn(dt, Append(m, n)) = Append(DataIn(dt, m), v)
    <3>1. \A x \in NodeSet(m) : dt[x] \in Nat
      BY <1>7, <1>12
    <3>2. dt[n] \in Nat
      BY <1>12
    <3>3. DataIn(dt, Append(m, n)) = Append(DataIn(dt, m), dt[n])
      BY <1>5, <1>7, <3>1, <3>2, DataAppend
    <3> QED
      BY <1>12, <3>3
  <2>2. bs[h] = DataIn(dt, m)
    BY <1>1, <1>2, <1>6, <1>16 DEF ValuesIn
  <2>3. PICK g, k, y : g = gen /\ k = count /\ y = Append(m, n)
    OBVIOUS
  <2>4. IsVector(c, g, k) /\ h \in 0 .. k - 1
    BY <1>0, <1>1, <2>3 DEF IsVector
  <2>5. ValuesIn([c EXCEPT ![<<g, h>>] = y], dt, g, k)
          = [ValuesIn(c, dt, g, k) EXCEPT ![h] = DataIn(dt, y)]
    BY <2>4, ValuesChange
  <2> QED
    BY <1>1, <1>2, <1>8, <1>16, <2>1, <2>2, <2>3, <2>5, Zenon DEF With
<1>18. ~Table1!In(v, bs[v % count])
  <2>1. PICK s : s = DataIn(data, c[l])
    OBVIOUS
  <2>2. ~Table1!In(v, s)
    BY <1>3, <1>4, <2>1, TableFind
  <2>3. bs[h] = s
    BY <1>1, <1>2, <2>1 DEF ValuesIn
  <2> QED
    BY <1>1, <2>2, <2>3
<1>19. CASE size' > count
  <2>1. PICK g, k, j : g = gen /\ k = count /\ j = grow'
    OBVIOUS
  <2>2. j \in Nat /\ j > k /\ k \in Nat \ {0} /\ j <= MaxBuckets
    BY <1>0, <1>14, <1>19, <2>1
  <2>3. \A b \in 0 .. j - 1 : e[<<1 - g, b>>] = <<>>
    <3>1. \A b \in 0 .. j - 1 : b \in 0 .. MaxBuckets - 1
      BY <2>2, DataStructAssumption
    <3> QED
      BY <1>13, <2>1, <3>1
  <2>4. Outcome(e, dt, g, k, j, -1) = Table1!Grow(ValuesIn(e, dt, g, k), j)
    BY <2>2, <2>3, GrowthStarts
  <2>5. Outcome(e, data', gen', count', grow', p') = Table1!Grow(With(bs, count, v), Table1!DoublePrime(count))
    BY <1>4, <1>10, <1>11, <1>17, <1>19, <2>1, <2>4, Zenon
  <2> QED
    BY <1>4, <1>15, <1>18, <1>19, <2>5, Zenon
<1>20. CASE ~ (size' > count)
  <2>1. PICK g, k : g = gen /\ k = count
    OBVIOUS
  <2>2. Outcome(e, dt, g, k, 0, -1) = With(bs, count, v)
    BY <1>17, <2>1, Zenon DEF Outcome
  <2>3. Outcome(e, data', gen', count', grow', p') = With(bs, count, v)
    BY <1>4, <1>10, <1>11, <1>20, <2>1, <2>2, Zenon
  <2> QED
    BY <1>4, <1>15, <1>18, <1>20, <2>3, Zenon
<1> QED
  BY <1>19, <1>20

\* erase takes the first node with the value out of its bucket.
LEMMA EraseMoves ==
  ASSUME NEW c, TableHolds(c), NEW v \in Nat, Table2!Erase(v),
         NEW bs, bs = ValuesIn(c, data, gen, count)
  PROVE  /\ Table1!In(v, bs[v % count]) /\ size' = size - 1
         /\ \E e : /\ TableHolds(e)'
                   /\ Outcome(e, data', gen', count', grow', p') = Less(bs, count, v)
<1>0. /\ gen \in {0, 1} /\ 1 - gen \in {0, 1} /\ 1 - gen # gen
      /\ count \in Nat \ {0} /\ count \in Nat /\ count <= MaxBuckets
      /\ (\A b \in 0 .. count - 1 : b \in 0 .. MaxBuckets - 1 /\ <<gen, b>> \in BucketPlaces)
      /\ c \in [BucketPlaces -> Seq(Nodes)]
  BY PlacesAre
<1>1. PICK h \in 0 .. count - 1 : h = v % count
  <2>1. PICK n \in Nat \ {0} : n = count
    BY <1>0
  <2>2. v % n \in 0 .. n - 1
    BY Remainder
  <2> QED
    BY <2>1, <2>2
<1>2. PICK l : l = <<gen, h>>
  OBVIOUS
<1>3. l \in BucketPlaces /\ Table2!Place(v) = l
  BY <1>0, <1>1, <1>2 DEF Table2!Place
<1>4. /\ grow = 0 /\ Table2!BucketFind(l, v) /\ Table2!L!Erase(l, v)
      /\ size' = size - 1 /\ gen' = gen /\ count' = count /\ grow' = grow /\ at' = at /\ p' = p
  BY <1>3, Zenon DEF Table2!Erase, Table2!BucketErase
<1>5. PICK n \in Table2!L!Find(l, v) : Erases(Nodes, l, n) /\ data' = data
  BY <1>4, TableOps DEF Table2!L!Erase, Table2!L!PopFront, Table2!L!PopBack, Table2!L!Cut, Erases
<1>6. PICK m : m = c[l]
  OBVIOUS
<1>7. m \in Seq(Nodes) /\ \A x \in NodeSet(m) : data[x] \in Nat
  BY <1>3, <1>6, BucketData
<1>8. PICK s : s = DataIn(data, m)
  OBVIOUS
<1>9. PICK i : i = FirstAt(s, v)
  OBVIOUS
<1>10. Table1!In(v, s) /\ i \in 1 .. Len(m) /\ m[i] = n
  BY <1>3, <1>4, <1>5, <1>6, <1>8, <1>9, TableFind
<1>11. ListHolds(BucketPlaces, Nodes, c)
  BY DEF TableHolds
<1>12. Takes(Nodes, l, m, i)
  <2>1. LiesIn(BucketPlaces, Nodes, c, l, m, i)
    BY <1>3, <1>6, <1>10, <1>11, TableNodesAre DEF LiesIn
  <2> QED
    BY <1>5, <1>10, <2>1, EraseTakes
<1>13. PICK y : y = Deques!Without(m, i)
  OBVIOUS
<1>14. PICK e : e = [c EXCEPT ![l] = y]
  OBVIOUS
<1>15. ListHolds(BucketPlaces, Nodes, e)'
  <2>1. ListHolds(BucketPlaces, Nodes, [c EXCEPT ![l] = Deques!Without(c[l], i)])'
    BY <1>3, <1>6, <1>11, <1>12, TableNodesAre, ListTake
  <2> QED
    BY <1>6, <1>13, <1>14, <2>1
<1>16. alive' = alive
  BY <1>12 DEF Takes
<1>17. p = -1 /\ at = 0
  BY <1>4 DEF TableHolds
<1>18. \A b \in 0 .. MaxBuckets - 1 :
             /\ b >= count \/ b < at => e[<<gen, b>>] = <<>>
             /\ b >= grow => e[<<1 - gen, b>>] = <<>>
  <2> SUFFICES ASSUME NEW b \in 0 .. MaxBuckets - 1
               PROVE  /\ b >= count \/ b < at => e[<<gen, b>>] = <<>>
                      /\ b >= grow => e[<<1 - gen, b>>] = <<>>
    OBVIOUS
  <2>1. (b >= count => b # h) /\ ~ (b < at)
    BY <1>0, <1>1, <1>17
  <2>2. <<1 - gen, b>> # l /\ (b # h => <<gen, b>> # l)
    BY <1>0, <1>2
  <2>3. <<1 - gen, b>> \in BucketPlaces /\ <<gen, b>> \in BucketPlaces
    BY <1>0 DEF BucketPlaces
  <2>4. e[<<1 - gen, b>>] = c[<<1 - gen, b>>] /\ (b # h => e[<<gen, b>>] = c[<<gen, b>>])
    BY <1>0, <1>14, <2>2, <2>3
  <2>5. /\ b >= count => c[<<gen, b>>] = <<>>
        /\ b >= grow => c[<<1 - gen, b>>] = <<>>
    BY DEF TableHolds
  <2> QED
    BY <2>1, <2>4, <2>5
<1>19. TableHolds(e)'
  <2>1. p' = -1 /\ at' = 0 /\ grow' = 0 /\ 0 \in 0 .. MaxBuckets /\ 0 \in 0 .. count
    BY <1>0, <1>4, <1>17, DataStructAssumption
  <2>2. \A b \in 0 .. MaxBuckets - 1 :
             /\ b >= count' \/ b < at' => e[<<gen', b>>] = <<>>
             /\ b >= grow' => e[<<1 - gen', b>>] = <<>>
    BY <1>4, <1>18
  <2>3. gen \in {0, 1} /\ count \in 1 .. MaxBuckets
        /\ data \in [Nodes -> Nat \cup {-1}] /\ \A x \in alive : data[x] \in Nat
    BY DEF TableHolds
  <2> QED
    BY <1>4, <1>5, <1>15, <1>16, <2>1, <2>2, <2>3 DEF TableHolds
<1>20. bs[h] = s
  BY <1>1, <1>2, <1>6, <1>8 DEF ValuesIn
<1>21. ValuesIn(e, data, gen, count) = Less(bs, count, v)
  <2>1. DataIn(data, y) = Deques!Without(s, i)
    BY <1>7, <1>8, <1>10, <1>13, DataWithout
  <2>2. Deques!Without(s, i) = Table1!BucketErase(s, v)
    BY <1>9, EraseIs, Zenon
  <2>3. PICK dt, g, k : dt = data /\ g = gen /\ k = count
    OBVIOUS
  <2>4. IsVector(c, g, k) /\ h \in 0 .. k - 1
    BY <1>0, <1>1, <2>3 DEF IsVector
  <2>5. ValuesIn([c EXCEPT ![<<g, h>>] = y], dt, g, k)
          = [ValuesIn(c, dt, g, k) EXCEPT ![h] = DataIn(dt, y)]
    BY <2>4, ValuesChange
  <2> QED
    BY <1>1, <1>2, <1>14, <1>20, <2>1, <2>2, <2>3, <2>5, Zenon DEF Less
<1>22. Outcome(e, data', gen', count', grow', p') = Less(bs, count, v)
  <2>1. PICK dt, g, k : dt = data /\ g = gen /\ k = count
    OBVIOUS
  <2>2. Outcome(e, dt, g, k, 0, -1) = Less(bs, count, v)
    BY <1>21, <2>1, Zenon DEF Outcome
  <2> QED
    BY <1>4, <1>5, <1>17, <2>1, <2>2, Zenon
<1> QED
  BY <1>1, <1>4, <1>10, <1>19, <1>20, <1>22, Zenon

\* reserve only starts a rehash.
LEMMA ReserveMoves ==
  ASSUME NEW c, TableHolds(c), NEW k \in Nat \ {0}, Table2!Reserve(k)
  PROVE  /\ k > count /\ size' = size /\ grow = 0
         /\ TableHolds(c)'
         /\ Outcome(c, data', gen', count', grow', p')
              = Table1!Grow(ValuesIn(c, data, gen, count), Table1!DoublePrime(k))
<1>0. /\ count \in Nat \ {0} /\ count \in Nat /\ MaxBuckets \in Nat
      /\ count <= MaxBuckets
  BY PlacesAre, DataStructAssumption
<1>1. PICK j : j = Table1!DoublePrime(k)
  OBVIOUS
<1>2. /\ grow = 0 /\ k > count /\ grow' = j /\ j <= MaxBuckets
      /\ UNCHANGED listVars /\ size' = size /\ gen' = gen /\ count' = count /\ at' = at /\ p' = p
  BY <1>1, SameTable, Zenon DEF Table2!Reserve, Table2!Rehash, Table2!listVars, listVars
<1>3. j \in Nat /\ j > k
  BY <1>1, DoublesToPrime
<1>4. j > count /\ j \in 0 .. MaxBuckets /\ j # 0
  BY <1>0, <1>2, <1>3
<1>5. p = -1 /\ at = 0
  BY <1>2 DEF TableHolds
<1>6. \A b \in 0 .. MaxBuckets - 1 : c[<<1 - gen, b>>] = <<>>
  <2>1. \A b \in 0 .. MaxBuckets - 1 : b >= grow
    BY <1>2
  <2> QED
    BY <2>1 DEF TableHolds
<1>7. ListHolds(BucketPlaces, Nodes, c)'
  BY <1>2 DEF TableHolds, ListHolds, ListTypes, listVars
<1>8. TableHolds(c)'
  BY <1>2, <1>4, <1>5, <1>6, <1>7 DEF TableHolds, listVars
<1>9. Outcome(c, data', gen', count', grow', p')
        = Table1!Grow(ValuesIn(c, data, gen, count), Table1!DoublePrime(k))
  <2>1. PICK dt, g, n : dt = data /\ g = gen /\ n = count
    OBVIOUS
  <2>2. n \in Nat \ {0} /\ j > n
    BY <1>0, <1>4, <2>1
  <2>3. \A b \in 0 .. j - 1 : c[<<1 - g, b>>] = <<>>
    <3>1. \A b \in 0 .. j - 1 : b \in 0 .. MaxBuckets - 1
      BY <1>0, <1>4
    <3> QED
      BY <1>6, <2>1, <3>1
  <2>4. Outcome(c, dt, g, n, j, -1) = Table1!Grow(ValuesIn(c, dt, g, n), j)
    BY <1>3, <2>2, <2>3, GrowthStarts
  <2>5. data' = data
    BY <1>2 DEF listVars
  <2> QED
    BY <1>1, <1>2, <1>5, <2>1, <2>4, <2>5, Zenon
<1> QED
  BY <1>2, <1>8, <1>9

-----------------------------------------------------------------------------
\* What an operation of version 1 does to the buckets bs, of n buckets, and to size_
Effect(bs, sz, bs2, sz2) ==
    \/ bs2 = bs /\ sz2 = sz
    \/ \E n \in Nat \ {0} :
          /\ bs \in [0 .. n - 1 -> Seq(Nat)]
          /\ \/ \E v \in Values : /\ ~Table1!In(v, bs[v % n]) /\ sz2 = sz + 1
                                  /\ bs2 = IF sz2 > n THEN Table1!Grow(With(bs, n, v), Table1!DoublePrime(n))
                                           ELSE With(bs, n, v)
             \/ \E v \in Values : Table1!In(v, bs[v % n]) /\ sz2 = sz - 1 /\ bs2 = Less(bs, n, v)
             \/ \E k \in Reserves : k > n /\ sz2 = sz /\ bs2 = Table1!Grow(bs, Table1!DoublePrime(k))

tableVars == <<listVars, size, gen, count, grow, at, p>>

\* While no rehash runs, the outcome is what lies in the buckets.
LEMMA OutcomeRests ==
  ASSUME NEW c, TableHolds(c), grow = 0
  PROVE  /\ Outcome(c, data, gen, count, grow, p) = ValuesIn(c, data, gen, count)
         /\ ValuesIn(c, data, gen, count) \in [0 .. count - 1 -> Seq(Nat)]
         /\ count \in Nat \ {0}
<1>1. /\ gen \in {0, 1} /\ count \in Nat \ {0} /\ count <= MaxBuckets
  BY PlacesAre
<1>2. ValuesIn(c, data, gen, count) \in [0 .. count - 1 -> Seq(Nat)]
  BY <1>1, ValuesTyped
<1> QED
  BY <1>1, <1>2 DEF Outcome

LEMMA NodesHaveEffect ==
  ASSUME NEW c, TableHolds(c), Table2!Next \/ UNCHANGED tableVars
  PROVE  \E e : /\ TableHolds(e)'
                /\ Effect(Outcome(c, data, gen, count, grow, p), size,
                          Outcome(e, data', gen', count', grow', p'), size')
<1>0. /\ Values \subseteq Nat /\ Reserves \subseteq Nat \ {0}
  BY DataStructAssumption
<1>1. PICK b0 : b0 = Outcome(c, data, gen, count, grow, p)
  OBVIOUS
<1>2. CASE UNCHANGED tableVars
  <2>1. TableHolds(c)'
    BY <1>2 DEF tableVars, listVars, TableHolds, ListHolds, ListTypes
  <2>2. Outcome(c, data', gen', count', grow', p') = b0 /\ size' = size
    BY <1>1, <1>2, Zenon DEF tableVars, listVars
  <2> QED
    BY <1>1, <2>1, <2>2, Zenon DEF Effect
<1>3. ASSUME NEW v \in Values, Table2!Insert(v)
      PROVE  \E e : TableHolds(e)' /\ Effect(b0, size, Outcome(e, data', gen', count', grow', p'), size')
  <2>1. PICK bs : bs = ValuesIn(c, data, gen, count)
    OBVIOUS
  <2>2. /\ grow = 0 /\ ~Table1!In(v, bs[v % count]) /\ size' = size + 1
        /\ \E e : /\ TableHolds(e)'
                  /\ Outcome(e, data', gen', count', grow', p')
                       = IF size' > count THEN Table1!Grow(With(bs, count, v), Table1!DoublePrime(count))
                         ELSE With(bs, count, v)
    BY <1>0, <1>3, <2>1, InsertMoves
  <2>3. b0 = bs /\ bs \in [0 .. count - 1 -> Seq(Nat)] /\ count \in Nat \ {0}
    BY <1>1, <2>1, <2>2, OutcomeRests
  <2> QED
    BY <2>2, <2>3, Zenon DEF Effect
<1>4. ASSUME NEW v \in Values, Table2!Erase(v)
      PROVE  \E e : TableHolds(e)' /\ Effect(b0, size, Outcome(e, data', gen', count', grow', p'), size')
  <2>1. PICK bs : bs = ValuesIn(c, data, gen, count)
    OBVIOUS
  <2>2. /\ Table1!In(v, bs[v % count]) /\ size' = size - 1
        /\ \E e : /\ TableHolds(e)'
                  /\ Outcome(e, data', gen', count', grow', p') = Less(bs, count, v)
    BY <1>0, <1>4, <2>1, EraseMoves
  <2>3. grow = 0
    BY <1>4, Zenon DEF Table2!Erase
  <2>4. b0 = bs /\ bs \in [0 .. count - 1 -> Seq(Nat)] /\ count \in Nat \ {0}
    BY <1>1, <2>1, <2>3, OutcomeRests
  <2> QED
    BY <2>2, <2>4, Zenon DEF Effect
<1>5. ASSUME NEW k \in Reserves, Table2!Reserve(k)
      PROVE  \E e : TableHolds(e)' /\ Effect(b0, size, Outcome(e, data', gen', count', grow', p'), size')
  <2>1. PICK bs : bs = ValuesIn(c, data, gen, count)
    OBVIOUS
  <2>2. /\ k > count /\ size' = size /\ grow = 0 /\ TableHolds(c)'
        /\ Outcome(c, data', gen', count', grow', p') = Table1!Grow(bs, Table1!DoublePrime(k))
    BY <1>0, <1>5, <2>1, ReserveMoves
  <2>3. b0 = bs /\ bs \in [0 .. count - 1 -> Seq(Nat)] /\ count \in Nat \ {0}
    BY <1>1, <2>1, <2>2, OutcomeRests
  <2> QED
    BY <2>2, <2>3, Zenon DEF Effect
<1>6. CASE Table2!TakeNode \/ Table2!NextBucket \/ Table2!MoveNode \/ Table2!Replace
  <2>1. \E e : TableHolds(e)' /\ Outcome(e, data', gen', count', grow', p') = b0
    BY <1>1, <1>6, TakeNodeKeeps, NextBucketKeeps, MoveNodeKeeps, ReplaceKeeps
  <2>2. size' = size
    BY <1>6 DEF Table2!TakeNode, Table2!NextBucket, Table2!MoveNode, Table2!Replace
  <2> QED
    BY <1>1, <2>1, <2>2, Zenon DEF Effect
<1>7. CASE UNCHANGED Table2!vars
  BY <1>2, <1>7 DEF Table2!vars, Table2!listVars, tableVars, listVars
<1> QED
  BY <1>1, <1>2, <1>3, <1>4, <1>5, <1>6, <1>7 DEF Table2!Next

\* What the abstract table sees
ValuesOf == IF kind = "table2" THEN Table2!Buckets ELSE [b \in {0} |-> <<>>]
SizeOf == IF kind = "table2" THEN size ELSE 0

LEMMA ValuesOfIs ==
  \A c : kind = "table2" /\ TableHolds(c) => ValuesOf = Outcome(c, data, gen, count, grow, p)
BY OutcomeIs, Zenon DEF ValuesOf

\* The effects are the operations of the abstract table.
LEMMA EffectsAreSteps ==
  ASSUME Effect(ValuesOf, SizeOf, ValuesOf', SizeOf')
  PROVE  [Values1!Next]_(Values1!vars)
<1>0. /\ Values \subseteq Nat /\ Reserves \subseteq Nat \ {0}
  BY DataStructAssumption
<1>1. CASE ValuesOf' = ValuesOf /\ SizeOf' = SizeOf
  BY <1>1, Zenon DEF Values1!vars, ValuesOf, SizeOf
<1>2. CASE ~ (ValuesOf' = ValuesOf /\ SizeOf' = SizeOf)
  <2>1. PICK bs : bs = ValuesOf
    OBVIOUS
  <2>2. PICK n \in Nat \ {0} :
          /\ bs \in [0 .. n - 1 -> Seq(Nat)]
          /\ \/ \E v \in Values : /\ ~Table1!In(v, bs[v % n]) /\ SizeOf' = SizeOf + 1
                                  /\ ValuesOf' = IF SizeOf' > n THEN Table1!Grow(With(bs, n, v), Table1!DoublePrime(n))
                                                 ELSE With(bs, n, v)
             \/ \E v \in Values : Table1!In(v, bs[v % n]) /\ SizeOf' = SizeOf - 1 /\ ValuesOf' = Less(bs, n, v)
             \/ \E k \in Reserves : k > n /\ SizeOf' = SizeOf /\ ValuesOf' = Table1!Grow(bs, Table1!DoublePrime(k))
    BY <1>2, <2>1, Zenon DEF Effect
  <2>3. Values1!Count(ValuesOf) = n /\ Values1!MaxLoadFactor * n = n
    <3>1. DOMAIN bs = 0 .. n - 1
      BY <2>2
    <3>2. Table1!Count(bs) = n
      BY <3>1, CountIs
    <3> QED
      BY <2>1, <3>2, SameValues
  <2>4. ASSUME NEW v \in Values, ~Table1!In(v, bs[v % n]), SizeOf' = SizeOf + 1,
               ValuesOf' = IF SizeOf' > n THEN Table1!Grow(With(bs, n, v), Table1!DoublePrime(n))
                           ELSE With(bs, n, v)
        PROVE  Values1!Insert(v)
    <3>1. PICK h \in 0 .. n - 1 : h = v % n
      BY <1>0, Remainder
    <3>2. PICK s \in Seq(Nat) : s = bs[h]
      BY <2>2
    <3>3. With(bs, n, v) # bs
      <4>1. Append(s, v) # s
        <5>1. Len(Append(s, v)) = Len(s) + 1 /\ Len(s) \in Nat
          BY <1>0, AppendProperties
        <5> QED
          BY <5>1
      <4>2. With(bs, n, v)[h] = Append(s, v)
        BY <2>2, <3>1, <3>2 DEF With
      <4> QED
        BY <3>2, <4>1, <4>2
    <3>4. Values1!BucketInsert(ValuesOf[v % n], v) = Append(bs[v % n], v)
      BY <2>1, <2>4, SameValues, Zenon DEF Table1!BucketInsert
    <3>5. [ValuesOf EXCEPT ![v % Values1!Count(ValuesOf)]
                             = Values1!BucketInsert(ValuesOf[v % Values1!Count(ValuesOf)], v)] = With(bs, n, v)
      BY <2>1, <2>3, <3>4, Zenon DEF With
    <3>6. PICK added : added = With(bs, n, v)
      OBVIOUS
    <3>7. /\ added # ValuesOf /\ SizeOf' = SizeOf + 1
          /\ ValuesOf' = IF SizeOf' > Values1!MaxLoadFactor * Values1!Count(ValuesOf)
                         THEN Values1!Grow(added, Values1!DoublePrime(Values1!Count(ValuesOf)))
                         ELSE added
      BY <2>1, <2>3, <2>4, <3>3, <3>6, SameValues, Zenon
    <3> QED
      BY <3>5, <3>6, <3>7, Zenon DEF Values1!Insert, Values1!Bucket, ValuesOf, SizeOf
  <2>5. ASSUME NEW v \in Values, Table1!In(v, bs[v % n]), SizeOf' = SizeOf - 1, ValuesOf' = Less(bs, n, v)
        PROVE  Values1!Erase(v)
    <3>1. Values1!In(v, ValuesOf[v % Values1!Count(ValuesOf)])
      BY <2>1, <2>3, <2>5, SameValues, Zenon
    <3>2. ValuesOf' = [ValuesOf EXCEPT ![v % Values1!Count(ValuesOf)]
                                  = Values1!BucketErase(ValuesOf[v % Values1!Count(ValuesOf)], v)]
      BY <2>1, <2>3, <2>5, SameValues, Zenon DEF Less
    <3> QED
      BY <2>5, <3>1, <3>2, Zenon DEF Values1!Erase, Values1!Find, Values1!Bucket, ValuesOf, SizeOf
  <2>6. ASSUME NEW k \in Reserves, k > n, SizeOf' = SizeOf, ValuesOf' = Table1!Grow(bs, Table1!DoublePrime(k))
        PROVE  Values1!Reserve(k)
    <3>1. k > Values1!Count(ValuesOf)
      BY <2>3, <2>6
    <3>2. ValuesOf' = Values1!Grow(ValuesOf, Values1!DoublePrime(k))
      BY <2>1, <2>6, SameValues, Zenon
    <3> QED
      BY <2>6, <3>1, <3>2, Zenon DEF Values1!Reserve, ValuesOf, SizeOf
  <2> QED
    BY <2>2, <2>4, <2>5, <2>6 DEF Values1!Next
<1> QED
  BY <1>1, <1>2

\* The table starts with one empty bucket.
LEMMA NodesStart ==
  ASSUME AnyInit, kind = "table2"
  PROVE  \E c : /\ TableHolds(c) /\ size = 0
                /\ Outcome(c, data, gen, count, grow, p) = [b \in {0} |-> <<>>]
<1>1. Table2!Init
  BY DEF AnyInit, ContainerInit, Queue!Init, Queue!InitLinked, Queue!InitDummy, Queue!InitRing
<1>2. /\ head = [l \in BucketPlaces |-> -1] /\ tail = [l \in BucketPlaces |-> -1]
      /\ next = [n \in Nodes |-> -1] /\ prev = [n \in Nodes |-> -1] /\ data = [n \in Nodes |-> -1]
      /\ alive = {} /\ held = {}
      /\ size = 0 /\ gen = 0 /\ count = 1 /\ grow = 0 /\ at = 0 /\ p = -1
  BY <1>1, TableNodesAre DEF Table2!Init, Table2!L!Init
<1>3. PICK c : c = [l \in BucketPlaces |-> <<>>]
  OBVIOUS
<1>4. ListTypes(BucketPlaces, Nodes)
  BY <1>2 DEF ListTypes
<1>5. c \in [BucketPlaces -> Seq(Nodes)] /\ \A l \in BucketPlaces : c[l] = <<>>
  BY <1>3
<1>6. NodeSet(<<>>) = {}
  BY DEF NodeSet
<1>7. \A l \in BucketPlaces : Doubly(Nodes, -1, c[l], head[l], tail[l], next, prev)
  BY <1>2, <1>5 DEF Doubly, Linked, Injective
<1>8. \A n \in Nodes : ~Covered(BucketPlaces, c, n)
  BY <1>5, <1>6 DEF Covered
<1>9. ListHolds(BucketPlaces, Nodes, c)
  BY <1>2, <1>4, <1>5, <1>6, <1>7, <1>8 DEF ListHolds
<1>10. \A b \in 0 .. MaxBuckets - 1 : c[<<0, b>>] = <<>> /\ c[<<1, b>>] = <<>>
  BY <1>5 DEF BucketPlaces
<1>11. 1 \in 1 .. MaxBuckets /\ 0 \in 0 .. MaxBuckets /\ 0 \in 0 .. 1 /\ 0 \in 0 .. MaxBuckets - 1
  BY DataStructAssumption
<1>12. TableHolds(c)
  BY <1>2, <1>9, <1>10, <1>11 DEF TableHolds
<1>13. ValuesIn(c, data, 0, 1) = [b \in {0} |-> <<>>]
  <2>1. <<0, 0>> \in BucketPlaces
    BY <1>11 DEF BucketPlaces
  <2>2. DataIn(data, c[<<0, 0>>]) = <<>>
    BY <1>5, <2>1 DEF DataIn
  <2>3. 0 .. 1 - 1 = {0}
    OBVIOUS
  <2> QED
    BY <2>2, <2>3 DEF ValuesIn
<1>14. Outcome(c, data, gen, count, grow, p) = [b \in {0} |-> <<>>]
  BY <1>2, <1>13, Zenon DEF Outcome
<1> QED
  BY <1>2, <1>12, <1>14

LEMMA NodesMove ==
  ASSUME [AnyNext]_allVars, kind = "table2"
  PROVE  Table2!Next \/ UNCHANGED tableVars
<1>1. Queue!Next => kind \in {"linked", "dummy", "ring"} \/ UNCHANGED Queue!vars
  BY DEF Queue!Next, Queue!PushLinked, Queue!PopLinked, Queue!PushDummy, Queue!PopDummy,
         Queue!PushRing, Queue!PopRing
<1>2. Queue!Next /\ UNCHANGED <<prev, alive, held, lockedVars, at, buckets, size, nodeTableVars>>
        => UNCHANGED tableVars
  BY <1>1 DEF Queue!vars, tableVars, listVars, nodeTableVars
<1> QED
  BY <1>2 DEF AnyNext, ContainerNext, allVars, containerVars, tableVars, nodeTableVars

\* Moving the nodes to other buckets has the effect of moving the values: every operation
\* of the second version, with the rehash that it starts, leaves the buckets and the
\* size_ that the first version leaves, for any nodes, values, numbers to reserve and
\* bound on the buckets (threadsafe_lookup_table2.h and 1.h).
THEOREM MovesAsValues == AnySpec => ImplementsRehashTable
<1>1. AnyInit => MovesInv /\ Values1!Init
  <2> SUFFICES ASSUME AnyInit PROVE MovesInv /\ ValuesOf = [b \in {0} |-> <<>>] /\ SizeOf = 0
    BY DEF Values1!Init, ValuesOf, SizeOf
  <2>1. CASE kind = "table2"
    BY <2>1, NodesStart, ValuesOfIs DEF MovesInv, SizeOf
  <2>2. CASE kind # "table2"
    BY <2>2 DEF MovesInv, ValuesOf, SizeOf
  <2> QED
    BY <2>1, <2>2
<1>2. (\A c : kind = "table2" /\ TableHolds(c) => ValuesOf = Outcome(c, data, gen, count, grow, p))'
  BY ValuesOfIs, PTL
<1>3. MovesInv /\ [AnyNext]_allVars => MovesInv' /\ [Values1!Next]_(Values1!vars)
  <2> SUFFICES ASSUME MovesInv, [AnyNext]_allVars
               PROVE  MovesInv' /\ Effect(ValuesOf, SizeOf, ValuesOf', SizeOf')
    BY EffectsAreSteps
  <2>1. kind' = kind
    BY KindStays DEF allVars
  <2>2. CASE kind # "table2"
    <3>1. ValuesOf' = ValuesOf /\ SizeOf' = SizeOf
      BY <2>1, <2>2 DEF ValuesOf, SizeOf
    <3> QED
      BY <2>1, <2>2, <3>1 DEF MovesInv, Effect
  <2>3. CASE kind = "table2"
    <3>1. PICK c : TableHolds(c)
      BY <2>3 DEF MovesInv
    <3>2. Table2!Next \/ UNCHANGED tableVars
      BY <2>3, NodesMove
    <3>3. PICK e : /\ TableHolds(e)'
                   /\ Effect(Outcome(c, data, gen, count, grow, p), size,
                             Outcome(e, data', gen', count', grow', p'), size')
      BY <3>1, <3>2, NodesHaveEffect
    <3>4. ValuesOf = Outcome(c, data, gen, count, grow, p) /\ SizeOf = size /\ SizeOf' = size'
      BY <2>1, <2>3, <3>1, ValuesOfIs DEF SizeOf
    <3>5. ValuesOf' = Outcome(e, data', gen', count', grow', p')
      BY <1>2, <2>1, <2>3, <3>3
    <3>6. MovesInv'
      BY <3>3 DEF MovesInv
    <3> QED
      BY <3>3, <3>4, <3>5, <3>6, Zenon
  <2> QED
    BY <2>2, <2>3
<1> QED
  BY <1>1, <1>3, PTL DEF AnySpec, ImplementsRehashTable, Values1!Spec
=============================================================================
