---------------------------- MODULE TestQueuesProof ----------------------------
(***************************************************************************)
(* Proofs about TestQueues, the benchmark of test_threadsafe_queue.cpp     *)
(* with its five queues, for any number of producers and as many           *)
(* customers, any number of values, any capacity and any number of rounds. *)
(*                                                                         *)
(* The invariant IInv says that some sequence s lies in the queue, and has *)
(* two parts, of which the first is the same for all queues:               *)
(*   Bench(s)  the numbers drawn so far are taken, in s, or about to be    *)
(*             pushed, and each in one place only (Numbers); each side has *)
(*             made as many last operations as its count is past MAX_LOOP  *)
(*             (Counters); and start has been read before a number is      *)
(*             drawn, end when every customer has left (ClockInv)          *)
(*   Holds(s)  how s lies in the queue: in the slots of a ring, in another *)
(*             queue, or in a chain of nodes                               *)
(* A step of a thread pushes a drawn number onto s, moves the first        *)
(* element out or leaves s alone (Moved); from that FifoQueue's steps      *)
(* follow, and Bench follows without looking at the queue.  The sections   *)
(* are: sequences and chains of nodes; the benchmark; the ring; the        *)
(* wrapped queues; the list; the queue with a dummy node; the theorems.    *)
(*                                                                         *)
(* Elements, the mapping to FifoQueue, is computed by recursive functions  *)
(* on the nodes.  WalkList says what such a function returns on a chain,   *)
(* from the existence of one: no recursion theorem is needed.              *)
(***************************************************************************)
EXTENDS TestQueues, FiniteSetTheorems, SequenceTheorems, TLAPS

-----------------------------------------------------------------------------
\* A set of numbers has a least one.
LEMMA LeastNat ==
  ASSUME NEW T \in SUBSET Nat, T # {}
  PROVE  \E x \in T : \A y \in T : x <= y
<1>1. IsWellFoundedOn(OpToRel(<,Nat), Nat)
  BY NatLessThanWellFounded
<1>2. PICK x \in T : \A y \in T : ~ (<<y, x>> \in OpToRel(<,Nat))
  BY <1>1, WFMin, Zenon
<1> QED
  <2>1. OpToRel(<,Nat) = {ss \in Nat \X Nat : ss[1] < ss[2]}
    BY Zenon DEF OpToRel
  <2>2. ASSUME NEW y \in T PROVE ~ (y < x)
    <3>1. <<y, x>> \notin {ss \in Nat \X Nat : ss[1] < ss[2]}
      BY <1>2, <2>1, Zenon
    <3>2. <<y, x>> \in Nat \X Nat
      OBVIOUS
    <3> QED
      BY <3>1, <3>2, Zenon
  <2>3. \A y \in T : x <= y
    BY <2>2
  <2> QED
    BY <2>3

\* A function that puts v[i] before what it gives for i + 1 gives the ends of v.
LEMMA Unfold ==
  ASSUME NEW S, NEW v \in Seq(S), NEW g,
         g[Len(v) + 1] = <<>>,
         \A i \in 1 .. Len(v) : g[i] = <<v[i]>> \o g[i + 1]
  PROVE  \A i \in 1 .. Len(v) + 1 : g[i] = SubSeq(v, i, Len(v))
<1> DEFINE Bad == {k \in 0 .. Len(v) : g[Len(v) + 1 - k] # SubSeq(v, Len(v) + 1 - k, Len(v))}
<1>0. Len(v) \in Nat
  OBVIOUS
<1>1. 0 \notin Bad
  <2>1. SubSeq(v, Len(v) + 1, Len(v)) = <<>>
    BY <1>0, SubSeqEmpty
  <2>2. Len(v) + 1 - 0 = Len(v) + 1
    BY <1>0
  <2> QED
    BY <2>1, <2>2, Zenon
<1>2. ASSUME Bad # {} PROVE FALSE
  <2>1. Bad \in SUBSET Nat
    BY <1>0
  <2>2. PICK k \in Bad : \A j \in Bad : k <= j
    BY <1>2, <2>1, LeastNat
  <2>3. k \in 1 .. Len(v) /\ k - 1 \notin Bad /\ k - 1 \in 0 .. Len(v)
    <3>1. k # 0 /\ k \in 0 .. Len(v)
      BY <1>1, <2>2
    <3> HIDE DEF Bad
    <3> QED
      BY <1>0, <2>2, <3>1
  <2> DEFINE i == Len(v) + 1 - k
  <2>4. i \in 1 .. Len(v) /\ i + 1 = Len(v) + 1 - (k - 1)
    BY <2>3, <1>0
  <2>5. g[i + 1] = SubSeq(v, i + 1, Len(v))
    BY <2>3, <2>4
  <2>6. g[i] = <<v[i]>> \o SubSeq(v, i + 1, Len(v))
    BY <2>4, <2>5
  <2>7. Len(v) \in i .. Len(v)
    BY <2>4, <1>0
  <2>8. SubSeq(v, i, Len(v)) = <<v[i]>> \o SubSeq(v, i + 1, Len(v))
    BY <2>4, <2>7, SubSeqRecursiveFirst
  <2> QED
    BY <2>2, <2>6, <2>8
<1>3. ASSUME NEW i \in 1 .. Len(v) + 1 PROVE g[i] = SubSeq(v, i, Len(v))
  <2>1. Len(v) + 1 - i \in 0 .. Len(v) /\ Len(v) + 1 - (Len(v) + 1 - i) = i
    BY <1>0
  <2> QED
    BY <1>2, <2>1
<1> QED
  BY <1>3

\* The nodes of a path without a loop.
Injective(m) == \A i, j \in 1 .. Len(m) : m[i] = m[j] => i = j

\* The nodes on a path
NodeSet(m) == {m[i] : i \in 1 .. Len(m)}

\* h is the recursive function that collects val along nx up to a node in stop,
\* if there is one.
Walks(D, stop, val, nx, h) ==
    (\E f : f = [n \in D |-> IF n \in stop THEN <<>> ELSE <<val[n]>> \o f[nx[n]]])
    => h = [n \in D |-> IF n \in stop THEN <<>> ELSE <<val[n]>> \o h[nx[n]]]

\* Along nx lie the nodes m, of which the last is in stop and the others hold v;
\* next to every other node is one in stop.
Path(D, stop, val, nx, m, v) ==
    /\ stop \in SUBSET D /\ m \in Seq(D) /\ v \in Seq(Int) /\ Injective(m)
    /\ Len(m) = Len(v) + 1
    /\ m[Len(v) + 1] \in stop
    /\ \A i \in 1 .. Len(v) : m[i] \notin stop /\ nx[m[i]] = m[i + 1] /\ val[m[i]] = v[i]
    /\ \A n \in D : n \in stop \/ (\E i \in 1 .. Len(v) : n = m[i]) \/ nx[n] \in stop

\* What the functions that collect the elements return: the values along the path.
LEMMA WalkList ==
  ASSUME NEW D, NEW stop, NEW val, NEW nx, NEW m, NEW v, NEW h,
         Path(D, stop, val, nx, m, v), Walks(D, stop, val, nx, h)
  PROVE  h[m[1]] = v
<1>p. /\ stop \in SUBSET D /\ m \in Seq(D) /\ v \in Seq(Int) /\ Injective(m)
      /\ Len(m) = Len(v) + 1
      /\ m[Len(v) + 1] \in stop
  BY DEF Path
<1>q. /\ \A i \in 1 .. Len(v) : m[i] \notin stop /\ nx[m[i]] = m[i + 1] /\ val[m[i]] = v[i]
      /\ \A n \in D : n \in stop \/ (\E i \in 1 .. Len(v) : n = m[i]) \/ nx[n] \in stop
  BY DEF Path
<1> USE <1>p, <1>q
<1> DEFINE F(f) == [n \in D |-> IF n \in stop THEN <<>> ELSE <<val[n]>> \o f[nx[n]]]
<1>0. Len(v) \in Nat
  OBVIOUS
<1>1. PICK pos : /\ pos = [n \in D |-> CHOOSE i \in 1 .. Len(v) : n = m[i]]
                 /\ \A i \in 1 .. Len(v) : pos[m[i]] = i
  <2> DEFINE pos == [n \in D |-> CHOOSE i \in 1 .. Len(v) : n = m[i]]
  <2>1. ASSUME NEW i \in 1 .. Len(v) PROVE pos[m[i]] = i
    <3>1. m[i] \in D /\ i \in 1 .. Len(m)
      BY <1>0
    <3>2. pos[m[i]] \in 1 .. Len(v) /\ m[i] = m[pos[m[i]]]
      BY <3>1
    <3> QED
      BY <1>0, <3>1, <3>2 DEF Injective
  <2> QED
    BY <2>1
<1> DEFINE w == [n \in D |-> IF n \in stop THEN <<>>
                             ELSE IF \E i \in 1 .. Len(v) : n = m[i]
                                  THEN SubSeq(v, pos[n], Len(v)) ELSE <<val[n]>>]
<1>2. \A i \in 1 .. Len(v) + 1 : m[i] \in D /\ w[m[i]] = SubSeq(v, i, Len(v))
  <2>1. ASSUME NEW i \in 1 .. Len(v) PROVE m[i] \in D /\ w[m[i]] = SubSeq(v, i, Len(v))
    <3>1. m[i] \in D /\ m[i] \notin stop
      BY <1>0
    <3>2. w[m[i]] = SubSeq(v, pos[m[i]], Len(v))
      BY <3>1
    <3> QED
      BY <1>1, <3>1, <3>2
  <2>2. m[Len(v) + 1] \in D /\ w[m[Len(v) + 1]] = <<>>
    BY <1>0
  <2>3. SubSeq(v, Len(v) + 1, Len(v)) = <<>>
    BY <1>0, SubSeqEmpty
  <2>4. \A i \in 1 .. Len(v) + 1 : i \in 1 .. Len(v) \/ i = Len(v) + 1
    BY <1>0
  <2> QED
    BY <2>1, <2>2, <2>3, <2>4, Zenon
<1>3. w = F(w)
  <2>1. ASSUME NEW n \in D PROVE w[n] = IF n \in stop THEN <<>> ELSE <<val[n]>> \o w[nx[n]]
    <3>1. CASE n \in stop
      BY <3>1
    <3>2. ASSUME n \notin stop, NEW i \in 1 .. Len(v), n = m[i] PROVE w[n] = <<val[n]>> \o w[nx[n]]
      <4>1. i \in 1 .. Len(v) + 1 /\ i + 1 \in 1 .. Len(v) + 1
        BY <1>0
      <4>2. w[n] = SubSeq(v, i, Len(v)) /\ w[nx[n]] = SubSeq(v, i + 1, Len(v)) /\ val[n] = v[i]
        <5>1. w[m[i]] = SubSeq(v, i, Len(v)) /\ w[m[i + 1]] = SubSeq(v, i + 1, Len(v))
          <6> HIDE DEF w
          <6> QED
            BY <1>2, <4>1
        <5> HIDE DEF w
        <5> QED
          BY <3>2, <5>1
      <4>3. Len(v) \in i .. Len(v)
        BY <1>0
      <4>4. SubSeq(v, i, Len(v)) = <<v[i]>> \o SubSeq(v, i + 1, Len(v))
        BY <4>3, SubSeqRecursiveFirst
      <4> HIDE DEF w
      <4> QED
        BY <4>2, <4>4
    <3>3. ASSUME n \notin stop, ~ \E i \in 1 .. Len(v) : n = m[i] PROVE w[n] = <<val[n]>> \o w[nx[n]]
      <4>1. w[n] = <<val[n]>> /\ w[nx[n]] = <<>>
        BY <3>3
      <4>2. <<val[n]>> \in Seq({val[n]})
        OBVIOUS
      <4>3. <<val[n]>> \o <<>> = <<val[n]>>
        BY <4>2, ConcatEmptySeq
      <4> HIDE DEF w
      <4> QED
        BY <4>1, <4>3
    <3> HIDE DEF w
    <3> QED
      BY <3>1, <3>2, <3>3
  <2>2. w = [n \in D |-> w[n]]
    OBVIOUS
  <2> HIDE DEF w
  <2> QED
    BY <2>1, <2>2, Zenon
<1>4. h = F(h)
  <2> HIDE DEF w
  <2>1. \E f : f = F(f)
    BY <1>3, Zenon
  <2>2. (\E f : f = F(f)) => h = F(h)
    BY Zenon DEF Walks
  <2> HIDE DEF F
  <2> QED
    BY <2>1, <2>2, Zenon
<1>5. \A i \in 1 .. Len(v) : h[m[i]] = <<v[i]>> \o h[m[i + 1]]
  <2> SUFFICES ASSUME NEW i \in 1 .. Len(v) PROVE h[m[i]] = <<v[i]>> \o h[m[i + 1]]
    OBVIOUS
  <2>1. m[i] \in D /\ m[i] \notin stop /\ nx[m[i]] = m[i + 1] /\ val[m[i]] = v[i]
    BY <1>0
  <2>2. F(h)[m[i]] = <<val[m[i]]>> \o h[nx[m[i]]]
    BY <2>1
  <2> HIDE DEF F
  <2> QED
    BY <1>4, <2>1, <2>2, Zenon
<1>6. h[m[Len(v) + 1]] = <<>>
  <2>1. F(h)[m[Len(v) + 1]] = <<>>
    BY <1>0
  <2> HIDE DEF F
  <2> QED
    BY <1>4, <2>1, Zenon
<1> DEFINE g == [i \in 1 .. Len(v) + 1 |-> h[m[i]]]
<1>7. g[Len(v) + 1] = <<>> /\ \A i \in 1 .. Len(v) : g[i] = <<v[i]>> \o g[i + 1]
  <2>1. \A i \in 1 .. Len(v) : i \in 1 .. Len(v) + 1 /\ i + 1 \in 1 .. Len(v) + 1
    BY <1>0
  <2>2. Len(v) + 1 \in 1 .. Len(v) + 1
    BY <1>0
  <2>3. g[Len(v) + 1] = h[m[Len(v) + 1]]
        /\ \A i \in 1 .. Len(v) : g[i] = h[m[i]] /\ g[i + 1] = h[m[i + 1]]
    BY <2>1, <2>2
  <2> HIDE DEF g, F, w
  <2>4. ASSUME NEW i \in 1 .. Len(v) PROVE g[i] = <<v[i]>> \o g[i + 1]
    <3>1. g[i] = h[m[i]] /\ g[i + 1] = h[m[i + 1]] /\ h[m[i]] = <<v[i]>> \o h[m[i + 1]]
      BY <1>5, <2>3
    <3> QED
      BY <3>1
  <2> QED
    BY <1>6, <2>3, <2>4
<1>8. 1 \in 1 .. Len(v) + 1 /\ g[1] = h[m[1]]
  BY <1>0
<1>9. g[1] = SubSeq(v, 1, Len(v))
  <2> HIDE DEF g
  <2>1. \A i \in 1 .. Len(v) + 1 : g[i] = SubSeq(v, i, Len(v))
    BY <1>7, Unfold, Zenon
  <2> QED
    BY <1>8, <2>1, Zenon
<1>10. SubSeq(v, 1, Len(v)) = v
  BY SubSeqFull
<1> QED
  BY <1>8, <1>9, <1>10, Zenon

\* A chain without a loop has as many nodes as its length.
LEMMA RangeCounts ==
  ASSUME NEW S, NEW s \in Seq(S), Injective(s)
  PROVE  IsFiniteSet(NodeSet(s)) /\ Cardinality(NodeSet(s)) = Len(s)
<1> DEFINE T == {s[i] : i \in 1 .. Len(s)}
<1>1. Len(s) \in Nat /\ s \in [1 .. Len(s) -> T]
  OBVIOUS
<1>2. s \in Bijection(1 .. Len(s), T)
  BY <1>1 DEF Injective, Bijection, Injection, Surjection, IsInjective
<1>3. ExistsBijection(1 .. Len(s), T)
  BY <1>2 DEF ExistsBijection
<1>4. IsFiniteSet(1 .. Len(s)) /\ Cardinality(1 .. Len(s)) = Len(s)
  BY <1>1, FS_Interval
<1> QED
  BY <1>3, <1>4, FS_Bijection DEF NodeSet

\* A new node at the end of a chain.
LEMMA NodesAppend ==
  ASSUME NEW D, NEW m \in Seq(D), Injective(m), NEW f \in D, f \notin NodeSet(m)
  PROVE  \E z \in Seq(D) :
            /\ Injective(z) /\ NodeSet(z) = NodeSet(m) \cup {f}
            /\ Len(z) = Len(m) + 1 /\ z[Len(m) + 1] = f /\ \A i \in 1 .. Len(m) : z[i] = m[i]
<1>1. PICK z : z = Append(m, f)
  OBVIOUS
<1>2. /\ z \in Seq(D) /\ Len(z) = Len(m) + 1 /\ z[Len(m) + 1] = f /\ Len(m) \in Nat
      /\ \A i \in 1 .. Len(m) : z[i] = m[i]
  BY <1>1, AppendProperties
<1>3. /\ \A i \in 1 .. Len(z) : i \in 1 .. Len(m) \/ i = Len(m) + 1
      /\ \A i \in 1 .. Len(m) : i \in 1 .. Len(z) /\ m[i] # f /\ m[i] \in NodeSet(m)
      /\ Len(m) + 1 \in 1 .. Len(z)
  BY <1>2 DEF NodeSet
<1>4. Injective(z)
  BY <1>2, <1>3 DEF Injective
<1>5. NodeSet(z) = NodeSet(m) \cup {f}
  <2>1. ASSUME NEW x \in NodeSet(z) PROVE x \in NodeSet(m) \cup {f}
    <3>1. PICK i \in 1 .. Len(z) : x = z[i]
      BY DEF NodeSet
    <3> QED
      BY <1>2, <1>3, <3>1
  <2>2. ASSUME NEW x \in NodeSet(m) PROVE x \in NodeSet(z)
    <3>1. PICK i \in 1 .. Len(m) : x = m[i]
      BY DEF NodeSet
    <3> QED
      BY <1>2, <1>3, <3>1 DEF NodeSet
  <2>3. f \in NodeSet(z)
    BY <1>2, <1>3 DEF NodeSet
  <2> QED
    BY <2>1, <2>2, <2>3
<1> QED
  BY <1>2, <1>4, <1>5

\* A chain without its first node.
LEMMA NodesTail ==
  ASSUME NEW D, NEW m \in Seq(D), Injective(m), Len(m) # 0
  PROVE  \E z \in Seq(D) :
            /\ Injective(z) /\ NodeSet(z) = NodeSet(m) \ {m[1]}
            /\ Len(z) = Len(m) - 1 /\ \A i \in 1 .. Len(z) : z[i] = m[i + 1]
<1>1. PICK z : z = Tail(m)
  OBVIOUS
<1>2. /\ z \in Seq(D) /\ Len(z) = Len(m) - 1 /\ Len(m) \in Nat
      /\ \A i \in 1 .. Len(z) : z[i] = m[i + 1]
  BY <1>1, HeadTailProperties
<1>3. /\ \A i \in 1 .. Len(z) : i + 1 \in 1 .. Len(m) /\ i + 1 # 1
      /\ \A i \in 1 .. Len(m) : i = 1 \/ (i - 1 \in 1 .. Len(z) /\ z[i - 1] = m[i])
      /\ 1 \in 1 .. Len(m)
  BY <1>2
<1>4. Injective(z)
  <2>1. ASSUME NEW i \in 1 .. Len(z), NEW j \in 1 .. Len(z), z[i] = z[j] PROVE i = j
    <3>1. i + 1 = j + 1
      BY <1>2, <1>3, <2>1 DEF Injective
    <3> QED
      BY <3>1
  <2> QED
    BY <2>1 DEF Injective
<1>5. NodeSet(z) = NodeSet(m) \ {m[1]}
  <2>1. ASSUME NEW i \in 1 .. Len(z) PROVE z[i] \in NodeSet(m) /\ z[i] # m[1]
    BY <1>2, <1>3 DEF NodeSet, Injective
  <2>2. ASSUME NEW i \in 1 .. Len(m), m[i] # m[1] PROVE m[i] \in NodeSet(z)
    BY <1>3, <2>2 DEF NodeSet
  <2>3. \A x \in NodeSet(z) : \E i \in 1 .. Len(z) : x = z[i]
    BY DEF NodeSet
  <2>4. \A x \in NodeSet(m) : \E i \in 1 .. Len(m) : x = m[i]
    BY DEF NodeSet
  <2> QED
    BY <2>1, <2>2, <2>3, <2>4
<1> QED
  BY <1>2, <1>4, <1>5

-----------------------------------------------------------------------------
\* The places of a producer and of a customer, with any of the queues
ProducerPlaces == {"begin", "start", "draw", "push", "fill", "link", "publish", "pushed", "done"}
CustomerPlaces == {"pop", "look", "take", "unlink", "got", "leave", "end", "done"}

TypeOK ==
    /\ kind \in {"ring", "list", "dummy", "wrapped"} /\ round \in Nat
    /\ pc \in [Threads -> ProducerPlaces \cup CustomerPlaces]
    /\ \A p \in Producers : pc[p] \in ProducerPlaces
    /\ \A c \in Customers : pc[c] \in CustomerPlaces
    /\ pushCount \in Nat /\ popCount \in Nat /\ item \in [Producers -> Nat]

\* The producers that have drawn a number which is not in the queue yet; those
\* whose number is their last.
Pending == {p \in Producers : pc[p] \in {"push", "fill", "link", "publish"}}
Last == {p \in Producers : /\ pc[p] \in {"push", "fill", "link", "publish", "pushed", "done"}
                           /\ item[p] >= MaxLoop - 1}

\* The customers that hold an element they have not counted; those that have
\* counted their last; those that `customers` still counts.
Served == {c \in Customers : pc[c] \in {"unlink", "got"}}
Gone == {c \in Customers : pc[c] \in {"leave", "end", "done"}}
Present == {c \in Customers : pc[c] \notin {"end", "done"}}

\* Each side ends with as many last operations as it has threads.
Counters ==
    /\ Cardinality(Last) = IF pushCount < MaxLoop THEN 0 ELSE pushCount - MaxLoop + 1
    /\ Cardinality(Gone) = IF popCount < MaxLoop THEN 0 ELSE popCount - MaxLoop + 1
    /\ customers = Cardinality(Present)
    /\ \A p \in Producers : pc[p] = "done" => p \in Last
    /\ Producers # {} \/ pushCount = 0

\* Who has read the clock: the first producer before its first draw, the last
\* customer when all have left.
ClockInv ==
    /\ firstFlag \/ \A p \in Producers : pc[p] = "begin"
    /\ firstFlag => "start" \in clock \/ \E p \in Producers : pc[p] = "start"
    /\ At("end") # {} \/ "end" \in clock => Present = {} /\ Customers # {}

\* The numbers drawn have been taken, are in the queue, or are about to be pushed,
\* and each is in one of the places only.
Numbers(s) ==
    /\ s \in Seq(Nat) /\ Injective(s)
    /\ \A p, q \in Pending : item[p] = item[q] => p = q
    /\ \A p \in Pending : item[p] \notin taken /\ \A i \in 1 .. Len(s) : item[p] # s[i]
    /\ \A i \in 1 .. Len(s) : s[i] \notin taken
    /\ \A v \in 0 .. pushCount - 1 : \/ v \in taken
                                     \/ \E i \in 1 .. Len(s) : v = s[i]
                                     \/ \E p \in Pending : v = item[p]
    /\ taken \subseteq 0 .. pushCount - 1
    /\ \A i \in 1 .. Len(s) : s[i] < pushCount
    /\ \A p \in Pending : item[p] < pushCount
    /\ Cardinality(taken) = popCount + Cardinality(Served)

USE QueueBenchAssumption, RoundsAssumption

\* The sets of threads that are counted are finite.
LEMMA SidesFinite ==
  /\ IsFiniteSet(Last) /\ Cardinality(Last) \in Nat /\ Last \subseteq Producers
  /\ IsFiniteSet(Gone) /\ Cardinality(Gone) \in Nat /\ Gone \subseteq Customers
  /\ IsFiniteSet(Present) /\ Cardinality(Present) \in Nat /\ Present \subseteq Customers
  /\ IsFiniteSet(Served) /\ Cardinality(Served) \in Nat /\ Served \subseteq Customers
  /\ Cardinality(Producers) \in Nat /\ Cardinality(Customers) = Cardinality(Producers)
  /\ Cardinality({}) = 0
  BY FS_Subset, FS_CardinalityType, FS_EmptySet DEF Last, Gone, Present, Served

\* A step of a thread within its part of the loop: no set of threads changes.
LEMMA Moves ==
  ASSUME TypeOK, Counters, ClockInv, NEW s, Numbers(s), NEW t \in Threads,
         pc' = [pc EXCEPT ![t] = pc'[t]],
         UNCHANGED <<kind, round, pushCount, popCount, item, taken, customers, firstFlag, clock>>,
         \/ t \in Pending /\ pc'[t] \in {"push", "fill", "link", "publish"}
         \/ t \in Customers /\ pc[t] \in {"pop", "look", "take"} /\ pc'[t] \in {"pop", "look", "take"}
         \/ t \in Customers /\ pc[t] = "unlink" /\ pc'[t] = "got"
  PROVE  TypeOK' /\ Counters' /\ ClockInv' /\ Numbers(s)'
<1>1. TypeOK'
  BY DEF TypeOK, ProducerPlaces, CustomerPlaces, Pending, Threads
<1>2. /\ Pending' = Pending /\ Last' = Last /\ Served' = Served /\ Gone' = Gone
      /\ Present' = Present /\ At("end")' = At("end")
  BY DEF TypeOK, Pending, Last, Served, Gone, Present, At, Threads
<1>3. \A p \in Producers : /\ pc'[p] = "done" => pc[p] = "done"
                           /\ pc'[p] \in {"begin", "start"} <=> pc'[p] = pc[p] /\ pc[p] \in {"begin", "start"}
                           /\ pc[p] \in {"begin", "start"} => pc'[p] = pc[p]
  BY DEF TypeOK, Pending, Threads
<1>4. Counters'
  BY <1>2, <1>3 DEF Counters
<1>5. ClockInv'
  <2>1. firstFlag' \/ \A p \in Producers : pc'[p] = "begin"
    BY <1>3 DEF ClockInv
  <2>2. firstFlag' => "start" \in clock' \/ \E p \in Producers : pc'[p] = "start"
    BY <1>3 DEF ClockInv
  <2>3. At("end")' # {} \/ "end" \in clock' => Present' = {} /\ Customers # {}
    BY <1>2 DEF ClockInv
  <2> QED
    BY <2>1, <2>2, <2>3 DEF ClockInv
<1>6. Numbers(s)'
  BY <1>2 DEF Numbers
<1> QED
  BY <1>1, <1>4, <1>5, <1>6

\* A push has put its number at the end.
LEMMA Pushes ==
  ASSUME TypeOK, Counters, ClockInv, NEW s, Numbers(s), NEW p \in Pending,
         pc' = [pc EXCEPT ![p] = "pushed"],
         UNCHANGED <<kind, round, pushCount, popCount, item, taken, customers, firstFlag, clock>>
  PROVE  /\ TypeOK' /\ Counters' /\ ClockInv' /\ Numbers(Append(s, item[p]))'
         /\ p \in Producers /\ item[p] \in Nat /\ item[p] \notin taken
         /\ \A i \in 1 .. Len(s) : s[i] # item[p]
<1>1. p \in Producers /\ p \in Threads /\ p \notin Customers /\ item[p] \in Nat
  BY DEF TypeOK, Pending, Threads
<1>2. TypeOK'
  BY <1>1 DEF TypeOK, ProducerPlaces, CustomerPlaces, Threads
<1>3. /\ Pending' = Pending \ {p} /\ Last' = Last /\ Served' = Served /\ Gone' = Gone
      /\ Present' = Present /\ At("end")' = At("end")
  BY <1>1 DEF TypeOK, Pending, Last, Served, Gone, Present, At, Threads
<1>4. Counters'
  BY <1>1, <1>3 DEF Counters, TypeOK
<1>5. ClockInv'
  <2>1. pc[p] # "begin" /\ pc[p] # "start" /\ firstFlag
    BY <1>1 DEF ClockInv, Pending
  <2>2. firstFlag' => "start" \in clock' \/ \E q \in Producers : pc'[q] = "start"
    BY <2>1, <1>1 DEF ClockInv, TypeOK
  <2> QED
    BY <1>3, <2>1, <2>2 DEF ClockInv
<1>6. Numbers(Append(s, item[p]))'
  <2> DEFINE z == Append(s, item[p])
  <2>0. s \in Seq(Nat) /\ Len(s) \in Nat
    BY DEF Numbers
  <2>1. /\ z \in Seq(Nat) /\ Len(z) = Len(s) + 1 /\ z[Len(s) + 1] = item[p]
        /\ \A i \in 1 .. Len(s) : z[i] = s[i]
    BY <1>1, <2>0, AppendProperties
  <2> HIDE DEF z
  <2>2. \A i \in 1 .. Len(z) : (i \in 1 .. Len(s) /\ z[i] = s[i]) \/ (i = Len(s) + 1 /\ z[i] = item[p])
    BY <2>0, <2>1
  <2>3. Injective(z)
    BY <2>2 DEF Numbers, Injective
  <2>4. \A q \in Pending' : item[q] \notin taken /\ \A i \in 1 .. Len(z) : item[q] # z[i]
    BY <1>3, <2>2 DEF Numbers
  <2>5. \A i \in 1 .. Len(z) : z[i] \notin taken /\ z[i] < pushCount
    BY <2>2 DEF Numbers
  <2>6. \A v \in 0 .. pushCount - 1 : \/ v \in taken
                                      \/ \E i \in 1 .. Len(z) : v = z[i]
                                      \/ \E q \in Pending' : v = item[q]
    <3> SUFFICES ASSUME NEW v \in 0 .. pushCount - 1, v \notin taken,
                        ~ \E q \in Pending' : v = item[q]
                 PROVE  \E i \in 1 .. Len(z) : v = z[i]
      OBVIOUS
    <3>1. Len(s) + 1 \in 1 .. Len(z) /\ \A i \in 1 .. Len(s) : i \in 1 .. Len(z)
      BY <2>0, <2>1
    <3>2. CASE v = item[p]
      BY <2>1, <3>1, <3>2
    <3>3. CASE v # item[p]
      <4>1. \E i \in 1 .. Len(s) : v = s[i]
        BY <1>3, <3>3 DEF Numbers
      <4> QED
        BY <2>1, <3>1, <4>1
    <3> QED
      BY <3>2, <3>3
  <2>7. \A q, r \in Pending' : item[q] = item[r] => q = r
    BY <1>3 DEF Numbers
  <2>8. taken' \subseteq 0 .. pushCount' - 1 /\ Cardinality(taken)' = popCount' + Cardinality(Served)'
        /\ \A q \in Pending' : item'[q] < pushCount'
    BY <1>3 DEF Numbers
  <2> QED
    BY <2>1, <2>3, <2>4, <2>5, <2>6, <2>7, <2>8 DEF Numbers, z
<1> QED
  BY <1>1, <1>2, <1>4, <1>5, <1>6 DEF Numbers

\* A pop has moved the first element out.
LEMMA Takes ==
  ASSUME TypeOK, Counters, ClockInv, NEW s, Numbers(s), NEW c \in Customers,
         pc[c] \in {"pop", "take"}, s # <<>>,
         NEW z \in Seq(Nat), Len(z) = Len(s) - 1, \A i \in 1 .. Len(z) : z[i] = s[i + 1],
         pc' = [pc EXCEPT ![c] = "unlink"] \/ pc' = [pc EXCEPT ![c] = "got"],
         taken' = taken \cup {s[1]},
         UNCHANGED <<kind, round, pushCount, popCount, item, customers, firstFlag, clock>>
  PROVE  TypeOK' /\ Counters' /\ ClockInv' /\ Numbers(z)'
<1>1. c \in Threads /\ c \notin Producers
  BY DEF Threads
<1>0. PICK to \in {"unlink", "got"} : pc' = [pc EXCEPT ![c] = to]
  OBVIOUS
<1>2. TypeOK'
  BY <1>0, <1>1 DEF TypeOK, ProducerPlaces, CustomerPlaces, Threads
<1>3. /\ Pending' = Pending /\ Last' = Last /\ Served' = Served \cup {c} /\ c \notin Served
      /\ Gone' = Gone /\ Present' = Present /\ At("end")' = At("end")
  BY <1>1 DEF TypeOK, Pending, Last, Served, Gone, Present, At, Threads
<1>4. Counters' /\ ClockInv'
  <2>1. \A p \in Producers : pc'[p] = pc[p]
    BY <1>0, <1>1 DEF TypeOK
  <2>2. Counters'
    BY <1>3, <2>1 DEF Counters
  <2>3. ClockInv'
    BY <1>3, <2>1 DEF ClockInv
  <2> QED
    BY <2>2, <2>3
<1>5. Numbers(z)'
  <2>0. s \in Seq(Nat) /\ Len(s) \in Nat \ {0} /\ taken' = taken \cup {s[1]}
    BY EmptySeq DEF Numbers
  <2>1. z \in Seq(Nat) /\ Len(z) = Len(s) - 1 /\ \A i \in 1 .. Len(z) : z[i] = s[i + 1]
    OBVIOUS
  <2>2. /\ \A i \in 1 .. Len(z) : i + 1 \in 1 .. Len(s) /\ i + 1 # 1
        /\ \A i \in 1 .. Len(s) : i = 1 \/ (i - 1 \in 1 .. Len(z) /\ z[i - 1] = s[i])
        /\ 1 \in 1 .. Len(s)
    BY <2>0, <2>1
  <2>3. Injective(z)
    <3>1. ASSUME NEW i \in 1 .. Len(z), NEW j \in 1 .. Len(z), z[i] = z[j] PROVE i = j
      <4>1. i + 1 = j + 1
        BY <2>1, <2>2, <3>1 DEF Numbers, Injective
      <4> QED
        BY <4>1
    <3> QED
      BY <3>1 DEF Injective
  <2>4. \A i \in 1 .. Len(z) : z[i] # s[1] /\ z[i] \notin taken /\ z[i] < pushCount
    BY <2>1, <2>2 DEF Numbers, Injective
  <2>5. \A q \in Pending : item[q] # s[1] /\ \A i \in 1 .. Len(z) : item[q] # z[i]
    BY <2>1, <2>2 DEF Numbers
  <2>6. \A v \in 0 .. pushCount - 1 : \/ v \in taken'
                                      \/ \E i \in 1 .. Len(z) : v = z[i]
                                      \/ \E q \in Pending : v = item[q]
    <3> SUFFICES ASSUME NEW v \in 0 .. pushCount - 1, v \notin taken',
                        ~ \E q \in Pending : v = item[q]
                 PROVE  \E i \in 1 .. Len(z) : v = z[i]
      OBVIOUS
    <3>1. PICK i \in 1 .. Len(s) : v = s[i]
      BY DEF Numbers
    <3>2. i # 1
      BY <2>0, <3>1
    <3> QED
      BY <2>2, <3>1, <3>2
  <2>7. s[1] \notin taken /\ s[1] \in 0 .. pushCount - 1
    BY <2>0, <2>2 DEF Numbers, TypeOK
  <2>8. Cardinality(taken)' = popCount' + Cardinality(Served)'
    <3>1. IsFiniteSet(taken)
      <4>1. taken \subseteq 0 .. pushCount - 1 /\ pushCount - 1 \in Int /\ 0 \in Int
        BY DEF Numbers, TypeOK
      <4>2. IsFiniteSet(0 .. pushCount - 1)
        BY <4>1, FS_Interval, Zenon
      <4> QED
        BY <4>1, <4>2, FS_Subset
    <3>2. Cardinality(taken \cup {s[1]}) = Cardinality(taken) + 1
      BY <2>7, <3>1, FS_AddElement
    <3>3. Cardinality(Served \cup {c}) = Cardinality(Served) + 1
      BY <1>3, SidesFinite, FS_AddElement
    <3>4. Cardinality(taken) = popCount + Cardinality(Served) /\ popCount \in Nat
      BY DEF Numbers, TypeOK
    <3> QED
      BY <1>3, <2>0, <3>2, <3>3, <3>4, SidesFinite
  <2>9. /\ \A p, q \in Pending' : item'[p] = item'[q] => p = q
        /\ \A p \in Pending' : item'[p] < pushCount' /\ item'[p] \notin taken'
    BY <1>3, <2>5 DEF Numbers
  <2>10. taken' \subseteq 0 .. pushCount' - 1
    BY <2>0, <2>7 DEF Numbers
  <2>11. /\ \A i \in 1 .. Len(z) : z[i] \notin taken'
         /\ \A p \in Pending' : \A i \in 1 .. Len(z) : item'[p] # z[i]
    BY <1>3, <2>0, <2>4, <2>5
  <2> QED
    BY <1>3, <2>1, <2>3, <2>4, <2>6, <2>8, <2>9, <2>10, <2>11 DEF Numbers
<1> QED
  BY <1>2, <1>4, <1>5

-----------------------------------------------------------------------------
\* The steps of the benchmark itself.
LEMMA BeginKeeps ==
  ASSUME TypeOK, Counters, ClockInv, NEW s, Numbers(s), NEW p \in Producers,
         Begin(p) \/ Start(p), UNCHANGED <<kind, round>>
  PROVE  TypeOK' /\ Counters' /\ ClockInv' /\ Numbers(s)'
<1> USE DEF Begin, Start, Goto
<1>1. PICK from \in {"begin", "start"}, to \in {"start", "draw"} :
           pc[p] = from /\ pc' = [pc EXCEPT ![p] = to]
                        /\ (to = "draw" => "start" \in clock' \/ (from = "begin" /\ firstFlag))
  BY Zenon
<1>2. p \in Threads /\ p \notin Customers
  BY DEF Threads
<1>3. TypeOK'
  BY <1>1, <1>2 DEF TypeOK, ProducerPlaces, CustomerPlaces, Threads
<1>4. /\ Pending' = Pending /\ Last' = Last /\ Served' = Served /\ Gone' = Gone
      /\ Present' = Present /\ At("end")' = At("end")
  BY <1>1, <1>2 DEF TypeOK, Pending, Last, Served, Gone, Present, At, Threads
<1>5. Counters'
  BY <1>1, <1>4 DEF Counters, TypeOK
<1>6. ClockInv'
  <2>1. firstFlag'
    BY <1>1 DEF ClockInv
  <2>2. "start" \in clock' \/ \E q \in Producers : pc'[q] = "start"
    <3>1. pc'[p] = to /\ \A q \in Producers : q # p => pc'[q] = pc[q]
      BY <1>1, <1>2 DEF TypeOK
    <3>2. clock \subseteq clock'
      OBVIOUS
    <3>3. CASE to = "start"
      BY <3>1, <3>3
    <3>4. CASE to = "draw" /\ from = "begin" /\ firstFlag
      BY <1>1, <3>1, <3>2, <3>4 DEF ClockInv
    <3>5. CASE to = "draw" /\ "start" \in clock'
      BY <3>5
    <3> QED
      BY <1>1, <3>3, <3>4, <3>5
  <2>3. At("end")' # {} \/ "end" \in clock' => Present' = {} /\ Customers # {}
    BY <1>4 DEF ClockInv
  <2> QED
    BY <2>1, <2>2, <2>3 DEF ClockInv
<1>7. Numbers(s)'
  <2>1. UNCHANGED <<pushCount, popCount, item, taken>>
    OBVIOUS
  <2> QED
    BY <1>4, <2>1, Zenon DEF Numbers
<1> QED
  BY <1>3, <1>5, <1>6, <1>7

\* producer: number = push_count.fetch_add(1), which is nobody else's.
LEMMA DrawKeeps ==
  ASSUME TypeOK, Counters, ClockInv, NEW s, Numbers(s), NEW p \in Producers,
         Draw(p), UNCHANGED <<kind, round>>
  PROVE  TypeOK' /\ Counters' /\ ClockInv' /\ Numbers(s)'
<1> USE DEF Draw, Goto
<1>1. p \in Threads /\ p \notin Customers /\ pushCount \in Nat
  BY DEF Threads, TypeOK
<1>2. TypeOK'
  BY <1>1 DEF TypeOK, ProducerPlaces, CustomerPlaces, Threads
<1>3. /\ pc[p] = "draw" /\ pc'[p] = "push" /\ item'[p] = pushCount
      /\ \A q \in Producers : q # p => pc'[q] = pc[q] /\ item'[q] = item[q]
  BY <1>1 DEF TypeOK
<1>4. /\ Pending' = Pending \cup {p} /\ p \notin Pending
      /\ Last' = Last \cup (IF pushCount >= MaxLoop - 1 THEN {p} ELSE {}) /\ p \notin Last
  BY <1>1, <1>3 DEF Pending, Last
<1>5. /\ Served' = Served /\ Gone' = Gone /\ Present' = Present /\ At("end")' = At("end")
  BY <1>1 DEF TypeOK, Served, Gone, Present, At, Threads
<1>6. Counters'
  <2>1. Cardinality(Last)' = Cardinality(Last) + IF pushCount >= MaxLoop - 1 THEN 1 ELSE 0
    <3>1. CASE pushCount >= MaxLoop - 1
      BY <1>4, <3>1, SidesFinite, FS_AddElement
    <3>2. CASE ~ (pushCount >= MaxLoop - 1)
      BY <1>4, <3>2, SidesFinite
    <3> QED
      BY <3>1, <3>2
  <2>2. Cardinality(Last)' = IF pushCount' < MaxLoop THEN 0 ELSE pushCount' - MaxLoop + 1
    BY <1>1, <2>1 DEF Counters
  <2>3. \A q \in Producers : pc'[q] = "done" => q \in Last'
    BY <1>3, <1>4 DEF Counters
  <2> QED
    BY <1>5, <2>2, <2>3 DEF Counters
<1>7. ClockInv'
  BY <1>3, <1>5 DEF ClockInv
<1>8. Numbers(s)'
  <2>1. /\ \A q \in Pending : item[q] < pushCount /\ item[q] \in Nat
        /\ \A i \in 1 .. Len(s) : s[i] < pushCount
        /\ pushCount \notin taken
    <3>1. \A q \in Pending : item[q] < pushCount /\ item[q] \in Nat
      BY DEF Numbers, TypeOK, Pending
    <3>2. taken \subseteq 0 .. pushCount - 1 /\ \A i \in 1 .. Len(s) : s[i] < pushCount
      BY DEF Numbers
    <3> QED
      BY <1>1, <3>1, <3>2
  <2>2. \A q \in Pending' : (q = p /\ item'[q] = pushCount) \/ (q \in Pending /\ item'[q] = item[q] /\ q # p)
    BY <1>3, <1>4 DEF Pending
  <2>3. \A q, r \in Pending' : item'[q] = item'[r] => q = r
    BY <1>1, <2>1, <2>2 DEF Numbers
  <2>4. \A q \in Pending' : /\ item'[q] \notin taken' /\ item'[q] < pushCount'
                            /\ \A i \in 1 .. Len(s) : item'[q] # s[i]
    BY <1>1, <2>1, <2>2 DEF Numbers
  <2>5. \A v \in 0 .. pushCount' - 1 : \/ v \in taken'
                                       \/ \E i \in 1 .. Len(s) : v = s[i]
                                       \/ \E q \in Pending' : v = item'[q]
    <3> SUFFICES ASSUME NEW v \in 0 .. pushCount' - 1, v \notin taken,
                        ~ \E i \in 1 .. Len(s) : v = s[i]
                 PROVE  \E q \in Pending' : v = item'[q]
      OBVIOUS
    <3>1. CASE v = pushCount
      BY <1>3, <1>4, <3>1
    <3>2. CASE v # pushCount
      <4>1. v \in 0 .. pushCount - 1
        BY <1>1, <3>2
      <4>2. PICK q \in Pending : v = item[q]
        BY <4>1 DEF Numbers
      <4>3. q # p /\ q \in Producers /\ q \in Pending'
        BY <1>4 DEF Pending
      <4> QED
        BY <1>3, <4>2, <4>3
    <3> QED
      BY <3>1, <3>2
  <2>6. /\ taken' \subseteq 0 .. pushCount' - 1 /\ \A i \in 1 .. Len(s) : s[i] < pushCount'
    <3>1. taken \subseteq 0 .. pushCount - 1
      BY DEF Numbers
    <3>2. \A i \in 1 .. Len(s) : s[i] < pushCount /\ s[i] \in Nat
      BY DEF Numbers
    <3> QED
      BY <1>1, <3>1, <3>2
  <2> QED
    BY <1>5, <2>3, <2>4, <2>5, <2>6 DEF Numbers
<1> QED
  BY <1>2, <1>6, <1>7, <1>8

\* producer: after the push, the loop goes on unless the number was one of the last.
LEMMA PushedKeeps ==
  ASSUME TypeOK, Counters, ClockInv, NEW s, Numbers(s), NEW p \in Producers,
         Pushed(p), UNCHANGED <<kind, round>>
  PROVE  TypeOK' /\ Counters' /\ ClockInv' /\ Numbers(s)'
<1> USE DEF Pushed, Goto
<1>1. PICK to \in {"draw", "done"} : /\ pc[p] = "pushed" /\ pc' = [pc EXCEPT ![p] = to]
                                     /\ to = "done" <=> ~ (item[p] + 1 < MaxLoop)
  BY Zenon
<1>2. p \in Threads /\ p \notin Customers /\ item[p] \in Nat
  BY DEF Threads, TypeOK
<1>3. TypeOK'
  BY <1>1, <1>2 DEF TypeOK, ProducerPlaces, CustomerPlaces, Threads
<1>4. pc'[p] = to /\ \A q \in Producers : q # p => pc'[q] = pc[q]
  BY <1>1, <1>2 DEF TypeOK
<1>5. Pending' = Pending /\ Last' = Last /\ (to = "done" => p \in Last)
  BY <1>1, <1>2, <1>4 DEF Pending, Last
<1>6. Served' = Served /\ Gone' = Gone /\ Present' = Present /\ At("end")' = At("end")
  BY <1>1, <1>2 DEF TypeOK, Served, Gone, Present, At, Threads
<1>7. Counters'
  BY <1>4, <1>5, <1>6 DEF Counters
<1>8. ClockInv'
  BY <1>1, <1>4, <1>6 DEF ClockInv
<1>9. Numbers(s)'
  BY <1>5, <1>6 DEF Numbers
<1> QED
  BY <1>3, <1>7, <1>8, <1>9

\* customer: pop_count.fetch_add(1) after a pop, and the loop's condition.
LEMMA CountedKeeps ==
  ASSUME TypeOK, Counters, ClockInv, NEW s, Numbers(s), NEW c \in Customers,
         Counted(c), UNCHANGED <<kind, round>>
  PROVE  TypeOK' /\ Counters' /\ ClockInv' /\ Numbers(s)'
<1> USE DEF Counted, Goto
<1>1. PICK to \in {"pop", "leave"} : /\ pc[c] = "got" /\ pc' = [pc EXCEPT ![c] = to]
                                     /\ to = "leave" <=> ~ (popCount + 1 < MaxLoop)
  BY Zenon
<1>2. c \in Threads /\ c \notin Producers /\ popCount \in Nat /\ popCount' = popCount + 1
  BY DEF Threads, TypeOK
<1>3. TypeOK'
  BY <1>1, <1>2 DEF TypeOK, ProducerPlaces, CustomerPlaces, Threads
<1>4. \A p \in Producers : pc'[p] = pc[p]
  BY <1>1, <1>2 DEF TypeOK
<1>5. /\ Pending' = Pending /\ Last' = Last /\ Present' = Present /\ At("end")' = At("end")
      /\ Served' = Served \ {c} /\ c \in Served /\ c \notin Gone
      /\ Gone' = Gone \cup (IF to = "leave" THEN {c} ELSE {})
  BY <1>1, <1>2 DEF TypeOK, Pending, Last, Served, Gone, Present, At, Threads
<1>6. Cardinality(Gone)' = Cardinality(Gone) + IF to = "leave" THEN 1 ELSE 0
  <2>1. CASE to = "leave"
    BY <1>5, <2>1, SidesFinite, FS_AddElement
  <2>2. CASE to # "leave"
    BY <1>5, <2>2, SidesFinite
  <2> QED
    BY <2>1, <2>2
<1>7. Cardinality(Gone)' = IF popCount' < MaxLoop THEN 0 ELSE popCount' - MaxLoop + 1
  BY <1>1, <1>2, <1>6 DEF Counters
<1>8. Counters'
  BY <1>4, <1>5, <1>7 DEF Counters
<1>9. ClockInv'
  BY <1>4, <1>5 DEF ClockInv
<1>10. Cardinality(Served)' = Cardinality(Served) - 1
  BY <1>5, SidesFinite, FS_RemoveElement
<1>11. Cardinality(taken)' = popCount' + Cardinality(Served)'
  BY <1>2, <1>10, SidesFinite DEF Numbers
<1>12. Numbers(s)'
  BY <1>5, <1>11 DEF Numbers
<1> QED
  BY <1>3, <1>8, <1>9, <1>12

\* customer: --customers tells which customer is the last to leave.
LEMMA LeaveKeeps ==
  ASSUME TypeOK, Counters, ClockInv, NEW s, Numbers(s), NEW c \in Customers,
         Leave(c), UNCHANGED <<kind, round>>
  PROVE  TypeOK' /\ Counters' /\ ClockInv' /\ Numbers(s)'
<1> USE DEF Leave, Goto
<1>1. PICK to \in {"end", "done"} : /\ pc[c] = "leave" /\ pc' = [pc EXCEPT ![c] = to]
                                    /\ to = "end" <=> customers = 1
  BY Zenon
<1>2. c \in Threads /\ c \notin Producers
  BY DEF Threads
<1>3. TypeOK'
  BY <1>1, <1>2 DEF TypeOK, ProducerPlaces, CustomerPlaces, Threads
<1>4. \A p \in Producers : pc'[p] = pc[p]
  BY <1>1, <1>2 DEF TypeOK
<1>5. /\ Pending' = Pending /\ Last' = Last /\ Served' = Served /\ Gone' = Gone
      /\ Present' = Present \ {c} /\ c \in Present
  BY <1>1, <1>2 DEF TypeOK, Pending, Last, Served, Gone, Present, At, Threads
<1>6. Cardinality(Present)' = Cardinality(Present) - 1
  BY <1>5, SidesFinite, FS_RemoveElement
<1>7. Counters'
  BY <1>4, <1>5, <1>6 DEF Counters
<1>8. ClockInv'
  <2>1. ~ (At("end") # {} \/ "end" \in clock)
    BY <1>5 DEF ClockInv
  <2>2. CASE to = "end"
    <3>1. Cardinality(Present)' = 0
      BY <1>1, <1>6, <2>2, SidesFinite DEF Counters
    <3>2. Present' = {}
      BY <1>5, <3>1, SidesFinite, FS_RemoveElement, FS_EmptySet
    <3> QED
      BY <1>4, <3>2 DEF ClockInv
  <2>3. CASE to = "done"
    <3>1. At("end")' = {} /\ clock' = clock
      BY <1>1, <2>1, <2>3 DEF At, TypeOK
    <3> QED
      BY <1>4, <2>1, <3>1 DEF ClockInv
  <2> QED
    BY <2>2, <2>3
<1>9. Numbers(s)'
  BY <1>5 DEF Numbers
<1> QED
  BY <1>3, <1>7, <1>8, <1>9

\* customer: the last one reads the clock.
LEMMA EndKeeps ==
  ASSUME TypeOK, Counters, ClockInv, NEW s, Numbers(s), NEW c \in Customers,
         End(c), UNCHANGED <<kind, round>>
  PROVE  TypeOK' /\ Counters' /\ ClockInv' /\ Numbers(s)'
<1> USE DEF End, Goto
<1>1. c \in Threads /\ c \notin Producers
  BY DEF Threads
<1>2. TypeOK'
  BY <1>1 DEF TypeOK, ProducerPlaces, CustomerPlaces, Threads
<1>3. \A p \in Producers : pc'[p] = pc[p]
  BY <1>1 DEF TypeOK
<1>4. /\ Pending' = Pending /\ Last' = Last /\ Served' = Served /\ Gone' = Gone
      /\ Present' = Present
  BY <1>1 DEF TypeOK, Pending, Last, Served, Gone, Present, Threads
<1>5. Counters'
  BY <1>3, <1>4 DEF Counters
<1>6. ClockInv'
  <2>1. Present = {} /\ Customers # {}
    BY <1>1 DEF ClockInv, At
  <2>2. "start" \in clock => "start" \in clock'
    OBVIOUS
  <2> QED
    BY <1>3, <1>4, <2>1, <2>2 DEF ClockInv
<1>7. Numbers(s)'
  BY <1>4 DEF Numbers
<1> QED
  BY <1>2, <1>5, <1>6, <1>7

\* All the steps of the benchmark outside of the queue.
LEMMA BenchKeeps ==
  ASSUME TypeOK, Counters, ClockInv, NEW s, Numbers(s), NEW t \in Threads,
         (t \in Producers /\ ProducerStep(t)) \/ (t \in Customers /\ CustomerStep(t)),
         UNCHANGED <<kind, round>>
  PROVE  TypeOK' /\ Counters' /\ ClockInv' /\ Numbers(s)'
  BY BeginKeeps, DrawKeeps, PushedKeeps, CountedKeeps, LeaveKeeps, EndKeeps
  DEF ProducerStep, CustomerStep

-----------------------------------------------------------------------------
\* When the last customer has counted its last element, every number is taken.
LEMMA AllTaken ==
  ASSUME TypeOK, Counters, NEW s, Numbers(s), Gone = Customers
  PROVE  /\ taken = 0 .. pushCount - 1 /\ s = <<>>
         /\ Customers # {} => /\ popCount = MaxLoop + Cardinality(Customers) - 1
                              /\ Last = Producers
<1>1. /\ Cardinality(taken) = popCount + Cardinality(Served) /\ s \in Seq(Nat)
      /\ taken \subseteq 0 .. pushCount - 1 /\ pushCount \in Nat /\ popCount \in Nat
      /\ \A i \in 1 .. Len(s) : s[i] \in Nat /\ s[i] < pushCount /\ s[i] \notin taken
  BY DEF Numbers, TypeOK
<1>2. Served = {}
  BY DEF Served, Gone
<1>3. IsFiniteSet(0 .. pushCount - 1) /\ Cardinality(0 .. pushCount - 1) = pushCount
  <2>1. pushCount - 1 \in Int /\ 0 \in Int
    BY <1>1
  <2>2. /\ IsFiniteSet(0 .. pushCount - 1)
        /\ Cardinality(0 .. pushCount - 1) = IF 0 > pushCount - 1 THEN 0 ELSE (pushCount - 1) - 0 + 1
    BY <2>1, FS_Interval, Zenon
  <2> QED
    BY <1>1, <2>2
<1>4. CASE Customers = {}
  <2>1. Producers = {} /\ pushCount = 0
    BY <1>4, SidesFinite, FS_EmptySet DEF Counters
  <2>2. taken = {} /\ 0 .. pushCount - 1 = {}
    BY <1>1, <2>1
  <2>3. s = <<>>
    <3>1. Len(s) = 0
      <4>1. Len(s) \in Nat /\ (Len(s) # 0 => 1 \in 1 .. Len(s))
        BY <1>1
      <4> QED
        BY <1>1, <2>1, <4>1
    <3> QED
      BY <1>1, <3>1, EmptySeq
  <2> QED
    BY <1>4, <2>2, <2>3
<1>5. CASE Customers # {}
  <2>1. Cardinality(Customers) # 0
    BY <1>5, FS_EmptySet
  <2>2. popCount = MaxLoop + Cardinality(Customers) - 1
    BY <1>1, <2>1, SidesFinite DEF Counters
  <2>3. Cardinality(taken) = popCount
    BY <1>1, <1>2, SidesFinite
  <2>4. Cardinality(taken) <= pushCount
    <3>1. taken \in SUBSET (0 .. pushCount - 1)
      BY <1>1
    <3>2. Cardinality(taken) <= Cardinality(0 .. pushCount - 1)
      BY <1>3, <3>1, FS_Subset
    <3> QED
      BY <1>3, <3>2
  <2>5. Cardinality(Last) <= Cardinality(Producers)
    BY SidesFinite, FS_Subset
  <2>6. pushCount = popCount /\ Cardinality(Last) = Cardinality(Producers)
    <3>1. pushCount >= MaxLoop /\ pushCount >= MaxLoop + Cardinality(Producers) - 1
      BY <1>1, <2>1, <2>2, <2>3, <2>4, SidesFinite
    <3>2. Cardinality(Last) = pushCount - MaxLoop + 1
      BY <1>1, <3>1 DEF Counters
    <3> QED
      BY <1>1, <2>2, <2>5, <3>1, <3>2, SidesFinite
  <2>7. Last = Producers
    BY <2>6, SidesFinite, FS_Subset
  <2>8. taken = 0 .. pushCount - 1
    BY <1>1, <1>3, <2>3, <2>6, FS_Subset
  <2>9. Len(s) = 0
    <3>1. Len(s) \in Nat /\ (Len(s) # 0 => 1 \in 1 .. Len(s))
      BY <1>1
    <3> QED
      BY <1>1, <2>8, <3>1
  <2> QED
    BY <1>1, <2>2, <2>7, <2>8, <2>9, EmptySeq
<1> QED
  BY <1>4, <1>5

\* When all threads are done, the queue is empty and every number taken.
LEMMA DrainedAtEnd ==
  ASSUME TypeOK, Counters, NEW s, Numbers(s), AllDone
  PROVE  taken = 0 .. pushCount - 1 /\ s = <<>>
<1>1. Gone = Customers
  BY DEF AllDone, Gone, Threads
<1> QED
  BY <1>1, AllTaken

\* The parts of the invariant imply that start is read before end.
LEMMA ClockOrdered ==
  ASSUME TypeOK, Counters, ClockInv, NEW s, Numbers(s)
  PROVE  ClockInOrder
<1> SUFFICES ASSUME At("end") # {} \/ "end" \in clock
             PROVE  "start" \in clock /\ popCount = MaxLoop + Cardinality(Customers) - 1
  BY DEF ClockInOrder
<1>1. Present = {} /\ Customers # {}
  BY DEF ClockInv
<1>2. Gone = Customers
  BY <1>1 DEF Present, Gone
<1>3. popCount = MaxLoop + Cardinality(Customers) - 1 /\ Last = Producers
  BY <1>1, <1>2, AllTaken
<1>4. Producers # {}
  BY <1>1, SidesFinite, FS_EmptySet
<1>5. \A p \in Producers : pc[p] # "begin" /\ pc[p] # "start"
  BY <1>3 DEF Last
<1> QED
  BY <1>3, <1>4, <1>5 DEF ClockInv

-----------------------------------------------------------------------------
\* What a step does to the elements: nothing, a push of a number that is new, or
\* a pop.
Moved(s, z) ==
    \/ z = s /\ UNCHANGED taken
    \/ \E p \in Producers : /\ z = Append(s, item[p]) /\ item[p] \in Nat /\ item[p] \notin taken
                            /\ \A i \in 1 .. Len(s) : s[i] # item[p]
                            /\ UNCHANGED taken
    \/ s # <<>> /\ z = Tail(s) /\ taken' = taken \cup {Head(s)}

\* The part of the invariant that is about the benchmark
Bench(s) == TypeOK /\ Counters /\ ClockInv /\ Numbers(s)

\* The linearization points of a push and of a pop.
LEMMA PushesBack ==
  ASSUME NEW s, Bench(s), NEW p \in Pending, pc' = [pc EXCEPT ![p] = "pushed"],
         UNCHANGED <<kind, round, pushCount, popCount, item, taken, customers, firstFlag, clock>>
  PROVE  \E z \in Seq(Nat) :
            /\ Bench(z)' /\ Moved(s, z) /\ z = Append(s, item[p]) /\ item[p] \in Nat
            /\ Len(z) = Len(s) + 1 /\ z[Len(s) + 1] = item[p] /\ \A i \in 1 .. Len(s) : z[i] = s[i]
<1>1. PICK z : z = Append(s, item[p])
  OBVIOUS
<1>2. /\ TypeOK' /\ Counters' /\ ClockInv' /\ Numbers(z)'
      /\ p \in Producers /\ item[p] \in Nat /\ item[p] \notin taken
      /\ \A i \in 1 .. Len(s) : s[i] # item[p]
  BY <1>1, Pushes DEF Bench
<1>3. s \in Seq(Nat) /\ Len(s) \in Nat
  BY DEF Bench, Numbers
<1>4. /\ z \in Seq(Nat) /\ Len(z) = Len(s) + 1 /\ z[Len(s) + 1] = item[p]
      /\ \A i \in 1 .. Len(s) : z[i] = s[i]
  BY <1>1, <1>2, <1>3, AppendProperties
<1>5. Moved(s, z)
  BY <1>1, <1>2 DEF Moved
<1> QED
  BY <1>1, <1>2, <1>4, <1>5 DEF Bench

\* A pop moves the first element to its customer.
LEMMA PopsFront ==
  ASSUME NEW s, Bench(s), NEW c \in Customers, pc[c] \in {"pop", "take"}, s # <<>>,
         pc' = [pc EXCEPT ![c] = "unlink"] \/ pc' = [pc EXCEPT ![c] = "got"],
         taken' = taken \cup {s[1]},
         UNCHANGED <<kind, round, pushCount, popCount, item, customers, firstFlag, clock>>
  PROVE  \E z \in Seq(Nat) :
            /\ Bench(z)' /\ Moved(s, z) /\ z = Tail(s)
            /\ Len(z) = Len(s) - 1 /\ \A i \in 1 .. Len(z) : z[i] = s[i + 1]
<1>1. PICK z : z = Tail(s)
  OBVIOUS
<1>2. s \in Seq(Nat) /\ Len(s) \in Nat
  BY DEF Bench, Numbers
<1>3. z \in Seq(Nat) /\ Len(z) = Len(s) - 1 /\ \A i \in 1 .. Len(z) : z[i] = s[i + 1]
  BY <1>1, <1>2, HeadTailProperties
<1>4. TypeOK' /\ Counters' /\ ClockInv' /\ Numbers(z)'
  BY <1>3, Takes DEF Bench
<1>5. Moved(s, z)
  <2>1. Head(s) = s[1]
    BY <1>2
  <2> QED
    BY <1>1, <2>1 DEF Moved
<1> QED
  BY <1>1, <1>3, <1>4, <1>5 DEF Bench

\* threadsafe_ring: s lies in the slots from head_ to tail_.
Slot(i) == IF head + i - 1 < Capacity THEN head + i - 1 ELSE (head + i - 1) - Capacity
RingHolds(s) ==
    /\ data \in [0 .. Capacity - 1 -> Nat] /\ head \in 0 .. Capacity - 1 /\ tail \in 0 .. Capacity - 1
    /\ Len(s) = IF tail >= head THEN tail - head ELSE tail - head + Capacity
    /\ \A i \in 1 .. Len(s) : s[i] = data[Slot(i)]

\* The index of a slot one round further.
LEMMA AroundTheRing ==
  ASSUME NEW n \in 0 .. 2 * Capacity - 1
  PROVE  n % Capacity = IF n < Capacity THEN n ELSE n - Capacity
<1>1. CASE n < Capacity
  BY <1>1
<1>2. CASE n >= Capacity
  <2>1. n = 1 * Capacity + (n - Capacity) /\ n - Capacity \in 0 .. Capacity - 1
    BY <1>2
  <2> QED
    BY <1>2, <2>1
<1> QED
  BY <1>1, <1>2

\* to_vector() returns the elements from head_ to tail_, around the end of the ring.
LEMMA RingElements ==
  ASSUME NEW s, Numbers(s), RingHolds(s)
  PROVE  Simple!ToVector = s
<1>1. s \in Seq(Nat) /\ Len(s) \in Nat
  BY DEF Numbers
<1>2. tail - head + Capacity \in 0 .. 2 * Capacity - 1
  BY DEF RingHolds
<1>3. Simple!Count = Len(s)
  <2>1. Simple!Count = IF tail - head + Capacity < Capacity THEN tail - head + Capacity
                       ELSE (tail - head + Capacity) - Capacity
    BY <1>2, AroundTheRing, Zenon DEF Simple!Count
  <2> QED
    BY <2>1 DEF RingHolds
<1>4. Len(s) < Capacity
  BY DEF RingHolds
<1>5. \A i \in 1 .. Len(s) : data[(head + i - 1) % Capacity] = s[i]
  <2> SUFFICES ASSUME NEW i \in 1 .. Len(s) PROVE data[(head + i - 1) % Capacity] = s[i]
    OBVIOUS
  <2>1. head + i - 1 \in 0 .. 2 * Capacity - 1
    BY <1>1, <1>4 DEF RingHolds
  <2> DEFINE n == head + i - 1
  <2>2. n % Capacity = IF n < Capacity THEN n ELSE n - Capacity
    <3>1. n \in 0 .. 2 * Capacity - 1
      BY <2>1
    <3> HIDE DEF n
    <3> QED
      BY <3>1, AroundTheRing, Zenon
  <2>3. (head + i - 1) % Capacity = Slot(i)
    BY <2>2, Zenon DEF Slot
  <2> QED
    BY <2>3 DEF RingHolds
<1>6. Simple!ToVector = [i \in 1 .. Len(s) |-> s[i]]
  BY <1>3, <1>5 DEF Simple!ToVector
<1> QED
  BY <1>1, <1>6

\* threadsafe_ring::push: the slot before head_ stays free, so that a full ring does
\* not look like an empty one.
LEMMA RingPush ==
  ASSUME NEW s, Bench(s), RingHolds(s), NEW p \in Producers, Simple!Push(p), UNCHANGED <<kind, round>>
  PROVE  \E z : Bench(z)' /\ RingHolds(z)' /\ Moved(s, z)
<1>0. /\ (tail + 1) % Capacity # head /\ data' = [data EXCEPT ![tail] = item[p]]
      /\ tail' = (tail + 1) % Capacity /\ head' = head
  BY DEF Simple!Push
<1>1. p \in Pending /\ pc' = [pc EXCEPT ![p] = "pushed"]
      /\ UNCHANGED <<kind, round, pushCount, popCount, item, taken, customers, firstFlag, clock>>
  BY DEF Pending, Simple!Push, Simple!Goto, Simple!Unchanged
<1>2. PICK z \in Seq(Nat) :
          /\ Bench(z)' /\ Moved(s, z) /\ item[p] \in Nat
          /\ Len(z) = Len(s) + 1 /\ z[Len(s) + 1] = item[p] /\ \A i \in 1 .. Len(s) : z[i] = s[i]
  BY <1>1, PushesBack
<1>3. s \in Seq(Nat) /\ Len(s) \in Nat
  BY DEF Bench, Numbers
<1>4. Len(z) = Len(s) + 1 /\ z[Len(s) + 1] = item[p] /\ \A i \in 1 .. Len(s) : z[i] = s[i]
  BY <1>2
<1>5. /\ data \in [0 .. Capacity - 1 -> Nat] /\ head \in 0 .. Capacity - 1 /\ tail \in 0 .. Capacity - 1
      /\ Len(s) = IF tail >= head THEN tail - head ELSE tail - head + Capacity
      /\ \A i \in 1 .. Len(s) : s[i] = data[Slot(i)]
  BY DEF RingHolds
<1>6. tail' = (IF tail + 1 < Capacity THEN tail + 1 ELSE 0) /\ tail' # head /\ head' = head
      /\ data' = [data EXCEPT ![tail] = item[p]]
  <2>1. tail + 1 \in 0 .. 2 * Capacity - 1 /\ (tail + 1 < Capacity \/ tail + 1 = Capacity)
    BY <1>5
  <2> DEFINE n == tail + 1
  <2>2. n % Capacity = IF n < Capacity THEN n ELSE n - Capacity
    <3>1. n \in 0 .. 2 * Capacity - 1
      BY <2>1
    <3> HIDE DEF n
    <3> QED
      BY <3>1, AroundTheRing, Zenon
  <2> QED
    BY <1>0, <2>1, <2>2
<1>7. Len(z) = IF tail' >= head' THEN tail' - head' ELSE tail' - head' + Capacity
  BY <1>3, <1>4, <1>5, <1>6
<1>8. Slot(Len(s) + 1) = tail /\ \A i \in 1 .. Len(s) : Slot(i) \in 0 .. Capacity - 1 /\ Slot(i) # tail
  BY <1>3, <1>5 DEF Slot
<1>9. \A i \in 1 .. Len(z) : z[i] = data'[Slot(i)']
  <2>1. \A i : Slot(i)' = Slot(i)
    BY <1>6 DEF Slot
  <2>2. data'[tail] = item[p] /\ \A j \in 0 .. Capacity - 1 : j # tail => data'[j] = data[j]
    BY <1>5, <1>6
  <2>3. ASSUME NEW i \in 1 .. Len(z) PROVE z[i] = data'[Slot(i)]
    <3>1. CASE i = Len(s) + 1
      BY <1>4, <1>8, <2>2, <3>1
    <3>2. CASE i \in 1 .. Len(s)
      <4>1. Slot(i) \in 0 .. Capacity - 1 /\ Slot(i) # tail /\ s[i] = data[Slot(i)] /\ z[i] = s[i]
        BY <1>4, <1>5, <1>8, <3>2
      <4> QED
        BY <2>2, <4>1
    <3> QED
      BY <1>3, <1>4, <3>1, <3>2
  <2> QED
    BY <2>1, <2>3
<1>10. RingHolds(z)'
  <2>1. data' \in [0 .. Capacity - 1 -> Nat] /\ head' \in 0 .. Capacity - 1 /\ tail' \in 0 .. Capacity - 1
    BY <1>2, <1>5, <1>6
  <2> QED
    BY <1>7, <1>9, <2>1 DEF RingHolds
<1> QED
  BY <1>2, <1>10

\* threadsafe_ring::try_pop
LEMMA RingPop ==
  ASSUME NEW s, Bench(s), RingHolds(s), NEW c \in Customers, Simple!Pop(c), UNCHANGED <<kind, round>>
  PROVE  \E z : Bench(z)' /\ RingHolds(z)' /\ Moved(s, z)
<1>0. /\ head' = (head + 1) % Capacity /\ tail' = tail /\ data' = data
      /\ taken' = taken \cup {data[head]} /\ head # tail
      /\ pc[c] = "pop" /\ pc' = [pc EXCEPT ![c] = "got"]
      /\ UNCHANGED <<kind, round, pushCount, popCount, item, customers, firstFlag, clock>>
  BY DEF Simple!Pop, Simple!Goto, Simple!Unchanged
<1>1. s \in Seq(Nat) /\ Len(s) \in Nat
  BY DEF Bench, Numbers
<1>2. /\ data \in [0 .. Capacity - 1 -> Nat] /\ head \in 0 .. Capacity - 1 /\ tail \in 0 .. Capacity - 1
      /\ Len(s) = IF tail >= head THEN tail - head ELSE tail - head + Capacity
      /\ \A i \in 1 .. Len(s) : s[i] = data[Slot(i)]
  BY DEF RingHolds
<1>3. Len(s) # 0 /\ 1 \in 1 .. Len(s) /\ s # <<>> /\ Slot(1) = head /\ s[1] = data[head]
  <2>1. Len(s) # 0 /\ 1 \in 1 .. Len(s) /\ Slot(1) = head
    BY <1>0, <1>1, <1>2 DEF Slot
  <2> QED
    BY <1>1, <1>2, <2>1
<1>4. PICK z \in Seq(Nat) : /\ Bench(z)' /\ Moved(s, z)
                            /\ Len(z) = Len(s) - 1 /\ \A i \in 1 .. Len(z) : z[i] = s[i + 1]
  <2>1. /\ pc' = [pc EXCEPT ![c] = "got"] /\ pc[c] \in {"pop", "take"}
        /\ taken' = taken \cup {s[1]} /\ s # <<>>
        /\ UNCHANGED <<kind, round, pushCount, popCount, item, customers, firstFlag, clock>>
    BY <1>0, <1>3
  <2> QED
    BY <2>1, PopsFront
<1>5. Len(z) = Len(s) - 1
  BY <1>4
<1>6. head' = (IF head + 1 < Capacity THEN head + 1 ELSE 0) /\ tail' = tail /\ data' = data
  <2>1. head + 1 \in 0 .. 2 * Capacity - 1 /\ (head + 1 < Capacity \/ head + 1 = Capacity)
    BY <1>2
  <2> DEFINE n == head + 1
  <2>2. n % Capacity = IF n < Capacity THEN n ELSE n - Capacity
    <3>1. n \in 0 .. 2 * Capacity - 1
      BY <2>1
    <3> HIDE DEF n
    <3> QED
      BY <3>1, AroundTheRing, Zenon
  <2> QED
    BY <1>0, <2>1, <2>2
<1>7. Len(z) = IF tail' >= head' THEN tail' - head' ELSE tail' - head' + Capacity
  <2>1. CASE head + 1 < Capacity
    <3>1. head' = head + 1 /\ tail' = tail /\ Len(z) = Len(s) - 1 /\ head # tail
      BY <1>0, <1>4, <1>6, <2>1
    <3>2. Len(s) = IF tail >= head THEN tail - head ELSE tail - head + Capacity
      BY <1>2
    <3> QED
      BY <1>2, <3>1, <3>2
  <2>2. CASE ~ (head + 1 < Capacity)
    <3>1. head' = 0 /\ head = Capacity - 1 /\ tail' = tail /\ tail \in Nat /\ tail < head
      BY <1>0, <1>2, <1>6, <2>2
    <3> QED
      BY <1>1, <1>2, <1>4, <3>1
  <2> QED
    BY <2>1, <2>2
<1>8. \A i \in 1 .. Len(z) : Slot(i)' = Slot(i + 1) /\ i + 1 \in 1 .. Len(s)
  <2> SUFFICES ASSUME NEW i \in 1 .. Len(z)
               PROVE  Slot(i)' = Slot(i + 1) /\ i + 1 \in 1 .. Len(s)
    OBVIOUS
  <2>1. i \in Nat /\ i >= 1 /\ i + 1 \in 1 .. Len(s) /\ Len(s) < Capacity
    <3>1. Len(s) < Capacity
      BY <1>2
    <3> QED
      BY <1>1, <1>4, <3>1
  <2>2. CASE head + 1 < Capacity
    <3>1. head' = head + 1
      BY <1>6, <2>2
    <3> QED
      BY <1>2, <2>1, <3>1 DEF Slot
  <2>3. CASE ~ (head + 1 < Capacity)
    <3>1. head' = 0 /\ head = Capacity - 1
      BY <1>2, <1>6, <2>3
    <3> QED
      BY <1>2, <2>1, <3>1 DEF Slot
  <2> QED
    BY <2>2, <2>3
<1>9. RingHolds(z)'
  <2>1. \A i \in 1 .. Len(z) : z[i] = data'[Slot(i)']
    BY <1>2, <1>4, <1>6, <1>8
  <2>2. data' \in [0 .. Capacity - 1 -> Nat] /\ head' \in 0 .. Capacity - 1 /\ tail' \in 0 .. Capacity - 1
    BY <1>2, <1>6
  <2> QED
    BY <1>7, <2>1, <2>2 DEF RingHolds
<1> QED
  BY <1>4, <1>9

-----------------------------------------------------------------------------
\* The queues that wrap another one: s is that queue.
LEMMA WrappedStepKeeps ==
  ASSUME NEW s, Bench(s), queue = s, NEW t \in Threads,
         \/ t \in Producers /\ Simple!PushWrapped(t)
         \/ t \in Customers /\ Simple!PopWrapped(t),
         UNCHANGED <<kind, round>>
  PROVE  \E z : Bench(z)' /\ queue' = z /\ Moved(s, z)
<1>1. CASE t \in Producers /\ Simple!PushWrapped(t)
  <2>1. /\ t \in Pending /\ pc' = [pc EXCEPT ![t] = "pushed"] /\ queue' = Append(s, item[t])
        /\ UNCHANGED <<kind, round, pushCount, popCount, item, taken, customers, firstFlag, clock>>
    BY <1>1 DEF Pending, Simple!PushWrapped, Simple!Goto, Simple!Unchanged
  <2>2. \E z \in Seq(Nat) : Bench(z)' /\ Moved(s, z) /\ z = Append(s, item[t])
    BY <2>1, PushesBack
  <2> QED
    BY <2>1, <2>2, Zenon
<1>2. CASE t \in Customers /\ Simple!PopWrapped(t)
  <2>1. s \in Seq(Nat)
    BY DEF Bench, Numbers
  <2>2. /\ pc[t] \in {"pop", "take"} /\ pc' = [pc EXCEPT ![t] = "got"] /\ queue' = Tail(s)
        /\ s # <<>> /\ taken' = taken \cup {s[1]}
        /\ UNCHANGED <<kind, round, pushCount, popCount, item, customers, firstFlag, clock>>
    BY <1>2, <2>1 DEF Simple!PopWrapped, Simple!Goto, Simple!Unchanged
  <2>3. \E z \in Seq(Nat) : Bench(z)' /\ Moved(s, z) /\ z = Tail(s)
    BY <1>2, <2>2, PopsFront
  <2> QED
    BY <2>2, <2>3, Zenon
<1> QED
  BY <1>1, <1>2

-----------------------------------------------------------------------------
\* threadsafe_single_list_queue: the nodes ns from head_ to tail_ hold s, and the
\* pointers of all other nodes are empty.
ListNodes == 0 .. MaxLoop + Cardinality(Producers) - 1
ListHolds(ns, s) ==
    /\ ns \in Seq(ListNodes) /\ Injective(ns) /\ Len(ns) = Len(s)
    /\ data \in [ListNodes -> Nat \cup {-1}] /\ next \in [ListNodes -> ListNodes \cup {-1}]
    /\ alive = NodeSet(ns)
    /\ head = IF Len(ns) = 0 THEN -1 ELSE ns[1]
    /\ Len(ns) # 0 => tail = ns[Len(ns)]
    /\ \A i \in 1 .. Len(ns) : /\ data[ns[i]] = s[i]
                               /\ next[ns[i]] = IF i < Len(ns) THEN ns[i + 1] ELSE -1
    /\ \A n \in ListNodes \ alive : next[n] = -1

\* The module's sets of nodes are the ones used here.
LEMMA ListNodesAgree == List!Nodes = ListNodes /\ List!Nil = -1
<1>1. List!Cardinality(Producers) = Cardinality(Producers)
  BY Zenon DEF List!Cardinality, Cardinality
<1> QED
  BY <1>1, Zenon DEF List!Nodes, List!Nil, ListNodes

\* The list's elements are those of its nodes, in order.
LEMMA ListElements ==
  ASSUME NEW s \in Seq(Nat), NEW ns, ListHolds(ns, s)
  PROVE  List!Elements = s
<1> DEFINE D == ListNodes \cup {-1}
           m == Append(ns, -1)
           h == CHOOSE f : f = [n \in D |-> IF n = -1 THEN <<>> ELSE <<data[n]>> \o f[next[n]]]
<1>0. Len(s) \in Nat /\ ns \in Seq(ListNodes) /\ ListNodes \subseteq Nat /\ Len(ns) = Len(s)
  BY SidesFinite DEF ListHolds, ListNodes
<1>1. /\ m \in Seq(D) /\ Len(m) = Len(s) + 1 /\ m[Len(s) + 1] = -1
      /\ \A i \in 1 .. Len(s) : m[i] = ns[i] /\ m[i] \in ListNodes
  <2>1. ns \in Seq(D) /\ -1 \in D
    BY <1>0
  <2> QED
    BY <1>0, <2>1, AppendProperties
<1> HIDE DEF m
<1>2. List!Elements = h[head]
  BY ListNodesAgree, Zenon DEF List!Elements
<1>3. Walks(D, {-1}, data, next, h)
  BY DEF Walks
<1> HIDE DEF h
<1>4. Injective(m)
  <2>1. \A i \in 1 .. Len(m) : i \in 1 .. Len(s) \/ i = Len(s) + 1
    BY <1>0, <1>1
  <2>2. \A i, j \in 1 .. Len(s) : ns[i] = ns[j] => i = j
    BY <1>0 DEF Injective, ListHolds
  <2>3. -1 \notin ListNodes
    BY <1>0
  <2> QED
    BY <1>1, <2>1, <2>2, <2>3 DEF Injective
<1>5. \A i \in 1 .. Len(s) : m[i] \notin {-1} /\ next[m[i]] = m[i + 1] /\ data[m[i]] = s[i]
  <2>1. \A i \in 1 .. Len(s) : i + 1 \in 1 .. Len(s) \/ i = Len(s)
    BY <1>0
  <2>2. -1 \notin ListNodes
    BY <1>0
  <2>3. \A i \in 1 .. Len(s) : /\ data[ns[i]] = s[i]
                               /\ next[ns[i]] = IF i < Len(ns) THEN ns[i + 1] ELSE -1
    BY <1>0 DEF ListHolds
  <2>4. \A i \in 1 .. Len(s) : next[ns[i]] = m[i + 1]
    BY <1>0, <1>1, <2>1, <2>3
  <2> QED
    BY <1>1, <2>2, <2>3, <2>4
<1>6. \A n \in D : n \in {-1} \/ (\E i \in 1 .. Len(s) : n = m[i]) \/ next[n] \in {-1}
  <2> SUFFICES ASSUME NEW n \in ListNodes, ~ \E i \in 1 .. Len(s) : n = m[i]
               PROVE  next[n] = -1
    OBVIOUS
  <2>1. n \notin alive
    BY <1>0, <1>1 DEF ListHolds, NodeSet
  <2> QED
    BY <2>1 DEF ListHolds
<1>7. h[m[1]] = s
  <2> DEFINE stop == {-1}
  <2>1. stop \in SUBSET D /\ m[Len(s) + 1] \in stop
    BY <1>1
  <2>2. Walks(D, stop, data, next, h)
    BY <1>3
  <2>3. /\ \A i \in 1 .. Len(s) : m[i] \notin stop /\ next[m[i]] = m[i + 1] /\ data[m[i]] = s[i]
        /\ \A n \in D : n \in stop \/ (\E i \in 1 .. Len(s) : n = m[i]) \/ next[n] \in stop
    BY <1>5, <1>6
  <2>4. Path(D, stop, data, next, m, s)
    BY <1>1, <1>4, <2>1, <2>3 DEF Path
  <2> HIDE DEF D, stop
  <2> QED
    BY <2>2, <2>4, WalkList
<1>8. m[1] = head
  BY <1>0, <1>1 DEF ListHolds
<1> QED
  BY <1>2, <1>7, <1>8

\* The numbers in the queue and those taken are different ones that were drawn.
LEMMA Room ==
  ASSUME TypeOK, Counters, NEW s, Numbers(s)
  PROVE  /\ Len(s) + Cardinality(taken) <= MaxLoop + Cardinality(Producers) - 1
         /\ IsFiniteSet(taken) /\ Cardinality(taken) \in Nat
<1> DEFINE R == NodeSet(s)
           N == 0 .. pushCount - 1
<1>1. IsFiniteSet(N) /\ Cardinality(N) = pushCount
  <2>1. pushCount \in Nat /\ pushCount - 1 \in Int /\ 0 \in Int
    BY DEF TypeOK
  <2>2. /\ IsFiniteSet(N)
        /\ Cardinality(N) = IF 0 > pushCount - 1 THEN 0 ELSE (pushCount - 1) - 0 + 1
    BY <2>1, FS_Interval, Zenon
  <2> QED
    BY <2>1, <2>2
<1>2. IsFiniteSet(R) /\ Cardinality(R) = Len(s)
  BY RangeCounts DEF Numbers
<1>3. R \subseteq N /\ taken \subseteq N /\ R \cap taken = {}
  BY DEF Numbers, TypeOK, NodeSet
<1> HIDE DEF R, N
<1>4. IsFiniteSet(taken) /\ Cardinality(taken) \in Nat
  BY <1>1, <1>3, FS_Subset, FS_CardinalityType
<1>5. Cardinality(R \cup taken) = Cardinality(R) + Cardinality(taken)
  <2>1. Cardinality(R \cup taken) = Cardinality(R) + Cardinality(taken) - Cardinality(R \cap taken)
    BY <1>2, <1>4, FS_Union
  <2>2. Cardinality(R) \in Nat
    BY <1>2, FS_CardinalityType
  <2>3. Cardinality(R \cap taken) = 0
    BY <1>3, FS_EmptySet, Zenon
  <2> QED
    BY <1>4, <2>1, <2>2, <2>3
<1>6. Cardinality(R \cup taken) <= pushCount
  <2>1. (R \cup taken) \in SUBSET N
    BY <1>3
  <2> QED
    BY <1>1, <2>1, FS_Subset
<1>7. pushCount <= MaxLoop + Cardinality(Producers) - 1
  <2>1. Cardinality(Last) <= Cardinality(Producers)
    BY SidesFinite, FS_Subset
  <2> QED
    BY <2>1, SidesFinite DEF Counters, TypeOK
<1> QED
  <2>1. Len(s) \in Nat /\ pushCount \in Nat
    BY DEF Numbers, TypeOK
  <2> QED
    BY <1>2, <1>4, <1>5, <1>6, <1>7, <2>1, SidesFinite

\* Among more nodes than a chain has, one is free.
LEMMA FreshExists ==
  ASSUME NEW S, NEW ns \in Seq(S), Injective(ns), NEW n \in Nat, Len(ns) <= n
  PROVE  \E x \in 0 .. n : x \notin NodeSet(ns)
<1> DEFINE R == NodeSet(ns)
<1>1. IsFiniteSet(R) /\ Cardinality(R) = Len(ns) /\ Len(ns) \in Nat
  BY RangeCounts
<1>2. Cardinality(0 .. n) = n + 1
  <2>1. n \in Int /\ 0 \in Int
    OBVIOUS
  <2>2. Cardinality(0 .. n) = IF 0 > n THEN 0 ELSE n - 0 + 1
    BY <2>1, FS_Interval, Zenon
  <2> QED
    BY <2>2
<1> HIDE DEF R
<1>3. ASSUME (0 .. n) \subseteq R PROVE FALSE
  <2>1. Cardinality(0 .. n) <= Cardinality(R)
    BY <1>1, <1>3, FS_Subset
  <2> QED
    BY <1>1, <1>2, <2>1
<1>4. \E x \in 0 .. n : x \notin R
  BY <1>3
<1> QED
  BY <1>4 DEF R

\* tail_ is used only while the list is not empty, and is then alive.
LEMMA ListUsable ==
  ASSUME NEW s \in Seq(Nat), NEW ns, ListHolds(ns, s)
  PROVE  List!TailUsable
<1>0. ns \in Seq(ListNodes) /\ Injective(ns) /\ Len(ns) = Len(s) /\ Len(s) \in Nat
  BY DEF ListHolds
<1>1. head # -1 => tail \in alive /\ next[tail] = -1
  <2> SUFFICES ASSUME head # -1 PROVE tail \in alive /\ next[tail] = -1
    OBVIOUS
  <2>1. Len(ns) # 0 /\ Len(ns) \in 1 .. Len(ns) /\ tail = ns[Len(ns)]
    BY <1>0 DEF ListHolds
  <2> QED
    BY <1>0, <2>1 DEF ListHolds, NodeSet
<1>2. List!Cardinality(alive) = Cardinality(alive)
  BY Zenon DEF List!Cardinality, Cardinality
<1>3. Cardinality(alive) = Len(s)
  <2>1. alive = NodeSet(ns)
    BY DEF ListHolds
  <2> QED
    BY <1>0, <2>1, RangeCounts
<1> QED
  BY <1>1, <1>2, <1>3, ListElements, ListNodesAgree DEF List!TailUsable

\* push of threadsafe_single_list_queue: a new node behind tail_, or the only one.
LEMMA ListPush ==
  ASSUME NEW s, Bench(s), NEW ns, ListHolds(ns, s), NEW p \in Producers, List!Push(p),
         UNCHANGED <<kind, round>>
  PROVE  \E z, ms : Bench(z)' /\ ListHolds(ms, z)' /\ Moved(s, z)
<1>0. /\ ns \in Seq(ListNodes) /\ Injective(ns) /\ Len(ns) = Len(s) /\ Len(s) \in Nat
      /\ data \in [ListNodes -> Nat \cup {-1}] /\ next \in [ListNodes -> ListNodes \cup {-1}]
      /\ alive = NodeSet(ns)
      /\ head = IF Len(ns) = 0 THEN -1 ELSE ns[1]
      /\ Len(ns) # 0 => tail = ns[Len(ns)]
  BY DEF Bench, Numbers, ListHolds
<1>a. \A i \in 1 .. Len(ns) : /\ data[ns[i]] = s[i]
                              /\ next[ns[i]] = IF i < Len(ns) THEN ns[i + 1] ELSE -1
  BY DEF ListHolds
<1>b. \A n \in ListNodes \ alive : next[n] = -1
  BY DEF ListHolds
<1>1. PICK f : f \in ListNodes /\ f \notin alive /\ f = List!Fresh
  <2>1. \E n \in ListNodes : n \notin alive
    <3>1. MaxLoop + Cardinality(Producers) - 1 \in Nat /\ Len(ns) <= MaxLoop + Cardinality(Producers) - 1
      BY <1>0, Room, SidesFinite DEF Bench
    <3>2. PICK x \in 0 .. (MaxLoop + Cardinality(Producers) - 1) : x \notin NodeSet(ns)
      BY <1>0, <3>1, FreshExists
    <3> QED
      BY <1>0, <3>2 DEF ListNodes
  <2>2. List!Fresh = CHOOSE n \in ListNodes : n \notin alive
    BY ListNodesAgree, Zenon DEF List!Fresh
  <2> QED
    BY <2>1, <2>2, Zenon
<1>2. /\ pc[p] = "push" /\ pc' = [pc EXCEPT ![p] = "pushed"]
      /\ data' = [data EXCEPT ![f] = item[p]] /\ alive' = alive \cup {f} /\ tail' = f
      /\ IF head # -1 THEN next' = [next EXCEPT ![tail] = f] /\ head' = head
                      ELSE head' = f /\ next' = next
      /\ UNCHANGED <<pushCount, popCount, item, taken, customers, firstFlag, clock>>
  BY <1>1, ListNodesAgree DEF List!Push, List!Goto
<1>3. PICK z \in Seq(Nat) :
         /\ Bench(z)' /\ Moved(s, z) /\ item[p] \in Nat
         /\ Len(z) = Len(s) + 1 /\ z[Len(s) + 1] = item[p] /\ \A i \in 1 .. Len(s) : z[i] = s[i]
  <2>1. p \in Pending
    BY <1>2 DEF Pending
  <2> QED
    BY <1>2, <2>1, PushesBack
<1>4. PICK ms \in Seq(ListNodes) :
         /\ Injective(ms) /\ NodeSet(ms) = NodeSet(ns) \cup {f}
         /\ Len(ms) = Len(ns) + 1 /\ ms[Len(ns) + 1] = f /\ \A i \in 1 .. Len(ns) : ms[i] = ns[i]
  <2>1. ns \in Seq(ListNodes) /\ Injective(ns) /\ f \notin NodeSet(ns)
    BY <1>0, <1>1
  <2> QED
    BY <1>1, <2>1, NodesAppend
<1>5. /\ Len(ms) = Len(s) + 1 /\ ms[Len(s) + 1] = f
      /\ \A i \in 1 .. Len(s) : ms[i] = ns[i]
  BY <1>0, <1>4
<1>6. \A i \in 1 .. Len(ms) : i \in 1 .. Len(s) \/ i = Len(s) + 1
  BY <1>0, <1>5
<1>7. \A i \in 1 .. Len(s) : ns[i] \in alive /\ ns[i] # f /\ ns[i] \in ListNodes
  BY <1>0, <1>1 DEF NodeSet
<1>10. /\ data' \in [ListNodes -> Nat \cup {-1}] /\ next' \in [ListNodes -> ListNodes \cup {-1}]
       /\ head' = ms[1] /\ tail' = ms[Len(ms)]
  <2>1. CASE Len(s) = 0
    BY <1>0, <1>1, <1>2, <1>3, <1>5, <2>1
  <2>2. CASE Len(s) # 0
    <3>1. head = ns[1] /\ tail = ns[Len(s)] /\ 1 \in 1 .. Len(s) /\ Len(s) \in 1 .. Len(s)
      BY <1>0, <2>2
    <3>2. head # -1 /\ tail \in ListNodes
      <4>1. -1 \notin ListNodes
        BY SidesFinite DEF ListNodes
      <4> QED
        BY <1>7, <3>1, <4>1
    <3> QED
      BY <1>0, <1>1, <1>2, <1>3, <1>5, <3>1, <3>2
  <2> QED
    BY <2>1, <2>2
<1>11. \A n \in ListNodes : /\ data'[n] = IF n = f THEN item[p] ELSE data[n]
                            /\ next'[n] = IF Len(s) # 0 /\ n = tail THEN f ELSE next[n]
  <2>1. head # -1 <=> Len(s) # 0
    <3>1. Len(s) # 0 => 1 \in 1 .. Len(s)
      BY <1>0
    <3> QED
      BY <1>0, <1>7, <3>1, SidesFinite DEF ListNodes
  <2> QED
    BY <1>0, <1>2, <2>1
<1>12. \A i \in 1 .. Len(ms) : /\ data'[ms[i]] = z[i]
                               /\ next'[ms[i]] = IF i < Len(ms) THEN ms[i + 1] ELSE -1
  <2> SUFFICES ASSUME NEW i \in 1 .. Len(ms)
               PROVE  /\ data'[ms[i]] = z[i]
                      /\ next'[ms[i]] = IF i < Len(ms) THEN ms[i + 1] ELSE -1
    OBVIOUS
  <2>1. CASE i = Len(s) + 1
    <3>1. ms[i] = f /\ z[i] = item[p] /\ next[f] = -1
      BY <1>b, <1>1, <1>3, <1>5, <2>1
    <3>2. ~ (Len(s) # 0 /\ f = tail)
      <4>1. Len(s) # 0 => Len(s) \in 1 .. Len(s) /\ tail = ns[Len(s)]
        BY <1>0
      <4> QED
        BY <1>7, <4>1
    <3> QED
      BY <1>0, <1>1, <1>5, <1>11, <2>1, <3>1, <3>2
  <2>2. CASE i \in 1 .. Len(s)
    <3>1. /\ ms[i] = ns[i] /\ z[i] = s[i] /\ ns[i] # f /\ ns[i] \in ListNodes /\ data[ns[i]] = s[i]
          /\ next[ns[i]] = IF i < Len(s) THEN ns[i + 1] ELSE -1
      BY <1>0, <1>a, <1>3, <1>5, <1>7, <2>2
    <3>2. Len(s) # 0 /\ i < Len(ms) /\ tail = ns[Len(s)] /\ Len(s) \in 1 .. Len(s)
      BY <1>0, <1>5, <2>2
    <3>3. CASE i = Len(s)
      BY <1>5, <1>11, <3>1, <3>2, <3>3
    <3>4. CASE i < Len(s)
      <4>1. ns[i] # tail
        BY <1>0, <2>2, <3>2, <3>4 DEF Injective
      <4>2. i + 1 \in 1 .. Len(s) /\ ms[i + 1] = ns[i + 1]
        BY <1>0, <1>5, <2>2, <3>4
      <4> QED
        BY <1>11, <3>1, <3>2, <3>4, <4>1, <4>2
    <3> QED
      BY <1>0, <2>2, <3>3, <3>4
  <2> QED
    BY <1>6, <2>1, <2>2
<1>13. \A n \in ListNodes \ alive' : next'[n] = -1
  <2> SUFFICES ASSUME NEW n \in ListNodes \ alive' PROVE next'[n] = -1
    OBVIOUS
  <2>1. n \notin alive /\ next[n] = -1
    BY <1>b, <1>2
  <2>2. ~ (Len(s) # 0 /\ n = tail)
    <3>1. Len(s) # 0 => Len(s) \in 1 .. Len(s) /\ tail = ns[Len(s)]
      BY <1>0
    <3> QED
      BY <1>7, <2>1, <3>1
  <2> QED
    BY <1>11, <2>1, <2>2
<1>14. ListHolds(ms, z)'
  <2>1. Len(ms) = Len(z) /\ Len(ms) # 0
    BY <1>0, <1>3, <1>5
  <2> QED
    BY <1>0, <1>2, <1>4, <1>10, <1>12, <1>13, <2>1 DEF ListHolds
<1> QED
  BY <1>3, <1>14

\* try_pop of threadsafe_single_list_queue; the last node leaves head_ empty.
LEMMA ListPop ==
  ASSUME NEW s, Bench(s), NEW ns, ListHolds(ns, s), NEW c \in Customers, List!Pop(c),
         UNCHANGED <<kind, round>>
  PROVE  \E z, ms : Bench(z)' /\ ListHolds(ms, z)' /\ Moved(s, z)
<1>0. /\ ns \in Seq(ListNodes) /\ Injective(ns) /\ Len(ns) = Len(s) /\ Len(s) \in Nat
      /\ data \in [ListNodes -> Nat \cup {-1}] /\ next \in [ListNodes -> ListNodes \cup {-1}]
      /\ alive = NodeSet(ns)
      /\ head = IF Len(ns) = 0 THEN -1 ELSE ns[1]
      /\ Len(ns) # 0 => tail = ns[Len(ns)]
      /\ s \in Seq(Nat)
  BY DEF Bench, Numbers, ListHolds
<1>a. \A i \in 1 .. Len(ns) : /\ data[ns[i]] = s[i]
                              /\ next[ns[i]] = IF i < Len(ns) THEN ns[i + 1] ELSE -1
  BY DEF ListHolds
<1>b. \A n \in ListNodes \ alive : next[n] = -1
  BY DEF ListHolds
<1>1. /\ pc[c] = "pop" /\ pc' = [pc EXCEPT ![c] = "got"] /\ head # -1
      /\ taken' = taken \cup {data[head]} /\ head' = next[head] /\ alive' = alive \ {head}
      /\ next' = [next EXCEPT ![head] = -1] /\ data' = [data EXCEPT ![head] = -1]
      /\ UNCHANGED <<pushCount, popCount, item, customers, firstFlag, clock, tail>>
  BY ListNodesAgree DEF List!Pop, List!Goto
<1>2. Len(s) # 0 /\ 1 \in 1 .. Len(s) /\ head = ns[1] /\ data[head] = s[1] /\ s # <<>> /\ head \in ListNodes
  <2>1. Len(s) # 0 /\ 1 \in 1 .. Len(s) /\ head = ns[1]
    BY <1>0, <1>1
  <2> QED
    BY <1>0, <1>a, <2>1
<1>3. PICK z \in Seq(Nat) : /\ Bench(z)' /\ Moved(s, z)
                            /\ Len(z) = Len(s) - 1 /\ \A i \in 1 .. Len(z) : z[i] = s[i + 1]
  <2>1. /\ pc' = [pc EXCEPT ![c] = "got"] /\ pc[c] \in {"pop", "take"}
        /\ taken' = taken \cup {s[1]} /\ s # <<>>
        /\ UNCHANGED <<kind, round, pushCount, popCount, item, customers, firstFlag, clock>>
    BY <1>1, <1>2
  <2> QED
    BY <2>1, PopsFront
<1>4. PICK ms \in Seq(ListNodes) :
         /\ Injective(ms) /\ NodeSet(ms) = NodeSet(ns) \ {ns[1]}
         /\ Len(ms) = Len(ns) - 1 /\ \A i \in 1 .. Len(ms) : ms[i] = ns[i + 1]
  <2>1. ns \in Seq(ListNodes) /\ Injective(ns) /\ Len(ns) # 0
    BY <1>0, <1>2
  <2> QED
    BY <2>1, NodesTail
<1>5. Len(ms) = Len(s) - 1 /\ \A i \in 1 .. Len(ms) : ms[i] = ns[i + 1] /\ i + 1 \in 1 .. Len(s)
  BY <1>0, <1>4
<1>6. alive' = NodeSet(ms)
  BY <1>0, <1>1, <1>2, <1>4
<1>7. \A i \in 1 .. Len(ms) : ms[i] # head /\ ms[i] \in ListNodes
  <2>1. \A i \in 1 .. Len(ms) : ms[i] \in NodeSet(ms)
    BY DEF NodeSet
  <2> QED
    BY <1>2, <1>4, <2>1
<1>11. head' = IF Len(ms) = 0 THEN -1 ELSE ms[1]
  <2>1. head' = IF 1 < Len(s) THEN ns[2] ELSE -1
    BY <1>0, <1>a, <1>1, <1>2
  <2>2. Len(ms) # 0 => 1 \in 1 .. Len(ms) /\ 1 < Len(s)
    BY <1>0, <1>5
  <2>3. Len(ms) = 0 => ~ (1 < Len(s))
    BY <1>0, <1>5
  <2> QED
    BY <1>5, <2>1, <2>2, <2>3
<1>12. Len(ms) # 0 => tail' = ms[Len(ms)]
  <2>1. Len(ms) # 0 => Len(ms) \in 1 .. Len(ms) /\ Len(ms) + 1 = Len(ns)
    BY <1>0, <1>5
  <2> QED
    BY <1>0, <1>1, <1>2, <1>5, <2>1
<1>13. \A i \in 1 .. Len(ms) : /\ data'[ms[i]] = z[i]
                               /\ next'[ms[i]] = IF i < Len(ms) THEN ms[i + 1] ELSE -1
  <2> SUFFICES ASSUME NEW i \in 1 .. Len(ms)
               PROVE  /\ data'[ms[i]] = z[i]
                      /\ next'[ms[i]] = IF i < Len(ms) THEN ms[i + 1] ELSE -1
    OBVIOUS
  <2>1. data'[ms[i]] = data[ms[i]] /\ next'[ms[i]] = next[ms[i]]
    BY <1>0, <1>1, <1>7
  <2>2. /\ data[ms[i]] = z[i]
        /\ next[ms[i]] = IF i + 1 < Len(ns) THEN ns[(i + 1) + 1] ELSE -1
    <3>1. i + 1 \in 1 .. Len(ns) /\ ms[i] = ns[i + 1]
      BY <1>0, <1>5
    <3>2. Len(z) = Len(ms) /\ z[i] = s[i + 1]
      BY <1>3, <1>5
    <3> QED
      BY <1>a, <3>1, <3>2
  <2>3. i < Len(ms) <=> i + 1 < Len(ns)
    <3>1. Len(ms) = Len(ns) - 1 /\ Len(ns) \in Nat
      BY <1>0, <1>5
    <3> QED
      BY <3>1
  <2>4. i < Len(ms) => i + 1 \in 1 .. Len(ms)
    BY <1>0, <1>5
  <2> QED
    BY <1>5, <2>1, <2>2, <2>3, <2>4
<1>14. \A n \in ListNodes \ alive' : next'[n] = -1
  BY <1>0, <1>b, <1>1
<1>15. ListHolds(ms, z)'
  <2>1. Len(ms) = Len(z)
    BY <1>3, <1>5
  <2>2. data' \in [ListNodes -> Nat \cup {-1}] /\ next' \in [ListNodes -> ListNodes \cup {-1}]
    BY <1>0, <1>1
  <2> QED
    BY <1>4, <1>6, <1>11, <1>12, <1>13, <1>14, <2>1, <2>2 DEF ListHolds
<1> QED
  BY <1>3, <1>15

-----------------------------------------------------------------------------
\* threadsafe_queue_with_dummy_node: the nodes ns from head_ to tail_, the dummy
\* last.  From the move of the first element to the unlinking of its node ("unlink")
\* the first node is spent; the others but the dummy hold s.
DummyNodes == 0 .. MaxLoop + Cardinality(Producers)
Spent == IF \E c \in Customers : pc[c] = "unlink" THEN 1 ELSE 0
InPush(p) == pc[p] \in {"fill", "link", "publish"}
InPop(c) == pc[c] \in {"look", "take", "unlink"}

\* The nodes are linked in order; no other node points anywhere.
Chain(ns) ==
    /\ ns \in Seq(DummyNodes) /\ Injective(ns) /\ Len(ns) # 0
    /\ head = ns[1] /\ tail = ns[Len(ns)]
    /\ next \in [DummyNodes -> DummyNodes \cup {-1}]
    /\ \A i \in 1 .. Len(ns) - 1 : next[ns[i]] = ns[i + 1]
    /\ \A n \in DummyNodes \ NodeSet(ns) : next[n] = -1

\* Their values
Contents(ns, s) ==
    /\ Len(ns) = Len(s) + 1 + Spent
    /\ data \in [DummyNodes -> Nat \cup {-1}]
    /\ \A i \in 1 .. Len(s) : data[ns[i + Spent]] = s[i]

\* The producer that holds tail_mutex_, and how far it is.
PushLocked(ns) ==
    /\ newTail \in [Producers -> DummyNodes \cup {-1}]
    /\ \A p \in Producers : InPush(p) => tailMutex = p
    /\ tailMutex = -1 => alive = NodeSet(ns) /\ next[tail] = -1
    /\ tailMutex # -1 =>
          /\ tailMutex \in Producers /\ InPush(tailMutex)
          /\ newTail[tailMutex] \in DummyNodes \ NodeSet(ns)
          /\ alive = NodeSet(ns) \cup {newTail[tailMutex]}
          /\ next[tail] = IF pc[tailMutex] = "publish" THEN newTail[tailMutex] ELSE -1
          /\ pc[tailMutex] # "fill" => data[tail] = item[tailMutex]

\* The customer that holds head_mutex_; when it has seen an element there is one.
PopLocked(s) ==
    /\ \A c \in Customers : InPop(c) => headMutex = c
    /\ \A c \in Customers : pc[c] = "take" => Len(s) # 0

DummyHolds(ns, s) == Chain(ns) /\ Contents(ns, s) /\ PushLocked(ns) /\ PopLocked(s)

\* The module's sets of nodes and threads are the ones used here.
LEMMA DummyNodesAgree ==
  /\ Dummy!Nodes = DummyNodes /\ Dummy!Nil = -1
  /\ \A label : Dummy!At(label) = {t \in Threads : pc[t] = label}
  /\ DummyNodes \subseteq Nat
<1>1. Dummy!Cardinality(Producers) = Cardinality(Producers)
  BY Zenon DEF Dummy!Cardinality, Cardinality
<1>2. DummyNodes \subseteq Nat
  BY SidesFinite DEF DummyNodes
<1> QED
  BY <1>1, <1>2, Zenon DEF Dummy!Nodes, Dummy!Nil, DummyNodes, Dummy!At, Dummy!Threads, Threads

\* Somebody is at "unlink" only if the first node is spent.
LEMMA SpentSaid ==
  ASSUME TypeOK
  PROVE  /\ Spent = IF Dummy!At("unlink") = {} THEN 0 ELSE 1
         /\ Spent \in {0, 1}
  BY DummyNodesAgree DEF Spent, TypeOK, Threads, ProducerPlaces

\* The elements are those of the nodes between a spent first node and the dummy.
LEMMA DummyElements ==
  ASSUME TypeOK, NEW s \in Seq(Nat), NEW ns, DummyHolds(ns, s)
  PROVE  Dummy!Elements = s
<1> DEFINE D == DummyNodes
           stop == {n \in D : n = tail \/ next[n] = -1}
           h == CHOOSE f : f = [n \in D |-> IF n = tail \/ next[n] = -1 THEN <<>>
                                            ELSE <<data[n]>> \o f[next[n]]]
           v == [i \in 1 .. Len(ns) - 1 |-> data[ns[i]]]
<1>0. /\ ns \in Seq(D) /\ Injective(ns) /\ Len(ns) \in Nat \ {0} /\ Len(s) \in Nat
      /\ head = ns[1] /\ tail = ns[Len(ns)]
      /\ data \in [D -> Nat \cup {-1}] /\ Len(ns) = Len(s) + 1 + Spent
  BY DEF DummyHolds, Chain, Contents
<1>1. /\ \A i \in 1 .. Len(ns) - 1 : next[ns[i]] = ns[i + 1]
      /\ \A n \in D \ NodeSet(ns) : next[n] = -1
      /\ \A i \in 1 .. Len(s) : data[ns[i + Spent]] = s[i]
  BY DEF DummyHolds, Chain, Contents
<1>2. Dummy!Elements = IF Dummy!At("unlink") = {} THEN h[head] ELSE Tail(h[head])
  <2>1. Dummy!Nodes = DummyNodes /\ Dummy!Nil = -1
    BY DummyNodesAgree
  <2> DEFINE g == CHOOSE f : f = [n \in Dummy!Nodes |-> IF n = tail \/ next[n] = Dummy!Nil THEN <<>>
                                                       ELSE <<data[n]>> \o f[next[n]]]
  <2>2. Dummy!Elements = IF Dummy!At("unlink") = {} THEN g[head] ELSE Tail(g[head])
    BY Zenon DEF Dummy!Elements
  <2>3. g = h
    BY <2>1, Zenon
  <2> HIDE DEF g, h
  <2> QED
    BY <2>2, <2>3
<1>3. Walks(D, stop, data, next, h)
  <2>1. (\E f : f = [n \in D |-> IF n = tail \/ next[n] = -1 THEN <<>> ELSE <<data[n]>> \o f[next[n]]])
        => h = [n \in D |-> IF n = tail \/ next[n] = -1 THEN <<>> ELSE <<data[n]>> \o h[next[n]]]
    BY Zenon
  <2> HIDE DEF h
  <2>2. \A f : [n \in D |-> IF n = tail \/ next[n] = -1 THEN <<>> ELSE <<data[n]>> \o f[next[n]]]
                 = [n \in D |-> IF n \in stop THEN <<>> ELSE <<data[n]>> \o f[next[n]]]
    OBVIOUS
  <2> HIDE DEF stop
  <2> QED
    BY <2>1, <2>2, Zenon DEF Walks
<1> HIDE DEF h
<1>4. v \in Seq(Int) /\ Len(v) = Len(ns) - 1 /\ \A i \in 1 .. Len(v) : v[i] = data[ns[i]]
  <2>1. Len(ns) - 1 \in Nat /\ \A i \in 1 .. Len(ns) - 1 : data[ns[i]] \in Int
    BY <1>0
  <2>2. v \in [1 .. Len(ns) - 1 -> Int]
    BY <2>1
  <2> QED
    BY <2>1, <2>2
<1> HIDE DEF v
<1>5. Path(D, stop, data, next, ns, v)
  <2>1. \A i \in 1 .. Len(v) : i \in 1 .. Len(ns) /\ i + 1 \in 1 .. Len(ns) /\ ns[i] # tail
    BY <1>0, <1>4 DEF Injective
  <2>2. \A i \in 1 .. Len(v) : next[ns[i]] = ns[i + 1] /\ next[ns[i]] # -1
    BY <1>0, <1>1, <1>4, <2>1, DummyNodesAgree
  <2>3. \A n \in D : n \in stop \/ \E i \in 1 .. Len(v) : n = ns[i]
    <3> SUFFICES ASSUME NEW n \in D, n \notin stop PROVE \E i \in 1 .. Len(v) : n = ns[i]
      OBVIOUS
    <3>1. n \in NodeSet(ns) /\ n # tail
      BY <1>1
    <3>2. PICK i \in 1 .. Len(ns) : n = ns[i]
      BY <3>1 DEF NodeSet
    <3> QED
      BY <1>0, <1>4, <3>1, <3>2
  <2>4. ns[Len(v) + 1] \in stop
    BY <1>0, <1>4
  <2>5. \A i \in 1 .. Len(v) : ns[i] \notin stop
    BY <2>1, <2>2
  <2>6. Len(ns) = Len(v) + 1
    BY <1>0, <1>4
  <2> HIDE DEF stop
  <2>7. stop \in SUBSET D
    BY DEF stop
  <2> QED
    BY <1>0, <1>4, <2>2, <2>3, <2>4, <2>5, <2>6, <2>7 DEF Path
<1>6. h[head] = v
  <2> HIDE DEF stop, D
  <2> QED
    BY <1>0, <1>3, <1>5, WalkList
<1>7. CASE Spent = 0
  <2>1. Len(v) = Len(s) /\ \A i \in 1 .. Len(s) : i + 0 = i /\ i \in 1 .. Len(v) /\ data[ns[i + 0]] = s[i]
    BY <1>0, <1>1, <1>4, <1>7
  <2>2. \A i \in 1 .. Len(s) : v[i] = s[i]
    BY <1>4, <2>1
  <2>3. s \in Seq(Int)
    OBVIOUS
  <2>4. v = s
    BY <1>4, <2>1, <2>2, <2>3, SeqEqual
  <2> QED
    BY <1>2, <1>6, <1>7, <2>4, SpentSaid
<1>8. CASE Spent = 1
  <2>1. Len(v) = Len(s) + 1 /\ \A i \in 1 .. Len(s) : v[i + 1] = s[i]
    <3>1. Len(v) = Len(s) + 1
      BY <1>0, <1>4, <1>8
    <3>2. \A i \in 1 .. Len(s) : i + 1 \in 1 .. Len(v) /\ data[ns[i + 1]] = s[i]
      BY <1>0, <1>1, <1>8, <3>1
    <3> QED
      BY <1>4, <3>1, <3>2
  <2>2. v # <<>>
    BY <1>0, <1>4, <2>1
  <2>3. /\ Tail(v) \in Seq(Int) /\ Len(Tail(v)) = Len(s)
        /\ \A i \in 1 .. Len(s) : Tail(v)[i] = s[i]
    BY <1>0, <1>4, <2>1, <2>2, HeadTailProperties
  <2>4. Tail(v) = s
    <3> DEFINE w == Tail(v)
    <3>1. s \in Seq(Int) /\ w \in Seq(Int) /\ Len(w) = Len(s) /\ \A i \in 1 .. Len(s) : w[i] = s[i]
      BY <2>3
    <3> HIDE DEF w
    <3>2. w = s
      BY <3>1, SeqEqual
    <3> QED
      BY <3>2 DEF w
  <2> QED
    BY <1>2, <1>6, <1>8, <2>4, SpentSaid
<1> QED
  BY <1>7, <1>8, SpentSaid

\* try_pop past its test of tail_ and push work on different nodes, both alive.
LEMMA DummyApart ==
  ASSUME TypeOK, NEW s \in Seq(Nat), NEW ns, DummyHolds(ns, s)
  PROVE  Dummy!EndsApart
<1>0. /\ ns \in Seq(DummyNodes) /\ Injective(ns) /\ Len(ns) \in Nat \ {0} /\ Len(s) \in Nat
      /\ head = ns[1] /\ tail = ns[Len(ns)]
      /\ Len(ns) = Len(s) + 1 + Spent
      /\ \A i \in 1 .. Len(ns) - 1 : next[ns[i]] = ns[i + 1]
  BY DEF DummyHolds, Chain, Contents
<1>1. NodeSet(ns) \subseteq alive
  BY DEF DummyHolds, PushLocked
<1>2. 1 \in 1 .. Len(ns) /\ Len(ns) \in 1 .. Len(ns)
  BY <1>0
<1>3. {head, tail} \subseteq alive
  BY <1>0, <1>1, <1>2 DEF NodeSet
<1>4. ASSUME Dummy!At("take") \cup Dummy!At("unlink") # {}
      PROVE  head # tail /\ next[head] \in alive
  <2>1. \E c \in Customers : pc[c] \in {"take", "unlink"}
    BY <1>4, DummyNodesAgree DEF TypeOK, Threads, ProducerPlaces
  <2>2. Len(s) # 0 \/ Spent = 1
    BY <2>1 DEF DummyHolds, PopLocked, Spent
  <2>3. Len(ns) >= 2 /\ 2 \in 1 .. Len(ns)
    BY <1>0, <2>2, SpentSaid
  <2>4. ns[1] # ns[Len(ns)]
    BY <1>0, <1>2, <2>3 DEF Injective
  <2>5. next[head] = ns[2]
    BY <1>0, <2>3
  <2> QED
    BY <1>0, <1>1, <2>3, <2>4, <2>5 DEF NodeSet
<1> QED
  BY <1>3, <1>4 DEF Dummy!EndsApart

\* push: tail_mutex_ is taken and a new dummy allocated.
LEMMA DummyAllocate ==
  ASSUME NEW s, Bench(s), NEW ns, DummyHolds(ns, s), NEW p \in Producers, Dummy!Allocate(p),
         UNCHANGED <<kind, round>>
  PROVE  Bench(s)' /\ DummyHolds(ns, s)' /\ Moved(s, s)
<1>0. /\ ns \in Seq(DummyNodes) /\ Injective(ns) /\ Len(ns) \in Nat \ {0} /\ Len(s) \in Nat
      /\ tail = ns[Len(ns)] /\ item \in [Producers -> Nat]
      /\ Len(ns) = Len(s) + 1 + Spent
  BY DEF Bench, TypeOK, Numbers, DummyHolds, Chain, Contents
<1>1. tailMutex = -1 /\ alive = NodeSet(ns) /\ next[tail] = -1 /\ \A q \in Producers : ~ InPush(q)
  <2>1. tailMutex = -1
    BY DummyNodesAgree DEF Dummy!Allocate
  <2> QED
    BY <2>1 DEF DummyHolds, PushLocked
<1>2. PICK f : f \in DummyNodes /\ f \notin NodeSet(ns) /\ f = Dummy!Fresh
  <2>1. Len(ns) <= MaxLoop + Cardinality(Producers) /\ MaxLoop + Cardinality(Producers) \in Nat
    <3>1. Spent = 1 => Cardinality(taken) # 0
      <4> SUFFICES ASSUME Spent = 1 PROVE Cardinality(taken) # 0
        OBVIOUS
      <4>1. Served # {}
        BY DEF Spent, Served
      <4>2. Cardinality(Served) # 0
        BY <4>1, SidesFinite, FS_EmptySet
      <4> QED
        BY <4>2, SidesFinite DEF Bench, Numbers, TypeOK
    <3>2. Spent \in {0, 1} /\ Cardinality(taken) \in Nat
      BY SpentSaid, Room DEF Bench
    <3>3. Len(s) + Cardinality(taken) <= MaxLoop + Cardinality(Producers) - 1
      BY Room DEF Bench
    <3> QED
      BY <1>0, <3>1, <3>2, <3>3, SidesFinite
  <2>2. \E x \in DummyNodes : x \notin NodeSet(ns)
    BY <1>0, <2>1, FreshExists DEF DummyNodes
  <2>3. Dummy!Fresh = CHOOSE x \in DummyNodes : x \notin alive
    BY DummyNodesAgree, Zenon DEF Dummy!Fresh
  <2> QED
    BY <1>1, <2>2, <2>3, Zenon
<1>3. /\ pc[p] = "push" /\ pc' = [pc EXCEPT ![p] = "fill"] /\ tailMutex' = p
      /\ newTail' = [newTail EXCEPT ![p] = f] /\ alive' = alive \cup {f}
      /\ data' = [data EXCEPT ![f] = item[p]]
      /\ UNCHANGED <<head, tail, next, headMutex, taken>>
      /\ UNCHANGED <<pushCount, popCount, item, customers, firstFlag, clock>>
  BY <1>2, DummyNodesAgree DEF Dummy!Allocate, Dummy!Goto, Dummy!Unchanged
<1>4. /\ pc'[p] = "fill" /\ \A q \in Producers \ {p} : pc'[q] = pc[q]
      /\ \A c \in Customers : pc'[c] = pc[c]
  BY <1>3 DEF Bench, TypeOK, Threads
<1>5. Bench(s)'
  <2>1. p \in Pending /\ p \in Threads /\ pc' = [pc EXCEPT ![p] = pc'[p]]
        /\ pc'[p] \in {"push", "fill", "link", "publish"}
    BY <1>3, <1>4 DEF Pending, Threads
  <2> QED
    BY <1>3, <2>1, Moves DEF Bench
<1>6. Chain(ns)'
  BY <1>3 DEF DummyHolds, Chain
<1>7. Contents(ns, s)'
  <2>1. Spent' = Spent
    BY <1>4 DEF Spent
  <2>2. \A i \in 1 .. Len(s) : ns[i + Spent] \in DummyNodes /\ ns[i + Spent] # f
    <3>1. \A i \in 1 .. Len(s) : i + Spent \in 1 .. Len(ns)
      BY <1>0, SpentSaid DEF Bench
    <3> QED
      BY <1>0, <1>2, <3>1 DEF NodeSet
  <2>3. data' \in [DummyNodes -> Nat \cup {-1}]
        /\ \A n \in DummyNodes : n # f => data'[n] = data[n]
    BY <1>0, <1>2, <1>3 DEF DummyHolds, Contents
  <2>4. \A i \in 1 .. Len(s) : data[ns[i + Spent]] = s[i]
    BY DEF DummyHolds, Contents
  <2> QED
    BY <1>0, <2>1, <2>2, <2>3, <2>4 DEF Contents
<1>8. PushLocked(ns)'
  <2>1. newTail' \in [Producers -> DummyNodes \cup {-1}] /\ newTail'[p] = f
    BY <1>2, <1>3 DEF DummyHolds, PushLocked
  <2>2. \A q \in Producers : InPush(q)' => q = p
    BY <1>1, <1>4 DEF InPush
  <2>3. InPush(p)' /\ p # -1
    BY <1>4 DEF InPush
  <2> QED
    BY <1>1, <1>2, <1>3, <1>4, <2>1, <2>2, <2>3 DEF PushLocked
<1>9. PopLocked(s)'
  BY <1>3, <1>4 DEF DummyHolds, PopLocked, InPop
<1> QED
  BY <1>3, <1>5, <1>6, <1>7, <1>8, <1>9 DEF DummyHolds, Moved

\* Who fills, links or publishes holds tail_mutex_, and a new node.
LEMMA PushHolder ==
  ASSUME NEW ns, PushLocked(ns), NEW p \in Producers, InPush(p)
  PROVE  /\ tailMutex = p /\ p # -1 /\ \A q \in Producers \ {p} : ~ InPush(q)
         /\ newTail[p] \in DummyNodes /\ newTail[p] \notin NodeSet(ns)
         /\ alive = NodeSet(ns) \cup {newTail[p]}
         /\ next[tail] = IF pc[p] = "publish" THEN newTail[p] ELSE -1
         /\ pc[p] # "fill" => data[tail] = item[p]
<1>1. tailMutex = p /\ p # -1
  BY DEF PushLocked
<1> QED
  BY <1>1 DEF PushLocked

\* push: the value is stored in the old dummy.
LEMMA DummyFill ==
  ASSUME NEW s, Bench(s), NEW ns, DummyHolds(ns, s), NEW p \in Producers, Dummy!Fill(p),
         UNCHANGED <<kind, round>>
  PROVE  Bench(s)' /\ DummyHolds(ns, s)' /\ Moved(s, s)
<1>0. /\ ns \in Seq(DummyNodes) /\ Injective(ns) /\ Len(ns) \in Nat \ {0} /\ Len(s) \in Nat
      /\ tail = ns[Len(ns)] /\ item \in [Producers -> Nat]
      /\ Len(ns) = Len(s) + 1 + Spent
  BY DEF Bench, TypeOK, Numbers, DummyHolds, Chain, Contents
<1>1. /\ pc[p] = "fill" /\ pc' = [pc EXCEPT ![p] = "link"] /\ data' = [data EXCEPT ![tail] = item[p]]
      /\ UNCHANGED <<newTail, head, tail, next, alive, headMutex, tailMutex, taken>>
      /\ UNCHANGED <<pushCount, popCount, item, customers, firstFlag, clock>>
  BY DEF Dummy!Fill, Dummy!Goto, Dummy!Unchanged
<1>2. /\ tailMutex = p /\ p # -1 /\ \A q \in Producers \ {p} : ~ InPush(q)
      /\ newTail[p] \in DummyNodes /\ newTail[p] \notin NodeSet(ns)
      /\ alive = NodeSet(ns) \cup {newTail[p]} /\ next[tail] = -1
  BY <1>1, PushHolder DEF InPush, DummyHolds
<1>3. /\ pc'[p] = "link" /\ \A q \in Producers \ {p} : pc'[q] = pc[q]
      /\ \A c \in Customers : pc'[c] = pc[c]
  BY <1>1 DEF Bench, TypeOK, Threads
<1>4. Bench(s)'
  <2>1. p \in Pending /\ p \in Threads /\ pc' = [pc EXCEPT ![p] = pc'[p]]
        /\ pc'[p] \in {"push", "fill", "link", "publish"}
    BY <1>1, <1>3 DEF Pending, Threads
  <2> QED
    BY <1>1, <2>1, Moves DEF Bench
<1>5. Chain(ns)'
  BY <1>1 DEF DummyHolds, Chain
<1>6. tail \in DummyNodes /\ data' \in [DummyNodes -> Nat \cup {-1}] /\ data'[tail] = item[p]
      /\ \A n \in DummyNodes : n # tail => data'[n] = data[n]
  <2>1. tail \in DummyNodes
    BY <1>0
  <2> QED
    BY <1>0, <1>1, <2>1 DEF DummyHolds, Contents
<1>7. Contents(ns, s)'
  <2>1. Spent' = Spent
    BY <1>3 DEF Spent
  <2>2. \A i \in 1 .. Len(s) : ns[i + Spent] \in DummyNodes /\ ns[i + Spent] # tail
    <3>1. \A i \in 1 .. Len(s) : i + Spent \in 1 .. Len(ns) /\ i + Spent # Len(ns)
      BY <1>0, SpentSaid DEF Bench
    <3> QED
      BY <1>0, <3>1 DEF Injective
  <2>3. \A i \in 1 .. Len(s) : data[ns[i + Spent]] = s[i]
    BY DEF DummyHolds, Contents
  <2> QED
    BY <1>0, <1>6, <2>1, <2>2, <2>3 DEF Contents
<1>8. PushLocked(ns)'
  <2>1. newTail' \in [Producers -> DummyNodes \cup {-1}]
    BY <1>1 DEF DummyHolds, PushLocked
  <2>2. \A q \in Producers : InPush(q)' => q = p
    BY <1>2, <1>3 DEF InPush
  <2>3. InPush(p)'
    BY <1>3 DEF InPush
  <2> QED
    BY <1>1, <1>2, <1>3, <1>6, <2>1, <2>2, <2>3 DEF PushLocked
<1>9. PopLocked(s)'
  BY <1>1, <1>3 DEF DummyHolds, PopLocked, InPop
<1> QED
  BY <1>1, <1>4, <1>5, <1>7, <1>8, <1>9 DEF DummyHolds, Moved

\* push: the old dummy is linked to the new one.
LEMMA DummyLink ==
  ASSUME NEW s, Bench(s), NEW ns, DummyHolds(ns, s), NEW p \in Producers, Dummy!Link(p),
         UNCHANGED <<kind, round>>
  PROVE  Bench(s)' /\ DummyHolds(ns, s)' /\ Moved(s, s)
<1>0. /\ ns \in Seq(DummyNodes) /\ Injective(ns) /\ Len(ns) \in Nat \ {0}
      /\ tail = ns[Len(ns)] /\ next \in [DummyNodes -> DummyNodes \cup {-1}]
  BY DEF DummyHolds, Chain
<1>1. /\ pc[p] = "link" /\ pc' = [pc EXCEPT ![p] = "publish"] /\ next' = [next EXCEPT ![tail] = newTail[p]]
      /\ UNCHANGED <<newTail, head, tail, data, alive, headMutex, tailMutex, taken>>
      /\ UNCHANGED <<pushCount, popCount, item, customers, firstFlag, clock>>
  BY DEF Dummy!Link, Dummy!Goto, Dummy!Unchanged
<1>2. /\ tailMutex = p /\ p # -1 /\ \A q \in Producers \ {p} : ~ InPush(q)
      /\ newTail[p] \in DummyNodes /\ newTail[p] \notin NodeSet(ns)
      /\ alive = NodeSet(ns) \cup {newTail[p]} /\ data[tail] = item[p]
  BY <1>1, PushHolder DEF InPush, DummyHolds
<1>3. /\ pc'[p] = "publish" /\ \A q \in Producers \ {p} : pc'[q] = pc[q]
      /\ \A c \in Customers : pc'[c] = pc[c]
  BY <1>1 DEF Bench, TypeOK, Threads
<1>4. Bench(s)'
  <2>1. p \in Pending /\ p \in Threads /\ pc' = [pc EXCEPT ![p] = pc'[p]]
        /\ pc'[p] \in {"push", "fill", "link", "publish"}
    BY <1>1, <1>3 DEF Pending, Threads
  <2> QED
    BY <1>1, <2>1, Moves DEF Bench
<1>5. /\ tail \in NodeSet(ns) /\ next' \in [DummyNodes -> DummyNodes \cup {-1}] /\ next'[tail] = newTail[p]
      /\ \A n \in DummyNodes : n # tail => next'[n] = next[n]
  <2>1. tail \in DummyNodes /\ tail \in NodeSet(ns)
    BY <1>0 DEF NodeSet
  <2> QED
    BY <1>0, <1>1, <1>2, <2>1
<1>6. Chain(ns)'
  <2>1. \A i \in 1 .. Len(ns) - 1 : ns[i] # tail /\ ns[i] \in DummyNodes
    <3>1. \A i \in 1 .. Len(ns) - 1 : i \in 1 .. Len(ns) /\ i # Len(ns) /\ Len(ns) \in 1 .. Len(ns)
      BY <1>0
    <3> QED
      BY <1>0, <3>1 DEF Injective
  <2>2. \A i \in 1 .. Len(ns) - 1 : next'[ns[i]] = ns[i + 1]
    BY <1>5, <2>1 DEF DummyHolds, Chain
  <2>3. \A n \in DummyNodes \ NodeSet(ns) : next'[n] = -1
    BY <1>5 DEF DummyHolds, Chain
  <2> QED
    BY <1>0, <1>1, <1>5, <2>2, <2>3 DEF DummyHolds, Chain
<1>7. Contents(ns, s)'
  <2>1. Spent' = Spent
    BY <1>3 DEF Spent
  <2> QED
    BY <1>1, <2>1 DEF DummyHolds, Contents
<1>8. PushLocked(ns)'
  <2>1. newTail' \in [Producers -> DummyNodes \cup {-1}]
    BY <1>1 DEF DummyHolds, PushLocked
  <2>2. \A q \in Producers : InPush(q)' => q = p
    BY <1>2, <1>3 DEF InPush
  <2>3. InPush(p)'
    BY <1>3 DEF InPush
  <2> QED
    BY <1>1, <1>2, <1>3, <1>5, <2>1, <2>2, <2>3 DEF PushLocked
<1>9. PopLocked(s)'
  BY <1>1, <1>3 DEF DummyHolds, PopLocked, InPop
<1> QED
  BY <1>1, <1>4, <1>6, <1>7, <1>8, <1>9 DEF DummyHolds, Moved

\* push: tail_ moves to the new dummy, and the element is in the queue.
LEMMA DummyPublish ==
  ASSUME NEW s, Bench(s), NEW ns, DummyHolds(ns, s), NEW p \in Producers, Dummy!Publish(p),
         UNCHANGED <<kind, round>>
  PROVE  \E z, ms : Bench(z)' /\ DummyHolds(ms, z)' /\ Moved(s, z)
<1>0. /\ ns \in Seq(DummyNodes) /\ Injective(ns) /\ Len(ns) \in Nat \ {0} /\ Len(s) \in Nat
      /\ head = ns[1] /\ tail = ns[Len(ns)] /\ next \in [DummyNodes -> DummyNodes \cup {-1}]
      /\ Len(ns) = Len(s) + 1 + Spent
  BY DEF Bench, Numbers, DummyHolds, Chain, Contents
<1>1. /\ pc[p] = "publish" /\ pc' = [pc EXCEPT ![p] = "pushed"] /\ tail' = newTail[p] /\ tailMutex' = -1
      /\ UNCHANGED <<newTail, head, data, next, alive, headMutex, taken>>
      /\ UNCHANGED <<pushCount, popCount, item, customers, firstFlag, clock>>
  BY DummyNodesAgree DEF Dummy!Publish, Dummy!Goto, Dummy!Unchanged
<1>2. /\ tailMutex = p /\ p # -1 /\ \A q \in Producers \ {p} : ~ InPush(q)
      /\ newTail[p] \in DummyNodes /\ newTail[p] \notin NodeSet(ns)
      /\ alive = NodeSet(ns) \cup {newTail[p]} /\ data[tail] = item[p] /\ next[tail] = newTail[p]
  BY <1>1, PushHolder DEF InPush, DummyHolds
<1>3. /\ pc'[p] = "pushed" /\ \A q \in Producers \ {p} : pc'[q] = pc[q]
      /\ \A c \in Customers : pc'[c] = pc[c]
  BY <1>1 DEF Bench, TypeOK, Threads
<1>4. PICK z \in Seq(Nat) :
         /\ Bench(z)' /\ Moved(s, z)
         /\ Len(z) = Len(s) + 1 /\ z[Len(s) + 1] = item[p] /\ \A i \in 1 .. Len(s) : z[i] = s[i]
  <2>1. p \in Pending
    BY <1>1 DEF Pending
  <2> QED
    BY <1>1, <2>1, PushesBack
<1>5. PICK ms \in Seq(DummyNodes) :
         /\ Injective(ms) /\ NodeSet(ms) = NodeSet(ns) \cup {newTail[p]}
         /\ Len(ms) = Len(ns) + 1 /\ ms[Len(ns) + 1] = newTail[p]
         /\ \A i \in 1 .. Len(ns) : ms[i] = ns[i]
  <2>1. PICK f : f = newTail[p]
    OBVIOUS
  <2>2. ns \in Seq(DummyNodes) /\ Injective(ns) /\ f \in DummyNodes /\ f \notin NodeSet(ns)
    BY <1>0, <1>2, <2>1
  <2>3. \E m \in Seq(DummyNodes) :
           /\ Injective(m) /\ NodeSet(m) = NodeSet(ns) \cup {f}
           /\ Len(m) = Len(ns) + 1 /\ m[Len(ns) + 1] = f /\ \A i \in 1 .. Len(ns) : m[i] = ns[i]
    BY <2>2, NodesAppend
  <2> QED
    BY <2>1, <2>3
<1>6. Chain(ms)'
  <2>1. head' = ms[1] /\ tail' = ms[Len(ms)] /\ Len(ms) # 0
    BY <1>0, <1>1, <1>5
  <2>2. ASSUME NEW i \in 1 .. Len(ms) - 1 PROVE next'[ms[i]] = ms[i + 1]
    <3>1. CASE i = Len(ns)
      BY <1>0, <1>1, <1>2, <1>5, <3>1
    <3>2. CASE i # Len(ns)
      <4>1. i \in 1 .. Len(ns) - 1 /\ i \in 1 .. Len(ns) /\ i + 1 \in 1 .. Len(ns)
        BY <1>0, <1>5, <3>2
      <4>2. next[ns[i]] = ns[i + 1]
        BY <4>1 DEF DummyHolds, Chain
      <4> QED
        BY <1>1, <1>5, <4>1, <4>2
    <3> QED
      BY <3>1, <3>2
  <2>3. \A n \in DummyNodes \ NodeSet(ms) : next'[n] = -1
    BY <1>1, <1>5 DEF DummyHolds, Chain
  <2> QED
    BY <1>0, <1>1, <1>5, <2>1, <2>2, <2>3 DEF Chain
<1>7. Contents(ms, z)'
  <2>1. Spent' = Spent
    BY <1>3 DEF Spent
  <2>2. Len(ms) = Len(z) + 1 + Spent /\ Spent \in {0, 1}
    BY <1>0, <1>4, <1>5, SpentSaid DEF Bench
  <2>3. ASSUME NEW i \in 1 .. Len(z) PROVE data[ms[i + Spent]] = z[i]
    <3>1. CASE i = Len(s) + 1
      <4>1. i + Spent = Len(ns) /\ Len(ns) \in 1 .. Len(ns)
        BY <1>0, <2>2, <3>1
      <4> QED
        BY <1>0, <1>2, <1>4, <1>5, <3>1, <4>1
    <3>2. CASE i # Len(s) + 1
      <4>1. i \in 1 .. Len(s) /\ i + Spent \in 1 .. Len(ns)
        BY <1>0, <1>4, <2>2, <3>2
      <4>2. data[ns[i + Spent]] = s[i]
        BY <4>1 DEF DummyHolds, Contents
      <4> QED
        BY <1>4, <1>5, <4>1, <4>2
    <3> QED
      BY <3>1, <3>2
  <2>4. data' \in [DummyNodes -> Nat \cup {-1}]
    BY <1>1 DEF DummyHolds, Contents
  <2> QED
    BY <1>1, <2>1, <2>2, <2>3, <2>4 DEF Contents
<1>8. PushLocked(ms)'
  <2>1. newTail' \in [Producers -> DummyNodes \cup {-1}]
    BY <1>1 DEF DummyHolds, PushLocked
  <2>2. \A q \in Producers : ~ InPush(q)'
    BY <1>2, <1>3 DEF InPush
  <2>3. next'[tail'] = -1
    BY <1>1, <1>2 DEF DummyHolds, Chain
  <2> QED
    BY <1>1, <1>2, <1>5, <2>1, <2>2, <2>3 DEF PushLocked
<1>9. PopLocked(z)'
  <2>1. Len(z) # 0
    BY <1>0, <1>4
  <2> QED
    BY <1>1, <1>3, <2>1 DEF DummyHolds, PopLocked, InPop
<1> QED
  BY <1>4, <1>6, <1>7, <1>8, <1>9 DEF DummyHolds

\* Who looks, takes or unlinks holds head_mutex_.
LEMMA PopHolder ==
  ASSUME NEW s, PopLocked(s), NEW c \in Customers, InPop(c)
  PROVE  headMutex = c /\ c # -1 /\ \A d \in Customers \ {c} : ~ InPop(d)
  BY DEF PopLocked

\* try_pop: head_mutex_ is taken.
LEMMA DummyLockHead ==
  ASSUME NEW s, Bench(s), NEW ns, DummyHolds(ns, s), NEW c \in Customers, Dummy!LockHead(c),
         UNCHANGED <<kind, round>>
  PROVE  Bench(s)' /\ DummyHolds(ns, s)' /\ Moved(s, s)
<1>1. /\ pc[c] = "pop" /\ pc' = [pc EXCEPT ![c] = "look"] /\ headMutex = -1 /\ headMutex' = c
      /\ UNCHANGED <<newTail, head, tail, data, next, alive, tailMutex, taken>>
      /\ UNCHANGED <<pushCount, popCount, item, customers, firstFlag, clock>>
  BY DummyNodesAgree DEF Dummy!LockHead, Dummy!Goto, Dummy!Unchanged, Dummy!listVars
<1>2. /\ pc'[c] = "look" /\ \A d \in Customers \ {c} : pc'[d] = pc[d]
      /\ \A p \in Producers : pc'[p] = pc[p]
  BY <1>1 DEF Bench, TypeOK, Threads
<1>3. Bench(s)'
  <2>1. c \in Threads /\ pc' = [pc EXCEPT ![c] = pc'[c]]
        /\ pc[c] \in {"pop", "look", "take"} /\ pc'[c] \in {"pop", "look", "take"}
    BY <1>1, <1>2 DEF Threads
  <2> QED
    BY <1>1, <2>1, Moves DEF Bench
<1>4. Chain(ns)'
  BY <1>1 DEF DummyHolds, Chain
<1>5. Contents(ns, s)'
  <2>1. Spent' = Spent
    BY <1>1, <1>2 DEF Spent
  <2> QED
    BY <1>1, <2>1 DEF DummyHolds, Contents
<1>6. PushLocked(ns)'
  BY <1>1, <1>2 DEF DummyHolds, PushLocked, InPush
<1>7. PopLocked(s)'
  <2>1. \A d \in Customers : ~ InPop(d)
    BY <1>1 DEF DummyHolds, PopLocked
  <2> QED
    BY <1>1, <1>2, <2>1 DEF PopLocked, InPop
<1> QED
  BY <1>1, <1>3, <1>4, <1>5, <1>6, <1>7 DEF DummyHolds, Moved

\* try_pop: tail_ is read under its own mutex; a first node other than that one holds
\* an element, and keeps it while head_mutex_ is held.
LEMMA DummyLook ==
  ASSUME NEW s, Bench(s), NEW ns, DummyHolds(ns, s), NEW c \in Customers, Dummy!Look(c),
         UNCHANGED <<kind, round>>
  PROVE  Bench(s)' /\ DummyHolds(ns, s)' /\ Moved(s, s)
<1>1. /\ pc[c] = "look"
      /\ \/ head = tail /\ pc' = [pc EXCEPT ![c] = "pop"] /\ headMutex' = -1
         \/ head # tail /\ pc' = [pc EXCEPT ![c] = "take"] /\ headMutex' = headMutex
      /\ UNCHANGED <<newTail, head, tail, data, next, alive, tailMutex, taken>>
      /\ UNCHANGED <<pushCount, popCount, item, customers, firstFlag, clock>>
  BY DummyNodesAgree DEF Dummy!Look, Dummy!Goto, Dummy!Unchanged, Dummy!listVars
<1>2. /\ \A d \in Customers \ {c} : pc'[d] = pc[d] /\ ~ InPop(d)
      /\ \A p \in Producers : pc'[p] = pc[p]
      /\ pc'[c] = IF head = tail THEN "pop" ELSE "take"
      /\ headMutex = c /\ c # -1
  <2>1. InPop(c)
    BY <1>1 DEF InPop
  <2>2. headMutex = c /\ c # -1 /\ \A d \in Customers \ {c} : ~ InPop(d)
    BY <2>1, PopHolder DEF DummyHolds
  <2> QED
    BY <1>1, <2>2 DEF Bench, TypeOK, Threads
<1>3. Bench(s)'
  <2>1. c \in Threads /\ pc' = [pc EXCEPT ![c] = pc'[c]]
        /\ pc[c] \in {"pop", "look", "take"} /\ pc'[c] \in {"pop", "look", "take"}
    BY <1>1, <1>2 DEF Threads
  <2> QED
    BY <1>1, <2>1, Moves DEF Bench
<1>4. Chain(ns)'
  BY <1>1 DEF DummyHolds, Chain
<1>5. Spent = 0 /\ Spent' = 0
  BY <1>1, <1>2 DEF Spent, InPop
<1>6. Contents(ns, s)'
  BY <1>1, <1>5 DEF DummyHolds, Contents
<1>7. PushLocked(ns)'
  BY <1>1, <1>2 DEF DummyHolds, PushLocked, InPush
<1>8. PopLocked(s)'
  <2>1. head # tail => Len(s) # 0
    <3>1. Len(ns) = Len(s) + 1 /\ head = ns[1] /\ tail = ns[Len(ns)] /\ Len(s) \in Nat
      BY <1>5 DEF DummyHolds, Chain, Contents, Bench, Numbers
    <3> QED
      BY <3>1
  <2> QED
    BY <1>1, <1>2, <2>1 DEF PopLocked, InPop
<1> QED
  BY <1>1, <1>3, <1>4, <1>6, <1>7, <1>8 DEF DummyHolds, Moved

\* try_pop: the value is moved out of the first node, which no producer touches.
LEMMA DummyTake ==
  ASSUME NEW s, Bench(s), NEW ns, DummyHolds(ns, s), NEW c \in Customers, Dummy!Take(c),
         UNCHANGED <<kind, round>>
  PROVE  \E z : Bench(z)' /\ DummyHolds(ns, z)' /\ Moved(s, z)
<1>0. /\ ns \in Seq(DummyNodes) /\ Injective(ns) /\ Len(ns) \in Nat \ {0} /\ Len(s) \in Nat
      /\ s \in Seq(Nat) /\ head = ns[1] /\ tail = ns[Len(ns)]
      /\ data \in [DummyNodes -> Nat \cup {-1}]
      /\ Len(ns) = Len(s) + 1 + Spent
  BY DEF Bench, Numbers, DummyHolds, Chain, Contents
<1>1. /\ pc[c] = "take" /\ pc' = [pc EXCEPT ![c] = "unlink"]
      /\ taken' = taken \cup {data[head]} /\ data' = [data EXCEPT ![head] = -1]
      /\ UNCHANGED <<newTail, head, tail, next, alive, headMutex, tailMutex>>
      /\ UNCHANGED <<pushCount, popCount, item, customers, firstFlag, clock>>
  BY DummyNodesAgree DEF Dummy!Take, Dummy!Goto, Dummy!Unchanged
<1>2. /\ \A d \in Customers \ {c} : pc'[d] = pc[d] /\ ~ InPop(d)
      /\ \A p \in Producers : pc'[p] = pc[p]
      /\ pc'[c] = "unlink" /\ headMutex = c /\ c # -1
  <2>1. InPop(c)
    BY <1>1 DEF InPop
  <2>2. headMutex = c /\ c # -1 /\ \A d \in Customers \ {c} : ~ InPop(d)
    BY <2>1, PopHolder DEF DummyHolds
  <2> QED
    BY <1>1, <2>2 DEF Bench, TypeOK, Threads
<1>3. Spent = 0 /\ Spent' = 1
  BY <1>1, <1>2 DEF Spent, InPop
<1>4. /\ Len(s) # 0 /\ 1 \in 1 .. Len(s) /\ s # <<>> /\ data[head] = s[1]
      /\ Len(ns) = Len(s) + 1 /\ 1 \in 1 .. Len(ns)
  <2>1. Len(s) # 0
    BY <1>1 DEF DummyHolds, PopLocked
  <2>2. 1 \in 1 .. Len(s) /\ 1 + Spent = 1 /\ Len(ns) = Len(s) + 1 /\ 1 \in 1 .. Len(ns)
    BY <1>0, <1>3, <2>1
  <2>3. data[ns[1 + Spent]] = s[1]
    BY <2>2 DEF DummyHolds, Contents
  <2> QED
    BY <1>0, <2>1, <2>2, <2>3
<1>5. PICK z \in Seq(Nat) : /\ Bench(z)' /\ Moved(s, z)
                            /\ Len(z) = Len(s) - 1 /\ \A i \in 1 .. Len(z) : z[i] = s[i + 1]
  <2>1. /\ pc' = [pc EXCEPT ![c] = "unlink"] /\ pc[c] \in {"pop", "take"}
        /\ taken' = taken \cup {s[1]} /\ s # <<>>
        /\ UNCHANGED <<kind, round, pushCount, popCount, item, customers, firstFlag, clock>>
    BY <1>1, <1>4
  <2> QED
    BY <2>1, PopsFront
<1>6. /\ head \in DummyNodes /\ data' \in [DummyNodes -> Nat \cup {-1}]
      /\ \A n \in DummyNodes : n # head => data'[n] = data[n]
  BY <1>0, <1>1, <1>4
<1>7. Chain(ns)'
  BY <1>1 DEF DummyHolds, Chain
<1>8. Contents(ns, z)'
  <2>1. Len(ns) = Len(z) + 1 + 1
    BY <1>0, <1>4, <1>5
  <2>2. ASSUME NEW i \in 1 .. Len(z) PROVE data'[ns[i + 1]] = z[i]
    <3>1. i + 1 \in 1 .. Len(s) /\ i + 1 \in 1 .. Len(ns) /\ i + 1 # 1 /\ (i + 1) + Spent = i + 1
      BY <1>0, <1>3, <1>4, <1>5
    <3>2. data[ns[(i + 1) + Spent]] = s[i + 1]
      BY <3>1 DEF DummyHolds, Contents
    <3>3. ns[i + 1] \in DummyNodes /\ ns[i + 1] # head
      BY <1>0, <1>4, <3>1 DEF Injective
    <3> QED
      BY <1>5, <1>6, <3>1, <3>2, <3>3
  <2> QED
    BY <1>3, <1>6, <2>1, <2>2 DEF Contents
<1>9. PushLocked(ns)'
  <2>1. tail # head /\ tail \in DummyNodes
    <3>1. Len(ns) # 1 /\ Len(ns) \in 1 .. Len(ns)
      BY <1>0, <1>4
    <3>2. \A i, j \in 1 .. Len(ns) : ns[i] = ns[j] => i = j
      BY <1>0 DEF Injective
    <3>3. ns[1] # ns[Len(ns)] /\ ns[Len(ns)] \in DummyNodes
      BY <1>0, <1>4, <3>1, <3>2
    <3> QED
      BY <1>0, <3>3
  <2>2. data'[tail] = data[tail]
    BY <1>6, <2>1
  <2> QED
    BY <1>1, <1>2, <2>2 DEF DummyHolds, PushLocked, InPush
<1>10. PopLocked(z)'
  BY <1>1, <1>2 DEF PopLocked, InPop
<1> QED
  BY <1>5, <1>7, <1>8, <1>9, <1>10 DEF DummyHolds

\* try_pop: head_ moves to the next node and the first one is freed.
LEMMA DummyUnlink ==
  ASSUME NEW s, Bench(s), NEW ns, DummyHolds(ns, s), NEW c \in Customers, Dummy!Unlink(c),
         UNCHANGED <<kind, round>>
  PROVE  \E ms : Bench(s)' /\ DummyHolds(ms, s)' /\ Moved(s, s)
<1>0. /\ ns \in Seq(DummyNodes) /\ Injective(ns) /\ Len(ns) \in Nat \ {0} /\ Len(s) \in Nat
      /\ head = ns[1] /\ tail = ns[Len(ns)] /\ next \in [DummyNodes -> DummyNodes \cup {-1}]
      /\ Len(ns) = Len(s) + 1 + Spent
  BY DEF Bench, Numbers, DummyHolds, Chain, Contents
<1>1. /\ pc[c] = "unlink" /\ pc' = [pc EXCEPT ![c] = "got"]
      /\ next' = [next EXCEPT ![head] = -1] /\ head' = next[head] /\ alive' = alive \ {head}
      /\ headMutex' = -1
      /\ UNCHANGED <<newTail, tail, data, tailMutex, taken>>
      /\ UNCHANGED <<pushCount, popCount, item, customers, firstFlag, clock>>
  BY DummyNodesAgree DEF Dummy!Unlink, Dummy!Goto, Dummy!Unchanged
<1>2. /\ \A d \in Customers \ {c} : pc'[d] = pc[d] /\ ~ InPop(d)
      /\ \A p \in Producers : pc'[p] = pc[p]
      /\ pc'[c] = "got"
  <2>1. InPop(c)
    BY <1>1 DEF InPop
  <2>2. headMutex = c /\ c # -1 /\ \A d \in Customers \ {c} : ~ InPop(d)
    BY <2>1, PopHolder DEF DummyHolds
  <2> QED
    BY <1>1, <2>2 DEF Bench, TypeOK, Threads
<1>3. Spent = 1 /\ Spent' = 0
  BY <1>1, <1>2 DEF Spent, InPop
<1>4. Len(ns) = Len(s) + 2 /\ 1 \in 1 .. Len(ns) /\ 2 \in 1 .. Len(ns) /\ Len(ns) \in 1 .. Len(ns) /\ Len(ns) # 1
  BY <1>0, <1>3
<1>5. Bench(s)'
  <2>1. c \in Threads /\ pc' = [pc EXCEPT ![c] = pc'[c]] /\ pc[c] = "unlink" /\ pc'[c] = "got"
    BY <1>1, <1>2 DEF Threads
  <2> QED
    BY <1>1, <2>1, Moves DEF Bench
<1>6. PICK ms \in Seq(DummyNodes) :
         /\ Injective(ms) /\ NodeSet(ms) = NodeSet(ns) \ {head}
         /\ Len(ms) = Len(ns) - 1 /\ \A i \in 1 .. Len(ms) : ms[i] = ns[i + 1]
  <2>1. ns \in Seq(DummyNodes) /\ Injective(ns) /\ Len(ns) # 0 /\ head = ns[1]
    BY <1>0
  <2>2. \E m \in Seq(DummyNodes) :
           /\ Injective(m) /\ NodeSet(m) = NodeSet(ns) \ {ns[1]}
           /\ Len(m) = Len(ns) - 1 /\ \A i \in 1 .. Len(m) : m[i] = ns[i + 1]
    BY <2>1, NodesTail
  <2> QED
    BY <2>1, <2>2
<1>7. /\ head \in NodeSet(ns) /\ head \in DummyNodes /\ tail # head /\ tail \in DummyNodes
      /\ next' \in [DummyNodes -> DummyNodes \cup {-1}]
      /\ \A n \in DummyNodes : next'[n] = IF n = head THEN -1 ELSE next[n]
  <2>1. head \in NodeSet(ns) /\ head \in DummyNodes /\ tail # head /\ tail \in DummyNodes
    BY <1>0, <1>4 DEF Injective, NodeSet
  <2> QED
    BY <1>0, <1>1, <2>1
<1>8. Chain(ms)'
  <2>1. head' = ms[1]
    <3>1. next[ns[1]] = ns[1 + 1] /\ 1 \in 1 .. Len(ms)
      <4>1. 1 \in 1 .. Len(ns) - 1 /\ 1 \in 1 .. Len(ms)
        BY <1>0, <1>4, <1>6
      <4> QED
        BY <4>1 DEF DummyHolds, Chain
    <3> QED
      BY <1>0, <1>1, <1>6, <3>1
  <2>2. tail' = ms[Len(ms)] /\ Len(ms) # 0
    <3>1. Len(ms) \in 1 .. Len(ms) /\ Len(ms) + 1 = Len(ns)
      BY <1>0, <1>4, <1>6
    <3> QED
      BY <1>0, <1>1, <1>6, <3>1
  <2>3. ASSUME NEW i \in 1 .. Len(ms) - 1 PROVE next'[ms[i]] = ms[i + 1]
    <3>1. i \in 1 .. Len(ms) /\ i + 1 \in 1 .. Len(ms) /\ i + 1 \in 1 .. Len(ns) - 1 /\ i + 1 \in 1 .. Len(ns) /\ i + 1 # 1
      BY <1>0, <1>4, <1>6
    <3>2. next[ns[i + 1]] = ns[(i + 1) + 1]
      BY <3>1 DEF DummyHolds, Chain
    <3>3. ns[i + 1] # head /\ ns[i + 1] \in DummyNodes
      BY <1>0, <1>4, <3>1 DEF Injective
    <3> QED
      BY <1>6, <1>7, <3>1, <3>2, <3>3
  <2>4. \A n \in DummyNodes \ NodeSet(ms) : next'[n] = -1
    BY <1>6, <1>7 DEF DummyHolds, Chain
  <2> QED
    BY <1>6, <1>7, <2>1, <2>2, <2>3, <2>4 DEF Chain
<1>9. Contents(ms, s)'
  <2>1. Len(ms) = Len(s) + 1 + 0
    BY <1>0, <1>4, <1>6
  <2>2. ASSUME NEW i \in 1 .. Len(s) PROVE data[ms[i + 0]] = s[i]
    <3>1. i + 0 = i /\ i \in 1 .. Len(ms)
      BY <1>0, <2>1
    <3>2. data[ns[i + Spent]] = s[i]
      BY DEF DummyHolds, Contents
    <3> QED
      BY <1>3, <1>6, <3>1, <3>2
  <2> QED
    BY <1>1, <1>3, <2>1, <2>2 DEF DummyHolds, Contents
<1>10. PushLocked(ms)'
  <2>1. next'[tail] = next[tail]
    BY <1>7
  <2>2. \A p \in Producers : newTail[p] \notin NodeSet(ns) => newTail[p] # head /\ newTail[p] \notin NodeSet(ms)
    BY <1>6, <1>7
  <2>3. /\ newTail' \in [Producers -> DummyNodes \cup {-1}]
        /\ \A p \in Producers : InPush(p)' => tailMutex' = p
    BY <1>1, <1>2 DEF DummyHolds, PushLocked, InPush
  <2>4. tailMutex' = -1 => alive' = NodeSet(ms) /\ next'[tail'] = -1
    BY <1>1, <1>6, <2>1 DEF DummyHolds, PushLocked
  <2>5. CASE tailMutex # -1
    <3>1. /\ tailMutex \in Producers /\ InPush(tailMutex)
          /\ newTail[tailMutex] \in DummyNodes \ NodeSet(ns)
          /\ alive = NodeSet(ns) \cup {newTail[tailMutex]}
          /\ next[tail] = IF pc[tailMutex] = "publish" THEN newTail[tailMutex] ELSE -1
          /\ pc[tailMutex] # "fill" => data[tail] = item[tailMutex]
      BY <2>5 DEF DummyHolds, PushLocked
    <3>2. alive' = NodeSet(ms) \cup {newTail[tailMutex]}
      BY <1>1, <1>6, <2>2, <3>1
    <3>3. pc'[tailMutex] = pc[tailMutex] /\ InPush(tailMutex)'
      BY <1>1, <1>2, <3>1 DEF InPush
    <3> QED
      BY <1>1, <2>1, <2>2, <2>3, <2>5, <3>1, <3>2, <3>3 DEF PushLocked
  <2>6. CASE tailMutex = -1
    BY <1>1, <2>3, <2>4, <2>6 DEF PushLocked
  <2> QED
    BY <2>5, <2>6
<1>11. PopLocked(s)'
  BY <1>1, <1>2 DEF PopLocked, InPop
<1> QED
  BY <1>1, <1>5, <1>8, <1>9, <1>10, <1>11 DEF DummyHolds, Moved

-----------------------------------------------------------------------------
\* The steps of the benchmark are the same whatever the queue.
LEMMA SameSteps ==
  ASSUME NEW t
  PROVE  /\ Simple!ProducerStep(t) => ProducerStep(t)
         /\ Simple!CustomerStep(t) => CustomerStep(t)
         /\ List!ProducerStep(t) => ProducerStep(t)
         /\ List!CustomerStep(t) => CustomerStep(t)
         /\ Dummy!ProducerStep(t) => ProducerStep(t)
         /\ Dummy!CustomerStep(t) => CustomerStep(t)
<1>1. /\ Simple!ProducerStep(t) => ProducerStep(t)
      /\ Simple!CustomerStep(t) => CustomerStep(t)
  BY Zenon DEF ProducerStep, CustomerStep, Begin, Start, Draw, Pushed, Counted, Leave, End, Goto,
     Simple!ProducerStep, Simple!CustomerStep, Simple!Begin, Simple!Start, Simple!Draw,
     Simple!Pushed, Simple!Counted, Simple!Leave, Simple!End, Simple!Goto
<1>2. /\ List!ProducerStep(t) => ProducerStep(t)
      /\ List!CustomerStep(t) => CustomerStep(t)
  BY Zenon DEF ProducerStep, CustomerStep, Begin, Start, Draw, Pushed, Counted, Leave, End, Goto,
     List!ProducerStep, List!CustomerStep, List!Begin, List!Start, List!Draw,
     List!Pushed, List!Counted, List!Leave, List!End, List!Goto
<1>3. /\ Dummy!ProducerStep(t) => ProducerStep(t)
      /\ Dummy!CustomerStep(t) => CustomerStep(t)
  BY Zenon DEF ProducerStep, CustomerStep, Begin, Start, Draw, Pushed, Counted, Leave, End, Goto,
     Dummy!ProducerStep, Dummy!CustomerStep, Dummy!Begin, Dummy!Start, Dummy!Draw,
     Dummy!Pushed, Dummy!Counted, Dummy!Leave, Dummy!End, Dummy!Goto
<1> QED
  BY <1>1, <1>2, <1>3

\* A step of the benchmark is outside of the queue, before and after it.
Outside(u) == ~ InPush(u) /\ ~ InPop(u)

\* The benchmark's own steps leave alone whoever is in the queue.
LEMMA BenchOutside ==
  ASSUME TypeOK, NEW t \in Threads,
         (t \in Producers /\ ProducerStep(t)) \/ (t \in Customers /\ CustomerStep(t))
  PROVE  /\ \A u \in Threads : pc'[u] = pc[u] \/ (Outside(u) /\ Outside(u)')
         /\ \A p \in Producers : InPush(p) => item'[p] = item[p]
         /\ UNCHANGED taken
<1>1. ASSUME NEW from \in ProducerPlaces \cup CustomerPlaces, NEW to,
             from \notin {"fill", "link", "publish", "look", "take", "unlink"},
             to \notin {"fill", "link", "publish", "look", "take", "unlink"},
             pc[t] = from, pc' = [pc EXCEPT ![t] = to]
      PROVE  \A u \in Threads : pc'[u] = pc[u] \/ (Outside(u) /\ Outside(u)')
  BY <1>1 DEF TypeOK, Outside, InPush, InPop
<1>2. CASE t \in Producers /\ ProducerStep(t)
  <2>1. PICK from \in {"begin", "start", "draw", "pushed"}, to \in {"start", "draw", "push", "done"} :
             pc[t] = from /\ pc' = [pc EXCEPT ![t] = to]
    BY <1>2, Zenon DEF ProducerStep, Begin, Start, Draw, Pushed, Goto
  <2>2. UNCHANGED taken /\ (item' = item \/ (pc[t] = "draw" /\ item' = [item EXCEPT ![t] = pushCount]))
    BY <1>2, Zenon DEF ProducerStep, Begin, Start, Draw, Pushed, Goto
  <2>3. \A p \in Producers : InPush(p) => item'[p] = item[p]
    BY <2>2 DEF InPush, TypeOK
  <2> QED
    BY <1>1, <2>1, <2>2, <2>3 DEF ProducerPlaces
<1>3. CASE t \in Customers /\ CustomerStep(t)
  <2>1. PICK from \in {"got", "leave", "end"}, to \in {"pop", "leave", "end", "done"} :
             pc[t] = from /\ pc' = [pc EXCEPT ![t] = to]
    BY <1>3, Zenon DEF CustomerStep, Counted, Leave, End, Goto
  <2>2. UNCHANGED taken /\ item' = item
    BY <1>3, Zenon DEF CustomerStep, Counted, Leave, End, Goto
  <2> QED
    BY <1>1, <2>1, <2>2 DEF CustomerPlaces
<1> QED
  BY <1>2, <1>3

\* So the queue with a dummy node stays as it is.
LEMMA DummyUntouched ==
  ASSUME NEW s, NEW ns, DummyHolds(ns, s),
         UNCHANGED <<data, head, tail, next, alive, headMutex, tailMutex, newTail>>,
         \A u \in Threads : pc'[u] = pc[u] \/ (Outside(u) /\ Outside(u)'),
         \A p \in Producers : InPush(p) => item'[p] = item[p]
  PROVE  DummyHolds(ns, s)'
<1>1. \A p \in Producers : /\ InPush(p)' <=> InPush(p)
                           /\ InPush(p) => pc'[p] = pc[p] /\ item'[p] = item[p]
  BY DEF Threads, Outside, InPush
<1>2. \A c \in Customers : /\ InPop(c)' <=> InPop(c)
                           /\ InPop(c) => pc'[c] = pc[c]
  BY DEF Threads, Outside, InPop
<1>3. Spent' = Spent
  BY <1>2 DEF Spent, InPop
<1>4. Chain(ns)'
  BY DEF DummyHolds, Chain
<1>5. Contents(ns, s)'
  BY <1>3 DEF DummyHolds, Contents
<1>6. PushLocked(ns)'
  BY <1>1 DEF DummyHolds, PushLocked
<1>7. PopLocked(s)'
  BY <1>2 DEF DummyHolds, PopLocked, InPop
<1> QED
  BY <1>4, <1>5, <1>6, <1>7 DEF DummyHolds

-----------------------------------------------------------------------------
\* How s lies in the queue of this behaviour
Holds(s) ==
    /\ kind = "ring" => RingHolds(s)
    /\ kind = "wrapped" => queue = s
    /\ kind = "list" => \E ns : ListHolds(ns, s)
    /\ kind = "dummy" => \E ns : DummyHolds(ns, s)

\* The inductive invariant: some sequence of different numbers lies in the queue.
IInv == \E s : Bench(s) /\ Holds(s)

\* Elements, which FifoQueue sees, is that sequence.
LEMMA ElementsAre == \A s : Bench(s) /\ Holds(s) => Elements = s
<1> SUFFICES ASSUME NEW s, Bench(s), Holds(s) PROVE Elements = s
  OBVIOUS
<1>1. kind \in {"ring", "list", "dummy", "wrapped"} /\ s \in Seq(Nat) /\ TypeOK /\ Numbers(s)
  BY DEF Bench, TypeOK, Numbers
<1>2. CASE kind = "ring"
  <2>1. Elements = Simple!ToVector
    BY <1>2, Zenon DEF Elements
  <2> QED
    BY <1>1, <1>2, <2>1, RingElements DEF Holds
<1>3. CASE kind = "list"
  <2>1. Elements = List!Elements
    BY <1>3 DEF Elements
  <2> QED
    BY <1>1, <1>3, <2>1, ListElements DEF Holds
<1>4. CASE kind = "dummy"
  <2>1. Elements = Dummy!Elements
    BY <1>4 DEF Elements
  <2> QED
    BY <1>1, <1>4, <2>1, DummyElements DEF Holds
<1>5. CASE kind = "wrapped"
  BY <1>5 DEF Elements, Holds
<1> QED
  BY <1>1, <1>2, <1>3, <1>4, <1>5

\* Every queue is made empty.
LEMMA InitKeeps ==
  ASSUME Init
  PROVE  Bench(<<>>) /\ Holds(<<>>)
<1> DEFINE e == <<>>
<1>0. e \in Seq(Nat) /\ Len(e) = 0
  OBVIOUS
<1>1. /\ Simple!Cardinality(Customers) = Cardinality(Customers)
      /\ List!Cardinality(Customers) = Cardinality(Customers)
      /\ Dummy!Cardinality(Customers) = Cardinality(Customers)
  BY Zenon DEF Simple!Cardinality, List!Cardinality, Dummy!Cardinality, Cardinality
<1>2. BenchInit
  BY <1>1 DEF Init, Simple!RingInit, Simple!WrappedInit, Simple!BenchInit, List!Init, List!BenchInit,
     Dummy!Init, Dummy!BenchInit, BenchInit, Simple!Threads, List!Threads, Dummy!Threads, Threads
<1>3. kind \in {"ring", "list", "dummy", "wrapped"} /\ round = 1
  BY DEF Init
<1>4. TypeOK /\ \A t \in Threads : pc[t] = IF t \in Producers THEN "begin" ELSE "pop"
  BY <1>2, <1>3 DEF TypeOK, BenchInit, ProducerPlaces, CustomerPlaces, Threads
<1>5. /\ Last = {} /\ Gone = {} /\ Present = Customers /\ Served = {} /\ Pending = {} /\ At("end") = {}
      /\ \A u \in Threads : Outside(u)
  BY <1>4 DEF Last, Gone, Present, Served, Pending, At, Outside, InPush, InPop, Threads
<1>6. Bench(e)
  <2>1. Counters
    BY <1>2, <1>4, <1>5, SidesFinite DEF Counters, BenchInit, Threads
  <2>2. ClockInv
    BY <1>2, <1>4, <1>5 DEF ClockInv, BenchInit, Threads
  <2>3. Numbers(e)
    BY <1>0, <1>2, <1>5, SidesFinite DEF Numbers, BenchInit, Injective
  <2> QED
    BY <1>4, <2>1, <2>2, <2>3 DEF Bench
<1>7. Holds(e)
  <2>1. CASE kind = "ring"
    BY <1>0, <2>1 DEF Init, Simple!RingInit, Simple!Slots, Holds, RingHolds
  <2>2. CASE kind = "list"
    <3>1. /\ head = -1 /\ alive = {}
          /\ data = [n \in ListNodes |-> -1] /\ next = [n \in ListNodes |-> -1]
      BY <2>2, ListNodesAgree DEF Init, List!Init
    <3>2. e \in Seq(ListNodes) /\ Injective(e) /\ NodeSet(e) = {}
      BY <1>0 DEF Injective, NodeSet
    <3>3. ListHolds(e, e)
      BY <1>0, <3>1, <3>2 DEF ListHolds
    <3> QED
      BY <2>2, <3>3 DEF Holds
  <2>3. CASE kind = "dummy"
    <3>1. /\ head = 0 /\ tail = 0 /\ alive = {0} /\ headMutex = -1 /\ tailMutex = -1
          /\ data = [n \in DummyNodes |-> -1] /\ next = [n \in DummyNodes |-> -1]
          /\ newTail = [p \in Producers |-> -1]
      BY <2>3, DummyNodesAgree DEF Init, Dummy!Init
    <3>2. PICK ns : ns = <<0>>
      OBVIOUS
    <3>3. /\ ns \in Seq(DummyNodes) /\ Injective(ns) /\ NodeSet(ns) = {0}
          /\ Len(ns) = 1 /\ ns[1] = 0 /\ 0 \in DummyNodes
      <4>1. 0 \in DummyNodes
        BY SidesFinite DEF DummyNodes
      <4> QED
        BY <3>2, <4>1 DEF Injective, NodeSet
    <3>4. Spent = 0 /\ (\A p \in Producers : ~ InPush(p)) /\ \A c \in Customers : ~ InPop(c)
      BY <1>5 DEF Spent, Outside, InPop, Threads
    <3>5. Chain(ns)
      BY <3>1, <3>3 DEF Chain
    <3>6. Contents(ns, e)
      BY <1>0, <3>1, <3>3, <3>4 DEF Contents
    <3>7. PushLocked(ns)
      BY <3>1, <3>3, <3>4 DEF PushLocked
    <3>8. PopLocked(e)
      BY <3>4 DEF PopLocked, InPop
    <3> QED
      BY <2>3, <3>5, <3>6, <3>7, <3>8 DEF Holds, DummyHolds
  <2>4. CASE kind = "wrapped"
    BY <2>4 DEF Init, Simple!WrappedInit, Holds
  <2> QED
    BY <1>3, <2>1, <2>2, <2>3, <2>4
<1> QED
  BY <1>6, <1>7

\* A step of a thread with any of the queues: a push, a pop or neither.
LEMMA StepKeeps ==
  ASSUME NEW s, Bench(s), Holds(s), NEW t \in Threads, Step(t)
  PROVE  \E z : Bench(z)' /\ Holds(z)' /\ Moved(s, z)
<1>0. UNCHANGED <<kind, round>> /\ kind \in {"ring", "list", "dummy", "wrapped"}
  BY DEF Step, Bench, TypeOK
<1>1. ASSUME (t \in Producers /\ ProducerStep(t)) \/ (t \in Customers /\ CustomerStep(t))
      PROVE  /\ Bench(s)' /\ Moved(s, s)
             /\ \A u \in Threads : pc'[u] = pc[u] \/ (Outside(u) /\ Outside(u)')
             /\ \A p \in Producers : InPush(p) => item'[p] = item[p]
  <2>1. Bench(s)'
    BY <1>0, <1>1, BenchKeeps DEF Bench
  <2>2. /\ \A u \in Threads : pc'[u] = pc[u] \/ (Outside(u) /\ Outside(u)')
        /\ \A p \in Producers : InPush(p) => item'[p] = item[p]
        /\ UNCHANGED taken
    BY <1>1, BenchOutside DEF Bench
  <2> QED
    BY <2>1, <2>2 DEF Moved
<1>2. CASE kind = "ring"
  <2>1. RingHolds(s) /\ Simple!RingStep(t)
    BY <1>2 DEF Holds, Step
  <2>2. ASSUME NEW z, RingHolds(z)' PROVE Holds(z)'
    BY <1>0, <1>2, <2>2 DEF Holds
  <2>3. CASE t \in Producers /\ Simple!Push(t)
    BY <1>0, <2>1, <2>2, <2>3, RingPush
  <2>4. CASE t \in Customers /\ Simple!Pop(t)
    BY <1>0, <2>1, <2>2, <2>4, RingPop
  <2>5. CASE /\ UNCHANGED <<data, head, tail>>
             /\ (t \in Producers /\ ProducerStep(t)) \/ (t \in Customers /\ CustomerStep(t))
    <3>1. RingHolds(s)'
      BY <2>1, <2>5 DEF RingHolds, Slot
    <3> QED
      BY <1>1, <2>2, <2>5, <3>1
  <2> QED
    BY <2>1, <2>3, <2>4, <2>5, SameSteps DEF Simple!RingStep, Simple!ringVars
<1>3. CASE kind = "list"
  <2>1. PICK ns : ListHolds(ns, s)
    BY <1>3 DEF Holds
  <2>2. ASSUME NEW z, NEW ms, ListHolds(ms, z)' PROVE Holds(z)'
    BY <1>0, <1>3, <2>2 DEF Holds
  <2>3. CASE t \in Producers /\ List!Push(t)
    BY <1>0, <2>1, <2>2, <2>3, ListPush
  <2>4. CASE t \in Customers /\ List!Pop(t)
    BY <1>0, <2>1, <2>2, <2>4, ListPop
  <2>5. CASE /\ UNCHANGED <<data, head, tail, next, alive>>
             /\ (t \in Producers /\ ProducerStep(t)) \/ (t \in Customers /\ CustomerStep(t))
    <3>1. ListHolds(ns, s)'
      BY <2>1, <2>5 DEF ListHolds
    <3> QED
      BY <1>1, <2>2, <2>5, <3>1
  <2>6. List!Step(t)
    BY <1>3 DEF Step
  <2> QED
    BY <2>3, <2>4, <2>5, <2>6, SameSteps DEF List!Step, List!listVars
<1>4. CASE kind = "dummy"
  <2>1. PICK ns : DummyHolds(ns, s)
    BY <1>4 DEF Holds
  <2>2. ASSUME NEW z, NEW ms, DummyHolds(ms, z)' PROVE Holds(z)'
    BY <1>0, <1>4, <2>2 DEF Holds
  <2>3. CASE t \in Producers /\ (Dummy!Allocate(t) \/ Dummy!Fill(t) \/ Dummy!Link(t) \/ Dummy!Publish(t))
    BY <1>0, <2>1, <2>2, <2>3, DummyAllocate, DummyFill, DummyLink, DummyPublish
  <2>4. CASE t \in Customers /\ (Dummy!LockHead(t) \/ Dummy!Look(t) \/ Dummy!Take(t) \/ Dummy!Unlink(t))
    BY <1>0, <2>1, <2>2, <2>4, DummyLockHead, DummyLook, DummyTake, DummyUnlink
  <2>5. CASE /\ UNCHANGED <<data, head, tail, next, alive, headMutex, tailMutex, newTail>>
             /\ (t \in Producers /\ ProducerStep(t)) \/ (t \in Customers /\ CustomerStep(t))
    <3>1. DummyHolds(ns, s)'
      BY <1>1, <2>1, <2>5, DummyUntouched
    <3> QED
      BY <1>1, <2>2, <2>5, <3>1
  <2>6. Dummy!Step(t)
    BY <1>4 DEF Step
  <2> QED
    BY <2>3, <2>4, <2>5, <2>6, SameSteps DEF Dummy!Step, Dummy!queueVars, Dummy!listVars
<1>5. CASE kind = "wrapped"
  <2>1. queue = s /\ Simple!WrappedStep(t)
    BY <1>5 DEF Holds, Step
  <2>2. ASSUME NEW z, queue' = z PROVE Holds(z)'
    BY <1>0, <1>5, <2>2 DEF Holds
  <2>3. CASE \/ t \in Producers /\ Simple!PushWrapped(t)
             \/ t \in Customers /\ Simple!PopWrapped(t)
    BY <1>0, <2>1, <2>2, <2>3, WrappedStepKeeps
  <2>4. CASE /\ queue' = queue
             /\ (t \in Producers /\ ProducerStep(t)) \/ (t \in Customers /\ CustomerStep(t))
    BY <1>1, <2>1, <2>2, <2>4
  <2> QED
    BY <2>1, <2>3, <2>4, SameSteps DEF Simple!WrappedStep
<1> QED
  BY <1>0, <1>2, <1>3, <1>4, <1>5

\* main starts the next round when all threads are done: the queue is empty then.
LEMMA NextRoundKeeps ==
  ASSUME NEW s, Bench(s), Holds(s), NextRound
  PROVE  s = <<>> /\ taken' = {} /\ Bench(s)' /\ Holds(s)'
<1>0. /\ AllDone /\ round' = round + 1
      /\ pc' = [t \in Threads |-> IF t \in Producers THEN "begin" ELSE "pop"]
      /\ pushCount' = 0 /\ popCount' = 0 /\ customers' = Cardinality(Customers)
      /\ firstFlag' = FALSE /\ item' = [p \in Producers |-> 0] /\ taken' = {} /\ clock' = {}
      /\ UNCHANGED <<kind, data, head, tail, next, alive, headMutex, tailMutex, newTail, queue>>
  BY DEF NextRound, queueVars
<1>1. s = <<>> /\ s \in Seq(Nat) /\ Len(s) = 0
  <2>1. s = <<>>
    BY <1>0, DrainedAtEnd DEF Bench
  <2> QED
    BY <2>1
<1>2. TypeOK' /\ \A t \in Threads : pc'[t] = IF t \in Producers THEN "begin" ELSE "pop"
  BY <1>0 DEF Bench, TypeOK, ProducerPlaces, CustomerPlaces, Threads
<1>3. /\ Last' = {} /\ Gone' = {} /\ Present' = Customers /\ Served' = {} /\ Pending' = {}
      /\ At("end")' = {}
  BY <1>2 DEF Last, Gone, Present, Served, Pending, At, Threads
<1>4. /\ \A u \in Threads : Outside(u) /\ Outside(u)'
      /\ \A p \in Producers : ~ InPush(p)
  BY <1>0, <1>2 DEF AllDone, Outside, InPush, InPop, Threads
<1>5. Bench(s)'
  <2>1. Counters'
    BY <1>0, <1>2, <1>3, SidesFinite DEF Counters, Threads
  <2>2. ClockInv'
    BY <1>0, <1>2, <1>3 DEF ClockInv, Threads
  <2>3. Numbers(s)'
    BY <1>0, <1>1, <1>3, SidesFinite DEF Numbers, Injective
  <2> QED
    BY <1>2, <2>1, <2>2, <2>3 DEF Bench
<1>6. Holds(s)'
  <2>1. kind = "ring" => RingHolds(s)'
    BY <1>0 DEF Holds, RingHolds, Slot
  <2>2. kind = "wrapped" => queue' = s
    BY <1>0 DEF Holds
  <2>3. kind = "list" => \E ns : ListHolds(ns, s)'
    BY <1>0 DEF Holds, ListHolds
  <2>4. kind = "dummy" => \E ns : DummyHolds(ns, s)'
    BY <1>0, <1>4, DummyUntouched DEF Holds
  <2> QED
    BY <1>0, <2>1, <2>2, <2>3, <2>4 DEF Holds
<1> QED
  BY <1>0, <1>1, <1>5, <1>6

\* A step that changes nothing.
LEMMA NothingMoves ==
  ASSUME NEW s, Bench(s), Holds(s), UNCHANGED vars
  PROVE  Bench(s)' /\ Holds(s)'
<1>0. UNCHANGED <<pc, pushCount, popCount, item, taken, customers, firstFlag, clock, kind, round,
                  data, head, tail, next, alive, headMutex, tailMutex, newTail, queue>>
  BY DEF vars, benchVars, queueVars
<1>1. Bench(s)'
  BY <1>0 DEF Bench, TypeOK, Counters, ClockInv, Numbers, Last, Gone, Present, Served, Pending, At
<1>2. \A u \in Threads : pc'[u] = pc[u] \/ (Outside(u) /\ Outside(u)')
  BY <1>0
<1>3. Holds(s)'
  <2>1. kind = "ring" => RingHolds(s)'
    BY <1>0 DEF Holds, RingHolds, Slot
  <2>2. kind = "wrapped" => queue' = s
    BY <1>0 DEF Holds
  <2>3. kind = "list" => \E ns : ListHolds(ns, s)'
    BY <1>0 DEF Holds, ListHolds
  <2>4. kind = "dummy" => \E ns : DummyHolds(ns, s)'
    BY <1>0, <1>2, DummyUntouched DEF Holds
  <2> QED
    BY <1>0, <2>1, <2>2, <2>3, <2>4 DEF Holds
<1> QED
  BY <1>1, <1>3

\* In every state of the benchmark, with each of the five queues, there is a sequence
\* of different numbers that the queue holds, and the counts of the loops are those of
\* the numbers drawn, in the queue and taken.
THEOREM Invariance == Spec => []IInv
<1>1. Init => IInv
  BY InitKeeps DEF IInv
<1>2. IInv /\ [Next]_vars => IInv'
  <2> SUFFICES ASSUME NEW s, Bench(s), Holds(s), [Next]_vars
               PROVE  IInv'
    BY DEF IInv
  <2>1. \E z : Bench(z)' /\ Holds(z)'
    BY StepKeeps, NextRoundKeeps, NothingMoves DEF Next
  <2> QED
    BY <2>1 DEF IInv
<1> QED
  BY <1>1, <1>2, PTL DEF Spec

\* When the futures of a round are ready the queue is empty and every number that was
\* pushed has been popped, once: MAX_LOOP and one more for each thread but one.
THEOREM Drained == Spec => []EndsDrained
<1>1. IInv => EndsDrained
  BY DrainedAtEnd DEF IInv, Bench, EndsDrained
<1> QED
  BY <1>1, Invariance, PTL

\* The last customer reads `end` when the first producer has long read `start`, though
\* no lock orders the two: an element it has counted was pushed after that.
THEOREM ClockReadInOrder == Spec => []ClockInOrder
<1>1. IInv => ClockInOrder
  BY ClockOrdered DEF IInv, Bench
<1> QED
  BY <1>1, Invariance, PTL

\* The ends of the linked queues are used only while they are alive: push reads tail_ of
\* the list only when there is a node, and with the dummy node a pop that has looked at
\* tail_ and a push in progress never touch the same node.
THEOREM Ends == Spec => []EndsUsable
<1>1. IInv => EndsUsable
  <2> SUFFICES ASSUME NEW s, Bench(s), Holds(s) PROVE EndsUsable
    BY DEF IInv
  <2>1. s \in Seq(Nat) /\ TypeOK
    BY DEF Bench, Numbers
  <2>2. kind = "dummy" => Dummy!EndsApart
    BY <2>1, DummyApart DEF Holds
  <2>3. kind = "list" => List!TailUsable
    BY <2>1, ListUsable DEF Holds
  <2> QED
    BY <2>2, <2>3 DEF EndsUsable
<1> QED
  BY <1>1, Invariance, PTL

\* Each of the five queues under its producers and customers, over all rounds,
\* implements FifoQueue: what is popped is what was pushed, first in, first out.
THEOREM Refinement == Spec => ImplementsFifoQueue
<1>1. Init => Fifo!Init
  <2> SUFFICES ASSUME Init PROVE Elements = <<>> /\ taken = {}
    BY DEF Fifo!Init
  <2>1. Elements = <<>>
    BY InitKeeps, ElementsAre
  <2>2. taken = {}
    BY DEF Init, Simple!RingInit, Simple!WrappedInit, Simple!BenchInit, List!Init, List!BenchInit,
       Dummy!Init, Dummy!BenchInit
  <2> QED
    BY <2>1, <2>2
<1>2. (\A s : Bench(s) /\ Holds(s) => Elements = s)'
  BY ElementsAre, PTL
<1>3. IInv /\ [Next]_vars => [\/ Fifo!Pop
                              \/ \E p \in Producers : Fifo!Push(item[p])
                              \/ Elements = <<>> /\ Fifo!Init']_<<Elements, taken>>
  <2> SUFFICES ASSUME NEW s, Bench(s), Holds(s), [Next]_vars
               PROVE  \/ Fifo!Pop
                      \/ \E p \in Producers : Fifo!Push(item[p])
                      \/ Elements = <<>> /\ Fifo!Init'
                      \/ UNCHANGED <<Elements, taken>>
    BY DEF IInv
  <2>1. Elements = s
    BY ElementsAre
  <2>2. CASE \E t \in Threads : Step(t)
    <3>1. PICK z : Bench(z)' /\ Holds(z)' /\ Moved(s, z)
      BY <2>2, StepKeeps
    <3>2. Elements' = z
      BY <1>2, <3>1
    <3> QED
      BY <2>1, <3>1, <3>2 DEF Moved, Fifo!Pop, Fifo!Push
  <2>3. CASE NextRound
    <3>1. s = <<>> /\ taken' = {} /\ Elements' = s
      BY <1>2, <2>3, NextRoundKeeps
    <3> QED
      BY <2>1, <3>1 DEF Fifo!Init
  <2>4. CASE UNCHANGED vars
    <3>1. Elements' = s
      BY <1>2, <2>4, NothingMoves
    <3> QED
      BY <2>1, <2>4, <3>1 DEF vars, benchVars
  <2> QED
    BY <2>2, <2>3, <2>4 DEF Next
<1> QED
  BY <1>1, <1>3, Invariance, PTL DEF Spec, ImplementsFifoQueue
=============================================================================
