------------------------- MODULE FairReserveProofs --------------------------
(***************************************************************************)
(* Proofs about FairReserve, for every list of distinct queues and any     *)
(* number of failing probes: the cursors stay inside their pools, a scan   *)
(* that ends with nothing has probed every queue, and the bound on how     *)
(* often a waiting queue is passed over.                                   *)
(*                                                                         *)
(* The bound is a race between a counter and a distance.  A queue is Ahead *)
(* rounds of its pool behind the cursor of its pool, and its pool is so    *)
(* many pools behind the pool cursor.  A job taken elsewhere raises bypass *)
(* by one and shortens the distance by at least one, unless the scan had   *)
(* already found the observed queue empty: then bypass was 0.              *)
(***************************************************************************)
EXTENDS FairReserve, FiniteSetTheorems, TLAPS

-----------------------------------------------------------------------------
(* The pools of a list: P a sequence of pools, L the list of queues.       *)

PoolsOK(P, L) ==
    /\ P \in Seq(Seq(Range(L))) /\ Len(P) \in Nat \ {0}
    /\ \A k \in 1..Len(P) : P[k] \in Seq(Range(L)) /\ Len(P[k]) \in Nat \ {0}
    /\ \A k, m \in 1..Len(P) : \A i \in 1..Len(P[k]), j \in 1..Len(P[m]) :
          P[k][i] = P[m][j] => k = m /\ i = j
    /\ \A q \in Range(L) : \E k \in 1..Len(P) : \E i \in 1..Len(P[k]) : P[k][i] = q

(***************************************************************************)
(* The steps from position c to position x on a ring of n positions, and   *)
(* the position d steps after c.                                           *)
(***************************************************************************)
Dist(x, c, n) == IF x >= c THEN x - c ELSE x - c + n
Wrap(c, d, n) == (c + d) % n
Past(c, d, n) == (Wrap(c, d, n) + 1) % n

(***************************************************************************)
(* The inductive invariant: P the pools, c and pc the cursors, s the scan, *)
(* pr what it has probed, b the bypass of the queue t.                     *)
(***************************************************************************)
CursorsOK(P, c, pc) ==
    /\ pc \in 0..(Len(P) - 1)
    /\ DOMAIN c = 1..Len(P)
    /\ \A k \in 1..Len(P) : c[k] \in 0..(Len(P[k]) - 1)

ScanOK(P, c, pc, s, pr) ==
    /\ s \in [on : BOOLEAN, i : 0..(Len(P) - 1), j : Nat]
    /\ s.on => s.j < Len(P[Wrap(pc, s.i, Len(P)) + 1])
    /\ s.on => \A k \in 1..Len(P) : Dist(k - 1, pc, Len(P)) < s.i =>
                   \A x \in 1..Len(P[k]) : P[k][x] \in pr
    /\ s.on => \A k \in 1..Len(P) : Dist(k - 1, pc, Len(P)) = s.i =>
                   \A x \in 1..Len(P[k]) : Dist(x - 1, c[k], Len(P[k])) < s.j => P[k][x] \in pr

BypassOK(P, c, pc, t, b) ==
    \A k \in 1..Len(P) : \A x \in 1..Len(P[k]) : P[k][x] = t =>
        b + Dist(x - 1, c[k], Len(P[k])) * Len(P) + Dist(k - 1, pc, Len(P))
            <= Len(P) * Len(P[k]) - 1

FairInv ==
    /\ list \in Lists
    /\ CursorsOK(Pools, cur, poolCur)
    /\ ScanOK(Pools, cur, poolCur, scan, probed)
    /\ BypassOK(Pools, cur, poolCur, tag, bypass)
    /\ avail \subseteq Queue /\ probed \subseteq Queue
    /\ tag \in Queue /\ bypass \in Nat
    /\ tag \notin avail => bypass = 0
    /\ scan.on /\ tag \in probed => bypass = 0
    /\ last \in Queue \cup {"none", "nil", "error"}
    /\ last = "nil" /\ ~scan.on => probed = Queue
    /\ errors \in 0..MaxErrors

-----------------------------------------------------------------------------
(* Rings.                                                                  *)

(***************************************************************************)
(* Positions of a ring and their distances from c correspond.              *)
(***************************************************************************)
LEMMA RingWrap ==
    ASSUME NEW n \in Nat \ {0}, NEW c \in 0..(n - 1), NEW d \in 0..(n - 1)
    PROVE  Wrap(c, d, n) \in 0..(n - 1) /\ Dist(Wrap(c, d, n), c, n) = d
<1>1. CASE c + d < n
  <2>1. (c + d) % n = c + d
    BY <1>1
  <2> QED
    BY <2>1, <1>1 DEF Wrap, Dist
<1>2. CASE c + d >= n
  <2>1. (c + d) % n = c + d - n
    BY <1>2
  <2> QED
    BY <2>1, <1>2 DEF Wrap, Dist
<1> QED
  BY <1>1, <1>2

LEMMA RingDist ==
    ASSUME NEW n \in Nat \ {0}, NEW c \in 0..(n - 1), NEW x \in 0..(n - 1), NEW y \in 0..(n - 1)
    PROVE  Dist(x, c, n) \in 0..(n - 1) /\ (Dist(x, c, n) = Dist(y, c, n) => x = y)
BY DEF Dist

(***************************************************************************)
(* The cursor moves past the position d steps ahead.                       *)
(***************************************************************************)
Moves(c, d, n, c2) ==
    /\ c2 \in 0..(n - 1)
    /\ \A x \in 0..(n - 1) :
          /\ Dist(x, c, n) > d => Dist(x, c2, n) = Dist(x, c, n) - d - 1
          /\ Dist(x, c, n) < d => Dist(x, c2, n) = Dist(x, c, n) - d - 1 + n
          /\ Dist(x, c, n) = d => Dist(x, c2, n) = n - 1

LEMMA RingMove ==
    ASSUME NEW n \in Nat \ {0}, NEW c \in 0..(n - 1), NEW d \in 0..(n - 1)
    PROVE  Moves(c, d, n, Past(c, d, n))
<1>0. PICK c2 : c2 = Past(c, d, n)
  OBVIOUS
<1>1. PICK w \in 0..(n - 1) : w = Wrap(c, d, n)
  BY RingWrap
<1>2. w = IF c + d < n THEN c + d ELSE c + d - n
  <2>1. CASE c + d < n
    BY <2>1, <1>1 DEF Wrap
  <2>2. CASE c + d >= n
    BY <2>2, <1>1 DEF Wrap
  <2> QED
    BY <2>1, <2>2
<1>3. c2 = IF w + 1 < n THEN w + 1 ELSE 0
  <2>1. CASE w + 1 < n
    BY <2>1, <1>0, <1>1 DEF Past
  <2>2. CASE w + 1 = n
    <3>1. (w + 1) % n = w + 1 - n
      BY <2>2
    <3> QED
      BY <2>2, <3>1, <1>0, <1>1 DEF Past
  <2> QED
    BY <2>1, <2>2
<1>4. c2 \in 0..(n - 1)
  BY <1>2, <1>3
<1>5. ASSUME NEW x \in 0..(n - 1)
      PROVE  /\ Dist(x, c, n) > d => Dist(x, c2, n) = Dist(x, c, n) - d - 1
             /\ Dist(x, c, n) < d => Dist(x, c2, n) = Dist(x, c, n) - d - 1 + n
             /\ Dist(x, c, n) = d => Dist(x, c2, n) = n - 1
  BY <1>2, <1>3 DEF Dist
<1> QED
  BY <1>0, <1>4, <1>5 DEF Moves

-----------------------------------------------------------------------------
(* partitionWorkerQueues.                                                  *)

(***************************************************************************)
(* The rank of an element of a finite set of numbers is a bijection.       *)
(***************************************************************************)
Rank(S, i) == Cardinality({k \in S : k <= i})

LEMMA RankFacts ==
    ASSUME NEW S \in SUBSET Nat, IsFiniteSet(S)
    PROVE  /\ Cardinality(S) \in Nat
           /\ \A n \in 1..Cardinality(S) : \E i \in S : Rank(S, i) = n
           /\ \A i \in S : Rank(S, i) \in 1..Cardinality(S)
           /\ \A i, j \in S : Rank(S, i) = Rank(S, j) => i = j
<1> DEFINE Up(i) == {k \in S : k <= i}
           n == Cardinality(S)
<1>0. n \in Nat
  BY FS_CardinalityType
<1>1. ASSUME NEW i \in S
      PROVE  /\ Up(i) \subseteq S /\ i \in Up(i) /\ IsFiniteSet(Up(i))
             /\ Rank(S, i) = Cardinality(Up(i)) /\ Rank(S, i) \in 1..n
  <2>1. Up(i) \subseteq S /\ i \in Up(i)
    OBVIOUS
  <2>2. IsFiniteSet(Up(i)) /\ Cardinality(Up(i)) <= n
    BY <2>1, FS_Subset
  <2>3. Cardinality(Up(i)) \in Nat /\ Cardinality(Up(i)) # 0
    BY <2>1, <2>2, FS_CardinalityType, FS_EmptySet
  <2> QED
    BY <1>0, <2>1, <2>2, <2>3 DEF Rank
<1>2. ASSUME NEW i \in S, NEW j \in S, i < j
      PROVE  Rank(S, i) # Rank(S, j)
  <2>0. i \in Nat /\ j \in Nat /\ \A k \in S : k \in Nat
    OBVIOUS
  <2>1. Up(i) \subseteq Up(j) /\ j \notin Up(i) /\ j \in Up(j)
    <3>1. \A k \in S : k <= i => k <= j
      BY <1>2, <2>0
    <3>2. ~(j <= i) /\ j <= j
      BY <1>2, <2>0
    <3> QED
      BY <3>1, <3>2
  <2>2. IsFiniteSet(Up(j)) /\ Rank(S, i) = Cardinality(Up(i)) /\ Rank(S, j) = Cardinality(Up(j))
    BY <1>1
  <2> HIDE DEF Up
  <2> QED
    BY <2>1, <2>2, FS_Subset
<1>3. \A i, j \in S : Rank(S, i) = Rank(S, j) => i = j
  BY <1>2
<1>4. \A m \in 1..n : \E i \in S : Rank(S, i) = m
  <2> DEFINE f == [i \in S |-> Rank(S, i)]
             T == {Rank(S, i) : i \in S}
  <2>1. T \subseteq 1..n
    BY <1>1
  <2>2. f \in Bijection(S, T)
    BY <1>3 DEF Bijection, Injection, Surjection, IsInjective
  <2>3. IsFiniteSet(1..n) /\ Cardinality(1..n) = n
    BY <1>0, FS_Interval
  <2>4. IsFiniteSet(T)
    BY <2>1, <2>3, FS_Subset
  <2>5. Cardinality(T) = n
    <3>1. ExistsBijection(S, T)
      BY <2>2 DEF ExistsBijection
    <3> HIDE DEF T
    <3> QED
      BY <3>1, <2>4, FS_Bijection
  <2>6. T = 1..n
    <3> HIDE DEF T, n
    <3> QED
      BY <2>1, <2>3, <2>5, FS_Subset
  <2> QED
    BY <2>6
<1> QED
  BY <1>0, <1>1, <1>3, <1>4

(***************************************************************************)
(* The queues of one class, each once.                                     *)
(***************************************************************************)
LEMMA OfFacts ==
    ASSUME NEW l, l \in Seq(Range(l)), \A i, j \in DOMAIN l : l[i] = l[j] => i = j, NEW class
    PROVE  /\ Of(l, class) \in Seq(Range(l)) /\ Len(Of(l, class)) \in Nat
           /\ Of(l, class) # <<>> => Len(Of(l, class)) # 0
           /\ \A n \in 1..Len(Of(l, class)) : Class(Of(l, class)[n]) = class
           /\ \A m, n \in 1..Len(Of(l, class)) : Of(l, class)[m] = Of(l, class)[n] => m = n
           /\ \A q \in Range(l) : Class(q) = class =>
                 \E n \in 1..Len(Of(l, class)) : Of(l, class)[n] = q
<1> DEFINE at == {i \in DOMAIN l : Class(l[i]) = class}
           nth(n) == CHOOSE i \in at : Rank(at, i) = n
           N == Cardinality(at)
           s == [n \in 1..N |-> l[nth(n)]]
<1>1. DOMAIN l = 1..Len(l) /\ Len(l) \in Nat
  OBVIOUS
<1>2. at \subseteq DOMAIN l /\ at \in SUBSET Nat /\ IsFiniteSet(at)
  <2>1. at \subseteq 1..Len(l)
    BY <1>1
  <2>2. IsFiniteSet(1..Len(l)) /\ 1..Len(l) \subseteq Nat
    BY <1>1, FS_Interval
  <2>3. IsFiniteSet(at)
    <3> HIDE DEF at
    <3> QED
      BY <2>1, <2>2, FS_Subset
  <2> QED
    BY <1>1, <2>1, <2>2, <2>3
<1>3. /\ N \in Nat
      /\ \A n \in 1..N : \E i \in at : Rank(at, i) = n
      /\ \A i \in at : Rank(at, i) \in 1..N
      /\ \A i, j \in at : Rank(at, i) = Rank(at, j) => i = j
  <2> HIDE DEF at
  <2> QED
    BY <1>2, RankFacts
<1>4. Of(l, class) = s
  BY DEF Of, Rank
<1>5. \A n \in 1..N : nth(n) \in at /\ Rank(at, nth(n)) = n
  <2> HIDE DEF at
  <2> QED
    BY <1>3
<1>6. \A n \in 1..N : s[n] \in Range(l) /\ Class(s[n]) = class
  BY <1>5 DEF Range
<1>7. s \in Seq(Range(l)) /\ Len(s) = N
  <2> HIDE DEF at, N, nth
  <2>1. s \in [1..N -> Range(l)]
    BY <1>6
  <2> QED
    BY <1>3, <2>1
<1>8. \A m, n \in 1..N : s[m] = s[n] => m = n
  <2> SUFFICES ASSUME NEW m \in 1..N, NEW n \in 1..N, s[m] = s[n] PROVE m = n
    OBVIOUS
  <2>1. nth(m) \in DOMAIN l /\ nth(n) \in DOMAIN l /\ l[nth(m)] = l[nth(n)]
    BY <1>5
  <2>2. nth(m) = nth(n)
    BY <2>1
  <2> HIDE DEF at, nth
  <2> QED
    BY <2>2, <1>5
<1>9. \A q \in Range(l) : Class(q) = class => \E n \in 1..N : s[n] = q
  <2> SUFFICES ASSUME NEW q \in Range(l), Class(q) = class
               PROVE  \E n \in 1..N : s[n] = q
    OBVIOUS
  <2>0. PICK i \in DOMAIN l : l[i] = q
    BY DEF Range
  <2>1. i \in at
    BY <2>0
  <2> HIDE DEF at
  <2>2. PICK n \in 1..N : n = Rank(at, i)
    BY <1>3, <2>1
  <2>3. nth(n) = i
    BY <1>3, <1>5, <2>1, <2>2
  <2> QED
    BY <2>0, <2>3
<1>10. s # <<>> => N # 0
  <2> HIDE DEF s, N
  <2> QED
    BY <1>7
<1> HIDE DEF s, N
<1> QED
  BY <1>3, <1>4, <1>6, <1>7, <1>8, <1>9, <1>10

(***************************************************************************)
(* The pools hold every queue of the list exactly once, none is empty.     *)
(***************************************************************************)
LEMMA PartitionFacts ==
    ASSUME NEW l \in Lists
    PROVE  PoolsOK(PoolsOf[l], l)
<1>1. /\ l \in Seq(Range(l)) /\ Len(l) > 0
      /\ \A i, j \in DOMAIN l : l[i] = l[j] => i = j
      /\ \A i \in DOMAIN l : Class(l[i]) \in {"fetch", "persist", "other"}
  BY ReserveAssumption
<1>2. /\ Len(l) \in Nat \ {0} /\ DOMAIN l = 1..Len(l)
      /\ \A q \in Range(l) : Class(q) \in {"fetch", "persist", "other"}
      /\ \A q \in Range(l) : \E i \in 1..Len(l) : l[i] = q
  BY <1>1 DEF Range
<1> DEFINE f == Of(l, "fetch")
           p == Of(l, "persist")
           o == Of(l, "other")
<1>3. PoolsOf[l] = IF f = <<>> \/ p = <<>> THEN <<l>>
                   ELSE IF o = <<>> THEN <<f, p>> ELSE <<f, p, o>>
  BY DEF PoolsOf, partitionWorkerQueues
<1>4. CASE f = <<>> \/ p = <<>>
  <2>1. PICK P : P = <<l>>
    OBVIOUS
  <2>2. P \in Seq(Seq(Range(l))) /\ Len(P) = 1 /\ P[1] = l
    BY <1>1, <2>1
  <2>3. \A k \in 1..Len(P) : P[k] = l
    BY <2>2
  <2>4. \A k, m \in 1..Len(P) : k = m
    BY <2>2
  <2>5. PoolsOK(P, l)
    <3>1. Len(P) \in Nat \ {0} /\ 1 \in 1..Len(P)
      BY <2>2
    <3>2. \A k \in 1..Len(P) : P[k] \in Seq(Range(l)) /\ Len(P[k]) \in Nat \ {0}
      BY <1>1, <1>2, <2>3
    <3>3. \A k, m \in 1..Len(P) : \A i \in 1..Len(P[k]), j \in 1..Len(P[m]) :
             P[k][i] = P[m][j] => k = m /\ i = j
      BY <1>1, <1>2, <2>3, <2>4
    <3>4. \A q \in Range(l) : \E k \in 1..Len(P) : \E i \in 1..Len(P[k]) : P[k][i] = q
      BY <1>2, <2>3, <3>1
    <3> QED
      BY <2>2, <3>1, <3>2, <3>3, <3>4, Zenon DEF PoolsOK
  <2> QED
    BY <1>3, <1>4, <2>1, <2>5
<1>5. CASE f # <<>> /\ p # <<>>
  <2>1. /\ f \in Seq(Range(l)) /\ Len(f) \in Nat \ {0}
        /\ \A n \in 1..Len(f) : Class(f[n]) = "fetch"
        /\ \A m, n \in 1..Len(f) : f[m] = f[n] => m = n
        /\ \A q \in Range(l) : Class(q) = "fetch" => \E n \in 1..Len(f) : f[n] = q
    BY <1>1, <1>5, OfFacts
  <2>2. /\ p \in Seq(Range(l)) /\ Len(p) \in Nat \ {0}
        /\ \A n \in 1..Len(p) : Class(p[n]) = "persist"
        /\ \A m, n \in 1..Len(p) : p[m] = p[n] => m = n
        /\ \A q \in Range(l) : Class(q) = "persist" => \E n \in 1..Len(p) : p[n] = q
    BY <1>1, <1>5, OfFacts
  <2>3. /\ o \in Seq(Range(l)) /\ Len(o) \in Nat /\ (o # <<>> => Len(o) # 0)
        /\ \A n \in 1..Len(o) : Class(o[n]) = "other"
        /\ \A m, n \in 1..Len(o) : o[m] = o[n] => m = n
        /\ \A q \in Range(l) : Class(q) = "other" => \E n \in 1..Len(o) : o[n] = q
    BY <1>1, OfFacts
  <2> HIDE DEF f, p, o
  <2>4. CASE o = <<>>
    <3>1. PICK P : P = <<f, p>>
      OBVIOUS
    <3>2. P \in Seq(Seq(Range(l))) /\ Len(P) = 2 /\ P[1] = f /\ P[2] = p
      BY <2>1, <2>2, <3>1
    <3>3. \A q \in Range(l) : Class(q) \in {"fetch", "persist"}
      BY <1>2, <2>3, <2>4
    <3>4. PoolsOK(P, l)
      BY <2>1, <2>2, <3>2, <3>3 DEF PoolsOK
    <3> QED
      BY <1>3, <1>5, <2>4, <3>1, <3>4
  <2>5. CASE o # <<>>
    <3>1. PICK P : P = <<f, p, o>>
      OBVIOUS
    <3>2. P \in Seq(Seq(Range(l))) /\ Len(P) = 3 /\ P[1] = f /\ P[2] = p /\ P[3] = o
      BY <2>1, <2>2, <2>3, <3>1
    <3>3. \A k \in 1..Len(P) : P[k] \in Seq(Range(l)) /\ Len(P[k]) \in Nat \ {0}
      BY <2>1, <2>2, <2>3, <2>5, <3>2
    <3>4. \A k, m \in 1..Len(P) : \A i \in 1..Len(P[k]), j \in 1..Len(P[m]) :
             P[k][i] = P[m][j] => k = m /\ i = j
      <4>1. ASSUME NEW k \in 1..Len(P), NEW i \in 1..Len(P[k])
            PROVE  Class(P[k][i]) = IF k = 1 THEN "fetch" ELSE IF k = 2 THEN "persist" ELSE "other"
        BY <2>1, <2>2, <2>3, <3>2
      <4>2. \A k \in 1..Len(P) : \A i, j \in 1..Len(P[k]) : P[k][i] = P[k][j] => i = j
        BY <2>1, <2>2, <2>3, <3>2
      <4>3. \A k, m \in 1..Len(P) : \A i \in 1..Len(P[k]), j \in 1..Len(P[m]) :
               P[k][i] = P[m][j] => k = m
        BY <3>2, <4>1
      <4> QED
        BY <4>2, <4>3
    <3>5. ASSUME NEW q \in Range(l)
          PROVE  \E k \in 1..Len(P) : \E i \in 1..Len(P[k]) : P[k][i] = q
      <4>1. 1 \in 1..Len(P) /\ 2 \in 1..Len(P) /\ 3 \in 1..Len(P)
        BY <3>2
      <4>2. CASE Class(q) = "fetch"
        BY <2>1, <3>2, <4>1, <4>2
      <4>3. CASE Class(q) = "persist"
        BY <2>2, <3>2, <4>1, <4>3
      <4>4. CASE Class(q) = "other"
        BY <2>3, <3>2, <4>1, <4>4
      <4> QED
        BY <1>2, <4>2, <4>3, <4>4
    <3>6. PoolsOK(P, l)
      <4>1. Len(P) \in Nat \ {0}
        BY <3>2
      <4> QED
        BY <3>2, <3>3, <3>4, <3>5, <4>1, Zenon DEF PoolsOK
    <3> QED
      BY <1>3, <1>5, <2>5, <3>1, <3>6
  <2> QED
    BY <2>4, <2>5
<1> QED
  BY <1>4, <1>5

-----------------------------------------------------------------------------
(* The distance of a queue, in jobs taken elsewhere.                       *)

LEMMA Products ==
    ASSUME NEW n \in Nat \ {0}, NEW s \in Nat \ {0}, NEW a \in 0..(s - 1)
    PROVE  a * n \in Nat /\ n * s \in Nat /\ a * n + n <= n * s
<1>1. PICK d \in Nat : s = a + 1 + d
  <2>1. s - a - 1 \in Nat /\ s = a + 1 + (s - a - 1)
    OBVIOUS
  <2> QED
    BY <2>1
<1>2. n * s = a * n + n + n * d
  BY <1>1
<1>3. n * d \in Nat /\ a * n \in Nat /\ n * s \in Nat
  OBVIOUS
<1> QED
  BY <1>2, <1>3

LEMMA WholeRing ==
    ASSUME NEW n \in Nat \ {0}, NEW s \in Nat \ {0}, NEW a \in 0..(s - 1), NEW b \in 0..(n - 1)
    PROVE  0 + a * n + b <= n * s - 1
<1>1. PICK x \in Nat, y \in Nat : x = a * n /\ y = n * s /\ x + n <= y
  BY Products
<1>2. 0 + x + b <= y - 1
  BY <1>1
<1> QED
  BY <1>1, <1>2

(***************************************************************************)
(* One more job is taken elsewhere: the distance shrinks, or the count     *)
(* starts and the cursors have just passed the queue or its pool.          *)
(***************************************************************************)
LEMMA Shorter ==
    ASSUME NEW n \in Nat \ {0}, NEW s \in Nat \ {0}, NEW a \in 0..(s - 1), NEW b \in 0..(n - 1),
           NEW a2 \in 0..(s - 1), NEW b2 \in 0..(n - 1), NEW c \in Nat,
           c + a * n + b <= n * s - 1,
           \/ a2 = a /\ b2 < b
           \/ a2 < a
           \/ c = 0 /\ a2 = a /\ b2 < n - 1
           \/ c = 0 /\ a2 < s - 1
    PROVE  (c + 1) + a2 * n + b2 <= n * s - 1
<1>1. PICK x \in Nat, y \in Nat : x = a * n /\ y = n * s /\ x + n <= y
  BY Products
<1>2. PICK z \in Nat : z = a2 * n /\ z + n <= y
  BY <1>1, Products
<1>3. c + x + b <= y - 1
  BY <1>1
<1>4. CASE a2 = a /\ b2 < b
  <2>1. (c + 1) + x + b2 <= y - 1
    BY <1>1, <1>3, <1>4
  <2> QED
    BY <1>1, <1>4, <2>1
<1>5. CASE a2 < a
  <2>1. z + n <= x
    <3>1. a \in Nat \ {0} /\ a2 \in 0..(a - 1)
      BY <1>5
    <3>2. a2 * n + n <= n * a
      BY <3>1, Products
    <3>3. n * a = a * n
      OBVIOUS
    <3> QED
      BY <1>1, <1>2, <3>2, <3>3
  <2>2. (c + 1) + z + b2 <= y - 1
    BY <1>1, <1>2, <1>3, <2>1
  <2> QED
    BY <1>1, <1>2, <2>2
<1>6. CASE c = 0 /\ a2 = a /\ b2 < n - 1
  <2>1. (c + 1) + x + b2 <= y - 1
    BY <1>1, <1>6
  <2> QED
    BY <1>1, <1>6, <2>1
<1>7. CASE c = 0 /\ a2 < s - 1
  <2>1. z + n + n <= y
    <3>1. a2 + 1 \in 0..(s - 1)
      BY <1>7
    <3>2. (a2 + 1) * n + n <= n * s
      BY <3>1, Products
    <3>3. (a2 + 1) * n = a2 * n + n
      OBVIOUS
    <3> QED
      BY <1>1, <1>2, <3>2, <3>3
  <2>2. (c + 1) + z + b2 <= y - 1
    BY <1>2, <1>7, <2>1
  <2> QED
    BY <1>1, <1>2, <2>2
<1> QED
  BY <1>4, <1>5, <1>6, <1>7

-----------------------------------------------------------------------------
(* One probe.                                                              *)

(***************************************************************************)
(* The scan s is about to probe queue q, at position x0 of pool k0; pr is  *)
(* what it has probed once this probe is counted.                          *)
(***************************************************************************)
Probing(P, L, c, pc, s, k0, x0, q, pr) ==
    /\ k0 \in 1..Len(P) /\ Dist(k0 - 1, pc, Len(P)) = s.i
    /\ s.j \in 0..(Len(P[k0]) - 1)
    /\ x0 \in 0..(Len(P[k0]) - 1) /\ Dist(x0, c[k0], Len(P[k0])) = s.j
    /\ q \in Range(L)
    /\ \A k \in 1..Len(P) : Dist(k - 1, pc, Len(P)) = s.i => k = k0
    /\ \A x \in 1..Len(P[k0]) : Dist(x - 1, c[k0], Len(P[k0])) < s.j + 1 => P[k0][x] \in pr
    /\ s.j + 1 = Len(P[k0]) =>
          \A k \in 1..Len(P) : Dist(k - 1, pc, Len(P)) < s.i + 1 =>
              \A x \in 1..Len(P[k]) : P[k][x] \in pr

LEMMA ProbeFacts ==
    ASSUME NEW P, NEW L, PoolsOK(P, L), NEW c, NEW pc, CursorsOK(P, c, pc),
           NEW s, NEW pr, ScanOK(P, c, pc, s, pr), s.on,
           NEW k0, k0 = Wrap(pc, s.i, Len(P)) + 1,
           NEW x0, x0 = Wrap(c[k0], s.j, Len(P[k0])), NEW q, q = P[k0][x0 + 1]
    PROVE  Probing(P, L, c, pc, s, k0, x0, q, pr \cup {q})
<1> DEFINE n == Len(P)
           m == Len(P[k0])
<1>1. n \in Nat \ {0} /\ pc \in 0..(n - 1) /\ s.i \in 0..(n - 1) /\ s.j \in Nat
  BY DEF PoolsOK, CursorsOK, ScanOK
<1>2. PICK w \in 0..(n - 1) : w = Wrap(pc, s.i, n) /\ Dist(w, pc, n) = s.i
  BY <1>1, RingWrap
<1>3. k0 \in 1..n /\ k0 - 1 = w /\ Dist(k0 - 1, pc, n) = s.i
  <2>1. k0 = w + 1 /\ w \in Nat /\ w < n
    BY <1>1, <1>2
  <2>2. k0 \in 1..n /\ k0 - 1 = w
    BY <1>1, <2>1
  <2> QED
    BY <1>2, <2>2
<1>4. m \in Nat \ {0} /\ P[k0] \in Seq(Range(L)) /\ c[k0] \in 0..(m - 1)
  BY <1>3 DEF PoolsOK, CursorsOK
<1>5. s.j \in 0..(m - 1)
  <2>1. s.j < m
    BY DEF ScanOK
  <2> QED
    BY <1>1, <1>4, <2>1
<1>6. x0 \in 0..(m - 1) /\ Dist(x0, c[k0], m) = s.j
  <2> HIDE DEF m
  <2> QED
    BY <1>4, <1>5, RingWrap DEF m
<1>7. q \in Range(L)
  <2>1. x0 + 1 \in 1..m
    BY <1>4, <1>6
  <2> QED
    BY <1>4, <2>1
<1>8. \A k \in 1..n : Dist(k - 1, pc, n) = s.i => k = k0
  <2> SUFFICES ASSUME NEW k \in 1..n, Dist(k - 1, pc, n) = s.i PROVE k = k0
    OBVIOUS
  <2>1. PICK u \in 0..(n - 1) : u = k - 1
    BY <1>1
  <2>2. u = w
    BY <1>1, <1>2, <2>1, RingDist
  <2> QED
    BY <1>3, <2>1, <2>2
<1>9. ASSUME NEW x \in 1..m, Dist(x - 1, c[k0], m) < s.j + 1
      PROVE  P[k0][x] \in pr \cup {q}
  <2>1. PICK u \in 0..(m - 1) : u = x - 1 /\ x = u + 1
    BY <1>4
  <2>2. Dist(u, c[k0], m) \in 0..(m - 1)
    BY <1>4, RingDist
  <2>3. Dist(u, c[k0], m) < s.j \/ Dist(u, c[k0], m) = s.j
    BY <1>5, <1>9, <2>1, <2>2
  <2>4. CASE Dist(u, c[k0], m) < s.j
    BY <1>3, <2>1, <2>4 DEF ScanOK
  <2>5. CASE Dist(u, c[k0], m) = s.j
    <3>1. u = x0
      <4>1. PICK y \in 0..(m - 1) : y = c[k0]
        BY <1>4
      <4>2. Dist(u, y, m) = Dist(x0, y, m)
        BY <1>6, <2>5, <4>1
      <4>3. m \in Nat \ {0} /\ x0 \in 0..(m - 1)
        BY <1>4, <1>6
      <4> HIDE DEF m
      <4> QED
        BY <4>2, <4>3, RingDist
    <3> QED
      BY <2>1, <3>1
  <2> QED
    BY <2>3, <2>4, <2>5
<1>10. ASSUME s.j + 1 = m, NEW k \in 1..n, Dist(k - 1, pc, n) < s.i + 1, NEW x \in 1..Len(P[k])
       PROVE  P[k][x] \in pr \cup {q}
  <2>1. PICK u \in 0..(n - 1) : u = k - 1
    BY <1>1
  <2>2. Dist(u, pc, n) \in 0..(n - 1)
    BY <1>1, RingDist
  <2>3. Dist(u, pc, n) < s.i \/ Dist(u, pc, n) = s.i
    BY <1>1, <1>10, <2>1, <2>2
  <2>4. CASE Dist(u, pc, n) < s.i
    BY <2>1, <2>4 DEF ScanOK
  <2>5. CASE Dist(u, pc, n) = s.i
    <3>1. k = k0
      BY <1>8, <2>1, <2>5
    <3>2. PICK v \in 0..(m - 1) : v = x - 1
      BY <1>4, <3>1
    <3>3. Dist(v, c[k0], m) \in 0..(m - 1)
      BY <1>4, RingDist
    <3>4. Dist(x - 1, c[k0], m) < s.j + 1
      BY <1>4, <1>10, <3>2, <3>3
    <3> QED
      BY <1>9, <3>1, <3>4
  <2> QED
    BY <2>3, <2>4, <2>5
<1> HIDE DEF n, m
<1> QED
  BY <1>3, <1>5, <1>6, <1>7, <1>8, <1>9, <1>10 DEF n, m, Probing

(***************************************************************************)
(* The scan in terms of the model's own operators.                         *)
(***************************************************************************)
LEMMA PoolsAlways ==
    ASSUME list \in Lists
    PROVE  PoolsOK(Pools, list) /\ Queue = Range(list) /\ NumPools = Len(Pools)
BY PartitionFacts DEF Pools, Queue, NumPools

LEMMA ScanAt ==
    /\ PoolAt = Wrap(poolCur, scan.i, Len(Pools)) + 1
    /\ SizeAt = Len(Pools[PoolAt])
    /\ IndexAt = Wrap(cur[PoolAt], scan.j, Len(Pools[PoolAt]))
    /\ QueueAt = Pools[PoolAt][IndexAt + 1]
BY DEF PoolAt, SizeAt, IndexAt, QueueAt, Wrap, NumPools

(***************************************************************************)
(* A step that leaves the cursors and the list alone.                      *)
(***************************************************************************)
LEMMA SameCursors ==
    ASSUME UNCHANGED <<list, cur, poolCur>>
    PROVE  Pools' = Pools /\ Queue' = Queue
BY DEF Pools, Queue

LEMMA IdleScan ==
    ASSUME NEW P, NEW c, NEW pc, NEW pr, Len(P) \in Nat \ {0}
    PROVE  ScanOK(P, c, pc, Idle, pr) /\ ~Idle.on
<1>1. 0 \in 0..(Len(P) - 1)
  OBVIOUS
<1> QED
  BY <1>1 DEF ScanOK, Idle

(***************************************************************************)
(* A smaller bypass is within the bound as well.                           *)
(***************************************************************************)
LEMMA BypassLess ==
    ASSUME NEW P, NEW L, PoolsOK(P, L), NEW c, NEW pc, CursorsOK(P, c, pc), NEW t
    PROVE  BypassOK(P, c, pc, t, 0)
<1> SUFFICES ASSUME NEW k \in 1..Len(P), NEW x \in 1..Len(P[k])
             PROVE  0 + Dist(x - 1, c[k], Len(P[k])) * Len(P) + Dist(k - 1, pc, Len(P))
                       <= Len(P) * Len(P[k]) - 1
  BY DEF BypassOK
<1>1. PICK n \in Nat \ {0}, m \in Nat \ {0} : n = Len(P) /\ m = Len(P[k])
  BY DEF PoolsOK
<1>2. PICK u \in 0..(m - 1), v \in 0..(n - 1) : u = x - 1 /\ v = k - 1
  BY <1>1
<1>3. c[k] \in 0..(m - 1) /\ pc \in 0..(n - 1)
  BY <1>1 DEF CursorsOK
<1>4. PICK a \in 0..(m - 1), b \in 0..(n - 1) : a = Dist(u, c[k], m) /\ b = Dist(v, pc, n)
  BY <1>3, RingDist
<1>5. 0 + a * n + b <= n * m - 1
  BY WholeRing
<1> QED
  BY <1>1, <1>2, <1>4, <1>5

LEMMA ArriveInv ==
    ASSUME FairInv, NEW q \in Queue, Arrive(q)
    PROVE  FairInv'
<1>1. UNCHANGED <<list, cur, poolCur, scan, probed, last, tag, bypass, errors>>
      /\ avail' = avail \cup {q} /\ Pools' = Pools /\ Queue' = Queue
  BY SameCursors DEF Arrive
<1> QED
  BY <1>1 DEF FairInv

LEMMA DrainInv ==
    ASSUME FairInv, NEW q \in Queue, Drain(q)
    PROVE  FairInv'
<1>1. UNCHANGED <<list, cur, poolCur, scan, probed, last, tag, errors>>
      /\ avail' = avail \ {q} /\ bypass' = (IF q = tag THEN 0 ELSE bypass)
      /\ Pools' = Pools /\ Queue' = Queue
  BY SameCursors DEF Drain
<1>2. BypassOK(Pools, cur, poolCur, tag, 0)
  BY PoolsAlways, BypassLess DEF FairInv
<1>3. BypassOK(Pools, cur, poolCur, tag, bypass')
  BY <1>1, <1>2 DEF FairInv
<1> QED
  BY <1>1, <1>3 DEF FairInv

LEMMA BeginInv ==
    ASSUME FairInv, Begin
    PROVE  FairInv'
<1>1. /\ scan' = [on |-> TRUE, i |-> 0, j |-> 0] /\ probed' = {}
      /\ UNCHANGED <<list, cur, poolCur, avail, last, tag, bypass, errors>>
      /\ Pools' = Pools /\ Queue' = Queue
  BY SameCursors DEF Begin
<1>2. PICK P : P = Pools
  OBVIOUS
<1>3. PoolsOK(P, list) /\ CursorsOK(P, cur, poolCur)
  BY <1>2, PoolsAlways DEF FairInv
<1>4. PICK n \in Nat \ {0} : n = Len(P) /\ poolCur \in 0..(n - 1) /\ 0 \in 0..(n - 1)
  BY <1>3 DEF PoolsOK, CursorsOK
<1>5. PICK w \in 0..(n - 1) : w = Wrap(poolCur, 0, n)
  BY <1>4, RingWrap
<1>6. w + 1 \in 1..n
  OBVIOUS
<1>7. 0 < Len(P[w + 1])
  BY <1>3, <1>4, <1>6 DEF PoolsOK
<1>8. \A k \in 1..n : ~(Dist(k - 1, poolCur, n) < 0)
  BY <1>4 DEF Dist
<1>9. \A k \in 1..n : \A x \in 1..Len(P[k]) : ~(Dist(x - 1, cur[k], Len(P[k])) < 0)
  <2> SUFFICES ASSUME NEW k \in 1..n, NEW x \in 1..Len(P[k])
               PROVE  ~(Dist(x - 1, cur[k], Len(P[k])) < 0)
    OBVIOUS
  <2>1. PICK m \in Nat \ {0} : m = Len(P[k]) /\ cur[k] \in 0..(m - 1)
    BY <1>3, <1>4 DEF PoolsOK, CursorsOK
  <2>2. PICK u \in 0..(m - 1) : u = x - 1
    BY <2>1
  <2>3. Dist(u, cur[k], m) \in 0..(m - 1)
    BY <2>1, RingDist
  <2> QED
    BY <2>1, <2>2, <2>3
<1>10. ScanOK(P, cur, poolCur, scan', {})
  <2>1. scan'.on /\ scan'.i = 0 /\ scan'.j = 0
        /\ scan' \in [on : BOOLEAN, i : 0..(n - 1), j : Nat]
    BY <1>1, <1>4
  <2> QED
    BY <1>4, <1>5, <1>7, <1>8, <1>9, <2>1 DEF ScanOK
<1> QED
  BY <1>1, <1>2, <1>10 DEF FairInv

LEMMA ProbeErrorInv ==
    ASSUME FairInv, ProbeError
    PROVE  FairInv'
<1>1. /\ scan' = Idle /\ last' = "error" /\ errors < MaxErrors /\ errors' = errors + 1
      /\ UNCHANGED <<list, cur, poolCur, avail, probed, tag, bypass>>
      /\ Pools' = Pools /\ Queue' = Queue
  BY SameCursors DEF ProbeError
<1>2. Len(Pools) \in Nat \ {0}
  BY PoolsAlways DEF FairInv, PoolsOK
<1>3. ScanOK(Pools, cur, poolCur, scan', probed) /\ ~scan'.on
  BY <1>1, <1>2, IdleScan
<1>4. errors' \in 0..MaxErrors
  BY <1>1, ReserveAssumption DEF FairInv
<1> QED
  BY <1>1, <1>3, <1>4 DEF FairInv

LEMMA MissInv ==
    ASSUME FairInv, Miss
    PROVE  FairInv'
<1>1. /\ scan.on /\ QueueAt \notin avail /\ probed' = probed \cup {QueueAt}
      /\ UNCHANGED <<list, cur, poolCur, avail, tag, bypass, errors>>
      /\ Pools' = Pools /\ Queue' = Queue
  BY SameCursors DEF Miss
<1>2. PICK P, L, k0, x0, q : P = Pools /\ L = list /\ k0 = PoolAt /\ x0 = IndexAt /\ q = QueueAt
  OBVIOUS
<1>3. /\ PoolsOK(P, L) /\ CursorsOK(P, cur, poolCur) /\ ScanOK(P, cur, poolCur, scan, probed)
      /\ L \in Lists /\ Queue = Range(L)
  BY <1>2, PoolsAlways DEF FairInv
<1>4. /\ k0 = Wrap(poolCur, scan.i, Len(P)) + 1
      /\ x0 = Wrap(cur[k0], scan.j, Len(P[k0])) /\ q = P[k0][x0 + 1] /\ SizeAt = Len(P[k0])
  BY <1>2, ScanAt
<1>5. /\ k0 \in 1..Len(P) /\ Dist(k0 - 1, poolCur, Len(P)) = scan.i
      /\ scan.j \in 0..(Len(P[k0]) - 1) /\ q \in Range(L)
      /\ \A k \in 1..Len(P) : Dist(k - 1, poolCur, Len(P)) = scan.i => k = k0
      /\ \A x \in 1..Len(P[k0]) : Dist(x - 1, cur[k0], Len(P[k0])) < scan.j + 1 =>
            P[k0][x] \in probed \cup {q}
      /\ scan.j + 1 = Len(P[k0]) =>
            \A k \in 1..Len(P) : Dist(k - 1, poolCur, Len(P)) < scan.i + 1 =>
                \A x \in 1..Len(P[k]) : P[k][x] \in probed \cup {q}
  <2>1. PICK c, pc, s, pr : c = cur /\ pc = poolCur /\ s = scan /\ pr = probed
    OBVIOUS
  <2>2. /\ PoolsOK(P, L) /\ CursorsOK(P, c, pc) /\ ScanOK(P, c, pc, s, pr) /\ s.on
        /\ k0 = Wrap(pc, s.i, Len(P)) + 1
        /\ x0 = Wrap(c[k0], s.j, Len(P[k0])) /\ q = P[k0][x0 + 1]
    BY <1>1, <1>3, <1>4, <2>1
  <2>3. Probing(P, L, c, pc, s, k0, x0, q, pr \cup {q})
    BY <2>2, ProbeFacts
  <2> QED
    BY <2>1, <2>3 DEF Probing
<1>6. PICK n \in Nat \ {0}, pr \in {probed \cup {q}} : n = Len(P) /\ pr = probed \cup {q}
  BY <1>3 DEF PoolsOK
<1>7. poolCur \in 0..(n - 1) /\ scan \in [on : BOOLEAN, i : 0..(n - 1), j : Nat]
  BY <1>3, <1>6 DEF CursorsOK, ScanOK
<1>8. pr \subseteq Range(L) /\ probed' = pr
  BY <1>1, <1>2, <1>3, <1>5, <1>6 DEF FairInv
<1>9. tag \in pr => bypass = 0
  BY <1>1, <1>2, <1>6 DEF FairInv
<1>10. CASE scan.j + 1 < SizeAt /\ scan' = [scan EXCEPT !.j = @ + 1] /\ last' = last
  <2>1. scan' \in [on : BOOLEAN, i : 0..(n - 1), j : Nat]
    BY <1>7, <1>10
  <2>2. scan'.on /\ scan'.i = scan.i /\ scan'.j = scan.j + 1
    BY <1>1, <1>7, <1>10
  <2>3. \A k \in 1..n : Dist(k - 1, poolCur, n) < scan.i => \A x \in 1..Len(P[k]) : P[k][x] \in pr
    BY <1>1, <1>3, <1>6 DEF ScanOK
  <2>4. \A k \in 1..n : Dist(k - 1, poolCur, n) = scan.i =>
           \A x \in 1..Len(P[k]) : Dist(x - 1, cur[k], Len(P[k])) < scan.j + 1 => P[k][x] \in pr
    BY <1>5, <1>6
  <2>5. scan.j + 1 < Len(P[Wrap(poolCur, scan.i, n) + 1])
    BY <1>4, <1>6, <1>10
  <2>6. ScanOK(P, cur, poolCur, scan', pr)
    BY <1>6, <2>1, <2>2, <2>3, <2>4, <2>5 DEF ScanOK
  <2> QED
    BY <1>1, <1>2, <1>3, <1>8, <1>9, <1>10, <2>2, <2>6 DEF FairInv
<1>11. CASE scan.j + 1 = SizeAt /\ scan.i + 1 < NumPools
            /\ scan' = [scan EXCEPT !.i = @ + 1, !.j = 0] /\ last' = last
  <2>0. scan.i + 1 < n
    BY <1>2, <1>6, <1>11 DEF NumPools
  <2>1. scan' \in [on : BOOLEAN, i : 0..(n - 1), j : Nat]
    <3>1. scan.i + 1 \in 0..(n - 1)
      BY <1>7, <2>0
    <3>2. PICK s \in [on : BOOLEAN, i : 0..(n - 1), j : Nat] : s = [scan EXCEPT !.i = scan.i + 1]
      BY <1>7, <3>1
    <3>3. scan' = [s EXCEPT !.j = 0]
      BY <1>7, <1>11, <3>2
    <3> QED
      BY <3>2, <3>3
  <2>2. scan'.on /\ scan'.i = scan.i + 1 /\ scan'.j = 0
    BY <1>1, <1>7, <1>11
  <2>3. \A k \in 1..n : Dist(k - 1, poolCur, n) < scan.i + 1 =>
           \A x \in 1..Len(P[k]) : P[k][x] \in pr
    BY <1>4, <1>5, <1>6, <1>11
  <2>4. \A k \in 1..n : \A x \in 1..Len(P[k]) : ~(Dist(x - 1, cur[k], Len(P[k])) < 0)
    <3> SUFFICES ASSUME NEW k \in 1..n, NEW x \in 1..Len(P[k])
                 PROVE  ~(Dist(x - 1, cur[k], Len(P[k])) < 0)
      OBVIOUS
    <3>1. PICK m \in Nat \ {0} : m = Len(P[k]) /\ cur[k] \in 0..(m - 1)
      BY <1>3, <1>6 DEF PoolsOK, CursorsOK
    <3>2. PICK u \in 0..(m - 1) : u = x - 1
      BY <3>1
    <3>3. Dist(u, cur[k], m) \in 0..(m - 1)
      BY <3>1, RingDist
    <3> QED
      BY <3>1, <3>2, <3>3
  <2>5. 0 < Len(P[Wrap(poolCur, scan.i + 1, n) + 1])
    <3>1. PICK d \in 0..(n - 1) : d = scan.i + 1
      BY <1>7, <2>0
    <3>2. PICK w \in 0..(n - 1) : w = Wrap(poolCur, d, n)
      BY <1>7, RingWrap
    <3>3. w + 1 \in 1..n
      OBVIOUS
    <3> QED
      BY <1>3, <1>6, <3>1, <3>2, <3>3 DEF PoolsOK
  <2>6. ScanOK(P, cur, poolCur, scan', pr)
    BY <1>6, <2>1, <2>2, <2>3, <2>4, <2>5 DEF ScanOK
  <2> QED
    BY <1>1, <1>2, <1>3, <1>8, <1>9, <1>11, <2>2, <2>6 DEF FairInv
<1>12. CASE scan.j + 1 = SizeAt /\ scan.i + 1 = NumPools /\ scan' = Idle /\ last' = "nil"
  <2>1. scan.i + 1 = n
    BY <1>2, <1>6, <1>12 DEF NumPools
  <2>2. ASSUME NEW k \in 1..n, NEW x \in 1..Len(P[k])
        PROVE  P[k][x] \in pr
    <3>1. PICK v \in 0..(n - 1) : v = k - 1
      BY <1>6
    <3>2. Dist(v, poolCur, n) \in 0..(n - 1)
      BY <1>7, RingDist
    <3>3. Dist(k - 1, poolCur, n) < scan.i + 1
      BY <2>1, <3>1, <3>2
    <3> QED
      BY <1>4, <1>5, <1>6, <1>12, <3>3
  <2>3. pr = Range(L)
    <3>1. ASSUME NEW y \in Range(L) PROVE y \in pr
      <4>1. PICK k \in 1..n : \E x \in 1..Len(P[k]) : P[k][x] = y
        BY <1>3, <1>6 DEF PoolsOK
      <4> QED
        BY <4>1, <2>2
    <3> QED
      BY <1>8, <3>1
  <2>4. ScanOK(P, cur, poolCur, scan', pr) /\ ~scan'.on
    BY <1>6, <1>12, IdleScan
  <2> QED
    BY <1>1, <1>2, <1>3, <1>8, <1>12, <2>3, <2>4 DEF FairInv
<1> QED
  BY <1>10, <1>11, <1>12 DEF Miss

(***************************************************************************)
(* What a job taken elsewhere does to the distance of queue t.             *)
(***************************************************************************)
Moved(P, c, pc, s, k0, x0, q, c2, pc2) ==
    /\ k0 = Wrap(pc, s.i, Len(P)) + 1
    /\ x0 = Wrap(c[k0], s.j, Len(P[k0])) /\ q = P[k0][x0 + 1]
    /\ c2 = [c EXCEPT ![k0] = (x0 + 1) % Len(P[k0])] /\ pc2 = k0 % Len(P)

LEMMA TakeBypass ==
    ASSUME NEW P, NEW L, PoolsOK(P, L), NEW c, NEW pc, CursorsOK(P, c, pc),
           NEW s, NEW pr, ScanOK(P, c, pc, s, pr), s.on,
           NEW k0, NEW x0, NEW q, NEW c2, NEW pc2, Moved(P, c, pc, s, k0, x0, q, c2, pc2),
           NEW t, NEW b \in Nat, BypassOK(P, c, pc, t, b), t \in pr => b = 0
    PROVE  /\ CursorsOK(P, c2, pc2)
           /\ t # q => BypassOK(P, c2, pc2, t, b + 1)
<1>00. /\ k0 = Wrap(pc, s.i, Len(P)) + 1
      /\ x0 = Wrap(c[k0], s.j, Len(P[k0])) /\ q = P[k0][x0 + 1]
      /\ c2 = [c EXCEPT ![k0] = (x0 + 1) % Len(P[k0])] /\ pc2 = k0 % Len(P)
  BY DEF Moved
<1>01. PICK n \in Nat \ {0} : n = Len(P)
  BY DEF PoolsOK
<1>0. PICK i \in 0..(n - 1), j \in Nat : n = Len(P) /\ i = s.i /\ j = s.j
  BY <1>01 DEF ScanOK
<1>1. /\ k0 \in 1..n /\ Dist(k0 - 1, pc, n) = i
      /\ j \in 0..(Len(P[k0]) - 1)
      /\ x0 \in 0..(Len(P[k0]) - 1) /\ Dist(x0, c[k0], Len(P[k0])) = j
      /\ \A k \in 1..n : Dist(k - 1, pc, n) = i => k = k0
  <2>1. /\ k0 \in 1..Len(P) /\ Dist(k0 - 1, pc, Len(P)) = s.i
        /\ s.j \in 0..(Len(P[k0]) - 1)
        /\ x0 \in 0..(Len(P[k0]) - 1) /\ Dist(x0, c[k0], Len(P[k0])) = s.j
        /\ \A k \in 1..Len(P) : Dist(k - 1, pc, Len(P)) = s.i => k = k0
    BY <1>00, ProbeFacts DEF Probing
  <2> QED
    BY <1>0, <2>1
<1>2. pc \in 0..(n - 1)
      /\ \A k \in 1..n : Len(P[k]) \in Nat \ {0} /\ c[k] \in 0..(Len(P[k]) - 1)
  BY <1>0 DEF PoolsOK, CursorsOK
<1>3. DOMAIN c = 1..n /\ DOMAIN c2 = 1..n /\ c2[k0] = (x0 + 1) % Len(P[k0])
      /\ \A k \in 1..n : k # k0 => c2[k] = c[k]
  BY <1>00, <1>0, <1>1 DEF CursorsOK
<1>4. pc2 = Past(pc, i, n)
  BY <1>00, <1>0 DEF Past
<1>5. Moves(pc, i, n, pc2)
  BY <1>2, <1>4, RingMove
<1>6. PICK m \in Nat \ {0} : m = Len(P[k0]) /\ j \in 0..(m - 1)
  BY <1>1, <1>2
<1>7. PICK y \in 0..(m - 1) : y = c[k0]
  BY <1>1, <1>2, <1>6
<1>8. PICK y2 : y2 = c2[k0]
  OBVIOUS
<1>9. Moves(y, j, m, y2)
  <2>1. y2 = Past(y, j, m)
    BY <1>00, <1>0, <1>3, <1>6, <1>7, <1>8 DEF Past
  <2> QED
    BY <1>6, <2>1, RingMove
<1>10. CursorsOK(P, c2, pc2)
  <2>2. pc2 \in 0..(n - 1) /\ y2 \in 0..(m - 1)
    BY <1>5, <1>9 DEF Moves
  <2> QED
    BY <1>0, <1>2, <1>3, <1>6, <1>8, <2>2 DEF CursorsOK
<1>11. ASSUME t # q, NEW k \in 1..n, NEW x \in 1..Len(P[k]), P[k][x] = t
       PROVE  (b + 1) + Dist(x - 1, c2[k], Len(P[k])) * n + Dist(k - 1, pc2, n)
                 <= n * Len(P[k]) - 1
  <2>1. PICK z \in Nat \ {0} : z = Len(P[k])
    BY <1>2
  <2>2. PICK u \in 0..(z - 1), v \in 0..(n - 1) : u = x - 1 /\ v = k - 1 /\ x = u + 1 /\ k = v + 1
    BY <1>2, <2>1
  <2>3. c[k] \in 0..(z - 1) /\ c2[k] \in 0..(z - 1) /\ pc2 \in 0..(n - 1)
    BY <1>0, <1>2, <1>10, <2>1 DEF CursorsOK
  <2>4. PICK a \in 0..(z - 1), a2 \in 0..(z - 1) : a = Dist(u, c[k], z) /\ a2 = Dist(u, c2[k], z)
    BY <2>3, RingDist
  <2>5. PICK d \in 0..(n - 1), d2 \in 0..(n - 1) : d = Dist(v, pc, n) /\ d2 = Dist(v, pc2, n)
    BY <1>2, <2>3, RingDist
  <2>6. b + a * n + d <= n * z - 1
    BY <1>0, <1>11, <2>1, <2>2, <2>4, <2>5 DEF BypassOK
  <2>7. /\ d > i => d2 = d - i - 1
        /\ d < i => d2 = d - i - 1 + n
    BY <1>5, <2>5 DEF Moves
  <2>8. CASE k # k0
    <3>1. a2 = a
      BY <1>3, <2>4, <2>8
    <3>2. d # i
      BY <1>1, <2>2, <2>5, <2>8
    <3>3. CASE d > i
      <4>1. d2 < d
        BY <1>2, <2>7, <3>3
      <4>9. (b + 1) + a2 * n + d2 <= n * z - 1
        BY <2>6, <3>1, <4>1, Shorter
      <4> QED
        BY <2>1, <2>2, <2>4, <2>5, <4>9
    <3>4. CASE d < i
      <4>1. d2 < n - 1
        BY <1>2, <2>7, <3>4
      <4>2. t \in pr
        BY <1>0, <1>11, <2>2, <2>5, <3>4 DEF ScanOK
      <4>9. (b + 1) + a2 * n + d2 <= n * z - 1
        BY <2>6, <3>1, <4>1, <4>2, Shorter
      <4> QED
        BY <2>1, <2>2, <2>4, <2>5, <4>9
    <3> QED
      BY <1>2, <3>2, <3>3, <3>4
  <2>9. CASE k = k0
    <3>0. z = m /\ c[k] = y /\ c2[k] = y2
      BY <1>6, <1>7, <1>8, <2>1, <2>9
    <3>1. /\ a > j => a2 = a - j - 1
          /\ a < j => a2 = a - j - 1 + z
      BY <1>9, <2>4, <3>0 DEF Moves
    <3>2. a # j
      <4>1. ASSUME a = j PROVE FALSE
        <5>1. Dist(u, y, m) = Dist(x0, y, m) /\ x0 \in 0..(m - 1) /\ u \in 0..(m - 1)
          BY <1>1, <1>6, <1>7, <2>4, <3>0, <4>1
        <5>2. u = x0
          BY <5>1, RingDist
        <5> QED
          BY <1>00, <1>11, <2>2, <2>9, <5>2
      <4> QED
        BY <4>1
    <3>3. CASE a > j
      <4>1. a2 < a
        BY <1>1, <3>1, <3>3
      <4>9. (b + 1) + a2 * n + d2 <= n * z - 1
        BY <2>6, <4>1, Shorter
      <4> QED
        BY <2>1, <2>2, <2>4, <2>5, <4>9
    <3>4. CASE a < j
      <4>1. a2 < z - 1
        BY <1>1, <3>1, <3>4
      <4>2. t \in pr
        BY <1>0, <1>1, <1>11, <2>1, <2>2, <2>4, <2>9, <3>4 DEF ScanOK
      <4>9. (b + 1) + a2 * n + d2 <= n * z - 1
        BY <2>6, <4>1, <4>2, Shorter
      <4> QED
        BY <2>1, <2>2, <2>4, <2>5, <4>9
    <3> QED
      BY <1>1, <3>2, <3>3, <3>4
  <2> QED
    BY <2>8, <2>9
<1> QED
  BY <1>0, <1>10, <1>11 DEF BypassOK

LEMMA TakeInv ==
    ASSUME FairInv, Take
    PROVE  FairInv'
<1>1. /\ scan.on /\ QueueAt \in avail /\ avail' \in {avail, avail \ {QueueAt}}
      /\ cur' = [cur EXCEPT ![PoolAt] = (IndexAt + 1) % SizeAt] /\ poolCur' = PoolAt % NumPools
      /\ last' = QueueAt /\ scan' = Idle
      /\ bypass' = (IF tag \in avail /\ tag # QueueAt THEN bypass + 1 ELSE 0)
      /\ UNCHANGED <<list, probed, tag, errors>>
  BY DEF Take
<1>2. Pools' = Pools /\ Queue' = Queue
  BY <1>1 DEF Pools, Queue
<1>3. PICK P, L, k0, x0, q : P = Pools /\ L = list /\ k0 = PoolAt /\ x0 = IndexAt /\ q = QueueAt
  OBVIOUS
<1>4. PICK c, pc, s, pr, t, b : /\ c = cur /\ pc = poolCur /\ s = scan /\ pr = probed
                                /\ t = tag /\ b = bypass
  OBVIOUS
<1>5. PICK c2, pc2 : c2 = cur' /\ pc2 = poolCur'
  OBVIOUS
<1>6. /\ PoolsOK(P, L) /\ CursorsOK(P, c, pc) /\ ScanOK(P, c, pc, s, pr) /\ s.on
      /\ BypassOK(P, c, pc, t, b) /\ b \in Nat /\ (t \in pr => b = 0) /\ Queue = Range(L)
  BY <1>1, <1>3, <1>4, PoolsAlways DEF FairInv
<1>7. /\ k0 = Wrap(pc, s.i, Len(P)) + 1
      /\ x0 = Wrap(c[k0], s.j, Len(P[k0])) /\ q = P[k0][x0 + 1] /\ SizeAt = Len(P[k0])
  BY <1>3, <1>4, ScanAt
<1>8. c2 = [c EXCEPT ![k0] = (x0 + 1) % Len(P[k0])] /\ pc2 = k0 % Len(P)
  BY <1>1, <1>3, <1>4, <1>5, <1>7 DEF NumPools
<1>9. CursorsOK(P, c2, pc2) /\ (t # q => BypassOK(P, c2, pc2, t, b + 1))
  <2>1. Moved(P, c, pc, s, k0, x0, q, c2, pc2)
    BY <1>7, <1>8 DEF Moved
  <2> QED
    BY <1>6, <2>1, TakeBypass
<1>10. BypassOK(P, c2, pc2, t, 0)
  BY <1>6, <1>9, BypassLess
<1>11. BypassOK(P, c2, pc2, tag, bypass')
  BY <1>1, <1>3, <1>4, <1>9, <1>10
<1>12. q \in Range(L)
  <2>1. Probing(P, L, c, pc, s, k0, x0, q, pr \cup {q})
    BY <1>6, <1>7, ProbeFacts
  <2> QED
    BY <2>1 DEF Probing
<1>13. ScanOK(P, c2, pc2, scan', probed) /\ ~scan'.on
  BY <1>1, <1>6, IdleScan DEF PoolsOK
<1>14. last' \in Queue' /\ last' # "nil"
  <2>1. list \in Lists
    BY DEF FairInv
  <2>2. "nil" \notin Range(list)
    BY <2>1, ReserveAssumption
  <2> QED
    BY <1>1, <1>2, <1>3, <1>6, <1>12, <2>2
<1>15. bypass' \in Nat /\ (tag \notin avail' => bypass' = 0)
  BY <1>1, <1>4, <1>6
<1>16. avail' \subseteq Queue'
  BY <1>1, <1>2 DEF FairInv
<1> QED
  BY <1>1, <1>2, <1>3, <1>5, <1>9, <1>11, <1>13, <1>14, <1>15, <1>16 DEF FairInv

-----------------------------------------------------------------------------
(* The theorems.                                                           *)

LEMMA FairInit == Init => FairInv
<1> SUFFICES ASSUME Init PROVE FairInv
  OBVIOUS
<1>1. /\ list \in Lists /\ cur = [k \in 1..NumPools |-> 0] /\ poolCur = 0
      /\ avail \in SUBSET Queue /\ scan = Idle /\ probed = {} /\ last = "none"
      /\ tag \in Queue /\ bypass = 0 /\ errors = 0
  BY DEF Init
<1>2. PoolsOK(Pools, list) /\ NumPools = Len(Pools)
  BY <1>1, PoolsAlways
<1>3. PICK P : P = Pools
  OBVIOUS
<1>4. CursorsOK(P, cur, poolCur)
  <2>1. Len(P) \in Nat \ {0} /\ \A k \in 1..Len(P) : Len(P[k]) \in Nat \ {0}
    BY <1>2, <1>3 DEF PoolsOK
  <2>2. \A k \in 1..Len(P) : cur[k] = 0
    BY <1>1, <1>2, <1>3
  <2> QED
    BY <1>1, <1>2, <1>3, <2>1, <2>2 DEF CursorsOK
<1>5. BypassOK(P, cur, poolCur, tag, 0)
  BY <1>2, <1>3, <1>4, BypassLess
<1>6. ScanOK(P, cur, poolCur, scan, probed) /\ ~scan.on
  BY <1>1, <1>2, <1>3, IdleScan DEF PoolsOK
<1>7. errors \in 0..MaxErrors
  BY <1>1, ReserveAssumption
<1> QED
  BY <1>1, <1>3, <1>4, <1>5, <1>6, <1>7 DEF FairInv

LEMMA FairNext == FairInv /\ [Next]_vars => FairInv'
<1> SUFFICES ASSUME FairInv, [Next]_vars PROVE FairInv'
  OBVIOUS
<1>1. CASE Probe
  BY <1>1, BeginInv, TakeInv, MissInv DEF Probe
<1>2. CASE ProbeError
  BY <1>2, ProbeErrorInv
<1>3. CASE \E q \in Queue : Arrive(q) \/ Drain(q)
  BY <1>3, ArriveInv, DrainInv
<1>4. CASE UNCHANGED vars
  <2>1. Pools' = Pools /\ Queue' = Queue
    BY <1>4, SameCursors DEF vars
  <2> QED
    BY <1>4, <2>1 DEF vars, FairInv
<1> QED
  BY <1>1, <1>2, <1>3, <1>4 DEF Next

LEMMA FairAlways == Spec => []FairInv
BY FairInit, FairNext, PTL DEF Spec

(***************************************************************************)
(* The pool a queue is in is the one PoolSize finds.                       *)
(***************************************************************************)
LEMMA PoolSizeIs ==
    ASSUME list \in Lists, NEW k \in 1..Len(Pools), NEW x \in 1..Len(Pools[k]), NEW q,
           Pools[k][x] = q
    PROVE  PoolSize(q) = Len(Pools[k])
<1>1. PICK P : P = Pools /\ PoolsOK(P, list)
  BY PoolsAlways
<1>2. P \in Seq(Seq(Range(list))) /\ DOMAIN P = 1..Len(P)
      /\ \A i \in 1..Len(P) : P[i] \in Seq(Range(list)) /\ DOMAIN P[i] = 1..Len(P[i])
  BY <1>1 DEF PoolsOK
<1>3. P[k] \in Range(P) /\ q \in Range(P[k])
  BY <1>1, <1>2 DEF Range
<1>4. ASSUME NEW p \in Range(P), q \in Range(p)
      PROVE  p = P[k]
  <2>1. PICK i \in 1..Len(P) : p = P[i]
    BY <1>2, <1>4 DEF Range
  <2>2. PICK y \in 1..Len(P[i]) : P[i][y] = q
    BY <1>2, <1>4, <2>1 DEF Range
  <2>3. i = k
    BY <1>1, <2>2 DEF PoolsOK
  <2> QED
    BY <2>1, <2>3
<1>5. (CHOOSE p \in Range(P) : q \in Range(p)) = P[k]
  BY <1>3, <1>4
<1> QED
  BY <1>1, <1>5 DEF PoolSize

LEMMA FairShape == FairInv => TypeOK /\ EmptyScanProbesAll /\ BoundedBypass
<1> SUFFICES ASSUME FairInv PROVE TypeOK /\ EmptyScanProbesAll /\ BoundedBypass
  OBVIOUS
<1>1. PoolsOK(Pools, list) /\ NumPools = Len(Pools) /\ list \in Lists
  BY PoolsAlways DEF FairInv
<1>2. CursorsOK(Pools, cur, poolCur) /\ ScanOK(Pools, cur, poolCur, scan, probed)
  BY DEF FairInv
<1>3. scan.on \in BOOLEAN /\ scan.i \in 0..(NumPools - 1) /\ scan.j \in Nat
  BY <1>1, <1>2 DEF ScanOK
<1>4. TypeOK
  BY <1>1, <1>2, <1>3 DEF TypeOK, FairInv, CursorsOK
<1>5. EmptyScanProbesAll
  BY DEF FairInv, EmptyScanProbesAll
<1>6. BoundedBypass
  <2>1. PICK k \in 1..Len(Pools) : \E x \in 1..Len(Pools[k]) : Pools[k][x] = tag
    BY <1>1, PoolsAlways DEF FairInv, PoolsOK
  <2>2. PICK x \in 1..Len(Pools[k]) : Pools[k][x] = tag
    BY <2>1
  <2>3. PoolSize(tag) = Len(Pools[k])
    BY <1>1, <2>2, PoolSizeIs
  <2>4. PICK n \in Nat \ {0}, m \in Nat \ {0} : n = Len(Pools) /\ m = Len(Pools[k])
    BY <1>1 DEF PoolsOK
  <2>5. cur[k] \in 0..(m - 1) /\ poolCur \in 0..(n - 1)
    BY <1>2, <2>4 DEF CursorsOK
  <2>6. PICK u \in 0..(m - 1), v \in 0..(n - 1) : u = x - 1 /\ v = k - 1
    BY <2>4
  <2>7. PICK a \in 0..(m - 1), d \in 0..(n - 1) : a = Dist(u, cur[k], m) /\ d = Dist(v, poolCur, n)
    BY <2>5, RingDist
  <2>8. bypass + a * n + d <= n * m - 1
    BY <2>2, <2>4, <2>6, <2>7 DEF FairInv, BypassOK
  <2>9. PICK y \in Nat, z \in Nat : y = a * n /\ z = n * m
    OBVIOUS
  <2>10. bypass < z
    BY <2>8, <2>9 DEF FairInv
  <2> QED
    BY <1>1, <2>3, <2>4, <2>9, <2>10 DEF BoundedBypass
<1> QED
  BY <1>4, <1>5, <1>6

(***************************************************************************)
(* reserveNext and reserveWeighted never index outside a pool, and every   *)
(* cursor stays below the size of what it rotates over.                    *)
(***************************************************************************)
THEOREM CursorsStayInside == Spec => []TypeOK
BY FairAlways, FairShape, PTL

(***************************************************************************)
(* reserveNext returns no job only after it has found each of the worker's *)
(* queues empty once, wherever the cursors stood when it began.            *)
(***************************************************************************)
THEOREM EmptyScansAreComplete == Spec => []EmptyScanProbesAll
BY FairAlways, FairShape, PTL

(***************************************************************************)
(* A queue with a job is passed over fewer than (number of pools) x (size  *)
(* of its pool) times, for every list of queues, however many probes fail  *)
(* and whatever producers and other workers do between the probes.         *)
(***************************************************************************)
THEOREM BypassIsBounded == Spec => []BoundedBypass
BY FairAlways, FairShape, PTL
=============================================================================
