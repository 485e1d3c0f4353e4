------------------------ MODULE ListingMirrorProofs -------------------------
(***************************************************************************)
(* Proofs about ListingMirror, for any listings, points, flood map,        *)
(* workers, chunk and batch sizes: the shape of the state (distinct ids in *)
(* particular), the flood zone of a row that has not moved, and that the   *)
(* mirror never goes back in time while fetches do not overlap.            *)
(*                                                                         *)
(* Two histories carry the argument.  Along the feed, while fetches do not *)
(* overlap, there is one page at a time, all of its stamps lie after the   *)
(* cursor, and a row of the mirror has a stamp up to the cursor or the     *)
(* stamp of its row in that page.  Along the enrichment, an id is given to *)
(* one incarnation of a listing only, so that what a worker selected or    *)
(* was answered under an id is right for the row of that id for as long as *)
(* it has not moved.                                                       *)
(***************************************************************************)
EXTENDS ListingMirror, FiniteSetTheorems, WellFoundedInduction, NaturalsInduction, TLAPS

-----------------------------------------------------------------------------
(* The inductive invariant: L the mirror, P the staged pages.              *)

SourceOK(src, clk) ==
    /\ src \in [Keys -> SourceRow] /\ clk \in Nat
    /\ \A k \in Keys : src[k].key = k /\ src[k].mod \in 1 .. clk
    /\ \A j, k \in Keys : src[j].mod = src[k].mod => j = k

PageOK(pg, clk) ==
    /\ pg = [no |-> pg.no, staged |-> pg.staged, rows |-> pg.rows, left |-> pg.left]
    /\ pg.left \subseteq pg.rows /\ pg.rows \subseteq SourceRow /\ IsFiniteSet(pg.rows)
    /\ \A r \in pg.rows : r.mod <= clk
    /\ \A r, s \in pg.rows : r.key = s.key \/ r.mod = s.mod => r = s

PagesOK(P, snc, clk) ==
    /\ snc \in 0 .. clk
    /\ \A pg \in P : PageOK(pg, clk)

RowsOK(L, nid) ==
    /\ DOMAIN L = Keys /\ nid \in Nat \ {0}
    /\ \A k \in Keys : L[k] # NoRow => L[k] \in Row /\ L[k].id < nid
    /\ \A j, k \in Keys : L[j] # NoRow /\ L[k] # NoRow /\ L[j].id = L[k].id => j = k

(***************************************************************************)
(* Every stamp of the mirror is up to the cursor, or that of its row in a  *)
(* staged page; and as long as fetches do not overlap (ov), the one page   *)
(* there is comes after the cursor.                                        *)
(***************************************************************************)
OnePage(P, snc) ==
    /\ \A p, q \in P : p = q
    /\ \A pg \in P : \A r \in pg.rows : snc < r.mod
Written(L, P, snc) ==
    \A k \in Keys : L[k] # NoRow =>
        \/ L[k].mod <= snc
        \/ \E pg \in P : pg.staged /\ \E r \in pg.rows : r.key = k /\ r.mod = L[k].mod
StampsOK(L, P, snc, ov) == Written(L, P, snc) /\ (~ov => OnePage(P, snc))

ZoneOK(row) ==
    /\ row.low = ComputeLowRisk(row.zone)
    /\ (~row.moved /\ row.stamp # "null") => row.zone = ZoneAt[row.at]

(***************************************************************************)
(* A selected row, and an answer, against the row that has the id now.     *)
(***************************************************************************)
PointFits(r, L, nid) ==
    /\ r \in PointRow /\ r.id < nid
    /\ \A k \in Keys : L[k] # NoRow /\ L[k].id = r.id /\ ~L[k].moved => L[k].at = r.at
AnswerFits(u, L, nid) ==
    /\ u.id \in Nat /\ u.id < nid /\ u.zone \in ZoneClasses \cup {NoZone}
    /\ \A k \in Keys : L[k] # NoRow /\ L[k].id = u.id /\ ~L[k].moved => u.zone = ZoneAt[L[k].at]

IsWork(x) == x = [job |-> x.job, phase |-> x.phase, rows |-> x.rows, todo |-> x.todo,
                  flight |-> x.flight, got |-> x.got]
WorkerOK(x, L, nid) ==
    /\ IsWork(x)
    /\ x.todo \subseteq x.rows /\ x.flight \subseteq x.rows
    /\ \A r \in x.rows : PointFits(r, L, nid)
    /\ \A u \in x.got : AnswerFits(u, L, nid)
WorkOK(W, L, nid) == DOMAIN W = Workers /\ \A w \in Workers : WorkerOK(W[w], L, nid)

BreakerOK(b, f) ==
    /\ b \in [fails : Nat, state : {"closed", "open", "lapsed"}]
    /\ f \in 0 .. MaxFaults /\ b.fails <= f

MirrorInv ==
    /\ SourceOK(source, clock)
    /\ PagesOK(pages, since, clock)
    /\ RowsOK(listings, nextId)
    /\ StampsOK(listings, pages, since, overlapped)
    /\ \A k \in Keys : listings[k] # NoRow => ZoneOK(listings[k])
    /\ WorkOK(work, listings, nextId)
    /\ BreakerOK(breaker, faults)
    /\ finalizers \in Nat

-----------------------------------------------------------------------------
(* Helpers *)

LEMMA Numbers ==
    /\ IsFiniteSet(Keys) /\ NoPlace \notin Places
    /\ StartAt \in [Keys -> Places] /\ ZoneAt \in [Places -> ZoneClasses \cup {NoZone}]
    /\ MaxFaults \in Nat /\ FailThreshold \in Nat /\ MaxRevisions \in Nat
    /\ Cardinality(Keys) \in Nat
<1>1. IsFiniteSet(Keys) /\ MaxFaults \in Nat /\ FailThreshold \in Nat /\ MaxRevisions \in Nat
  BY ListingMirrorAssumption
<1>2. Cardinality(Keys) \in Nat
  BY <1>1, FS_CardinalityType
<1> QED
  BY <1>1, <1>2, ListingMirrorAssumption

LEMMA KeyRankFacts ==
    /\ KeyRank \in [Keys -> 1 .. Cardinality(Keys)]
    /\ \A j, k \in Keys : KeyRank[j] = KeyRank[k] => j = k
<1> DEFINE n == Cardinality(Keys)
<1>1. PICK f \in Bijection(1 .. n, Keys) : TRUE
  BY Numbers, FS_CardinalityType DEF ExistsBijection
<1>2. /\ f \in [1 .. n -> Keys]
      /\ \A k \in Keys : \E m \in 1 .. n : f[m] = k
  BY <1>1 DEF Bijection, Injection, Surjection
<1> DEFINE g == [k \in Keys |-> CHOOSE m \in 1 .. n : f[m] = k]
<1>3. \A k \in Keys : g[k] \in 1 .. n /\ f[g[k]] = k
  BY <1>2
<1>4. g \in [Keys -> 1 .. n] /\ IsInjective(g)
  BY <1>3 DEF IsInjective
<1>5. KeyRank \in [Keys -> 1 .. n] /\ IsInjective(KeyRank)
  BY <1>4 DEF KeyRank
<1> QED
  BY <1>5 DEF IsInjective

(***************************************************************************)
(* Max of a set of natural numbers up to n.                                *)
(***************************************************************************)
LEMMA MaxInSet ==
    ASSUME NEW n \in Nat, NEW S \in SUBSET (0 .. n), S # {}
    PROVE  Max(S) \in S /\ \A y \in S : Max(S) >= y
<1> DEFINE Less == {p \in Nat \X Nat : p[1] < p[2]}
           U == {m \in Nat : \A y \in S : y <= m}
<1>1. OpToRel(<, Nat) = Less
  BY DEF OpToRel
<1>2. IsWellFoundedOn(Less, Nat)
  BY <1>1, NatLessThanWellFounded
<1>3. n \in U /\ U \subseteq Nat
  OBVIOUS
<1> HIDE DEF Less
<1>4. PICK x \in U : \A y \in U : ~(<<y, x>> \in Less)
  BY <1>2, <1>3, WFMin
<1>5. x \in Nat /\ \A y \in S : y \in Nat /\ y <= x
  BY <1>4
<1>6. x \in S
  <2> SUFFICES ASSUME x \notin S PROVE FALSE
    OBVIOUS
  <2>1. \A y \in S : y <= x - 1
    BY <1>5
  <2>2. PICK y \in S : TRUE
    OBVIOUS
  <2>3. x - 1 \in Nat
    BY <2>1, <2>2, <1>5
  <2>4. x - 1 \in U
    BY <2>1, <2>3
  <2>5. <<x - 1, x>> \in Less
    BY <2>3, <1>5 DEF Less
  <2> QED
    BY <2>4, <2>5, <1>4
<1>7. \A y \in S : x >= y
  BY <1>5
<1> QED
  BY <1>6, <1>7 DEF Max

(***************************************************************************)
(* The ids of the rows inserted by one transaction: in the order of their  *)
(* stamps, from nextId on.                                                 *)
(***************************************************************************)
Before(T, r) == Cardinality({s \in T : s.mod < r.mod})

LEMMA BeforeFacts ==
    ASSUME NEW T, IsFiniteSet(T), \A r \in T : r.mod \in Nat,
           \A r, s \in T : r.mod = s.mod => r = s, NEW r \in T, NEW q \in T
    PROVE  /\ Cardinality(T) \in Nat
           /\ Before(T, r) \in Nat /\ Before(T, r) < Cardinality(T)
           /\ Before(T, r) = Before(T, q) => r = q
<1> DEFINE B(x) == {s \in T : s.mod < x.mod}
<1>1. ASSUME NEW x \in T
      PROVE  /\ B(x) \subseteq T /\ x \notin B(x) /\ IsFiniteSet(B(x))
             /\ Cardinality(B(x)) \in Nat /\ Cardinality(B(x)) < Cardinality(T)
             /\ Before(T, x) = Cardinality(B(x)) /\ Cardinality(T) \in Nat
  <2>1. B(x) \subseteq T /\ x \notin B(x) /\ x.mod \in Nat
    OBVIOUS
  <2>2. IsFiniteSet(B(x)) /\ Cardinality(B(x)) <= Cardinality(T)
        /\ (Cardinality(T) = Cardinality(B(x)) => T = B(x))
    BY <2>1, FS_Subset
  <2>3. Cardinality(B(x)) \in Nat /\ Cardinality(T) \in Nat
    BY <2>2, FS_CardinalityType
  <2>4. T # B(x)
    BY <2>1
  <2>5. Before(T, x) = Cardinality(B(x))
    BY DEF Before
  <2> HIDE DEF B
  <2> QED
    BY <2>1, <2>2, <2>3, <2>4, <2>5
<1>2. ASSUME NEW x \in T, NEW y \in T, x.mod < y.mod
      PROVE  Cardinality(B(x)) # Cardinality(B(y))
  <2>1. x.mod \in Nat /\ y.mod \in Nat /\ \A s \in T : s.mod \in Nat
    OBVIOUS
  <2>2. B(x) \subseteq B(y) /\ x \in B(y)
    BY <1>2, <2>1
  <2>3. IsFiniteSet(B(y)) /\ x \notin B(x)
    BY <1>1
  <2> HIDE DEF B
  <2> QED
    BY <2>2, <2>3, FS_Subset
<1>3. r.mod < q.mod \/ q.mod < r.mod \/ r = q
  <2>1. r.mod \in Nat /\ q.mod \in Nat
    OBVIOUS
  <2>2. r.mod < q.mod \/ q.mod < r.mod \/ r.mod = q.mod
    BY <2>1
  <2> QED
    BY <2>2
<1> HIDE DEF B
<1> QED
  BY <1>1, <1>2, <1>3

-----------------------------------------------------------------------------
(* How a step changes the mirror.                                          *)

(***************************************************************************)
(* Every row of L2 is new, or is the row of L with that id, at its point   *)
(* or marked as moved.                                                     *)
(***************************************************************************)
SameRow(old, new) ==
    /\ old # NoRow /\ new.id = old.id
    /\ ~new.moved => ~old.moved /\ new.at = old.at
Evolves(L, L2, nid) ==
    \A k \in Keys : L2[k] # NoRow => (L2[k].id \in Nat /\ L2[k].id >= nid) \/ SameRow(L[k], L2[k])

LEMMA WorkFrame ==
    ASSUME NEW W, NEW L, NEW nid \in Nat, NEW L2, NEW nid2 \in Nat, WorkOK(W, L, nid),
           nid <= nid2, Evolves(L, L2, nid)
    PROVE  WorkOK(W, L2, nid2)
<1> SUFFICES ASSUME NEW w \in Workers PROVE WorkerOK(W[w], L2, nid2)
  BY DEF WorkOK
<1>1. WorkerOK(W[w], L, nid)
  BY DEF WorkOK
<1>2. \A r \in W[w].rows : PointFits(r, L2, nid2)
  <2> SUFFICES ASSUME NEW r \in W[w].rows PROVE PointFits(r, L2, nid2)
    OBVIOUS
  <2>1. PointFits(r, L, nid)
    BY <1>1 DEF WorkerOK
  <2>2. r \in PointRow /\ r.id \in Nat /\ r.id < nid
    BY <2>1 DEF PointFits, PointRow
  <2>3. ASSUME NEW k \in Keys, L2[k] # NoRow, L2[k].id = r.id, ~L2[k].moved
        PROVE  L2[k].at = r.at
    <3>1. SameRow(L[k], L2[k])
      BY <2>2, <2>3 DEF Evolves
    <3> QED
      BY <2>1, <2>3, <3>1 DEF SameRow, PointFits
  <2> QED
    BY <2>2, <2>3 DEF PointFits
<1>3. \A u \in W[w].got : AnswerFits(u, L2, nid2)
  <2> SUFFICES ASSUME NEW u \in W[w].got PROVE AnswerFits(u, L2, nid2)
    OBVIOUS
  <2>1. AnswerFits(u, L, nid)
    BY <1>1 DEF WorkerOK
  <2>2. u.id \in Nat /\ u.id < nid
    BY <2>1 DEF AnswerFits
  <2>3. ASSUME NEW k \in Keys, L2[k] # NoRow, L2[k].id = u.id, ~L2[k].moved
        PROVE  u.zone = ZoneAt[L2[k].at]
    <3>1. SameRow(L[k], L2[k])
      BY <2>2, <2>3 DEF Evolves
    <3> QED
      BY <2>1, <2>3, <3>1 DEF SameRow, AnswerFits
  <2> QED
    BY <2>1, <2>2, <2>3 DEF AnswerFits
<1> QED
  BY <1>1, <1>2, <1>3 DEF WorkerOK

(***************************************************************************)
(* Rows vanish or change in columns other than id, point and stamp.        *)
(***************************************************************************)
InPlace(L, L2) ==
    /\ DOMAIN L2 = Keys
    /\ \A k \in Keys : L2[k] # NoRow =>
          /\ L[k] # NoRow /\ L2[k] \in Row /\ L2[k].id = L[k].id /\ L2[k].mod = L[k].mod
          /\ L2[k].moved = L[k].moved /\ L2[k].at = L[k].at

LEMMA InPlaceOK ==
    ASSUME NEW L, NEW L2, NEW nid, NEW P, NEW s, NEW ov, NEW W,
           RowsOK(L, nid), StampsOK(L, P, s, ov), WorkOK(W, L, nid), InPlace(L, L2)
    PROVE  RowsOK(L2, nid) /\ StampsOK(L2, P, s, ov) /\ WorkOK(W, L2, nid)
<1>1. RowsOK(L2, nid)
  BY DEF RowsOK, InPlace
<1>2. StampsOK(L2, P, s, ov)
  BY DEF StampsOK, Written, InPlace
<1>3. Evolves(L, L2, nid)
  BY DEF Evolves, SameRow, InPlace
<1>4. nid \in Nat /\ nid <= nid
  BY DEF RowsOK
<1>5. WorkOK(W, L2, nid)
  BY <1>3, <1>4, WorkFrame
<1> QED
  BY <1>1, <1>2, <1>5

(***************************************************************************)
(* A step that only changes the mirror, in place.                          *)
(***************************************************************************)
LEMMA StepInPlace ==
    ASSUME MirrorInv, InPlace(listings, listings'),
           \A k \in Keys : listings'[k] # NoRow => ZoneOK(listings'[k]),
           UNCHANGED <<feedVars, syncVars, nextId, work, breaker, faults>>
    PROVE  MirrorInv'
<1>1. PICK L2 : L2 = listings'
  OBVIOUS
<1>2. RowsOK(L2, nextId) /\ StampsOK(L2, pages, since, overlapped) /\ WorkOK(work, L2, nextId)
  BY <1>1, InPlaceOK DEF MirrorInv
<1> QED
  BY <1>1, <1>2 DEF MirrorInv, feedVars, syncVars

LEMMA ReviseInv ==
    ASSUME MirrorInv, NEW k \in Keys, Revise(k)
    PROVE  MirrorInv'
<1>1. /\ clock' = clock + 1 /\ clock \in Nat
      /\ UNCHANGED <<syncVars, listings, nextId, enrichVars, faults>>
  BY DEF Revise, MirrorInv, SourceOK
<1>2. PICK x : source' = [source EXCEPT ![k] = x] /\ x \in SourceRow /\ x.key = k
               /\ x.mod = clock + 1
  <2>0. clock + 1 \in Nat
    BY <1>1
  <2>1. source \in [Keys -> SourceRow] /\ source[k] \in SourceRow /\ source[k].key = k
    BY DEF MirrorInv, SourceOK
  <2>2. CASE \E st \in Statuses \ {source[k].status} :
               source' = [source EXCEPT ![k].status = st, ![k].mod = clock + 1]
    <3>1. PICK st \in Statuses :
               source' = [source EXCEPT ![k].status = st, ![k].mod = clock + 1]
      BY <2>2
    <3> DEFINE x == [source[k] EXCEPT !.status = st, !.mod = clock + 1]
    <3>2. source' = [source EXCEPT ![k] = x]
      BY <2>1, <3>1
    <3>3. x \in SourceRow
      BY <2>0, <2>1 DEF SourceRow
    <3>4. x.key = k /\ x.mod = clock + 1
      BY <2>1 DEF SourceRow
    <3> HIDE DEF x
    <3> QED
      BY <3>2, <3>3, <3>4
  <2>3. CASE \E at \in (Places \cup {NoPlace}) \ {source[k].at} :
               source' = [source EXCEPT ![k].at = at, ![k].mod = clock + 1]
    <3>1. PICK at \in Places \cup {NoPlace} :
               source' = [source EXCEPT ![k].at = at, ![k].mod = clock + 1]
      BY <2>3
    <3> DEFINE x == [source[k] EXCEPT !.at = at, !.mod = clock + 1]
    <3>2. source' = [source EXCEPT ![k] = x]
      BY <2>1, <3>1
    <3>3. x \in SourceRow
      BY <2>0, <2>1 DEF SourceRow
    <3>4. x.key = k /\ x.mod = clock + 1
      BY <2>1 DEF SourceRow
    <3> HIDE DEF x
    <3> QED
      BY <3>2, <3>3, <3>4
  <2> QED
    BY <2>2, <2>3 DEF Revise
<1>3. SourceOK(source', clock')
  <2>1. SourceOK(source, clock)
    BY DEF MirrorInv
  <2>2. source' \in [Keys -> SourceRow] /\ source'[k] = x
        /\ \A j \in Keys \ {k} : source'[j] = source[j]
    BY <1>2, <2>1 DEF SourceOK
  <2>3. \A j \in Keys : source[j].mod \in 1 .. clock
    BY <2>1 DEF SourceOK
  <2>4. \A j \in Keys : source'[j].key = j /\ source'[j].mod \in 1 .. (clock + 1)
    BY <1>1, <1>2, <2>1, <2>2, <2>3 DEF SourceOK
  <2>5. \A i, j \in Keys : source'[i].mod = source'[j].mod => i = j
    <3> SUFFICES ASSUME NEW i \in Keys, NEW j \in Keys, source'[i].mod = source'[j].mod, i # j
                 PROVE  FALSE
      OBVIOUS
    <3>1. CASE i = k
      BY <3>1, <1>1, <1>2, <2>2, <2>3
    <3>2. CASE j = k
      BY <3>2, <1>1, <1>2, <2>2, <2>3
    <3>3. CASE i # k /\ j # k
      BY <3>3, <2>1, <2>2 DEF SourceOK
    <3> QED
      BY <3>1, <3>2, <3>3
  <2> QED
    BY <1>1, <2>2, <2>4, <2>5 DEF SourceOK
<1>4. PagesOK(pages, since, clock')
  <2>1. ASSUME NEW pg \in pages PROVE PageOK(pg, clock')
    <3>1. PageOK(pg, clock)
      BY DEF MirrorInv, PagesOK
    <3>2. \A r \in pg.rows : r.mod \in Nat
      BY <3>1 DEF PageOK, SourceRow
    <3>3. \A r \in pg.rows : r.mod <= clock'
      BY <1>1, <3>1, <3>2 DEF PageOK
    <3> QED
      BY <3>1, <3>3 DEF PageOK
  <2>2. since \in 0 .. clock'
    BY <1>1 DEF MirrorInv, PagesOK
  <2> QED
    BY <2>1, <2>2 DEF PagesOK
<1> QED
  BY <1>1, <1>3, <1>4 DEF MirrorInv, syncVars, enrichVars

LEMMA ExpireStampInv ==
    ASSUME MirrorInv, NEW k \in Keys, ExpireStamp(k)
    PROVE  MirrorInv'
<1> DEFINE row == listings[k]
           x == [row EXCEPT !.stamp = "expired"]
<1>1. /\ row # NoRow /\ row.stamp = "fresh" /\ RowsOK(listings, nextId)
      /\ UNCHANGED <<feedVars, syncVars, nextId, enrichVars, faults>>
  BY DEF ExpireStamp, Present, MirrorInv
<1>2. row \in Row /\ DOMAIN listings = Keys /\ \A j \in Keys : listings[j] # NoRow => listings[j] \in Row
  BY <1>1 DEF RowsOK
<1>3. listings' = [listings EXCEPT ![k] = x]
  BY <1>2 DEF ExpireStamp
<1>4. x \in Row
  BY <1>2 DEF Row
<1>5. /\ x.id = row.id /\ x.mod = row.mod /\ x.moved = row.moved /\ x.at = row.at
      /\ x.zone = row.zone /\ x.low = row.low
  BY <1>2 DEF Row
<1>6. DOMAIN listings' = Keys /\ listings'[k] = x /\ \A j \in Keys \ {k} : listings'[j] = listings[j]
  BY <1>2, <1>3
<1> HIDE DEF x
<1>7. InPlace(listings, listings')
  BY <1>1, <1>2, <1>4, <1>5, <1>6 DEF InPlace
<1>8. \A j \in Keys : listings'[j] # NoRow => ZoneOK(listings'[j])
  <2>1. ZoneOK(row)
    BY <1>1 DEF MirrorInv
  <2>2. ZoneOK(x)
    BY <1>1, <1>5, <2>1 DEF ZoneOK
  <2> QED
    BY <1>6, <2>2 DEF MirrorInv
<1> QED
  BY <1>1, <1>7, <1>8, StepInPlace DEF enrichVars

(***************************************************************************)
(* Some rows are deleted.                                                  *)
(***************************************************************************)
LEMMA DeleteInPlace ==
    ASSUME MirrorInv, NEW D, listings' = [k \in Keys |-> IF k \in D THEN NoRow ELSE listings[k]]
    PROVE  InPlace(listings, listings') /\ \A k \in Keys : listings'[k] # NoRow => ZoneOK(listings'[k])
<1>1. \A j \in Keys : listings[j] # NoRow => listings[j] \in Row
  BY DEF MirrorInv, RowsOK
<1>2. DOMAIN listings' = Keys /\ \A k \in Keys : listings'[k] # NoRow => listings'[k] = listings[k]
  OBVIOUS
<1> QED
  BY <1>1, <1>2 DEF InPlace, MirrorInv

LEMMA PurgeClosedInv ==
    ASSUME MirrorInv, NEW S, PurgeClosed(S)
    PROVE  MirrorInv'
<1>1. PICK D : D = {k \in Keys : k \in S \/ (Present(k) /\ listings[k].status = "closed")}
  OBVIOUS
<1>2. listings' = [k \in Keys |-> IF k \in D THEN NoRow ELSE listings[k]]
  BY <1>1 DEF PurgeClosed
<1>3. UNCHANGED <<feedVars, syncVars, nextId, work, breaker, faults>>
  BY DEF PurgeClosed, enrichVars
<1> QED
  BY <1>2, <1>3, DeleteInPlace, StepInPlace

(***************************************************************************)
(* A page is taken away: the others keep what they are.                    *)
(***************************************************************************)
LEMMA WithoutPage ==
    ASSUME MirrorInv, NEW pg \in pages
    PROVE  /\ \A q \in Without(pg) : PageOK(q, clock)
           /\ \A p \in pages \ {pg} : \E q \in Without(pg) :
                 q.rows = p.rows /\ q.staged = p.staged
           /\ (~overlapped => Without(pg) = {})
<1>1. ASSUME NEW p \in pages \ {pg}, NEW q, q = [p EXCEPT !.no = IF @ > pg.no THEN @ - 1 ELSE @]
      PROVE  PageOK(q, clock) /\ q.rows = p.rows /\ q.staged = p.staged
  <2>1. PageOK(p, clock)
    BY DEF MirrorInv, PagesOK
  <2>2. PICK n : q = [p EXCEPT !.no = n]
    BY <1>1
  <2>3. q = [no |-> n, staged |-> p.staged, rows |-> p.rows, left |-> p.left]
    BY <2>1, <2>2 DEF PageOK
  <2>4. q.no = n /\ q.staged = p.staged /\ q.rows = p.rows /\ q.left = p.left
    BY <2>3
  <2> QED
    BY <2>1, <2>3, <2>4 DEF PageOK
<1>2. ~overlapped => \A p \in pages : p = pg
  BY DEF MirrorInv, StampsOK, OnePage
<1> QED
  BY <1>1, <1>2 DEF Without

LEMMA FinishPageInv ==
    ASSUME MirrorInv, NEW pg, FinishPage(pg)
    PROVE  MirrorInv'
<1>0. pg \in pages /\ since' = Max({since} \cup {r.mod : r \in pg.rows})
      /\ pages' = Without(pg) /\ overlapped' = (overlapped /\ pages' # {})
      /\ UNCHANGED <<feedVars, nextId, enrichVars, faults>>
  BY DEF FinishPage
<1>1. PICK D : D = {k \in Keys : \E r \in pg.rows : r.key = k /\ RowAction(r) = "delete"}
  OBVIOUS
<1>2. listings' = [k \in Keys |-> IF k \in D THEN NoRow ELSE listings[k]]
  BY <1>1 DEF FinishPage
<1>3. InPlace(listings, listings') /\ \A k \in Keys : listings'[k] # NoRow => ZoneOK(listings'[k])
  BY <1>2, DeleteInPlace
<1>4. PageOK(pg, clock) /\ since \in 0 .. clock /\ clock \in Nat
  BY <1>0 DEF MirrorInv, PagesOK, SourceOK
<1>6. since' \in 0 .. clock /\ since' >= since /\ \A r \in pg.rows : since' >= r.mod
  <2> DEFINE S == {since} \cup {r.mod : r \in pg.rows}
  <2>1. \A r \in pg.rows : r.mod \in 0 .. clock
    BY <1>4 DEF PageOK, SourceRow
  <2>2. S \subseteq 0 .. clock /\ S # {}
    BY <1>4, <2>1
  <2>3. Max(S) \in S /\ \A y \in S : Max(S) >= y
    BY <1>4, <2>2, MaxInSet
  <2> QED
    BY <1>0, <2>2, <2>3
<1>7. PagesOK(pages', since', clock)
  BY <1>0, <1>6, WithoutPage DEF PagesOK
<1>8. PICK L2 : L2 = listings'
  OBVIOUS
<1>9. RowsOK(L2, nextId) /\ WorkOK(work, L2, nextId) /\ StampsOK(L2, pages, since, overlapped)
  BY <1>3, <1>8, InPlaceOK DEF MirrorInv
<1>10. StampsOK(L2, pages', since', overlapped')
  <2>1. ~overlapped' => pages' = {}
    BY <1>0, WithoutPage
  <2>2. ~overlapped' => OnePage(pages', since')
    BY <2>1 DEF OnePage
  <2>3. ASSUME NEW k \in Keys, L2[k] # NoRow
        PROVE  \/ L2[k].mod <= since'
               \/ \E q \in pages' : q.staged /\ \E r \in q.rows : r.key = k /\ r.mod = L2[k].mod
    <3>1. L2[k].mod \in Nat /\ since \in Nat /\ since' \in Nat
      BY <1>4, <1>6, <1>9, <2>3 DEF RowsOK, Row
    <3>2. \/ L2[k].mod <= since
          \/ \E p \in pages : p.staged /\ \E r \in p.rows : r.key = k /\ r.mod = L2[k].mod
      BY <1>9, <2>3 DEF StampsOK, Written
    <3>3. CASE L2[k].mod <= since
      BY <1>6, <3>1, <3>3
    <3>4. ASSUME NEW p \in pages, p.staged, NEW r \in p.rows, r.key = k, r.mod = L2[k].mod
          PROVE  \/ L2[k].mod <= since'
                 \/ \E q \in pages' : q.staged /\ \E x \in q.rows : x.key = k /\ x.mod = L2[k].mod
      <4>1. CASE p = pg
        BY <1>6, <3>4, <4>1
      <4>2. CASE p # pg
        BY <1>0, <3>4, <4>2, WithoutPage
      <4> QED
        BY <4>1, <4>2
    <3> QED
      BY <3>2, <3>3, <3>4
  <2> QED
    BY <2>2, <2>3 DEF StampsOK, Written
<1>11. finalizers' \in Nat
  BY DEF FinishPage, LookForJob, MirrorInv
<1> QED
  BY <1>0, <1>3, <1>7, <1>8, <1>9, <1>10, <1>11 DEF MirrorInv, feedVars, enrichVars

LEMMA FeedRowsOK ==
    ASSUME SourceOK(source, clock), since \in 0 .. clock
    PROVE  /\ \A n : PageOK([no |-> n, staged |-> FALSE, rows |-> FeedRows, left |-> FeedRows], clock)
           /\ \A r \in FeedRows : since < r.mod
<1>1. \A r \in FeedRows : \E k \in Keys : r = source[k] /\ source[k].mod > since
  BY DEF FeedRows
<1>2. \A k \in Keys : source[k] \in SourceRow /\ source[k].key = k /\ source[k].mod \in 1 .. clock
  BY DEF SourceOK
<1>3. FeedRows \subseteq SourceRow
  BY <1>1, <1>2
<1>4. \A r \in FeedRows : r.key \in Keys /\ r = source[r.key]
  BY <1>1, <1>2
<1>5. IsFiniteSet(FeedRows)
  <2> DEFINE f == [r \in FeedRows |-> r.key]
  <2>1. f \in [FeedRows -> Keys] /\ \A r, s \in FeedRows : f[r] = f[s] => r = s
    BY <1>4
  <2>2. f \in Injection(FeedRows, Keys)
    BY <2>1 DEF Injection, IsInjective
  <2> HIDE DEF f
  <2> QED
    BY <2>2, Numbers, FS_Injection
<1>6. \A r \in FeedRows : since < r.mod /\ r.mod <= clock
  BY <1>1, <1>2 DEF SourceOK
<1>7. \A r, s \in FeedRows : r.key = s.key \/ r.mod = s.mod => r = s
  BY <1>4 DEF SourceOK
<1> HIDE DEF FeedRows
<1> QED
  BY <1>3, <1>5, <1>6, <1>7 DEF PageOK

LEMMA AskFeedOK ==
    ASSUME MirrorInv, AskFeed
    PROVE  /\ PagesOK(pages', since', clock') /\ finalizers' \in Nat
           /\ \/ pages' = pages
              \/ \E pg : /\ pages' = pages \cup {pg} /\ ~pg.staged
                        /\ \A r \in pg.rows : since < r.mod
<1>1. UNCHANGED <<feedVars, since, listings, nextId, enrichVars>> /\ finalizers' \in Nat
  BY DEF AskFeed, LookForJob, MirrorInv
<1>2. SourceOK(source, clock) /\ since \in 0 .. clock /\ PagesOK(pages, since, clock)
  BY DEF MirrorInv, PagesOK
<1>3. CASE pages' = pages
  BY <1>1, <1>2, <1>3 DEF feedVars
<1>4. CASE pages' # pages
  <2>1. PICK no : pages' = pages \cup {[no |-> no, staged |-> FALSE,
                                        rows |-> FeedRows, left |-> FeedRows]}
    BY <1>4 DEF AskFeed
  <2>2. PICK pg : pg = [no |-> no, staged |-> FALSE, rows |-> FeedRows, left |-> FeedRows]
    OBVIOUS
  <2>3. PageOK(pg, clock) /\ \A r \in FeedRows : since < r.mod
    BY <1>2, <2>2, FeedRowsOK
  <2>4. pg.rows = FeedRows /\ pg.staged = FALSE
    BY <2>2
  <2>5. PagesOK(pages', since, clock)
    BY <1>2, <2>1, <2>2, <2>3 DEF PagesOK
  <2> QED
    BY <1>1, <2>1, <2>2, <2>3, <2>4, <2>5 DEF feedVars
<1> QED
  BY <1>3, <1>4

(***************************************************************************)
(* Kickoff's fetch follows a finished one, or marks the overlap.           *)
(***************************************************************************)
LEMMA FetchInv ==
    ASSUME MirrorInv, Fetch
    PROVE  MirrorInv'
<1>1. /\ UNCHANGED <<feedVars, since, listings, nextId, enrichVars>> /\ NoActivePage
      /\ \/ (\E pg \in pages : ~pg.staged) /\ Fault /\ overlapped' = TRUE
         \/ pages = {} /\ UNCHANGED <<faults, overlapped>>
  BY DEF Fetch, AskFeed, NoActivePage
<1>2. /\ PagesOK(pages', since', clock') /\ finalizers' \in Nat
      /\ pages \subseteq pages'
      /\ \/ pages' = pages
         \/ \E pg : pages' = pages \cup {pg} /\ \A r \in pg.rows : since < r.mod
  BY AskFeedOK DEF Fetch
<1>3. StampsOK(listings, pages', since, overlapped')
  <2>1. Written(listings, pages', since)
    BY <1>2 DEF MirrorInv, StampsOK, Written
  <2>2. ASSUME ~overlapped' PROVE OnePage(pages', since)
    <3>1. pages = {}
      BY <1>1, <2>2
    <3> QED
      BY <1>2, <3>1 DEF OnePage
  <2> QED
    BY <2>1, <2>2 DEF StampsOK
<1>4. BreakerOK(breaker, faults')
  BY <1>1, Numbers DEF Fault, MirrorInv, BreakerOK
<1> QED
  BY <1>1, <1>2, <1>3, <1>4 DEF MirrorInv, feedVars, enrichVars

LEMMA RepeatFetchInv ==
    ASSUME MirrorInv, RepeatFetch
    PROVE  MirrorInv'
<1>1. UNCHANGED <<feedVars, since, listings, nextId, enrichVars>> /\ overlapped' = TRUE
  BY DEF RepeatFetch, AskFeed
<1>2. PagesOK(pages', since', clock') /\ finalizers' \in Nat /\ pages \subseteq pages'
  BY AskFeedOK DEF RepeatFetch
<1>3. StampsOK(listings, pages', since, overlapped')
  BY <1>1, <1>2 DEF MirrorInv, StampsOK, Written
<1>4. BreakerOK(breaker, faults')
  BY Numbers DEF RepeatFetch, Fault, MirrorInv, BreakerOK
<1> QED
  BY <1>1, <1>2, <1>3, <1>4 DEF MirrorInv, feedVars, enrichVars

(***************************************************************************)
(* A page keeps its rows; whether it is staged or what is left of it       *)
(* changes.                                                                *)
(***************************************************************************)
SamePage(pg, q) == PageOK(q, clock) /\ q.rows = pg.rows /\ (pg.staged => q.staged)

LEMMA PageSwap ==
    ASSUME MirrorInv, NEW pg \in pages, NEW q, SamePage(pg, q),
           NEW Q, Q = (pages \ {pg}) \cup {q}
    PROVE  /\ PagesOK(Q, since, clock)
           /\ StampsOK(listings, Q, since, overlapped)
           /\ ~overlapped => Q = {q}
<1>1. PagesOK(Q, since, clock)
  BY DEF MirrorInv, PagesOK, SamePage
<1>2. Written(listings, Q, since)
  <2>1. Written(listings, pages, since)
    BY DEF MirrorInv, StampsOK
  <2>2. \A p \in pages : p.staged => \E x \in Q : x.staged /\ x.rows = p.rows
    BY DEF SamePage
  <2> QED
    BY <2>1, <2>2 DEF Written
<1>3. ASSUME ~overlapped
      PROVE  Q = {q} /\ OnePage(Q, since)
  <2>1. OnePage(pages, since)
    BY <1>3 DEF MirrorInv, StampsOK
  <2>2. Q = {q}
    BY <2>1 DEF OnePage
  <2> QED
    BY <2>1, <2>2 DEF OnePage, SamePage
<1> QED
  BY <1>1, <1>2, <1>3 DEF StampsOK

LEMMA PageLeft ==
    ASSUME NEW pg, PageOK(pg, clock), NEW l, l \subseteq pg.rows,
           NEW q, q = [pg EXCEPT !.left = l]
    PROVE  SamePage(pg, q)
<1>1. q = [no |-> pg.no, staged |-> pg.staged, rows |-> pg.rows, left |-> l]
  BY DEF PageOK
<1>2. q.no = pg.no /\ q.staged = pg.staged /\ q.rows = pg.rows /\ q.left = l
  BY <1>1
<1> QED
  BY <1>1, <1>2 DEF PageOK, SamePage

LEMMA StorePageInv ==
    ASSUME MirrorInv, NEW pg, StorePage(pg)
    PROVE  MirrorInv'
<1>1. PICK q : q = [pg EXCEPT !.staged = TRUE]
  OBVIOUS
<1>2. /\ pg \in pages /\ pages' = (pages \ {pg}) \cup {q}
      /\ UNCHANGED <<feedVars, since, overlapped, finalizers, listings, nextId, enrichVars, faults>>
  BY <1>1 DEF StorePage
<1>3. PageOK(pg, clock)
  BY <1>2 DEF MirrorInv, PagesOK
<1>4. q = [no |-> pg.no, staged |-> TRUE, rows |-> pg.rows, left |-> pg.left]
  BY <1>1, <1>3 DEF PageOK
<1>5. q.no = pg.no /\ q.staged = TRUE /\ q.rows = pg.rows /\ q.left = pg.left
  BY <1>4
<1>6. SamePage(pg, q)
  BY <1>3, <1>4, <1>5 DEF PageOK, SamePage
<1>7. PagesOK(pages', since, clock) /\ StampsOK(listings, pages', since, overlapped)
  BY <1>2, <1>6, PageSwap
<1> QED
  BY <1>2, <1>7 DEF MirrorInv, feedVars, enrichVars

LEMMA FailPageInv ==
    ASSUME MirrorInv, NEW pg, FailPage(pg)
    PROVE  MirrorInv'
<1>1. /\ pg \in pages /\ overlapped' = (overlapped /\ pages' # {})
      /\ UNCHANGED <<feedVars, since, finalizers, listings, nextId, enrichVars>>
  BY DEF FailPage
<1>2. PagesOK(pages', since, clock) /\ StampsOK(listings, pages', since, overlapped')
  <2>1. CASE ~pg.staged /\ pages' = Without(pg)
    <3>1. PagesOK(pages', since, clock)
      BY <1>1, <2>1, WithoutPage DEF MirrorInv, PagesOK
    <3>2. ~overlapped' => OnePage(pages', since)
      BY <1>1, <2>1, WithoutPage DEF OnePage
    <3>3. \A p \in pages : p.staged => \E q \in pages' : q.staged /\ q.rows = p.rows
      BY <1>1, <2>1, WithoutPage
    <3>4. Written(listings, pages', since)
      BY <3>3 DEF MirrorInv, StampsOK, Written
    <3> QED
      BY <3>1, <3>2, <3>4 DEF StampsOK
  <2>2. CASE pages' = (pages \ {pg}) \cup {[pg EXCEPT !.left = pg.rows]}
    <3>1. PICK q : q = [pg EXCEPT !.left = pg.rows]
      OBVIOUS
    <3>2. PageOK(pg, clock)
      BY <1>1 DEF MirrorInv, PagesOK
    <3>3. SamePage(pg, q)
      BY <3>1, <3>2, PageLeft
    <3>4. PagesOK(pages', since, clock) /\ StampsOK(listings, pages', since, overlapped)
      BY <1>1, <2>2, <3>1, <3>3, PageSwap
    <3>5. pages' # {}
      BY <2>2
    <3> QED
      BY <1>1, <3>4, <3>5 DEF StampsOK
  <2> QED
    BY <2>1, <2>2 DEF FailPage
<1>3. BreakerOK(breaker, faults')
  BY Numbers DEF FailPage, Fault, MirrorInv, BreakerOK
<1> QED
  BY <1>1, <1>2, <1>3 DEF MirrorInv, feedVars, enrichVars

(***************************************************************************)
(* What the upsert makes of a row.                                         *)
(***************************************************************************)
LEMMA UpdateRowFacts ==
    ASSUME NEW row \in Row, NEW r \in SourceRow, r.status = "active"
    PROVE  LET x == UpdateRow(row, r)
           IN  /\ x \in Row /\ x.id = row.id /\ x.mod = r.mod /\ x.at = r.at
               /\ x.zone = row.zone /\ x.low = row.low /\ x.stamp = row.stamp
               /\ ~x.moved => ~row.moved /\ r.at = row.at
<1>1. row.moved \in BOOLEAN /\ r.at \in Places \cup {NoPlace} /\ r.mod \in Nat
  BY DEF Row, SourceRow
<1>2. PICK b \in BOOLEAN : b = (row.moved \/ r.at # row.at)
  BY <1>1, Zenon
<1> DEFINE x == [row EXCEPT !.at = r.at, !.moved = b, !.status = r.status, !.mod = r.mod]
<1>3. UpdateRow(row, r) = x
  BY <1>2 DEF UpdateRow, SetPoint, Row
<1>4. x \in Row
  BY <1>1 DEF Row
<1>5. /\ x.id = row.id /\ x.mod = r.mod /\ x.at = r.at /\ x.moved = b
      /\ x.zone = row.zone /\ x.low = row.low /\ x.stamp = row.stamp
  BY DEF Row
<1> HIDE DEF x
<1> QED
  BY <1>2, <1>3, <1>4, <1>5

LEMMA InsertRowFacts ==
    ASSUME NEW r \in SourceRow, r.status = "active", NEW id \in Nat \ {0}
    PROVE  LET x == InsertRow(r, id)
           IN  /\ x \in Row /\ x.id = id /\ x.mod = r.mod
               /\ ZoneOK(x)
<1>1. r.at \in Places \cup {NoPlace} /\ r.mod \in Nat
  BY DEF SourceRow
<1> QED
  BY <1>1 DEF InsertRow, Row, ZoneOK, ComputeLowRisk, NoZone

(***************************************************************************)
(* One transaction of the upsert, for rows of one page.                    *)
(***************************************************************************)
LEMMA UpsertFacts ==
    ASSUME MirrorInv, NEW pg \in pages, NEW rows, rows \subseteq pg.rows,
           \A r \in rows : r.status = "active", Upsert(rows)
    PROVE  /\ RowsOK(listings', nextId') /\ nextId' >= nextId
           /\ Evolves(listings, listings', nextId)
           /\ \A k \in Keys : listings'[k] # NoRow =>
                 /\ ZoneOK(listings'[k])
                 /\ \/ listings'[k] = listings[k]
                    \/ \E r \in pg.rows : r.key = k /\ r.mod = listings'[k].mod
<1> DEFINE new == {r \in rows : ~Present(r.key)}
<1>1. /\ PageOK(pg, clock) /\ rows \subseteq SourceRow
      /\ \A r, s \in rows : r.key = s.key \/ r.mod = s.mod => r = s
  BY DEF MirrorInv, PagesOK, PageOK
<1>2. IsFiniteSet(new) /\ \A r \in new : r.mod \in Nat
  BY <1>1, FS_Subset DEF PageOK, SourceRow
<1>3. /\ Cardinality(new) \in Nat
      /\ \A r \in new : Before(new, r) \in Nat /\ Before(new, r) < Cardinality(new)
      /\ \A r, q \in new : Before(new, r) = Before(new, q) => r = q
  <2>1. Cardinality(new) \in Nat
    BY <1>2, FS_CardinalityType
  <2>2. \A r, s \in new : r.mod = s.mod => r = s
    BY <1>1
  <2>3. ASSUME NEW r \in new, NEW q \in new
        PROVE  /\ Before(new, r) \in Nat /\ Before(new, r) < Cardinality(new)
               /\ Before(new, r) = Before(new, q) => r = q
    <3> HIDE DEF new
    <3> QED
      BY <1>2, <2>2, <2>3, BeforeFacts
  <2> HIDE DEF new
  <2> QED
    BY <2>1, <2>3
<1>4. /\ RowsOK(listings, nextId) /\ nextId \in Nat \ {0}
      /\ \A k \in Keys : listings[k] # NoRow => listings[k] \in Row /\ listings[k].id < nextId
  BY DEF MirrorInv, RowsOK
<1>5. nextId' = nextId + Cardinality(new) /\ DOMAIN listings' = Keys
  BY DEF Upsert
<1>6. ASSUME NEW k \in Keys, NEW r \in rows, r.key = k
      PROVE  listings'[k] = IF listings[k] # NoRow THEN UpdateRow(listings[k], r)
                            ELSE InsertRow(r, nextId + Before(new, r))
  <2>1. \A s \in rows : s.key = k => s = r
    BY <1>1, <1>6
  <2>2. (CHOOSE s \in rows : s.key = k) = r
    BY <2>1, <1>6
  <2>3. \E s \in rows : s.key = k
    BY <1>6
  <2> QED
    BY <1>6, <2>2, <2>3 DEF Upsert, Present, Before
<1>7. ASSUME NEW k \in Keys, ~\E r \in rows : r.key = k
      PROVE  listings'[k] = listings[k]
  BY <1>7 DEF Upsert
<1> HIDE DEF new
<1>8. ASSUME NEW k \in Keys, listings'[k] # NoRow
      PROVE  /\ listings'[k] \in Row /\ ZoneOK(listings'[k])
             /\ \/ listings'[k] = listings[k]
                \/ \E r \in pg.rows : r.key = k /\ r.mod = listings'[k].mod
             /\ \/ SameRow(listings[k], listings'[k])
                \/ \E r \in new : r.key = k /\ listings'[k].id = nextId + Before(new, r)
  <2>1. CASE \E r \in rows : r.key = k
    <3>1. PICK r \in rows : r.key = k
      BY <2>1
    <3>2. r \in SourceRow /\ r.status = "active" /\ r \in pg.rows
      BY <1>1
    <3>3. CASE listings[k] # NoRow
      <4>1. PICK x : x = UpdateRow(listings[k], r)
        OBVIOUS
      <4>2. listings'[k] = x
        BY <1>6, <3>1, <3>3, <4>1
      <4>3. /\ x \in Row /\ x.id = listings[k].id /\ x.mod = r.mod /\ x.at = r.at
            /\ x.zone = listings[k].zone /\ x.low = listings[k].low
            /\ x.stamp = listings[k].stamp
            /\ ~x.moved => ~listings[k].moved /\ r.at = listings[k].at
        BY <1>4, <3>2, <3>3, <4>1, UpdateRowFacts
      <4>4. SameRow(listings[k], x)
        BY <3>3, <4>3 DEF SameRow
      <4>5. ZoneOK(x)
        BY <3>3, <4>3 DEF MirrorInv, ZoneOK
      <4> QED
        BY <3>1, <3>2, <4>2, <4>3, <4>4, <4>5
    <3>4. CASE listings[k] = NoRow
      <4>1. r \in new
        BY <3>1, <3>4 DEF new, Present
      <4>2. PICK id \in Nat \ {0} : id = nextId + Before(new, r)
        BY <1>3, <1>4, <4>1
      <4>3. PICK x : x = InsertRow(r, id)
        OBVIOUS
      <4>4. listings'[k] = x
        BY <1>6, <3>1, <3>4, <4>2, <4>3
      <4>5. x \in Row /\ x.id = id /\ x.mod = r.mod /\ ZoneOK(x)
        BY <3>2, <4>3, InsertRowFacts
      <4> QED
        BY <3>1, <3>2, <4>1, <4>2, <4>4, <4>5
    <3> QED
      BY <3>3, <3>4
  <2>2. CASE ~\E r \in rows : r.key = k
    <3>1. listings'[k] = listings[k]
      BY <1>7, <2>2
    <3>2. SameRow(listings[k], listings'[k])
      BY <1>8, <3>1 DEF SameRow
    <3>3. ZoneOK(listings[k]) /\ listings[k] \in Row
      BY <1>4, <1>8, <3>1 DEF MirrorInv
    <3> QED
      BY <3>1, <3>2, <3>3
  <2> QED
    BY <2>1, <2>2
<1>9. nextId' \in Nat \ {0} /\ nextId' >= nextId
  BY <1>3, <1>4, <1>5
<1>10. ASSUME NEW k \in Keys, listings'[k] # NoRow
       PROVE  /\ listings'[k].id \in Nat /\ listings'[k].id < nextId'
              /\ listings'[k].id >= nextId \/ SameRow(listings[k], listings'[k])
  <2>1. CASE SameRow(listings[k], listings'[k])
    <3>1. listings[k].id \in Nat /\ listings[k].id < nextId
      BY <1>4, <2>1 DEF SameRow, Row
    <3> QED
      BY <1>4, <1>9, <2>1, <3>1 DEF SameRow
  <2>2. CASE \E r \in new : r.key = k /\ listings'[k].id = nextId + Before(new, r)
    BY <1>3, <1>4, <1>5, <2>2
  <2> QED
    BY <1>8, <1>10, <2>1, <2>2
<1>11. ASSUME NEW j \in Keys, NEW k \in Keys, listings'[j] # NoRow, listings'[k] # NoRow,
              listings'[j].id = listings'[k].id
       PROVE  j = k
  <2>1. CASE SameRow(listings[j], listings'[j]) /\ SameRow(listings[k], listings'[k])
    BY <1>4, <1>11, <2>1 DEF RowsOK, SameRow
  <2>2. CASE \E r \in new : r.key = j /\ listings'[j].id = nextId + Before(new, r)
    <3>1. PICK r \in new : r.key = j /\ listings'[j].id = nextId + Before(new, r)
      BY <2>2
    <3>2. Before(new, r) \in Nat
      BY <1>3
    <3>3. ~SameRow(listings[k], listings'[k])
      BY <1>4, <1>11, <3>1, <3>2 DEF SameRow, Row
    <3>4. PICK q \in new : q.key = k /\ listings'[k].id = nextId + Before(new, q)
      BY <1>8, <1>11, <3>3
    <3>5. Before(new, q) = Before(new, r)
      <4>1. Before(new, q) \in Nat /\ nextId \in Nat
        BY <1>3, <1>4
      <4>2. nextId + Before(new, q) = nextId + Before(new, r)
        BY <1>11, <3>1, <3>4
      <4> QED
        BY <3>2, <4>1, <4>2
    <3> QED
      BY <1>3, <3>1, <3>4, <3>5
  <2>3. CASE \E r \in new : r.key = k /\ listings'[k].id = nextId + Before(new, r)
    <3>1. PICK r \in new : r.key = k /\ listings'[k].id = nextId + Before(new, r)
      BY <2>3
    <3>2. Before(new, r) \in Nat
      BY <1>3
    <3>3. ~SameRow(listings[j], listings'[j])
      BY <1>4, <1>11, <3>1, <3>2 DEF SameRow, Row
    <3>4. PICK q \in new : q.key = j /\ listings'[j].id = nextId + Before(new, q)
      BY <1>8, <1>11, <3>3
    <3>5. Before(new, q) = Before(new, r)
      <4>1. Before(new, q) \in Nat /\ nextId \in Nat
        BY <1>3, <1>4
      <4>2. nextId + Before(new, q) = nextId + Before(new, r)
        BY <1>11, <3>1, <3>4
      <4> QED
        BY <3>2, <4>1, <4>2
    <3> QED
      BY <1>3, <3>1, <3>4, <3>5
  <2> QED
    BY <1>8, <1>11, <2>1, <2>2, <2>3
<1>12. RowsOK(listings', nextId')
  BY <1>5, <1>8, <1>9, <1>10, <1>11 DEF RowsOK
<1>13. Evolves(listings, listings', nextId)
  BY <1>10 DEF Evolves
<1> QED
  BY <1>8, <1>9, <1>12, <1>13

LEMMA FlushChunkInv ==
    ASSUME MirrorInv, NEW pg, FlushChunk(pg)
    PROVE  MirrorInv'
<1>1. PICK chunk : /\ chunk \subseteq {r \in pg.left : RowAction(r) = "upsert"}
                   /\ Upsert(chunk)
                   /\ pages' = (pages \ {pg}) \cup {[pg EXCEPT !.left = @ \ chunk]}
  BY DEF FlushChunk
<1>2. pg \in pages /\ pg.staged /\ UNCHANGED <<feedVars, since, overlapped, finalizers, enrichVars, faults>>
  BY DEF FlushChunk
<1>3. PageOK(pg, clock)
  BY <1>2 DEF MirrorInv, PagesOK
<1>4. chunk \subseteq pg.rows /\ \A r \in chunk : r.status = "active"
  BY <1>1, <1>3 DEF PageOK, RowAction
<1>5. PICK l : l = pg.left \ chunk
  OBVIOUS
<1>6. l \subseteq pg.rows
  BY <1>3, <1>5 DEF PageOK
<1>7. pages' = (pages \ {pg}) \cup {[pg EXCEPT !.left = l]}
  BY <1>1, <1>5
<1>7a. PICK q : q = [pg EXCEPT !.left = l]
  OBVIOUS
<1>7b. SamePage(pg, q)
  BY <1>3, <1>6, <1>7a, PageLeft
<1>8. PagesOK(pages', since, clock) /\ StampsOK(listings, pages', since, overlapped)
      /\ (~overlapped => pages' = {q})
  BY <1>2, <1>7, <1>7a, <1>7b, PageSwap
<1>9. /\ RowsOK(listings', nextId') /\ nextId' >= nextId
      /\ Evolves(listings, listings', nextId)
      /\ \A k \in Keys : listings'[k] # NoRow =>
            /\ ZoneOK(listings'[k])
            /\ \/ listings'[k] = listings[k]
               \/ \E r \in pg.rows : r.key = k /\ r.mod = listings'[k].mod
  BY <1>1, <1>2, <1>4, UpsertFacts
<1>10. StampsOK(listings', pages', since, overlapped)
  <2>1. Written(listings, pages', since) /\ q \in pages'
    BY <1>7, <1>7a, <1>8 DEF StampsOK
  <2>2. q.rows = pg.rows /\ q.staged
    BY <1>2, <1>7b DEF SamePage
  <2>3. Written(listings', pages', since)
    BY <1>9, <2>1, <2>2 DEF Written
  <2> QED
    BY <1>8, <2>3 DEF StampsOK
<1>11. PICK L2, n2 : L2 = listings' /\ n2 = nextId'
  OBVIOUS
<1>12. nextId \in Nat /\ n2 \in Nat /\ nextId <= n2
  BY <1>9, <1>11 DEF MirrorInv, RowsOK
<1>13. WorkOK(work, L2, n2)
  BY <1>9, <1>11, <1>12, WorkFrame DEF MirrorInv
<1> QED
  BY <1>2, <1>8, <1>9, <1>10, <1>11, <1>13 DEF MirrorInv, feedVars, enrichVars

-----------------------------------------------------------------------------
(* The enrichment.                                                         *)

(***************************************************************************)
(* A step that changes one worker (or only the jobs), and the breaker.     *)
(***************************************************************************)
LEMMA StepWorker ==
    ASSUME MirrorInv, NEW w \in Workers, NEW x, WorkerOK(x, listings, nextId),
           work' = [work EXCEPT ![w] = x], BreakerOK(breaker', faults'),
           UNCHANGED <<feedVars, syncVars, listings, nextId>>
    PROVE  MirrorInv'
<1>1. WorkOK(work, listings, nextId)
  BY DEF MirrorInv
<1>2. WorkOK(work', listings, nextId)
  BY <1>1 DEF WorkOK
<1> QED
  BY <1>2 DEF MirrorInv, feedVars, syncVars

LEMMA JobStep ==
    ASSUME MirrorInv, finalizers' \in Nat, BreakerOK(breaker', faults'),
           UNCHANGED <<feedVars, since, pages, overlapped, listings, nextId, work>>
    PROVE  MirrorInv'
BY DEF MirrorInv, feedVars

LEMMA IdleOK ==
    ASSUME NEW L, NEW nid
    PROVE  WorkerOK(Idle, L, nid)
<1>1. Idle.rows = {} /\ Idle.todo = {} /\ Idle.flight = {} /\ Idle.got = {}
  BY DEF Idle
<1>2. IsWork(Idle)
  BY DEF IsWork, Idle
<1> QED
  BY <1>1, <1>2 DEF WorkerOK

LEMMA KickoffsInv ==
    ASSUME MirrorInv, EnqueueKickoff \/ CronKickoff \/ AdminEnrich
                      \/ \E w \in Workers : Kickoff(w)
    PROVE  MirrorInv'
<1>1. /\ finalizers' \in Nat
      /\ UNCHANGED <<feedVars, since, pages, overlapped, listings, nextId, work, breaker, faults>>
  BY DEF EnqueueKickoff, CronKickoff, AdminEnrich, Kickoff, syncVars, MirrorInv
<1>2. BreakerOK(breaker', faults')
  BY <1>1 DEF MirrorInv
<1> QED
  BY <1>1, <1>2, JobStep

LEMMA BreakerLapsesInv ==
    ASSUME MirrorInv, BreakerLapses
    PROVE  MirrorInv'
<1>1. BreakerOK(breaker', faults')
  BY DEF BreakerLapses, MirrorInv, BreakerOK
<1> QED
  BY <1>1, JobStep DEF BreakerLapses, syncVars, MirrorInv

(***************************************************************************)
(* The rows a batch selects.                                               *)
(***************************************************************************)
LEMMA SelectFits ==
    ASSUME MirrorInv, NEW cursor, NEW limit, NEW r \in SelectStale(cursor, limit)
    PROVE  PointFits(r, listings, nextId)
<1>1. PICK k \in Keys : Stale(listings[k]) /\ r = [id |-> listings[k].id, at |-> listings[k].at]
  BY DEF SelectStale, StaleKeys
<1>2. RowsOK(listings, nextId) /\ listings[k] # NoRow /\ listings[k].at # NoPlace
  BY <1>1 DEF Stale, MirrorInv
<1>3. listings[k] \in Row /\ listings[k].id < nextId
  BY <1>2 DEF RowsOK
<1>4. listings[k].id \in Nat /\ listings[k].at \in Places
  BY <1>2, <1>3 DEF Row
<1>5. r \in PointRow /\ r.id = listings[k].id /\ r.at = listings[k].at
  BY <1>1, <1>4 DEF PointRow
<1>6. \A j \in Keys : listings[j] # NoRow /\ listings[j].id = r.id => j = k
  BY <1>2, <1>5 DEF RowsOK
<1> QED
  BY <1>3, <1>5, <1>6 DEF PointFits

LEMMA StartBatchInv ==
    ASSUME MirrorInv, NEW w \in Workers, StartBatch(w)
    PROVE  MirrorInv'
<1>1. UNCHANGED <<feedVars, syncVars, listings, nextId, breaker, faults>>
  BY DEF StartBatch
<1>2. PICK rows : /\ \A r \in rows : PointFits(r, listings, nextId)
                  /\ work' = [work EXCEPT ![w] =
                        IF rows = {} THEN Idle
                        ELSE [job |-> Head(jobs), phase |-> "query", rows |-> rows,
                              todo |-> rows, flight |-> {}, got |-> {}]]
  BY SelectFits DEF StartBatch
<1> DEFINE y == [job |-> Head(jobs), phase |-> "query", rows |-> rows,
                 todo |-> rows, flight |-> {}, got |-> {}]
<1>3. WorkerOK(y, listings, nextId)
  BY <1>2 DEF WorkerOK, IsWork
<1>4. PICK x : x = IF rows = {} THEN Idle ELSE y
  OBVIOUS
<1>5. work' = [work EXCEPT ![w] = x]
  BY <1>2, <1>4
<1> HIDE DEF y
<1>6. WorkerOK(x, listings, nextId)
  BY <1>3, <1>4, IdleOK
<1>7. BreakerOK(breaker', faults')
  BY <1>1 DEF MirrorInv
<1> QED
  BY <1>1, <1>5, <1>6, <1>7, StepWorker

(***************************************************************************)
(* A worker's record with two of its fields replaced.                      *)
(***************************************************************************)
LEMMA WorkAsked ==
    ASSUME NEW y, IsWork(y), NEW a, NEW b
    PROVE  [y EXCEPT !.todo = a, !.flight = b] =
             [job |-> y.job, phase |-> y.phase, rows |-> y.rows,
              todo |-> a, flight |-> b, got |-> y.got]
<1> DEFINE F == {"job", "phase", "rows", "todo", "flight", "got"}
<1>1. PICK p, q, r, s, t, u :
        y = [job |-> p, phase |-> q, rows |-> r, todo |-> s, flight |-> t, got |-> u]
  BY DEF IsWork
<1>2. y.job = p /\ y.phase = q /\ y.rows = r /\ y.todo = s /\ y.flight = t /\ y.got = u
  BY <1>1
<1>3. PICK z : z = [y EXCEPT !.todo = a, !.flight = b]
  OBVIOUS
<1>4. DOMAIN z = F /\ z.job = p /\ z.phase = q /\ z.rows = r /\ z.todo = a /\ z.flight = b /\ z.got = u
  BY <1>1, <1>3
<1>5. z = [f \in F |-> z[f]]
  BY <1>1, <1>3, <1>4
<1> QED
  BY <1>2, <1>3, <1>4, <1>5

LEMMA WorkAnswered ==
    ASSUME NEW y, IsWork(y), NEW a, NEW b
    PROVE  [y EXCEPT !.flight = a, !.got = b] =
             [job |-> y.job, phase |-> y.phase, rows |-> y.rows,
              todo |-> y.todo, flight |-> a, got |-> b]
<1> DEFINE F == {"job", "phase", "rows", "todo", "flight", "got"}
<1>1. PICK p, q, r, s, t, u :
        y = [job |-> p, phase |-> q, rows |-> r, todo |-> s, flight |-> t, got |-> u]
  BY DEF IsWork
<1>2. y.job = p /\ y.phase = q /\ y.rows = r /\ y.todo = s /\ y.flight = t /\ y.got = u
  BY <1>1
<1>3. PICK z : z = [y EXCEPT !.flight = a, !.got = b]
  OBVIOUS
<1>4. DOMAIN z = F /\ z.job = p /\ z.phase = q /\ z.rows = r /\ z.todo = s /\ z.flight = a /\ z.got = b
  BY <1>1, <1>3
<1>5. z = [f \in F |-> z[f]]
  BY <1>1, <1>3, <1>4
<1> QED
  BY <1>2, <1>3, <1>4, <1>5

LEMMA WorkCommitted ==
    ASSUME NEW y, IsWork(y), NEW a, NEW b
    PROVE  [y EXCEPT !.phase = a, !.got = b] =
             [job |-> y.job, phase |-> a, rows |-> y.rows,
              todo |-> y.todo, flight |-> y.flight, got |-> b]
<1> DEFINE F == {"job", "phase", "rows", "todo", "flight", "got"}
<1>1. PICK p, q, r, s, t, u :
        y = [job |-> p, phase |-> q, rows |-> r, todo |-> s, flight |-> t, got |-> u]
  BY DEF IsWork
<1>2. y.job = p /\ y.phase = q /\ y.rows = r /\ y.todo = s /\ y.flight = t /\ y.got = u
  BY <1>1
<1>3. PICK z : z = [y EXCEPT !.phase = a, !.got = b]
  OBVIOUS
<1>4. DOMAIN z = F /\ z.job = p /\ z.phase = a /\ z.rows = r /\ z.todo = s /\ z.flight = t /\ z.got = b
  BY <1>1, <1>3
<1>5. z = [f \in F |-> z[f]]
  BY <1>1, <1>3, <1>4
<1> QED
  BY <1>2, <1>3, <1>4, <1>5

LEMMA StartQueryInv ==
    ASSUME MirrorInv, NEW w \in Workers, NEW r, StartQuery(w, r)
    PROVE  MirrorInv'
<1> DEFINE y == work[w]
<1>1. /\ r \in y.todo /\ breaker' = Allow(breaker)
      /\ UNCHANGED <<feedVars, syncVars, listings, nextId, jobs, faults>>
  BY DEF StartQuery
<1>2. WorkerOK(y, listings, nextId) /\ DOMAIN work = Workers
  BY DEF MirrorInv, WorkOK
<1>3. PICK f : f = IF breaker'.state = "closed" THEN y.flight \cup {r} ELSE y.flight
  OBVIOUS
<1>4. y = [job |-> y.job, phase |-> y.phase, rows |-> y.rows, todo |-> y.todo,
           flight |-> y.flight, got |-> y.got]
  BY <1>2 DEF WorkerOK, IsWork
<1> DEFINE x == [job |-> y.job, phase |-> y.phase, rows |-> y.rows, todo |-> y.todo \ {r},
                 flight |-> f, got |-> y.got]
<1>5. work' = [work EXCEPT ![w] = x]
  <2>1. work' = [work EXCEPT ![w] = [y EXCEPT !.todo = y.todo \ {r}, !.flight = f]]
    BY <1>2, <1>3, <1>4 DEF StartQuery
  <2>2. [y EXCEPT !.todo = y.todo \ {r}, !.flight = f] = x
    BY <1>2, WorkAsked DEF WorkerOK
  <2> QED
    BY <2>1, <2>2
<1>6. WorkerOK(x, listings, nextId)
  <2>1. f \subseteq y.rows /\ y.todo \ {r} \subseteq y.rows
    BY <1>1, <1>2, <1>3 DEF WorkerOK
  <2> QED
    BY <1>2, <2>1 DEF WorkerOK, IsWork
<1>7. BreakerOK(breaker', faults')
  BY <1>1 DEF MirrorInv, BreakerOK, Allow
<1> HIDE DEF x
<1> QED
  BY <1>1, <1>5, <1>6, <1>7, StepWorker

LEMMA QueryAnswersInv ==
    ASSUME MirrorInv, NEW w \in Workers, NEW r, QueryAnswers(w, r)
    PROVE  MirrorInv'
<1> DEFINE y == work[w]
<1>1. /\ r \in y.flight /\ breaker' = [fails |-> 0, state |-> "closed"]
      /\ UNCHANGED <<feedVars, syncVars, listings, nextId, jobs, faults>>
  BY DEF QueryAnswers
<1>2. WorkerOK(y, listings, nextId) /\ DOMAIN work = Workers
  BY DEF MirrorInv, WorkOK
<1>3. PICK u : u = [id |-> r.id, zone |-> ZoneAt[r.at]]
  OBVIOUS
<1>4. y = [job |-> y.job, phase |-> y.phase, rows |-> y.rows, todo |-> y.todo,
           flight |-> y.flight, got |-> y.got]
  BY <1>2 DEF WorkerOK, IsWork
<1> DEFINE x == [job |-> y.job, phase |-> y.phase, rows |-> y.rows, todo |-> y.todo,
                 flight |-> y.flight \ {r}, got |-> y.got \cup {u}]
<1>5. work' = [work EXCEPT ![w] = x]
  <2>1. work' = [work EXCEPT ![w] = [y EXCEPT !.flight = y.flight \ {r}, !.got = y.got \cup {u}]]
    BY <1>2, <1>3, <1>4 DEF QueryAnswers
  <2>2. [y EXCEPT !.flight = y.flight \ {r}, !.got = y.got \cup {u}] = x
    <3>1. PICK f, g : f = y.flight \ {r} /\ g = y.got \cup {u}
      OBVIOUS
    <3>2. PICK v : v = y
      OBVIOUS
    <3>3. IsWork(v)
      BY <1>2, <3>2 DEF WorkerOK
    <3>4. [v EXCEPT !.flight = f, !.got = g] =
            [job |-> v.job, phase |-> v.phase, rows |-> v.rows, todo |-> v.todo,
             flight |-> f, got |-> g]
      BY <3>3, WorkAnswered
    <3> QED
      BY <3>1, <3>2, <3>4
  <2> QED
    BY <2>1, <2>2
<1>6. PointFits(r, listings, nextId)
  BY <1>1, <1>2 DEF WorkerOK
<1>7. AnswerFits(u, listings, nextId)
  <2>1. u.id = r.id /\ u.zone = ZoneAt[r.at] /\ r.id \in Nat /\ r.at \in Places
    BY <1>3, <1>6 DEF PointFits, PointRow
  <2>2. u.zone \in ZoneClasses \cup {NoZone}
    BY <2>1, Numbers
  <2> QED
    BY <1>6, <2>1, <2>2 DEF PointFits, AnswerFits
<1>8. WorkerOK(x, listings, nextId)
  BY <1>2, <1>7 DEF WorkerOK, IsWork
<1>9. BreakerOK(breaker', faults')
  BY <1>1 DEF MirrorInv, BreakerOK
<1> HIDE DEF x
<1> QED
  BY <1>1, <1>5, <1>8, <1>9, StepWorker

LEMMA QueryFailsInv ==
    ASSUME MirrorInv, NEW w \in Workers, NEW r, QueryFails(w, r)
    PROVE  MirrorInv'
<1> DEFINE y == work[w]
<1>1. /\ breaker' = RecordFailure(breaker) /\ faults' = faults + 1 /\ faults < MaxFaults
      /\ UNCHANGED <<feedVars, syncVars, listings, nextId, jobs>>
  BY DEF QueryFails, Fault
<1>2. WorkerOK(y, listings, nextId) /\ DOMAIN work = Workers
  BY DEF MirrorInv, WorkOK
<1>3. y = [job |-> y.job, phase |-> y.phase, rows |-> y.rows, todo |-> y.todo,
           flight |-> y.flight, got |-> y.got]
  BY <1>2 DEF WorkerOK, IsWork
<1> DEFINE x == [job |-> y.job, phase |-> y.phase, rows |-> y.rows, todo |-> y.todo,
                 flight |-> y.flight \ {r}, got |-> y.got]
<1>4. work' = [work EXCEPT ![w] = x]
  <2>1. work' = [work EXCEPT ![w] = [y EXCEPT !.flight = y.flight \ {r}]]
    BY <1>2, <1>3 DEF QueryFails
  <2>2. [y EXCEPT !.flight = y.flight \ {r}] = x
    BY <1>3
  <2> QED
    BY <2>1, <2>2
<1>5. WorkerOK(x, listings, nextId)
  BY <1>2 DEF WorkerOK, IsWork
<1>6. BreakerOK(breaker', faults')
  <2>1. BreakerOK(breaker, faults)
    BY DEF MirrorInv
  <2>2. breaker.fails \in Nat /\ breaker.state \in {"closed", "open", "lapsed"}
        /\ faults \in 0 .. MaxFaults /\ breaker.fails <= faults
    BY <2>1 DEF BreakerOK
  <2>3. breaker' \in [fails : Nat, state : {"closed", "open", "lapsed"}]
        /\ breaker'.fails = breaker.fails + 1
    BY <1>1, <2>2 DEF RecordFailure
  <2>4. faults' \in 0 .. MaxFaults /\ breaker.fails + 1 <= faults'
    BY <1>1, <2>2, Numbers
  <2> QED
    BY <2>3, <2>4 DEF BreakerOK
<1> HIDE DEF x
<1> QED
  BY <1>1, <1>4, <1>5, <1>6, StepWorker

LEMMA ChainBatchInv ==
    ASSUME MirrorInv, NEW w \in Workers, ChainBatch(w)
    PROVE  MirrorInv'
<1>1. /\ work' = [work EXCEPT ![w] = Idle]
      /\ UNCHANGED <<feedVars, syncVars, listings, nextId, breaker, faults>>
  BY DEF ChainBatch
<1>2. BreakerOK(breaker', faults')
  BY <1>1 DEF MirrorInv
<1> QED
  BY <1>1, <1>2, IdleOK, StepWorker

LEMMA FailBatchInv ==
    ASSUME MirrorInv, NEW w \in Workers, FailBatch(w)
    PROVE  MirrorInv'
<1>1. /\ work' = [work EXCEPT ![w] = Idle]
      /\ UNCHANGED <<feedVars, syncVars, listings, nextId, breaker>>
  BY DEF FailBatch
<1>2. BreakerOK(breaker', faults')
  BY <1>1, Numbers DEF FailBatch, Fault, MirrorInv, BreakerOK
<1> QED
  BY <1>1, <1>2, IdleOK, StepWorker

(***************************************************************************)
(* The commit writes each answer to the row of its id.                     *)
(***************************************************************************)
LEMMA SetZoneFacts ==
    ASSUME NEW row \in Row, NEW z \in ZoneClasses \cup {NoZone}
    PROVE  LET x == SetZone(row, z)
           IN  /\ x \in Row /\ x.id = row.id /\ x.mod = row.mod /\ x.at = row.at
               /\ x.moved = row.moved /\ x.zone = z /\ x.low = ComputeLowRisk(z)
<1>1. PICK b \in BOOLEAN : b = ComputeLowRisk(z)
  BY Zenon DEF ComputeLowRisk
<1> DEFINE x == [row EXCEPT !.zone = z, !.low = b, !.stamp = "fresh"]
<1>2. SetZone(row, z) = x
  BY <1>1 DEF SetZone
<1>3. x \in Row
  BY DEF Row
<1>4. /\ x.id = row.id /\ x.mod = row.mod /\ x.at = row.at
      /\ x.moved = row.moved /\ x.zone = z /\ x.low = b
  BY DEF Row
<1> HIDE DEF x
<1> QED
  BY <1>1, <1>2, <1>3, <1>4

LEMMA CommitBatchInv ==
    ASSUME MirrorInv, NEW w \in Workers, CommitBatch(w)
    PROVE  MirrorInv'
<1> DEFINE y == work[w]
<1>1. /\ listings' = ApplyUpdates(y.got)
      /\ UNCHANGED <<feedVars, syncVars, nextId, jobs, breaker, faults>>
  BY DEF CommitBatch
<1>2. WorkerOK(y, listings, nextId) /\ DOMAIN work = Workers
  BY DEF MirrorInv, WorkOK
<1>3. y = [job |-> y.job, phase |-> y.phase, rows |-> y.rows, todo |-> y.todo,
           flight |-> y.flight, got |-> y.got]
  BY <1>2 DEF WorkerOK, IsWork
<1>4. DOMAIN listings' = Keys
  BY <1>1 DEF ApplyUpdates
<1>5. ASSUME NEW k \in Keys, listings'[k] # NoRow
      PROVE  /\ ZoneOK(listings'[k]) /\ listings[k] # NoRow /\ listings'[k] \in Row
             /\ listings'[k].id = listings[k].id /\ listings'[k].mod = listings[k].mod
             /\ listings'[k].moved = listings[k].moved /\ listings'[k].at = listings[k].at
  <2>1. CASE listings[k] # NoRow /\ \E u \in y.got : u.id = listings[k].id
    <3>1. PICK u \in y.got : /\ u.id = listings[k].id
                             /\ u = CHOOSE v \in y.got : v.id = listings[k].id
      BY <2>1
    <3>2. listings'[k] = SetZone(listings[k], u.zone)
      BY <1>1, <2>1, <3>1 DEF ApplyUpdates, Present
    <3>3. AnswerFits(u, listings, nextId) /\ listings[k] \in Row
      BY <1>2, <2>1 DEF WorkerOK, MirrorInv, RowsOK
    <3>4. u.zone \in ZoneClasses \cup {NoZone}
          /\ (~listings[k].moved => u.zone = ZoneAt[listings[k].at])
      BY <2>1, <3>1, <3>3 DEF AnswerFits
    <3>5. PICK x : x = SetZone(listings[k], u.zone)
      OBVIOUS
    <3>6. /\ x \in Row /\ x.id = listings[k].id /\ x.mod = listings[k].mod
          /\ x.at = listings[k].at /\ x.moved = listings[k].moved
          /\ x.zone = u.zone /\ x.low = ComputeLowRisk(u.zone)
      BY <3>3, <3>4, <3>5, SetZoneFacts
    <3>7. ZoneOK(x)
      BY <3>4, <3>6 DEF ZoneOK
    <3> QED
      BY <2>1, <3>2, <3>5, <3>6, <3>7
  <2>2. CASE ~(listings[k] # NoRow /\ \E u \in y.got : u.id = listings[k].id)
    <3>1. listings'[k] = listings[k]
      BY <1>1, <2>2 DEF ApplyUpdates, Present
    <3> QED
      BY <1>5, <3>1 DEF MirrorInv, RowsOK
  <2> QED
    BY <2>1, <2>2
<1>6. InPlace(listings, listings')
  BY <1>4, <1>5 DEF InPlace
<1>7. PICK L2 : L2 = listings'
  OBVIOUS
<1>8. RowsOK(L2, nextId) /\ StampsOK(L2, pages, since, overlapped) /\ WorkOK(work, L2, nextId)
  BY <1>6, <1>7, InPlaceOK DEF MirrorInv
<1> DEFINE x == [job |-> y.job, phase |-> "chain", rows |-> y.rows, todo |-> y.todo,
                 flight |-> y.flight, got |-> {}]
<1>9. work' = [work EXCEPT ![w] = x]
  <2>1. work' = [work EXCEPT ![w] = [y EXCEPT !.phase = "chain", !.got = {}]]
    BY <1>2, <1>3 DEF CommitBatch
  <2>2. [y EXCEPT !.phase = "chain", !.got = {}] = x
    BY <1>2, WorkCommitted DEF WorkerOK
  <2> QED
    BY <2>1, <2>2
<1>10. WorkerOK(x, L2, nextId)
  BY <1>8 DEF WorkOK, WorkerOK, IsWork
<1> HIDE DEF x
<1>11. WorkOK(work', L2, nextId)
  BY <1>8, <1>9, <1>10 DEF WorkOK
<1> QED
  BY <1>1, <1>5, <1>7, <1>8, <1>11 DEF MirrorInv, feedVars, syncVars

-----------------------------------------------------------------------------
(* The theorems.                                                           *)

LEMMA MirrorInit ==
    ASSUME Init
    PROVE  MirrorInv
<1>1. SourceOK(source, clock)
  <2>1. /\ source = [k \in Keys |-> [key |-> k, status |-> "active", at |-> StartAt[k],
                                     mod |-> KeyRank[k]]]
        /\ clock = Cardinality(Keys)
    BY DEF Init
  <2>2. \A k \in Keys : KeyRank[k] \in 1 .. clock /\ StartAt[k] \in Places
    BY <2>1, KeyRankFacts, Numbers
  <2>3. \A k \in Keys : [key |-> k, status |-> "active", at |-> StartAt[k], mod |-> KeyRank[k]]
                        \in SourceRow
    BY <2>2, <2>1, Numbers DEF SourceRow, Statuses
  <2> QED
    BY <2>1, <2>2, <2>3, KeyRankFacts, Numbers DEF SourceOK
<1>2. PagesOK(pages, since, clock)
  BY Numbers DEF Init, PagesOK
<1>3. RowsOK(listings, nextId) /\ StampsOK(listings, pages, since, overlapped)
      /\ \A k \in Keys : listings[k] = NoRow
  BY DEF Init, RowsOK, StampsOK, OnePage, Written
<1>4. WorkOK(work, listings, nextId)
  BY IdleOK DEF Init, WorkOK
<1>5. BreakerOK(breaker, faults)
  BY Numbers DEF Init, BreakerOK
<1> QED
  BY <1>1, <1>2, <1>3, <1>4, <1>5 DEF MirrorInv, Init

LEMMA MirrorNext ==
    ASSUME MirrorInv, [Next]_vars
    PROVE  MirrorInv'
<1>1. ASSUME NEW k \in Keys, Revise(k) \/ ExpireStamp(k)
      PROVE  MirrorInv'
  BY <1>1, ReviseInv, ExpireStampInv
<1>2. CASE Fetch \/ RepeatFetch
  BY <1>2, FetchInv, RepeatFetchInv
<1>3. ASSUME NEW pg \in pages, StorePage(pg) \/ FlushChunk(pg) \/ FinishPage(pg) \/ FailPage(pg)
      PROVE  MirrorInv'
  BY <1>3, StorePageInv, FlushChunkInv, FinishPageInv, FailPageInv
<1>4. ASSUME NEW S \in SUBSET Keys, PurgeClosed(S)
      PROVE  MirrorInv'
  BY <1>4, PurgeClosedInv
<1>5. CASE EnqueueKickoff \/ CronKickoff \/ AdminEnrich \/ \E w \in Workers : Kickoff(w)
  BY <1>5, KickoffsInv
<1>6. CASE BreakerLapses
  BY <1>6, BreakerLapsesInv
<1>7. ASSUME NEW w \in Workers, Query(w)
      PROVE  MirrorInv'
  BY <1>7, StartQueryInv, QueryAnswersInv, QueryFailsInv DEF Query
<1>8. ASSUME NEW w \in Workers, StartBatch(w) \/ CommitBatch(w) \/ ChainBatch(w) \/ FailBatch(w)
      PROVE  MirrorInv'
  BY <1>8, StartBatchInv, CommitBatchInv, ChainBatchInv, FailBatchInv
<1>9. CASE UNCHANGED vars
  BY <1>9 DEF vars, feedVars, syncVars, enrichVars, MirrorInv
<1> QED
  BY <1>1, <1>2, <1>3, <1>4, <1>5, <1>6, <1>7, <1>8, <1>9 DEF Next

LEMMA MirrorAlways == Spec => []MirrorInv
<1>1. Init => MirrorInv
  BY MirrorInit
<1>2. MirrorInv /\ [Next]_vars => MirrorInv'
  BY MirrorNext
<1> QED
  BY <1>1, <1>2, PTL DEF Spec

LEMMA MirrorShape == MirrorInv => TypeOK /\ ZoneOfOwnPoint
<1> SUFFICES ASSUME MirrorInv PROVE TypeOK /\ ZoneOfOwnPoint
  OBVIOUS
<1>1. source \in [Keys -> SourceRow] /\ clock \in Nat /\ since \in 0 .. clock
  BY DEF MirrorInv, SourceOK, PagesOK
<1>2. nextId \in Nat
      /\ (\A k \in Keys : Present(k) => listings[k] \in Row /\ listings[k].id < nextId)
  BY DEF MirrorInv, RowsOK, Present
<1>3. \A j, k \in Keys : Present(j) /\ listings[j].id = listings[k].id => j = k
  <2> SUFFICES ASSUME NEW j \in Keys, NEW k \in Keys, Present(j), listings[j].id = listings[k].id
               PROVE  j = k
    OBVIOUS
  <2>1. CASE Present(k)
    BY <2>1 DEF MirrorInv, RowsOK, Present
  <2>2. CASE ~Present(k)
    <3>1. listings[k].id = 0
      BY <2>2 DEF Present, NoRow
    <3>2. listings[j].id # 0
      BY <1>2 DEF Row
    <3> QED
      BY <3>1, <3>2
  <2> QED
    BY <2>1, <2>2
<1>4. \A pg \in pages : pg.rows \subseteq SourceRow /\ pg.left \subseteq pg.rows
  BY DEF MirrorInv, PagesOK, PageOK
<1>5. \A w \in Workers : work[w].rows \subseteq PointRow
  BY DEF MirrorInv, WorkOK, WorkerOK, PointFits
<1>6. breaker.fails \in 0 .. MaxFaults /\ faults \in 0 .. MaxFaults
  BY Numbers DEF MirrorInv, BreakerOK
<1>7. TypeOK
  BY <1>1, <1>2, <1>3, <1>4, <1>5, <1>6 DEF TypeOK, MirrorInv
<1>8. ZoneOfOwnPoint
  BY DEF ZoneOfOwnPoint, MirrorInv, Present, ZoneOK
<1> QED
  BY <1>7, <1>8

(***************************************************************************)
(* The mirror holds Active and Pending rows only, each under an id of its  *)
(* own that the sequence has passed, staged pages hold feed rows, and      *)
(* every row a batch selected has a point to ask the NFHL about.           *)
(***************************************************************************)
THEOREM MirrorTypes == Spec => []TypeOK
BY MirrorAlways, MirrorShape, PTL

(***************************************************************************)
(* BatchUpdateFEMA goes by id: whatever chains overlap, fail or lag behind *)
(* purges and upserts, a row that has not moved since its insert carries   *)
(* the zone of its own point, and the low-risk flag is that of its zone.   *)
(***************************************************************************)
THEOREM ZonesBelong == Spec => []ZoneOfOwnPoint
BY MirrorAlways, MirrorShape, PTL

(***************************************************************************)
(* The upsert compares no stamps, yet while the fetches of a dataset come  *)
(* one after the other it never puts an older version of a listing over a  *)
(* newer one, failed and repeated persist jobs included.                   *)
(***************************************************************************)
THEOREM NeverBackInTime == Spec => NoRegress
<1> DEFINE A == ~overlapped => \A k \in Keys :
                   Present(k) /\ Present(k)' => listings'[k].mod >= listings[k].mod
<1>1. MirrorInv /\ [Next]_vars => [A]_vars
  <2> SUFFICES ASSUME MirrorInv, Next, ~overlapped,
                      NEW k \in Keys, listings[k] # NoRow, listings'[k] # NoRow
               PROVE  listings'[k].mod >= listings[k].mod
    BY DEF Present
  <2>0. OnePage(pages, since) /\ Written(listings, pages, since)
    BY DEF MirrorInv, StampsOK
  <2>1. listings[k].mod \in Nat /\ listings[k] \in Row
    BY DEF MirrorInv, RowsOK, Row
  <2>2. CASE \E pg \in pages : FlushChunk(pg)
    <3>1. PICK pg \in pages : FlushChunk(pg)
      BY <2>2
    <3>2. PICK chunk : /\ chunk \subseteq {r \in pg.left : RowAction(r) = "upsert"}
                       /\ Upsert(chunk)
      BY <3>1 DEF FlushChunk
    <3>3. PageOK(pg, clock) /\ (\A p \in pages : p = pg) /\ since \in Nat
      BY <2>0 DEF MirrorInv, PagesOK, OnePage
    <3>4. chunk \subseteq pg.rows /\ \A r \in chunk : r.status = "active"
      BY <3>2, <3>3 DEF PageOK, RowAction
    <3>5. \/ listings'[k] = listings[k]
          \/ \E r \in pg.rows : r.key = k /\ r.mod = listings'[k].mod
      BY <3>2, <3>4, UpsertFacts
    <3>6. ASSUME NEW r \in pg.rows, r.key = k, r.mod = listings'[k].mod
          PROVE  listings'[k].mod >= listings[k].mod
      <4>1. r.mod \in Nat /\ since < r.mod
        BY <2>0, <3>3 DEF PageOK, SourceRow, OnePage
      <4>2. listings[k].mod <= since \/ \E q \in pg.rows : q.key = k /\ q.mod = listings[k].mod
        BY <2>0, <3>3 DEF Written
      <4>3. ASSUME NEW q \in pg.rows, q.key = k, q.mod = listings[k].mod
            PROVE  r = q
        BY <3>3, <3>6, <4>3 DEF PageOK
      <4> QED
        BY <2>1, <3>3, <3>6, <4>1, <4>2, <4>3
    <3> QED
      BY <2>1, <3>5, <3>6
  <2>3. CASE \E pg \in pages : FinishPage(pg)
    BY <2>1, <2>3 DEF FinishPage
  <2>4. CASE \E S \in SUBSET Keys : PurgeClosed(S)
    BY <2>1, <2>4 DEF PurgeClosed
  <2>5. CASE \E j \in Keys : ExpireStamp(j)
    <3>1. PICK j \in Keys : ExpireStamp(j)
      BY <2>5
    <3>2. listings[j] \in Row /\ DOMAIN listings = Keys
      BY <3>1 DEF ExpireStamp, Present, MirrorInv, RowsOK
    <3>3. listings'[k].mod = listings[k].mod
      BY <3>1, <3>2 DEF ExpireStamp, Row
    <3> QED
      BY <2>1, <3>3
  <2>6. CASE \E w \in Workers : CommitBatch(w)
    <3>1. PICK w \in Workers : CommitBatch(w)
      BY <2>6
    <3>2. listings' = ApplyUpdates(work[w].got)
      BY <3>1 DEF CommitBatch
    <3>3. listings'[k] = listings[k]
          \/ \E z : listings'[k] = SetZone(listings[k], z)
      BY <3>2 DEF ApplyUpdates
    <3>4. listings'[k].mod = listings[k].mod
      BY <2>1, <3>3 DEF SetZone, Row
    <3> QED
      BY <2>1, <3>4
  <2>7. CASE UNCHANGED listings
    BY <2>1, <2>7
  <2>8. \/ \E pg \in pages : FlushChunk(pg) \/ FinishPage(pg)
        \/ \E S \in SUBSET Keys : PurgeClosed(S)
        \/ \E j \in Keys : ExpireStamp(j)
        \/ \E w \in Workers : CommitBatch(w)
        \/ UNCHANGED listings
    BY DEF Next, Revise, Fetch, RepeatFetch, AskFeed, StorePage, FailPage, EnqueueKickoff, CronKickoff, AdminEnrich,
           BreakerLapses, Kickoff, StartBatch, Query, StartQuery, QueryAnswers, QueryFails,
           ChainBatch, FailBatch
  <2> QED
    BY <2>2, <2>3, <2>4, <2>5, <2>6, <2>7, <2>8
<1>2. Spec => [][A]_vars
  BY <1>1, MirrorAlways, PTL DEF Spec
<1> QED
  BY <1>2 DEF NoRegress
=============================================================================
