------------------------ MODULE IncrementalSyncProofs -----------------------
(***************************************************************************)
(* Proofs about IncrementalSync, for any listings, page size, resolution   *)
(* of the clock and times: the shape of the state, and that the cursor is  *)
(* a high-water mark as long as every cycle fits one page.                 *)
(*                                                                         *)
(* The changes of a cycle are read at one time, and upstream goes on       *)
(* changing while they are written.  What makes the cursor safe is that it *)
(* moves to the newest row READ: up to that time, every change after the   *)
(* old cursor is in the page, unless the listing has changed again, and    *)
(* then its new time is after the new cursor too.                          *)
(***************************************************************************)
EXTENDS IncrementalSync, FiniteSetTheorems, WellFoundedInduction, NaturalsInduction, TLAPS

-----------------------------------------------------------------------------
(* The inductive invariant: u upstream, m the mirror, c the cursor, n the  *)
(* clock, k the skip of the pending fetch, pg the staged page.             *)

Page == [rows : SUBSET (Rows \X Time), more : BOOLEAN, end : Time \cup {NULL}]

ClockOK(u, c, n) == c <= n /\ \A r \in Rows : u[r] <= n

\* A staged page has rows, read from upstream by the pending fetch.
StagedOK(k, pg, n) ==
    pg # NULL => k # NULL /\ pg.rows # {} /\ \A x \in pg.rows : x[2] <= n

ShapeInv ==
    /\ TypeOK
    /\ ClockOK(up, cursor, clock)
    /\ StagedOK(skip, page, clock)

\* The first fetch of a cycle reads everything there is, so that the rest of
\* the cycle, if its page was full, reads past the end.
SkipOK(k, pg) ==
    /\ k # NULL => k = 0 \/ k >= Top
    /\ pg # NULL => k = 0

\* Every change up to c is in the mirror.
Mirrored(u, m, c) == \A r \in Rows : u[r] <= c => m[r] = u[r]

\* The rows T, newest at time t, against upstream: one version per listing,
\* none of them known to the cursor or newer than upstream's, and all of the
\* changes between the cursor and t.
ReadAt(T, t, u, c) ==
    /\ \E x \in T : x[2] = t
    /\ \A x \in T : c < x[2] /\ x[2] <= t /\ x[2] <= u[x[1]]
    /\ \A x, y \in T : x[1] = y[1] => x = y
    /\ \A r \in Rows : c < u[r] /\ u[r] <= t => <<r, u[r]>> \in T

PageOK(pg, u, c, n) == pg # NULL => \E t \in 0 .. n : ReadAt(pg.rows, t, u, c)

SyncInv ==
    /\ ShapeInv
    /\ SkipOK(skip, page)
    /\ Mirrored(up, mir, cursor)
    /\ PageOK(page, up, cursor, clock)

-----------------------------------------------------------------------------
(* Facts about the operators.                                              *)

\* What cutting a time to the second gives.
LEMMA SecondsOf ==
    ASSUME NEW t \in Time
    PROVE  Seconds(t) \in Time /\ Seconds(t) <= t
<1>1. PerSecond \in Nat \ {0} /\ MaxTime \in Nat /\ t \in Nat
  BY IncrementalAssumption DEF Time
<1>2. t % PerSecond \in 0 .. t
  BY <1>1
<1> QED
  BY <1>1, <1>2 DEF Seconds, Time

LEMMA MinOfTwo ==
    ASSUME NEW a \in Nat, NEW b \in Nat
    PROVE  Min({a, b}) = IF a <= b THEN a ELSE b
<1> DEFINE m == IF a <= b THEN a ELSE b
<1>1. m \in {a, b} /\ \A y \in {a, b} : m <= y
  OBVIOUS
<1>2. \A x \in {a, b} : (\A y \in {a, b} : x <= y) => x = m
  OBVIOUS
<1> QED
  BY <1>1, <1>2 DEF Min

LEMMA MaxOfTwo ==
    ASSUME NEW a \in Nat, NEW b \in Nat
    PROVE  Max({a, b}) = IF a >= b THEN a ELSE b
<1> DEFINE m == IF a >= b THEN a ELSE b
<1>1. m \in {a, b} /\ \A y \in {a, b} : m >= y
  OBVIOUS
<1>2. \A x \in {a, b} : (\A y \in {a, b} : x >= y) => x = m
  OBVIOUS
<1> QED
  BY <1>1, <1>2 DEF Max

\* The newest of the rows of a page.
LEMMA MaxOfTimes ==
    ASSUME NEW S \in SUBSET Time, S # {}
    PROVE  Max(S) \in S /\ \A y \in S : Max(S) >= y
<1> DEFINE Less == {p \in Nat \X Nat : p[1] < p[2]}
           U == {m \in Nat : \A y \in S : y <= m}
<1>0. MaxTime \in Nat /\ \A y \in S : y \in Nat /\ y <= MaxTime
  BY IncrementalAssumption DEF Time
<1>1. OpToRel(<, Nat) = Less
  BY DEF OpToRel
<1>2. IsWellFoundedOn(Less, Nat)
  BY <1>1, NatLessThanWellFounded
<1>3. MaxTime \in U /\ U \subseteq Nat
  BY <1>0
<1> HIDE DEF Less
<1>4. PICK x \in U : \A y \in U : ~(<<y, x>> \in Less)
  BY <1>2, <1>3, WFMin
<1>5. x \in Nat /\ \A y \in S : y \in Nat /\ y <= x
  BY <1>0, <1>4
<1>6. x \in S
  <2> SUFFICES ASSUME x \notin S PROVE FALSE
    OBVIOUS
  <2>1. \A y \in S : y <= x - 1
    BY <1>5
  <2>2. PICK y \in S : TRUE
    OBVIOUS
  <2>3. x - 1 \in Nat
    BY <2>1, <2>2, <1>5
  <2>4. x - 1 \in U
    BY <2>1, <2>3
  <2>5. <<x - 1, x>> \in Less
    BY <2>3, <1>5 DEF Less
  <2> QED
    BY <2>4, <2>5, <1>4
<1>7. \A y \in S : x >= y
  BY <1>5
<1> QED
  BY <1>6, <1>7 DEF Max

\* The cursor after a page whose newest row is t.
LEMMA CursorAfter ==
    ASSUME NEW c \in {Seconds(s) : s \in Time}, NEW t \in Time
    PROVE  /\ Max({c, Seconds(t)}) \in {Seconds(s) : s \in Time}
           /\ \A n \in Nat : c <= n /\ t <= n => Max({c, Seconds(t)}) <= n
           /\ c <= Max({c, Seconds(t)})
           /\ c < t => Max({c, Seconds(t)}) <= t
<1>1. PICK s \in Time : c = Seconds(s)
  OBVIOUS
<1>2. c \in Nat /\ Seconds(t) \in Nat /\ t \in Nat /\ Seconds(t) <= t
  BY <1>1, SecondsOf DEF Time
<1>3. Max({c, Seconds(t)}) = IF c >= Seconds(t) THEN c ELSE Seconds(t)
  BY <1>2, MaxOfTwo
<1> QED
  BY <1>2, <1>3

\* A page of a selection that fits: everything from the start, nothing from
\* $top on.
LEMMA PageOfFit ==
    ASSUME NEW S \in SUBSET Rows, NEW Q, NEW P, Cardinality(S) <= Top,
           IsPage(S, Q, P), skip \in Nat, skip = 0 \/ skip >= Top
    PROVE  /\ skip = 0 => P = S
           /\ skip # 0 => P = {}
<1>1. IsFiniteSet(S) /\ Cardinality(S) \in Nat /\ Top \in Nat
  BY IncrementalAssumption, FS_Subset, FS_CardinalityType
<1>2. Q \subseteq S /\ P \subseteq S \ Q /\ Cardinality(Q) = Min({skip, Cardinality(S)})
      /\ Cardinality(P) = Min({Top, Cardinality(S \ Q)})
  BY DEF IsPage
<1>3. Cardinality(Q) = IF skip <= Cardinality(S) THEN skip ELSE Cardinality(S)
  BY <1>1, <1>2, MinOfTwo
<1>4. IsFiniteSet(Q) /\ (Cardinality(S) = Cardinality(Q) => S = Q)
  BY <1>1, <1>2, FS_Subset
<1>5. CASE skip = 0
  <2>1. Q = {}
    BY <1>1, <1>3, <1>4, <1>5, FS_EmptySet
  <2>2. S \ Q = S
    BY <2>1
  <2>3. Cardinality(P) = Cardinality(S)
    BY <1>1, <1>2, <2>2, MinOfTwo
  <2> QED
    BY <1>1, <1>2, <1>5, <2>2, <2>3, FS_Subset
<1>6. CASE skip # 0
  <2>1. Cardinality(Q) = Cardinality(S)
    BY <1>1, <1>3, <1>6
  <2> QED
    BY <1>2, <1>4, <1>6, <2>1
<1> QED
  BY <1>5, <1>6

-----------------------------------------------------------------------------
(* The shape of the state.                                                 *)

\* A time is a natural number, and so is the cursor.
LEMMA CursorIsTime ==
    ASSUME NEW c \in {Seconds(s) : s \in Time}
    PROVE  c \in Time /\ c \in Nat
<1>1. PICK s \in Time : c = Seconds(s)
  OBVIOUS
<1> QED
  BY <1>1, SecondsOf DEF Time

LEMMA NewestOfPage ==
    ASSUME NEW T \in SUBSET (Rows \X Time), T # {}
    PROVE  /\ Max({x[2] : x \in T}) \in Time
           /\ \E x \in T : x[2] = Max({y[2] : y \in T})
           /\ \A x \in T : x[2] <= Max({y[2] : y \in T})
<1> DEFINE V == {x[2] : x \in T}
<1>1. V \in SUBSET Time /\ V # {}
  OBVIOUS
<1>2. Max(V) \in V /\ \A y \in V : Max(V) >= y
  BY <1>1, MaxOfTimes
<1>3. PICK m \in Time : m = Max(V)
  BY <1>1, <1>2
<1>4. \A y \in V : y \in Nat /\ m \in Nat /\ m >= y
  BY <1>1, <1>2, <1>3, IncrementalAssumption DEF Time
<1> QED
  BY <1>1, <1>2, <1>3, <1>4

LEMMA ShapeInit == Init => ShapeInv
<1> SUFFICES ASSUME Init PROVE ShapeInv
  OBVIOUS
<1>1. 0 \in Time /\ Seconds(0) = 0
  BY IncrementalAssumption DEF Time, Seconds
<1> QED
  BY <1>1 DEF Init, ShapeInv, TypeOK, ClockOK, StagedOK

\* The mirror after a finalize holds versions of the listings.
LEMMA UpsertType ==
    ASSUME NEW T \in SUBSET (Rows \X Time), NEW m \in [Rows -> Time]
    PROVE  [r \in Rows |-> IF \E x \in T : x[1] = r
                           THEN (CHOOSE x \in T : x[1] = r)[2] ELSE m[r]] \in [Rows -> Time]
<1> SUFFICES ASSUME NEW r \in Rows, \E x \in T : x[1] = r
             PROVE  (CHOOSE x \in T : x[1] = r)[2] \in Time
  OBVIOUS
<1>1. PICK y : y = CHOOSE x \in T : x[1] = r
  OBVIOUS
<1>2. y \in T
  BY <1>1
<1> QED
  BY <1>1, <1>2

LEMMA ShapeStep == ShapeInv /\ [Next]_vars => ShapeInv'
<1> SUFFICES ASSUME ShapeInv, [Next]_vars PROVE ShapeInv'
  OBVIOUS
<1>0. /\ TypeOK /\ ClockOK(up, cursor, clock) /\ StagedOK(skip, page, clock)
      /\ cursor \in Time /\ cursor \in Nat /\ clock \in Nat /\ MaxTime \in Nat /\ Top \in Nat
      /\ \A r \in Rows : up[r] \in Nat
  BY CursorIsTime, IncrementalAssumption DEF ShapeInv, TypeOK, Time
<1>1. CASE UNCHANGED vars
  BY <1>0, <1>1 DEF vars, ShapeInv, TypeOK, ClockOK, StagedOK
<1>2. ASSUME NEW S \in SUBSET Rows, Touch(S) PROVE ShapeInv'
  <2>1. clock + 1 \in Time /\ clock' = clock + 1
    BY <1>0, <1>2 DEF Touch, Time
  <2>2. up' \in [Rows -> Time] /\ \A r \in Rows : up'[r] <= clock'
    BY <1>0, <1>2, <2>1 DEF Touch, TypeOK, ClockOK
  <2>3. StagedOK(skip', page', clock')
    <3>1. page # NULL => \A x \in page.rows : x[2] \in Nat /\ x[2] <= clock
      BY <1>0 DEF TypeOK, StagedOK, Time
    <3> QED
      BY <1>0, <1>2, <2>1, <3>1 DEF Touch, StagedOK
  <2> QED
    BY <1>0, <1>2, <2>1, <2>2, <2>3 DEF Touch, ShapeInv, TypeOK, ClockOK
<1>3. CASE Poll
  BY <1>0, <1>3 DEF Poll, ShapeInv, TypeOK, ClockOK, StagedOK
<1>4. CASE Fetch
  <2>1. PICK P \in SUBSET Selected :
          \/ P = {} /\ skip' = NULL /\ window' = NULL /\ UNCHANGED page
          \/ /\ P # {}
             /\ page' = [rows |-> {<<p, up[p]>> : p \in P}, more |-> Cardinality(P) >= Top,
                         end |-> IF window = NULL THEN WindowEnd ELSE NULL]
             /\ UNCHANGED <<skip, window>>
    BY <1>4 DEF Fetch
  <2>2. skip # NULL /\ page = NULL /\ UNCHANGED <<windowed, clock, up, mir, cursor>>
    BY <1>4 DEF Fetch
  <2>3. CASE P = {}
    BY <1>0, <2>1, <2>2, <2>3 DEF ShapeInv, TypeOK, ClockOK, StagedOK
  <2>4. CASE P # {}
    <3>1. WindowEnd \in Time \cup {NULL}
      BY <1>0 DEF WindowEnd, TypeOK
    <3>2. {<<p, up[p]>> : p \in P} \subseteq Rows \X Time
      BY <1>0 DEF Selected, TypeOK
    <3>3. PICK b \in BOOLEAN : b = (Cardinality(P) >= Top)
      <4>1. P \in SUBSET Rows
        BY DEF Selected
      <4>2. Cardinality(P) \in Nat /\ Top \in Nat
        BY <4>1, IncrementalAssumption, FS_Subset, FS_CardinalityType
      <4>3. (Cardinality(P) >= Top) \in BOOLEAN
        BY <4>2
      <4> QED
        BY <4>3, Zenon
    <3>4. PICK T : T = {<<p, up[p]>> : p \in P}
      OBVIOUS
    <3>5. page' = [rows |-> T, more |-> b, end |-> IF window = NULL THEN WindowEnd ELSE NULL]
      BY <2>1, <2>4, <3>3, <3>4
    <3>6. T # {} /\ \A x \in T : x[2] <= clock
      <4>1. P \subseteq Rows /\ T # {}
        BY <2>4, <3>4 DEF Selected
      <4> QED
        BY <1>0, <4>1, <3>4 DEF ClockOK
    <3>7. page' \in Page /\ page'.rows = T
      BY <3>1, <3>2, <3>4, <3>5 DEF Page
    <3> QED
      BY <1>0, <2>1, <2>2, <2>4, <3>6, <3>7 DEF Page, ShapeInv, TypeOK, ClockOK, StagedOK
  <2> QED
    BY <2>3, <2>4
<1>5. CASE Finalize
  <2>1. /\ page \in Page /\ page.rows # {} /\ skip \in Nat
        /\ page.rows \in SUBSET (Rows \X Time)
    BY <1>0, <1>5 DEF Finalize, TypeOK, StagedOK, Page
  <2>2. PICK t \in Time : t = Newest /\ \E x \in page.rows : x[2] = t
    BY <2>1, NewestOfPage DEF Newest
  <2>3. mir' \in [Rows -> Time]
    BY <1>0, <1>5, <2>1, UpsertType DEF Finalize, TypeOK
  <2>4. t <= clock /\ t \in Nat
    BY <1>0, <1>5, <2>2 DEF Finalize, StagedOK, Time
  <2>5. cursor' = Max({cursor, Seconds(t)})
    BY <1>5, <2>2 DEF Finalize
  <2>6. cursor' \in {Seconds(s) : s \in Time} /\ cursor' <= clock
    <3>1. PICK c : c = cursor
      OBVIOUS
    <3>2. c \in {Seconds(s) : s \in Time} /\ c <= clock
      BY <1>0, <3>1 DEF TypeOK, ClockOK
    <3>3. Max({c, Seconds(t)}) \in {Seconds(s) : s \in Time} /\ Max({c, Seconds(t)}) <= clock
      BY <1>0, <2>4, <3>2, CursorAfter
    <3> QED
      BY <2>5, <3>1, <3>3
  <2>7. window' \in Time \cup {NULL}
    <3>1. page.end # NULL => Seconds(page.end) \in Time
      BY <2>1, SecondsOf DEF Page
    <3> QED
      BY <1>0, <1>5, <3>1 DEF Finalize, TypeOK
  <2>8. skip' = NULL \/ skip' \in Nat
    BY <1>0, <1>5, <2>1 DEF Finalize
  <2> QED
    BY <1>0, <1>5, <2>3, <2>6, <2>7, <2>8 DEF Finalize, ShapeInv, TypeOK, ClockOK, StagedOK
<1> QED
  BY <1>1, <1>2, <1>3, <1>4, <1>5 DEF Next, Sync

(***************************************************************************)
(* THEOREM.  The state keeps its shape: the cursor is a whole second, and  *)
(* what is staged are versions of listings (ApplyPatch, FetchPage).   *)
(***************************************************************************)
THEOREM SyncTypes == Spec => []TypeOK
<1>1. Init => ShapeInv
  BY ShapeInit
<1>2. ShapeInv /\ [Next]_vars => ShapeInv'
  BY ShapeStep
<1>3. ShapeInv => TypeOK
  BY DEF ShapeInv
<1> QED
  BY <1>1, <1>2, <1>3, PTL DEF Spec

-----------------------------------------------------------------------------
(* The high-water mark.                                                    *)

\* The rows of a page against what upstream becomes when it changes S.
LEMMA ReadWhileTouched ==
    ASSUME NEW T \in SUBSET (Rows \X Time), NEW n \in Nat, NEW t \in 0 .. n, NEW c \in Nat,
           NEW u \in [Rows -> Time], NEW v \in [Rows -> Time],
           \A r \in Rows : u[r] <= n /\ (v[r] = u[r] \/ v[r] = n + 1),
           ReadAt(T, t, u, c)
    PROVE  ReadAt(T, t, v, c)
<1>1. \A r \in Rows : u[r] \in Nat /\ v[r] \in Nat
  BY DEF Time
<1>2. \A x \in T : x[1] \in Rows /\ x[2] \in Nat /\ x[2] <= u[x[1]]
  BY DEF Time, ReadAt
<1>3. \A x \in T : x[2] <= v[x[1]]
  BY <1>1, <1>2
<1>4. \A r \in Rows : c < v[r] /\ v[r] <= t => v[r] = u[r]
  BY <1>1
<1> QED
  BY <1>3, <1>4 DEF ReadAt

\* What the filter selects, read at once, holds every change up to its newest
\* row: an upper bound (e, of a windowed feed) cuts off only later ones.
LEMMA ReadAll ==
    ASSUME NEW u \in [Rows -> Time], NEW c \in Nat, NEW P \in SUBSET Rows, P # {},
           NEW n \in Nat, \A r \in Rows : u[r] <= n,
           \A p \in P : c < u[p],
           \A r \in Rows, p \in P : c < u[r] /\ u[r] <= u[p] => r \in P
    PROVE  \E t \in 0 .. n : ReadAt({<<p, u[p]>> : p \in P}, t, u, c)
<1> DEFINE T == {<<p, u[p]>> : p \in P}
<1>1. T \in SUBSET (Rows \X Time) /\ T # {}
  <2>1. \A p \in P : <<p, u[p]>> \in Rows \X Time
    OBVIOUS
  <2>2. PICK p \in P : <<p, u[p]>> \in T
    OBVIOUS
  <2> QED
    BY <2>1, <2>2
<1>2. PICK t \in Time : (\E x \in T : x[2] = t) /\ \A x \in T : x[2] <= t
  BY <1>1, NewestOfPage
<1>3. PICK q \in P : t = u[q]
  BY <1>2
<1>4. t \in 0 .. n
  BY <1>3 DEF Time
<1>5. \A x \in T : c < x[2] /\ x[2] <= t /\ x[2] <= u[x[1]]
  <2> SUFFICES ASSUME NEW p \in P PROVE c < u[p] /\ u[p] <= t /\ u[p] <= u[p]
    BY <1>2
  <2>1. u[p] \in Nat
    BY DEF Time
  <2>2. <<p, u[p]>> \in T
    OBVIOUS
  <2>3. u[p] <= t
    BY <1>2, <2>2
  <2> QED
    BY <2>1, <2>3
<1>6. \A x, y \in T : x[1] = y[1] => x = y
  OBVIOUS
<1>7. \A r \in Rows : c < u[r] /\ u[r] <= t => <<r, u[r]>> \in T
  BY <1>3
<1> QED
  BY <1>2, <1>4, <1>5, <1>6, <1>7 DEF ReadAt

\* The filter selects every change between the cursor and a selected one.
LEMMA SelectedClosed ==
    ASSUME ShapeInv, NEW r \in Rows, NEW p \in Selected, cursor < up[r], up[r] <= up[p]
    PROVE  r \in Selected
<1>1. up[r] \in Nat /\ up[p] \in Nat
  BY DEF ShapeInv, TypeOK, Selected, Time
<1>2. CASE ~windowed
  BY <1>2 DEF Selected
<1>3. CASE windowed
  <2>1. WindowEnd \in Time
    BY <1>3 DEF WindowEnd, ShapeInv, TypeOK
  <2>2. PICK e \in Nat : e = Seconds(WindowEnd)
    BY <2>1, SecondsOf DEF Time
  <2>3. up[p] < e
    BY <1>3, <2>2 DEF Selected
  <2> QED
    BY <1>1, <2>2, <2>3 DEF Selected
<1> QED
  BY <1>2, <1>3

\* Writing the rows and moving the cursor to the second of the newest.
LEMMA MirroredAfter ==
    ASSUME NEW T \in SUBSET (Rows \X Time), NEW t \in Time, NEW u \in [Rows -> Time],
           NEW m \in [Rows -> Time], NEW c \in Nat, NEW d \in Nat,
           d = c \/ d <= t, ReadAt(T, t, u, c), Mirrored(u, m, c)
    PROVE  Mirrored(u, [r \in Rows |-> IF \E x \in T : x[1] = r
                                      THEN (CHOOSE x \in T : x[1] = r)[2] ELSE m[r]], d)
<1> SUFFICES ASSUME NEW r \in Rows, u[r] <= d
             PROVE  (IF \E x \in T : x[1] = r THEN (CHOOSE x \in T : x[1] = r)[2] ELSE m[r]) = u[r]
  BY DEF Mirrored
<1>0. u[r] \in Nat /\ t \in Nat
  BY DEF Time
<1>1. CASE u[r] <= c
  <2>1. ~\E x \in T : x[1] = r
    <3> SUFFICES ASSUME NEW x \in T, x[1] = r PROVE FALSE
      OBVIOUS
    <3>1. c < x[2] /\ x[2] <= u[r] /\ x[2] \in Nat
      BY DEF ReadAt, Time
    <3> QED
      BY <1>0, <1>1, <3>1
  <2> QED
    BY <1>1, <2>1 DEF Mirrored
<1>2. CASE ~(u[r] <= c)
  <2>1. <<r, u[r]>> \in T
    BY <1>0, <1>2 DEF ReadAt
  <2>2. PICK y : y = CHOOSE x \in T : x[1] = r
    OBVIOUS
  <2>3. y \in T /\ y[1] = r
    BY <2>1, <2>2
  <2>4. y = <<r, u[r]>>
    BY <2>1, <2>3 DEF ReadAt
  <2>5. y[2] = u[r] /\ \E x \in T : x[1] = r
    BY <2>3, <2>4
  <2> QED
    BY <2>2, <2>5
<1> QED
  BY <1>1, <1>2

LEMMA SyncInit == Init => SyncInv
<1> SUFFICES ASSUME Init PROVE SyncInv
  OBVIOUS
<1> QED
  BY ShapeInit DEF Init, SyncInv, SkipOK, Mirrored, PageOK

\* Upstream changes listings: their new times are after the cursor, and after
\* everything that is staged.
LEMMA TouchKeeps ==
    ASSUME SyncInv, NEW S \in SUBSET Rows, Touch(S)
    PROVE  Mirrored(up', mir', cursor') /\ PageOK(page', up', cursor', clock')
<1>1. /\ up \in [Rows -> Time] /\ clock \in Nat /\ cursor \in Nat /\ cursor <= clock
      /\ \A r \in Rows : up[r] \in Nat /\ up[r] <= clock
  BY CursorIsTime DEF SyncInv, ShapeInv, TypeOK, ClockOK, Time
<1>2. PICK v : v = up'
  OBVIOUS
<1>3. \A r \in Rows : v[r] = up[r] \/ v[r] = clock + 1
  BY <1>2 DEF Touch
<1>4. v \in [Rows -> Time] /\ UNCHANGED <<mir, cursor, page>> /\ clock' = clock + 1
  <2>1. clock + 1 \in Time
    BY <1>1, IncrementalAssumption DEF Touch, Time
  <2> QED
    BY <1>1, <1>2, <2>1 DEF Touch
<1>5. Mirrored(v, mir, cursor)
  <2> SUFFICES ASSUME NEW r \in Rows, v[r] <= cursor PROVE mir[r] = v[r]
    BY DEF Mirrored
  <2>1. v[r] = up[r]
    BY <1>1, <1>3
  <2> QED
    BY <2>1 DEF SyncInv, Mirrored
<1>6. PageOK(page, v, cursor, clock + 1)
  <2> SUFFICES ASSUME page # NULL
               PROVE  \E t \in 0 .. clock + 1 : ReadAt(page.rows, t, v, cursor)
    BY DEF PageOK
  <2>1. PICK t \in 0 .. clock : ReadAt(page.rows, t, up, cursor)
    BY DEF SyncInv, PageOK
  <2>2. PICK T : T = page.rows
    OBVIOUS
  <2>3. T \in SUBSET (Rows \X Time)
    BY <2>2 DEF SyncInv, ShapeInv, TypeOK
  <2>4. ReadAt(T, t, v, cursor)
    BY <1>1, <1>3, <1>4, <2>1, <2>2, <2>3, ReadWhileTouched
  <2>5. t \in 0 .. clock + 1
    BY <1>1
  <2> QED
    BY <2>2, <2>4, <2>5
<1> QED
  BY <1>2, <1>4, <1>5, <1>6

\* The one page of a cycle: everything the filter selects.
LEMMA FetchKeeps ==
    ASSUME SyncInv, FitsOnePage, Fetch
    PROVE  SkipOK(skip', page') /\ PageOK(page', up', cursor', clock')
<1>1. /\ up \in [Rows -> Time] /\ clock \in Nat /\ cursor \in Nat
      /\ \A r \in Rows : up[r] <= clock
      /\ skip \in Nat /\ (skip = 0 \/ skip >= Top) /\ page = NULL
      /\ UNCHANGED <<up, cursor, clock>>
  BY CursorIsTime DEF SyncInv, ShapeInv, TypeOK, ClockOK, SkipOK, Fetch, Time
<1>2. PICK Q \in SUBSET Selected, P \in SUBSET Selected :
        /\ IsPage(Selected, Q, P)
        /\ \/ P = {} /\ skip' = NULL /\ window' = NULL /\ UNCHANGED page
           \/ /\ P # {}
              /\ page' = [rows |-> {<<p, up[p]>> : p \in P}, more |-> Cardinality(P) >= Top,
                          end |-> IF window = NULL THEN WindowEnd ELSE NULL]
              /\ UNCHANGED <<skip, window>>
  BY DEF Fetch
<1>3. PICK S \in SUBSET Rows : S = Selected
  BY DEF Selected
<1>4. Cardinality(S) <= Top /\ skip # NULL
  BY <1>1, <1>3, IncrementalAssumption DEF FitsOnePage, Fetch
<1>5. (skip = 0 => P = S) /\ (skip # 0 => P = {})
  BY <1>1, <1>2, <1>3, <1>4, PageOfFit
<1>6. CASE P = {}
  BY <1>1, <1>2, <1>6 DEF SkipOK, PageOK
<1>7. CASE P # {}
  <2>1. skip = 0 /\ P = Selected /\ P \in SUBSET Rows /\ skip' = skip
    BY <1>2, <1>3, <1>5, <1>7
  <2>2. page'.rows = {<<p, up[p]>> : p \in P}
    BY <1>2, <1>7
  <2>3. \A p \in P : cursor < up[p]
    BY <1>1, <2>1 DEF Selected, Time
  <2>4. \A r \in Rows, p \in P : cursor < up[r] /\ up[r] <= up[p] => r \in P
    BY <2>1, SelectedClosed DEF SyncInv
  <2>5. \E t \in 0 .. clock : ReadAt({<<p, up[p]>> : p \in P}, t, up, cursor)
    BY <1>1, <1>7, <2>1, <2>3, <2>4, ReadAll
  <2>6. PageOK(page', up, cursor, clock)
    BY <2>2, <2>5 DEF PageOK
  <2> QED
    BY <1>1, <2>1, <2>6 DEF SkipOK
<1> QED
  BY <1>6, <1>7

\* The page is written and the cursor moves.
LEMMA FinalizeKeeps ==
    ASSUME SyncInv, Finalize
    PROVE  SkipOK(skip', page') /\ Mirrored(up', mir', cursor')
<1>1. /\ up \in [Rows -> Time] /\ mir \in [Rows -> Time] /\ clock \in Nat
      /\ page # NULL /\ skip = 0 /\ Top \in Nat /\ 0 \in Nat
  BY IncrementalAssumption DEF SyncInv, ShapeInv, TypeOK, SkipOK, Finalize, Time
<1>2. PICK c \in {Seconds(s) : s \in Time} : c = cursor /\ c \in Nat
  BY CursorIsTime DEF SyncInv, ShapeInv, TypeOK
<1>3. PICK T \in SUBSET (Rows \X Time) : T = page.rows /\ T # {}
  BY <1>1 DEF SyncInv, ShapeInv, StagedOK, TypeOK
<1>4. PICK t \in 0 .. clock : ReadAt(T, t, up, c)
  BY <1>1, <1>2, <1>3 DEF SyncInv, PageOK
<1>5. PICK w \in Time : w = Newest /\ (\E x \in T : x[2] = w) /\ \A x \in T : x[2] <= w
  BY <1>3, NewestOfPage DEF Newest
<1>6. w = t
  <2>1. t \in Nat /\ w \in Nat
    BY <1>1, IncrementalAssumption DEF Time
  <2> QED
    BY <1>4, <1>5, <2>1 DEF ReadAt
<1>7. PICK d : d = Max({c, Seconds(w)})
  OBVIOUS
<1>8. c < w /\ d \in {Seconds(s) : s \in Time} /\ d <= w
  <2>1. c < w
    BY <1>4, <1>5, <1>6 DEF ReadAt
  <2> QED
    BY <1>5, <1>7, <2>1, CursorAfter
<1>9. d \in Nat
  BY <1>8, CursorIsTime
<1>10. PICK m : m = [r \in Rows |-> IF \E x \in T : x[1] = r
                                    THEN (CHOOSE x \in T : x[1] = r)[2] ELSE mir[r]]
  OBVIOUS
<1>11. Mirrored(up, m, d)
  <2>1. Mirrored(up, mir, c)
    BY <1>2 DEF SyncInv
  <2> QED
    BY <1>1, <1>2, <1>4, <1>6, <1>8, <1>9, <1>10, <2>1, MirroredAfter
<1>12. up' = up /\ mir' = m /\ cursor' = d
  BY <1>2, <1>3, <1>5, <1>7, <1>10 DEF Finalize
<1>13. SkipOK(skip', page')
  BY <1>1 DEF Finalize, SkipOK
<1> QED
  BY <1>11, <1>12, <1>13

LEMMA SyncStep == SyncInv /\ FitsOnePage /\ [Next]_vars => SyncInv'
<1> SUFFICES ASSUME SyncInv, FitsOnePage, [Next]_vars PROVE SyncInv'
  OBVIOUS
<1>0. ShapeInv'
  BY ShapeStep DEF SyncInv
<1>1. CASE UNCHANGED vars
  BY <1>0, <1>1 DEF vars, SyncInv, SkipOK, Mirrored, PageOK
<1>2. ASSUME NEW S \in SUBSET Rows, Touch(S) PROVE SyncInv'
  BY <1>0, <1>2, TouchKeeps DEF SyncInv, Touch
<1>3. CASE Poll
  BY <1>0, <1>3 DEF Poll, SyncInv, SkipOK, Mirrored, PageOK
<1>4. CASE Fetch
  <2>1. Mirrored(up', mir', cursor')
    BY <1>4 DEF Fetch, SyncInv
  <2> QED
    BY <1>0, <1>4, <2>1, FetchKeeps DEF SyncInv
<1>5. CASE Finalize
  <2>1. PageOK(page', up', cursor', clock')
    BY <1>5 DEF Finalize, PageOK
  <2> QED
    BY <1>0, <1>5, <2>1, FinalizeKeeps DEF SyncInv
<1> QED
  BY <1>1, <1>2, <1>3, <1>4, <1>5 DEF Next, Sync

(***************************************************************************)
(* THEOREM.  If every cycle fits one page, no change upstream is passed    *)
(* over for good: whatever happens between the fetch of a page and its     *)
(* finalize, each change the cursor has left behind is in the mirror (the  *)
(* filters of FetchIncrementalPage, maxModificationTimestampFromRows, and  *)
(* PersistFinalize).                                                       *)
(* Without the premise it is false: $skip counts from the old cursor.      *)
(***************************************************************************)
THEOREM CursorIsHighWaterMark == Spec => OnePageHighWaterMark
<1>1. Init => SyncInv
  BY SyncInit
<1>2. SyncInv /\ FitsOnePage /\ [Next]_vars => SyncInv'
  BY SyncStep
<1>3. SyncInv => HighWaterMark
  BY DEF SyncInv, Mirrored, HighWaterMark
<1> QED
  BY <1>1, <1>2, <1>3, PTL DEF Spec, OnePageHighWaterMark
=============================================================================
