------------------------- MODULE GisAndCacheProofs -------------------------
(***************************************************************************)
(* The layers and the caches that the readers of the GIS API see.          *)
(*                                                                         *)
(* First, of GisSync: that a refresh which had its tables and its upstream *)
(* to itself leaves exactly what the upstream lists, for every number of   *)
(* workers and schedulers, every feed, page size and number of attempts.   *)
(*                                                                         *)
(* Then, of ReadCaches: that no cache serves an answer older than its time *)
(* to live, and the time a request may hold an answer before it stores it, *)
(* for every number of concurrent requests, every set of sales and scopes, *)
(* all times to live and every retention.                                  *)
(***************************************************************************)
EXTENDS GisSync, ReadCaches, FiniteSetTheorems, WellFoundedInduction, TLAPS

-----------------------------------------------------------------------------
(* The inductive invariant: F the feeds, T the tables, G the generations,  *)
(* J the queue, R the handlers.                                            *)

BoundaryOps == {"bump", "page", "backfill", "stale", "missing", "initial"}
Steps == [op : BoundaryOps \cup {"check", "kick", "next"}, layer : Layers, off : Nat]
JobRow == [id : Id, kind : Kinds, gen : 0..MaxGen, off : Nat, tries : 0..MaxTries,
           clean : BOOLEAN]
Handler == [job : Id \cup {<<>>}, gen : 0..MaxGen, todo : Seq(Steps)]

FeedOK(F) ==
    /\ F \in [Layers -> Seq(Names)]
    /\ \A l \in Layers : \A i, k \in 1..Len(F[l]) : F[l][i] = F[l][k] => i = k

TablesOK(T, G) ==
    /\ G \in [Sources -> 0..MaxGen]
    /\ T \in [Layers -> SUBSET Row]
    /\ \A l \in Layers : \A r \in T[l] : r.gen <= G[SourceOf(l)]
    /\ \A l \in Layers \ {"cities"} : \A r, s \in T[l] : r.name = s.name => r = s

QueueOK(J) ==
    /\ IsFiniteSet(J) /\ J \subseteq JobRow
    /\ \A i, j \in J : i.id = j.id => i = j

(***************************************************************************)
(* A worker is idle or has a job of its own; a job that nobody runs can be *)
(* tried again.                                                            *)
(***************************************************************************)
RunsOK(J, R) ==
    /\ R \in [Workers -> Handler]
    /\ \A w \in Workers : R[w].job = <<>> => R[w] = Idle
    /\ \A w \in Workers : R[w].job # <<>> => \E j \in J : j.id = R[w].job
    /\ \A v, w \in Workers : v # w /\ R[v].job # <<>> => R[v].job # R[w].job
    /\ \A j \in J : (\A w \in Workers : R[w].job # j.id) => j.tries < MaxTries

(***************************************************************************)
(* What a handler has still to do.  A boundary handler bumps first, if it  *)
(* bumps, and of the steps on a layer its pages come first; what it reads  *)
(* it also cleans up and the other way round.                              *)
(***************************************************************************)
Is(t, i, o, l) == t[i].op = o /\ t[i].layer = l
Has(t, o, l) == \E i \in 1..Len(t) : Is(t, i, o, l)
Bumps(t) == Len(t) > 0 /\ t[1].op = "bump"

BoundaryTodo(t) ==
    /\ t \in Seq(Steps)
    /\ \A i \in 1..Len(t) : /\ t[i].op \in BoundaryOps
                            /\ t[i].layer = "parcels" <=> t[i].op = "initial"
                            /\ t[i].op \in {"backfill", "missing"} => t[i].layer = "cities"
    /\ \A i \in 1..Len(t) : /\ t[i].op = "bump" => i = 1
                            /\ t[i].op = "page" /\ i > 1 => t[i].off = 0
    /\ \A i, k \in 1..Len(t) :
          t[k].op = "page" /\ i # k /\ t[i].layer = t[k].layer /\ t[i].op # "bump"
              => k < i /\ t[i].op # "page"
    /\ \A k \in 1..Len(t) : t[k].op = "page" => Has(t, "stale", t[k].layer)
    /\ Bumps(t) => \A i \in 1..Len(t) : t[i].op = "stale" => Has(t, "page", t[i].layer)

KickTodo(t) == t \in {<<>>, Kickoff, Tail(Kickoff), Tail(Tail(Kickoff))}
AtKick(t) == Len(t) = 1 /\ t[1].op = "kick"

PageTodo(t, off) ==
    t \in {<<>>, <<Step("page", "parcels", off)>>, <<Step("next", "parcels", off + PageSize)>>,
           <<Step("stale", "parcels", 0)>>}

TodoOK(G, j, h) ==
    /\ j.kind \in BoundaryKinds => BoundaryTodo(h.todo) \/ KickTodo(h.todo)
    /\ j.kind \in BoundaryKinds /\ ~Bumps(h.todo)
         /\ (\E l \in Boundaries : Has(h.todo, "page", l) \/ Has(h.todo, "stale", l))
         => h.gen \in 1..G["fdot"]
    /\ j.kind = "parcels" => KickTodo(h.todo)
    /\ j.kind = "page" => PageTodo(h.todo, j.off) /\ h.gen = j.gen
    /\ AtKick(h.todo) => h.gen \in 1..G["parcels"]

HandlersOK(G, J, R) ==
    /\ \A j \in J : j.kind = "page" => j.gen \in 1..G["parcels"]
    /\ \A w \in Workers, j \in J : R[w].job = j.id => TodoOK(G, j, R[w])

(***************************************************************************)
(* A boundary job that is still clean runs alone.                          *)
(***************************************************************************)
Alone(J, R) ==
    \A v, w \in Workers, i, j \in J :
        v # w /\ R[v].job = i.id /\ R[w].job = j.id
              /\ i.kind \in BoundaryKinds /\ j.kind \in BoundaryKinds
            => ~i.clean /\ ~j.clean

(***************************************************************************)
(* The rows of generation g are what the feed lists, once each, and none   *)
(* is newer; and the feed has been read up to an offset.                   *)
(***************************************************************************)
Owned(F, T, l, g) ==
    /\ \A r \in T[l] : r.gen <= g
    /\ \A r \in T[l] : r.gen = g => r.name \in Kept(l, ToSet(F[l]))
    /\ \A r, s \in T[l] : r.gen = g /\ s.gen = g /\ r.name = s.name => r = s

Reached(F, T, l, off, g) ==
    \A i \in 1..Len(F[l]) :
        i <= off /\ F[l][i] \in Kept(l, ToSet(F[l]))
            => \E r \in T[l] : r.name = F[l][i] /\ r.gen = g

Keeps(T, U, l, g) == \A r \in T[l] : r.gen = g => \E s \in U[l] : s.gen = g /\ s.name = r.name

Bare(T, g) == \A r \in T["cities"] : r.gen = g => r.county = Null

LayerOK(F, T, h, l) ==
    Has(h.todo, "stale", l) /\ ~Bumps(h.todo) =>
        /\ Owned(F, T, l, h.gen)
        /\ \A k \in 1..Len(h.todo) : Is(h.todo, k, "page", l) =>
              /\ Reached(F, T, l, h.todo[k].off, h.gen)
              /\ l = "cities" => Bare(T, h.gen)
        /\ ~Has(h.todo, "page", l) => Reached(F, T, l, Len(F[l]), h.gen)

BoundariesOK(F, T, J, R) ==
    \A w \in Workers, j \in J :
        R[w].job = j.id /\ j.kind \in BoundaryKinds /\ j.clean
            => \A l \in Boundaries : LayerOK(F, T, R[w], l)

(***************************************************************************)
(* Page jobs: either none is clean, or all are of one chain.               *)
(***************************************************************************)
OneChain(J) ==
    \A i, j \in J : i.kind = "page" /\ j.kind = "page" /\ j.clean => i.clean /\ i.gen = j.gen

ChainOK(F, T, J, R) ==
    \A j \in J : j.kind = "page" /\ j.clean =>
        /\ Owned(F, T, "parcels", j.gen)
        /\ Reached(F, T, "parcels", j.off, j.gen)
        /\ \A w \in Workers : R[w].job = j.id /\ R[w].todo # <<>> =>
              /\ R[w].todo[1].op = "next" => Reached(F, T, "parcels", j.off + PageSize, j.gen)
              /\ R[w].todo[1].op = "stale" => Reached(F, T, "parcels", Len(F["parcels"]), j.gen)

(***************************************************************************)
(* The generation of a kickoff that has not enqueued its first page is     *)
(* nobody else's.                                                          *)
(***************************************************************************)
Unborn(T, J, R) ==
    \A w \in Workers : AtKick(R[w].todo) =>
        /\ \A r \in T["parcels"] : r.gen # R[w].gen
        /\ \A j \in J : j.kind = "page" => j.gen # R[w].gen
        /\ \A v \in Workers : v # w /\ AtKick(R[v].todo) => R[v].gen # R[w].gen

Good(F, T, G, J, R) ==
    /\ FeedOK(F) /\ TablesOK(T, G) /\ QueueOK(J) /\ RunsOK(J, R)
    /\ HandlersOK(G, J, R) /\ Alone(J, R) /\ BoundariesOK(F, T, J, R)
    /\ OneChain(J) /\ ChainOK(F, T, J, R) /\ Unborn(T, J, R)

ElectionOK ==
    /\ sched \in [Schedulers -> {"standby", "leader"}]
    /\ lock \in Schedulers \cup {Null}
    /\ events \in 0..MaxEvents /\ faults \in 0..MaxFaults

GisInv == Good(feed, rows, gen, jobs, run) /\ ElectionOK

-----------------------------------------------------------------------------
(* What changes one part of the state and leaves the others.               *)

USE DEF Sources, Layers, Boundaries, SourceOf

LEMMA ConstantFacts ==
    /\ PageSize \in Nat \ {0} /\ ServerCap \in Nat /\ ServerCap >= PageSize
    /\ MaxTries \in Nat \ {0} /\ MaxGen \in Nat /\ MaxEvents \in Nat /\ MaxFaults \in Nat
    /\ Schedulers # {}
  BY PagesAssumption, GisAssumption

\* An idle worker's job is the id of no row.
LEMMA IdsAreReal == <<>> \notin Id
<1> SUFFICES ASSUME <<>> \in Id PROVE FALSE OBVIOUS
<1>1. PICK k \in Kinds, n \in Nat : <<>> = <<k, n>> BY DEF Id
<1>2. Len(<<>>) = 0 /\ Len(<<k, n>>) = 2 OBVIOUS
<1> QED BY <1>1, <1>2

\* Generations only grow.
LEMMA GrowGood ==
  ASSUME NEW F, NEW T, NEW G, NEW J, NEW R, Good(F, T, G, J, R),
         NEW H \in [Sources -> 0..MaxGen], \A s \in Sources : G[s] <= H[s]
  PROVE  Good(F, T, H, J, R)
<1>1. TablesOK(T, H)
  <2>1. G \in [Sources -> 0..MaxGen] /\ T \in [Layers -> SUBSET Row] BY DEF Good, TablesOK
  <2>2. \A l \in Layers : SourceOf(l) \in Sources OBVIOUS
  <2>3. \A l \in Layers : \A r \in T[l] : r.gen <= G[SourceOf(l)] /\ r.gen \in Nat
    BY <2>1, ConstantFacts DEF Good, TablesOK, Row
  <2>4. ASSUME NEW l \in Layers, NEW r \in T[l] PROVE r.gen <= H[SourceOf(l)]
    <3> DEFINE s == SourceOf(l)
    <3>1. s \in Sources BY <2>2
    <3>2. r.gen <= G[s] /\ r.gen \in Nat BY <2>3
    <3> HIDE DEF s
    <3>3. r.gen <= H[s] BY <3>1, <3>2, <2>1, ConstantFacts
    <3> QED BY <3>3 DEF s
  <2> QED BY <2>1, <2>4 DEF Good, TablesOK
<1>2. HandlersOK(H, J, R)
  <2>1. G["fdot"] <= H["fdot"] /\ G["parcels"] <= H["parcels"]
        /\ G \in [Sources -> 0..MaxGen]
    BY DEF Good, TablesOK
  <2>2. 1..G["fdot"] \subseteq 1..H["fdot"] /\ 1..G["parcels"] \subseteq 1..H["parcels"]
    BY <2>1, ConstantFacts
  <2>3. ASSUME NEW w \in Workers, NEW j \in J, R[w].job = j.id PROVE TodoOK(H, j, R[w])
    <3>1. TodoOK(G, j, R[w]) BY <2>3 DEF Good, HandlersOK
    <3> QED BY <3>1, <2>2 DEF TodoOK
  <2> QED BY <2>2, <2>3 DEF Good, HandlersOK
<1> QED BY <1>1, <1>2 DEF Good

\* A statement of the handler of job a changes the rows of one layer.
LEMMA TableStep ==
  ASSUME NEW F, NEW T, NEW G, NEW J, NEW R, Good(F, T, G, J, R),
         NEW w \in Workers, NEW a \in J, R[w].job = a.id,
         NEW l \in Layers, NEW U, TablesOK(U, G), \A m \in Layers : m # l => U[m] = T[m],
         l = "parcels" => a.kind = "page",
         l # "parcels" => a.kind \in BoundaryKinds /\ (a.clean => LayerOK(F, U, R[w], l)),
         l = "parcels" /\ a.clean =>
            /\ Owned(F, U, l, a.gen)
            /\ Keeps(T, U, l, a.gen),
         l = "parcels" => \A s \in U[l] : s.gen = a.gen \/ \E r \in T[l] : r.gen = s.gen
  PROVE  Good(F, U, G, J, R)
<1>1. \A m \in Layers : m # l => U[m] = T[m] OBVIOUS
<1>2. BoundariesOK(F, U, J, R)
  <2> SUFFICES ASSUME NEW v \in Workers, NEW j \in J, R[v].job = j.id,
                      j.kind \in BoundaryKinds, j.clean, NEW m \in Boundaries
               PROVE  LayerOK(F, U, R[v], m)
    BY DEF BoundariesOK
  <2>1. LayerOK(F, T, R[v], m) BY DEF Good, BoundariesOK
  <2>2. CASE m # l
    <3>1. m \in Layers /\ U[m] = T[m] BY <2>2, <1>1
    <3>2. m = "cities" => U["cities"] = T["cities"] BY <3>1
    <3> QED BY <2>1, <3>1, <3>2 DEF LayerOK, Owned, Reached, Bare
  <2>3. CASE m = l
    <3>1. a.kind \in BoundaryKinds BY <2>3
    <3>2. v = w BY <3>1 DEF Good, Alone
    <3>3. j = a BY <3>2 DEF Good, QueueOK
    <3> QED BY <2>3, <3>2, <3>3
  <2> QED BY <2>2, <2>3
<1>3. ChainOK(F, U, J, R)
  <2> SUFFICES ASSUME NEW j \in J, j.kind = "page", j.clean
               PROVE  /\ Owned(F, U, "parcels", j.gen)
                      /\ \A off : Reached(F, T, "parcels", off, j.gen)
                                    => Reached(F, U, "parcels", off, j.gen)
    BY DEF Good, ChainOK
  <2>1. CASE l # "parcels"
    <3>1. U["parcels"] = T["parcels"] BY <2>1, <1>1
    <3>2. Owned(F, T, "parcels", j.gen) BY DEF Good, ChainOK
    <3> QED BY <3>1, <3>2 DEF Owned, Reached
  <2>2. CASE l = "parcels"
    <3>1. a.clean /\ a.gen = j.gen BY <2>2 DEF Good, OneChain
    <3>2. Owned(F, U, "parcels", j.gen) BY <2>2, <3>1
    <3>3. \A r \in T["parcels"] : r.gen = j.gen =>
             \E s \in U["parcels"] : s.gen = j.gen /\ s.name = r.name
      BY <2>2, <3>1 DEF Keeps
    <3> QED BY <3>2, <3>3 DEF Reached
  <2> QED BY <2>1, <2>2
<1>4. Unborn(U, J, R)
  <2> SUFFICES ASSUME NEW v \in Workers, AtKick(R[v].todo), NEW s \in U["parcels"]
               PROVE  s.gen # R[v].gen
    BY DEF Good, Unborn
  <2>1. CASE l # "parcels" BY <2>1, <1>1 DEF Good, Unborn
  <2>2. CASE l = "parcels"
    <3>1. s.gen = a.gen \/ \E r \in T["parcels"] : r.gen = s.gen BY <2>2, <1>1
    <3>2. a.kind = "page" BY <2>2
    <3>3. a.gen # R[v].gen /\ \A r \in T["parcels"] : r.gen # R[v].gen
      BY <3>2 DEF Good, Unborn
    <3> QED BY <3>1, <3>3
  <2> QED BY <2>1, <2>2
<1> QED BY <1>2, <1>3, <1>4 DEF Good

\* The handler h of job a goes on.
LEMMA HandlerStep ==
  ASSUME NEW F, NEW T, NEW G, NEW J, NEW R, Good(F, T, G, J, R),
         NEW w \in Workers, NEW a \in J, R[w].job = a.id,
         NEW h \in Handler, h.job = a.id, TodoOK(G, a, h),
         a.kind \in BoundaryKinds /\ a.clean => \A l \in Boundaries : LayerOK(F, T, h, l),
         a.kind = "page" /\ a.clean /\ h.todo # <<>> =>
            /\ h.todo[1].op = "next" => Reached(F, T, "parcels", a.off + PageSize, a.gen)
            /\ h.todo[1].op = "stale" => Reached(F, T, "parcels", Len(F["parcels"]), a.gen),
         AtKick(h.todo) =>
            /\ \A r \in T["parcels"] : r.gen # h.gen
            /\ \A j \in J : j.kind = "page" => j.gen # h.gen
            /\ \A v \in Workers : v # w /\ AtKick(R[v].todo) => R[v].gen # h.gen
  PROVE  Good(F, T, G, J, [R EXCEPT ![w] = h])
<1> DEFINE Q == [R EXCEPT ![w] = h]
<1>1. R \in [Workers -> Handler] /\ a.id \in Id BY DEF Good, RunsOK, QueueOK, JobRow
<1>2. Q \in [Workers -> Handler] /\ Q[w] = h /\ \A v \in Workers : v # w => Q[v] = R[v]
  BY <1>1
<1>3. \A v \in Workers : Q[v].job = R[v].job BY <1>2
<1>4. a.id # <<>> BY <1>1, IdsAreReal
<1>5. \A j \in J : j.id = a.id => j = a BY DEF Good, QueueOK
<1> HIDE DEF Q
<1>6. RunsOK(J, Q)
  <2>1. RunsOK(J, R) BY DEF Good
  <2>2. \A v \in Workers : Q[v].job = <<>> => Q[v] = Idle BY <2>1, <1>2, <1>4 DEF RunsOK
  <2> QED BY <2>1, <2>2, <1>2, <1>3 DEF RunsOK
<1>7. HandlersOK(G, J, Q) BY <1>2, <1>5 DEF Good, HandlersOK
<1>8. Alone(J, Q) BY <1>3 DEF Good, Alone
<1>9. BoundariesOK(F, T, J, Q) BY <1>2, <1>5 DEF Good, BoundariesOK
<1>10. ChainOK(F, T, J, Q)
  <2> SUFFICES ASSUME NEW j \in J, j.kind = "page", j.clean, NEW v \in Workers,
                      Q[v].job = j.id, Q[v].todo # <<>>
               PROVE  /\ Q[v].todo[1].op = "next" => Reached(F, T, "parcels", j.off + PageSize, j.gen)
                      /\ Q[v].todo[1].op = "stale" =>
                            Reached(F, T, "parcels", Len(F["parcels"]), j.gen)
    BY DEF Good, ChainOK
  <2>1. CASE v = w BY <2>1, <1>2, <1>5
  <2>2. CASE v # w BY <2>2, <1>2 DEF Good, ChainOK
  <2> QED BY <2>1, <2>2
<1>11. Unborn(T, J, Q)
  <2> SUFFICES ASSUME NEW v \in Workers, AtKick(Q[v].todo)
               PROVE  /\ \A r \in T["parcels"] : r.gen # Q[v].gen
                      /\ \A j \in J : j.kind = "page" => j.gen # Q[v].gen
                      /\ \A u \in Workers : u # v /\ AtKick(Q[u].todo) => Q[u].gen # Q[v].gen
    BY DEF Unborn
  <2>1. CASE v = w BY <2>1, <1>2
  <2>2. CASE v # w
    <3>1. AtKick(R[v].todo) /\ Q[v] = R[v] BY <2>2, <1>2
    <3>2. /\ \A r \in T["parcels"] : r.gen # R[v].gen
          /\ \A j \in J : j.kind = "page" => j.gen # R[v].gen
          /\ \A u \in Workers : u # v /\ AtKick(R[u].todo) => R[u].gen # R[v].gen
      BY <3>1 DEF Good, Unborn
    <3> QED BY <3>1, <3>2, <1>2, <2>2
  <2> QED BY <2>1, <2>2
<1> QED BY <1>6, <1>7, <1>8, <1>9, <1>10, <1>11 DEF Good, Q

\* A handler ends: its job leaves the queue or, with tries left, stays in it.
LEMMA DropStep ==
  ASSUME NEW F, NEW T, NEW G, NEW J, NEW R, Good(F, T, G, J, R),
         NEW w \in Workers, NEW a \in J, R[w].job = a.id, NEW K,
         K = J \ {a} \/ (K = J /\ a.tries < MaxTries)
  PROVE  Good(F, T, G, K, [R EXCEPT ![w] = Idle])
<1> DEFINE Q == [R EXCEPT ![w] = Idle]
<1>1. R \in [Workers -> Handler] /\ a.id \in Id BY DEF Good, RunsOK, QueueOK, JobRow
<1>2. Idle \in Handler /\ Idle.job = <<>> /\ Idle.todo = <<>>
  BY ConstantFacts DEF Idle, Handler
<1>3. Q \in [Workers -> Handler] /\ Q[w] = Idle /\ \A v \in Workers : v # w => Q[v] = R[v]
  BY <1>1, <1>2
<1>4. a.id # <<>> /\ \A j \in J : j.id # <<>>
  BY <1>1, IdsAreReal DEF Good, QueueOK, JobRow
<1>5. K \subseteq J /\ \A j \in J : j.id = a.id => j = a BY DEF Good, QueueOK
<1>6. ~AtKick(Idle.todo) BY <1>2 DEF AtKick
<1> HIDE DEF Q
<1>7. QueueOK(K)
  <2>1. IsFiniteSet(K) BY FS_Subset, <1>5 DEF Good, QueueOK
  <2> QED BY <2>1, <1>5 DEF Good, QueueOK
<1>8. RunsOK(K, Q)
  <2>1. RunsOK(J, R) BY DEF Good
  <2>2. \A v \in Workers : Q[v].job = <<>> => Q[v] = Idle BY <2>1, <1>3 DEF RunsOK
  <2>3. ASSUME NEW v \in Workers, Q[v].job # <<>> PROVE \E j \in K : j.id = Q[v].job
    <3>1. v # w /\ Q[v] = R[v] BY <2>3, <1>3, <1>2
    <3>2. R[v].job # a.id BY <3>1, <2>1, <2>3 DEF RunsOK
    <3>3. PICK j \in J : j.id = R[v].job BY <2>1, <2>3, <3>1 DEF RunsOK
    <3> QED BY <3>1, <3>2, <3>3
  <2>4. \A u, v \in Workers : u # v /\ Q[u].job # <<>> => Q[u].job # Q[v].job
    BY <2>1, <1>2, <1>3 DEF RunsOK
  <2>5. ASSUME NEW j \in K, \A v \in Workers : Q[v].job # j.id PROVE j.tries < MaxTries
    <3>1. CASE j = a BY <3>1
    <3>2. CASE j # a
      <4>1. j \in J /\ j.id # a.id BY <3>2, <1>5
      <4>2. \A v \in Workers : R[v].job # j.id BY <4>1, <1>3, <2>5
      <4> QED BY <4>1, <4>2, <2>1 DEF RunsOK
    <3> QED BY <3>1, <3>2
  <2> QED BY <1>3, <2>2, <2>3, <2>4, <2>5 DEF RunsOK
<1>9. \A v \in Workers, j \in K : Q[v].job = j.id => v # w /\ Q[v] = R[v]
  BY <1>2, <1>3, <1>4, <1>5
<1>10. HandlersOK(G, K, Q) BY <1>5, <1>9 DEF Good, HandlersOK
<1>11. Alone(K, Q)
  <2> SUFFICES ASSUME NEW u \in Workers, NEW v \in Workers, NEW i \in K, NEW j \in K,
                      u # v, Q[u].job = i.id, Q[v].job = j.id,
                      i.kind \in BoundaryKinds, j.kind \in BoundaryKinds
               PROVE  ~i.clean /\ ~j.clean
    BY DEF Alone
  <2>1. R[u].job = i.id /\ R[v].job = j.id /\ i \in J /\ j \in J BY <1>5, <1>9
  <2> QED BY <2>1 DEF Good, Alone
<1>12. BoundariesOK(F, T, K, Q) BY <1>5, <1>9 DEF Good, BoundariesOK
<1>13. OneChain(K) BY <1>5 DEF Good, OneChain
<1>14. ChainOK(F, T, K, Q)
  <2> SUFFICES ASSUME NEW j \in K, j.kind = "page", j.clean, NEW v \in Workers,
                      Q[v].job = j.id, Q[v].todo # <<>>
               PROVE  /\ Q[v].todo[1].op = "next" => Reached(F, T, "parcels", j.off + PageSize, j.gen)
                      /\ Q[v].todo[1].op = "stale" =>
                            Reached(F, T, "parcels", Len(F["parcels"]), j.gen)
    BY <1>5 DEF Good, ChainOK
  <2> QED BY <1>5, <1>9 DEF Good, ChainOK
<1>15. Unborn(T, K, Q)
  <2>1. \A v \in Workers : AtKick(Q[v].todo) => Q[v] = R[v] /\ AtKick(R[v].todo)
    BY <1>3, <1>6
  <2> QED BY <2>1, <1>5 DEF Good, Unborn
<1> QED BY <1>7, <1>8, <1>10, <1>11, <1>12, <1>13, <1>14, <1>15 DEF Good, Q

\* A row with an id of its own joins the queue.
LEMMA AddStep ==
  ASSUME NEW F, NEW T, NEW G, NEW J, NEW R, Good(F, T, G, J, R),
         NEW p \in JobRow, p.tries = 0, \A j \in J : j.id # p.id,
         p.kind = "page" =>
            /\ p.gen \in 1..G["parcels"]
            /\ \A w \in Workers : AtKick(R[w].todo) => R[w].gen # p.gen
            /\ \A j \in J : j.kind = "page" => j.clean = p.clean /\ (p.clean => j.gen = p.gen)
            /\ p.clean => /\ Owned(F, T, "parcels", p.gen)
                          /\ Reached(F, T, "parcels", p.off, p.gen)
  PROVE  Good(F, T, G, J \cup {p}, R)
<1> DEFINE K == J \cup {p}
<1>1. QueueOK(K)
  <2>1. IsFiniteSet(K) BY FS_AddElement DEF Good, QueueOK
  <2> QED BY <2>1 DEF Good, QueueOK
<1>2. p.id # <<>> BY IdsAreReal DEF JobRow
<1>3. \A w \in Workers : R[w].job # p.id BY <1>2 DEF Good, RunsOK
<1>4. \A w \in Workers, j \in K : R[w].job = j.id => j \in J BY <1>3
<1>5. RunsOK(K, R)
  <2>1. p.tries < MaxTries BY ConstantFacts
  <2>2. RunsOK(J, R) BY DEF Good
  <2>3. \A w \in Workers : R[w].job # <<>> => \E j \in K : j.id = R[w].job
    BY <2>2 DEF RunsOK
  <2>4. \A j \in K : (\A w \in Workers : R[w].job # j.id) => j.tries < MaxTries
    BY <2>1, <2>2 DEF RunsOK
  <2> HIDE DEF K
  <2> QED BY <2>2, <2>3, <2>4 DEF RunsOK
<1>6. HandlersOK(G, K, R)
  <2>1. \A j \in K : j.kind = "page" => j.gen \in 1..G["parcels"] BY DEF Good, HandlersOK
  <2> HIDE DEF K
  <2> QED BY <1>4, <2>1 DEF Good, HandlersOK
<1>7. Alone(K, R)
  <2> HIDE DEF K
  <2> SUFFICES ASSUME NEW u \in Workers, NEW v \in Workers, NEW i \in K, NEW j \in K,
                      u # v, R[u].job = i.id, R[v].job = j.id,
                      i.kind \in BoundaryKinds, j.kind \in BoundaryKinds
               PROVE  ~i.clean /\ ~j.clean
    BY DEF Alone
  <2>1. i \in J /\ j \in J BY <1>4
  <2> QED BY <2>1 DEF Good, Alone
<1>8. BoundariesOK(F, T, K, R)
  <2> HIDE DEF K
  <2> QED BY <1>4 DEF Good, BoundariesOK
<1>9. OneChain(K)
  <2> SUFFICES ASSUME NEW i \in K, NEW j \in K, i.kind = "page", j.kind = "page", j.clean
               PROVE  i.clean /\ i.gen = j.gen
    BY DEF OneChain
  <2>1. CASE i \in J /\ j \in J BY <2>1 DEF Good, OneChain
  <2>2. CASE i = p \/ j = p
    <3>1. p.kind = "page" BY <2>2
    <3> QED BY <2>2, <3>1
  <2> QED BY <2>1, <2>2
<1>10. ChainOK(F, T, K, R)
  <2> SUFFICES ASSUME NEW j \in K, j.kind = "page", j.clean
               PROVE
        /\ Owned(F, T, "parcels", j.gen)
        /\ Reached(F, T, "parcels", j.off, j.gen)
        /\ \A w \in Workers : R[w].job = j.id /\ R[w].todo # <<>> =>
              /\ R[w].todo[1].op = "next" => Reached(F, T, "parcels", j.off + PageSize, j.gen)
              /\ R[w].todo[1].op = "stale" => Reached(F, T, "parcels", Len(F["parcels"]), j.gen)
    BY DEF ChainOK
  <2>1. CASE j \in J BY <2>1 DEF Good, ChainOK
  <2>2. CASE j = p BY <2>2, <1>3
  <2> QED BY <2>1, <2>2
<1>11. Unborn(T, K, R)
  <2>1. \A w \in Workers : AtKick(R[w].todo) => \A j \in K : j.kind = "page" => j.gen # R[w].gen
    BY DEF Good, Unborn
  <2> HIDE DEF K
  <2> QED BY <2>1 DEF Good, Unborn
<1> HIDE DEF K
<1>12. Good(F, T, G, K, R)
  BY <1>1, <1>5, <1>6, <1>7, <1>8, <1>9, <1>10, <1>11 DEF Good
<1> QED BY <1>12 DEF K

LEMMA FiniteImage ==
  ASSUME NEW S, NEW C, IsFiniteSet(S), NEW f \in [S -> C]
  PROVE  IsFiniteSet({f[x] : x \in S}) /\ Cardinality({f[x] : x \in S}) <= Cardinality(S)
<1> DEFINE T == {f[x] : x \in S}
<1>1. f \in Surjection(S, T) BY DEF Surjection
<1> HIDE DEF T
<1>2. IsFiniteSet(T) /\ Cardinality(T) <= Cardinality(S) BY <1>1, FS_Surjection
<1> QED BY <1>2 DEF T

\* Rows are updated in place.
LEMMA RelabelQueue ==
  ASSUME NEW J, QueueOK(J), NEW m \in [J -> JobRow], \A j \in J : m[j].id = j.id
  PROVE  QueueOK({m[j] : j \in J})
<1> DEFINE K == {m[j] : j \in J}
<1>1. IsFiniteSet(K)
  <2>1. IsFiniteSet(J) BY DEF QueueOK
  <2> QED BY <2>1, FiniteImage
<1>2. \A i, k \in K : i.id = k.id => i = k BY DEF QueueOK
<1>3. K \subseteq JobRow OBVIOUS
<1> QED BY <1>1, <1>2, <1>3 DEF QueueOK

\* The pages in the queue lose their mark: the upstream changed, or the chain
\* of another kickoff begins.
LEMMA UncleanStep ==
  ASSUME NEW F, NEW T, NEW G, NEW J, NEW R, Good(F, T, G, J, R),
         NEW E, FeedOK(E), \A l \in Boundaries : E[l] = F[l],
         NEW m \in [J -> JobRow],
         \A j \in J : /\ m[j].id = j.id /\ m[j].kind = j.kind /\ m[j].gen = j.gen
                      /\ m[j].off = j.off /\ m[j].tries = j.tries
                      /\ m[j].clean => j.clean /\ j.kind # "page"
  PROVE  Good(E, T, G, {m[j] : j \in J}, R)
<1> DEFINE K == {m[j] : j \in J}
<1>1. QueueOK(K) BY RelabelQueue DEF Good
<1>2. \A k \in K : \E j \in J : k = m[j] OBVIOUS
<1>3. \A j \in J : m[j] \in K OBVIOUS
<1> HIDE DEF K
<1>4. RunsOK(K, R)
  <2>1. RunsOK(J, R) BY DEF Good
  <2>2. ASSUME NEW w \in Workers, R[w].job # <<>> PROVE \E k \in K : k.id = R[w].job
    <3>1. PICK j \in J : j.id = R[w].job BY <2>1, <2>2 DEF RunsOK
    <3> QED BY <3>1, <1>3
  <2>3. ASSUME NEW k \in K, \A w \in Workers : R[w].job # k.id PROVE k.tries < MaxTries
    <3>1. PICK j \in J : k = m[j] BY <1>2
    <3> QED BY <3>1, <2>1, <2>3 DEF RunsOK
  <2> QED BY <2>1, <2>2, <2>3 DEF RunsOK
<1>5. HandlersOK(G, K, R)
  <2>1. ASSUME NEW k \in K, k.kind = "page" PROVE k.gen \in 1..G["parcels"]
    <3>1. PICK j \in J : k = m[j] BY <1>2
    <3>2. j.kind = "page" /\ k.gen = j.gen BY <3>1, <2>1
    <3> QED BY <3>2 DEF Good, HandlersOK
  <2>2. ASSUME NEW k \in K, NEW w \in Workers, R[w].job = k.id PROVE TodoOK(G, k, R[w])
    <3>1. PICK j \in J : k = m[j] BY <1>2
    <3>2. k.id = j.id /\ k.kind = j.kind /\ k.off = j.off /\ k.gen = j.gen BY <3>1
    <3>3. TodoOK(G, j, R[w]) BY <3>2, <2>2 DEF Good, HandlersOK
    <3> QED BY <3>2, <3>3 DEF TodoOK
  <2> QED BY <2>1, <2>2 DEF HandlersOK
<1>6. Alone(K, R)
  <2> SUFFICES ASSUME NEW u \in Workers, NEW v \in Workers, NEW i \in K, NEW k \in K,
                      u # v, R[u].job = i.id, R[v].job = k.id,
                      i.kind \in BoundaryKinds, k.kind \in BoundaryKinds
               PROVE  ~i.clean /\ ~k.clean
    BY DEF Alone
  <2>1. PICK i2 \in J : i = m[i2] BY <1>2
  <2>2. PICK k2 \in J : k = m[k2] BY <1>2
  <2>3. ~i2.clean /\ ~k2.clean BY <2>1, <2>2 DEF Good, Alone
  <2> QED BY <2>1, <2>2, <2>3
<1>7. BoundariesOK(E, T, K, R)
  <2> SUFFICES ASSUME NEW w \in Workers, NEW k \in K, R[w].job = k.id,
                      k.kind \in BoundaryKinds, k.clean, NEW l \in Boundaries
               PROVE  LayerOK(E, T, R[w], l)
    BY DEF BoundariesOK
  <2>1. PICK j \in J : k = m[j] BY <1>2
  <2>2. LayerOK(F, T, R[w], l) BY <2>1 DEF Good, BoundariesOK
  <2>3. E[l] = F[l] OBVIOUS
  <2> QED BY <2>2, <2>3 DEF LayerOK, Owned, Reached
<1>8. \A k \in K : ~(k.kind = "page" /\ k.clean) BY <1>2
<1>9. OneChain(K) /\ ChainOK(E, T, K, R) BY <1>8 DEF OneChain, ChainOK
<1>10. Unborn(T, K, R)
  <2>1. ASSUME NEW w \in Workers, AtKick(R[w].todo), NEW k \in K, k.kind = "page"
        PROVE  k.gen # R[w].gen
    <3>1. PICK j \in J : k = m[j] BY <1>2
    <3> QED BY <3>1, <2>1 DEF Good, Unborn
  <2> QED BY <2>1 DEF Good, Unborn
<1>11. Good(E, T, G, K, R)
  BY <1>1, <1>4, <1>5, <1>6, <1>7, <1>9, <1>10 DEF Good
<1> QED BY <1>11 DEF K

-----------------------------------------------------------------------------
(* The statements of a handler.                                            *)

LEMMA ConcatFacts ==
  ASSUME NEW S, NEW s \in Seq(S), NEW t \in Seq(S)
  PROVE  /\ s \o t \in Seq(S) /\ Len(s \o t) = Len(s) + Len(t)
         /\ \A i \in 1..Len(s) : i \in 1..Len(s \o t) /\ (s \o t)[i] = s[i]
         /\ \A i \in 1..Len(t) : /\ Len(s) + i \in 1..Len(s \o t)
                                 /\ (s \o t)[Len(s) + i] = t[i]
         /\ \A i \in 1..Len(s \o t) : \/ i \in 1..Len(s)
                                      \/ \E k \in 1..Len(t) : i = Len(s) + k
<1>1. s \o t \in Seq(S) /\ Len(s \o t) = Len(s) + Len(t) /\ Len(s) \in Nat /\ Len(t) \in Nat
  OBVIOUS
<1>2. ASSUME NEW i \in 1..Len(s \o t), i \notin 1..Len(s)
      PROVE  \E k \in 1..Len(t) : i = Len(s) + k
  <2>1. i - Len(s) \in 1..Len(t) /\ i = Len(s) + (i - Len(s)) BY <1>1, <1>2
  <2> QED BY <2>1
<1>3. \A i \in 1..Len(s) : i \in 1..Len(s \o t) /\ (s \o t)[i] = s[i] BY <1>1
<1>4. ASSUME NEW i \in 1..Len(t)
      PROVE Len(s) + i \in 1..Len(s \o t) /\ (s \o t)[Len(s) + i] = t[i]
  <2>1. Len(s) + i \in 1..Len(s \o t) /\ Len(s) + i > Len(s) /\ (Len(s) + i) - Len(s) = i
    BY <1>1
  <2> QED BY <1>1, <2>1
<1> QED BY <1>1, <1>2, <1>3, <1>4

LEMMA PrefixFacts ==
  ASSUME NEW S, NEW x \in S, NEW t \in Seq(S)
  PROVE  /\ <<x>> \o t \in Seq(S) /\ Len(<<x>> \o t) = 1 + Len(t)
         /\ 1 \in 1..Len(<<x>> \o t) /\ (<<x>> \o t)[1] = x
         /\ \A i \in 1..Len(t) : 1 + i \in 1..Len(<<x>> \o t) /\ (<<x>> \o t)[1 + i] = t[i]
<1>1. <<x>> \in Seq(S) /\ Len(<<x>>) = 1 /\ 1 \in 1..1 /\ <<x>>[1] = x /\ Len(t) \in Nat OBVIOUS
<1> DEFINE s == <<x>>
<1> HIDE DEF s
<1>2. s \in Seq(S) BY <1>1 DEF s
<1>3. Len(s) = 1 /\ s[1] = x BY <1>1 DEF s
<1>4. s \o t \in Seq(S) /\ Len(s \o t) = Len(s) + Len(t) BY <1>2, ConcatFacts
<1>5. 1 \in 1..Len(s \o t) /\ (s \o t)[1] = x
  <2>1. 1 \in 1..Len(s) BY <1>3
  <2> QED BY <1>2, <1>3, <2>1, ConcatFacts
<1>6. ASSUME NEW i \in 1..Len(t) PROVE 1 + i \in 1..Len(s \o t) /\ (s \o t)[1 + i] = t[i]
  <2>1. Len(s) + i \in 1..Len(s \o t) /\ (s \o t)[Len(s) + i] = t[i] BY <1>2, ConcatFacts
  <2> QED BY <1>3, <2>1
<1> QED BY <1>3, <1>4, <1>5, <1>6 DEF s

LEMMA LayersConcat ==
  ASSUME NEW s \in Seq(Steps), NEW t \in Seq(Steps), NEW L,
         \A i \in 1..Len(s) : s[i].layer \in L, \A i \in 1..Len(t) : t[i].layer \in L
  PROVE  \A i \in 1..Len(s \o t) : (s \o t)[i].layer \in L
<1> TAKE i \in 1..Len(s \o t)
<1>1. CASE i \in 1..Len(s) BY <1>1, ConcatFacts
<1>2. ASSUME NEW k \in 1..Len(t), i = Len(s) + k PROVE (s \o t)[i].layer \in L
  <2>1. (s \o t)[Len(s) + k] = t[k] BY ConcatFacts
  <2>2. (s \o t)[i] = t[k] BY <1>2, <2>1
  <2> QED BY <2>2
<1> QED BY <1>1, <1>2, ConcatFacts

\* The statements of a boundary handler after its bump: pages first, and a
\* layer is read exactly when it is cleaned up.
Fine(t) ==
    /\ t \in Seq(Steps)
    /\ \A i \in 1..Len(t) : /\ t[i].op \in BoundaryOps \ {"bump"}
                            /\ t[i].layer = "parcels" <=> t[i].op = "initial"
                            /\ t[i].op \in {"backfill", "missing"} => t[i].layer = "cities"
                            /\ t[i].off = 0
    /\ \A i, k \in 1..Len(t) :
          t[k].op = "page" /\ i # k /\ t[i].layer = t[k].layer => k < i /\ t[i].op # "page"
    /\ \A k \in 1..Len(t) : t[k].op = "page" => Has(t, "stale", t[k].layer)
    /\ \A k \in 1..Len(t) : t[k].op = "stale" => Has(t, "page", t[k].layer)

LEMMA HasConcat ==
  ASSUME NEW s \in Seq(Steps), NEW t \in Seq(Steps), NEW o, NEW l
  PROVE  Has(s \o t, o, l) <=> Has(s, o, l) \/ Has(t, o, l)
<1>1. ASSUME NEW i \in 1..Len(s \o t), Is(s \o t, i, o, l)
      PROVE  Has(s, o, l) \/ Has(t, o, l)
  <2>1. CASE i \in 1..Len(s) BY <1>1, <2>1, ConcatFacts DEF Is, Has
  <2>2. ASSUME NEW k \in 1..Len(t), i = Len(s) + k PROVE Has(t, o, l)
    <3>1. (s \o t)[i] = t[k] BY <2>2, ConcatFacts
    <3> QED BY <1>1, <3>1 DEF Is, Has
  <2> QED BY <2>1, <2>2, ConcatFacts
<1>2. ASSUME NEW i \in 1..Len(s), Is(s, i, o, l) PROVE Has(s \o t, o, l)
  BY <1>2, ConcatFacts DEF Is, Has
<1>3. ASSUME NEW i \in 1..Len(t), Is(t, i, o, l) PROVE Has(s \o t, o, l)
  <2>1. Len(s) + i \in 1..Len(s \o t) /\ (s \o t)[Len(s) + i] = t[i] BY ConcatFacts
  <2> QED BY <1>3, <2>1 DEF Is, Has
<1> QED BY <1>1, <1>2, <1>3 DEF Has

LEMMA FineConcat ==
  ASSUME NEW s, NEW t, Fine(s), Fine(t),
         \A i \in 1..Len(s), k \in 1..Len(t) : t[k].op = "page" => s[i].layer # t[k].layer
  PROVE  Fine(s \o t)
<1> DEFINE u == s \o t
<1>1. s \in Seq(Steps) /\ t \in Seq(Steps) BY DEF Fine
<1>2. u \in Seq(Steps) /\ Len(u) = Len(s) + Len(t) /\ Len(s) \in Nat /\ Len(t) \in Nat
  BY <1>1, ConcatFacts
<1>3. \A i \in 1..Len(u) : \/ i \in 1..Len(s) /\ u[i] = s[i]
                           \/ \E k \in 1..Len(t) : i = Len(s) + k /\ u[i] = t[k]
  <2> SUFFICES ASSUME NEW i \in 1..Len(u), i \notin 1..Len(s)
               PROVE  \E k \in 1..Len(t) : i = Len(s) + k /\ u[i] = t[k]
    BY <1>1, ConcatFacts
  <2>1. PICK k \in 1..Len(t) : i = Len(s) + k BY <1>1, ConcatFacts
  <2>2. u[Len(s) + k] = t[k] BY <1>1, ConcatFacts
  <2> QED BY <2>1, <2>2
<1>4. \A o, l : Has(u, o, l) <=> Has(s, o, l) \/ Has(t, o, l) BY <1>1, HasConcat
<1> HIDE DEF u
<1>5. ASSUME NEW i \in 1..Len(u)
      PROVE  /\ u[i].op \in BoundaryOps \ {"bump"}
             /\ u[i].layer = "parcels" <=> u[i].op = "initial"
             /\ u[i].op \in {"backfill", "missing"} => u[i].layer = "cities"
             /\ u[i].off = 0
             /\ u[i].op = "page" => Has(u, "stale", u[i].layer)
             /\ u[i].op = "stale" => Has(u, "page", u[i].layer)
  <2>1. CASE i \in 1..Len(s) /\ u[i] = s[i] BY <2>1, <1>4 DEF Fine
  <2>2. ASSUME NEW k \in 1..Len(t), i = Len(s) + k, u[i] = t[k]
        PROVE  /\ t[k].op \in BoundaryOps \ {"bump"}
               /\ t[k].layer = "parcels" <=> t[k].op = "initial"
               /\ t[k].op \in {"backfill", "missing"} => t[k].layer = "cities"
               /\ t[k].off = 0
               /\ t[k].op = "page" => Has(u, "stale", t[k].layer)
               /\ t[k].op = "stale" => Has(u, "page", t[k].layer)
    BY <1>4 DEF Fine
  <2> QED BY <2>1, <2>2, <1>3
<1>6. ASSUME NEW i \in 1..Len(u), NEW k \in 1..Len(u),
             u[k].op = "page", i # k, u[i].layer = u[k].layer
      PROVE  k < i /\ u[i].op # "page"
  <2>1. CASE i \in 1..Len(s) /\ k \in 1..Len(s) /\ u[i] = s[i] /\ u[k] = s[k]
    BY <2>1, <1>6 DEF Fine
  <2>2. ASSUME NEW a \in 1..Len(t), k = Len(s) + a, u[k] = t[a], i \in 1..Len(s), u[i] = s[i]
        PROVE  FALSE
    BY <2>2, <1>6
  <2>3. ASSUME NEW a \in 1..Len(t), i = Len(s) + a, u[i] = t[a], k \in 1..Len(s), u[k] = s[k]
        PROVE  k < i /\ u[i].op # "page"
    BY <2>3, <1>2, <1>6
  <2>4. ASSUME NEW a \in 1..Len(t), i = Len(s) + a, u[i] = t[a],
               NEW b \in 1..Len(t), k = Len(s) + b, u[k] = t[b]
        PROVE  k < i /\ u[i].op # "page"
    <3>1. b < a /\ t[a].op # "page" BY <2>4, <1>6 DEF Fine
    <3> QED BY <3>1, <2>4, <1>2
  <2> QED BY <2>1, <2>2, <2>3, <2>4, <1>3
<1> QED BY <1>2, <1>5, <1>6 DEF Fine, u

LEMMA StepFacts ==
  ASSUME NEW o, NEW l, NEW n
  PROVE  Step(o, l, n).op = o /\ Step(o, l, n).layer = l /\ Step(o, l, n).off = n
  BY DEF Step

LEMMA StepType ==
  ASSUME NEW o \in BoundaryOps \cup {"check", "kick", "next"}, NEW l \in Layers, NEW n \in Nat
  PROVE  Step(o, l, n) \in Steps
  BY DEF Step, Steps

\* The pieces a boundary handler is put together from.
LEMMA FineSingle ==
  ASSUME NEW o \in {"missing", "initial"}, NEW l, l = IF o = "initial" THEN "parcels" ELSE "cities"
  PROVE  Fine(<<Step(o, l, 0)>>) /\ ~Has(<<Step(o, l, 0)>>, "page", l)
<1> DEFINE x == Step(o, l, 0)
           t == <<x>>
<1>1. x \in Steps BY StepType DEF BoundaryOps
<1>2. x.op = o /\ x.layer = l /\ x.off = 0 BY StepFacts
<1> HIDE DEF x
<1>3. t \in Seq(Steps) /\ Len(t) = 1 /\ t[1] = x BY <1>1
<1> HIDE DEF t
<1>4. \A i \in 1..Len(t) : (i = 1 /\ t[i] = x) BY <1>3
<1>5. Fine(t) BY <1>2, <1>3, <1>4 DEF Fine, BoundaryOps
<1>6. ~Has(t, "page", l) BY <1>2, <1>4 DEF Has, Is
<1> QED BY <1>5, <1>6 DEF t, x

LEMMA FineRefresh ==
  ASSUME NEW l \in Boundaries
  PROVE  Fine(Refresh(l)) /\ \A i \in 1..Len(Refresh(l)) : Refresh(l)[i].layer = l
<1> DEFINE x == Step("page", l, 0)
           y == Step("stale", l, 0)
           t == <<x, y>>
<1>1. x \in Steps /\ y \in Steps BY StepType DEF BoundaryOps
<1>2. /\ x.op = "page" /\ x.layer = l /\ x.off = 0
      /\ y.op = "stale" /\ y.layer = l /\ y.off = 0
  BY StepFacts
<1>3. Refresh(l) = t BY DEF Refresh
<1> HIDE DEF x, y
<1>4. t \in Seq(Steps) /\ Len(t) = 2 /\ t[1] = x /\ t[2] = y BY <1>1
<1> HIDE DEF t
<1>5. \A i \in 1..Len(t) : (i = 1 /\ t[i] = x) \/ (i = 2 /\ t[i] = y) BY <1>4
<1>6. 1 \in 1..Len(t) /\ 2 \in 1..Len(t) BY <1>4
<1>7. Has(t, "page", l) /\ Has(t, "stale", l) BY <1>2, <1>4, <1>6 DEF Has, Is
<1>8. Fine(t) BY <1>2, <1>4, <1>5, <1>7 DEF Fine, BoundaryOps
<1> QED BY <1>2, <1>3, <1>5, <1>8

LEMMA FineCities ==
  LET t == <<Step("page", "cities", 0), Step("backfill", "cities", 0), Step("stale", "cities", 0)>>
  IN  Fine(t) /\ \A i \in 1..Len(t) : t[i].layer = "cities"
<1> DEFINE x == Step("page", "cities", 0)
           y == Step("backfill", "cities", 0)
           z == Step("stale", "cities", 0)
           t == <<x, y, z>>
<1>1. x \in Steps /\ y \in Steps /\ z \in Steps BY StepType DEF BoundaryOps
<1>2. /\ x.op = "page" /\ x.layer = "cities" /\ x.off = 0
      /\ y.op = "backfill" /\ y.layer = "cities" /\ y.off = 0
      /\ z.op = "stale" /\ z.layer = "cities" /\ z.off = 0
  BY StepFacts
<1> HIDE DEF x, y, z
<1>3. t \in Seq(Steps) /\ Len(t) = 3 /\ t[1] = x /\ t[2] = y /\ t[3] = z BY <1>1
<1> HIDE DEF t
<1>4. \A i \in 1..Len(t) : (i = 1 /\ t[i] = x) \/ (i = 2 /\ t[i] = y) \/ (i = 3 /\ t[i] = z) BY <1>3
<1>5. 1 \in 1..Len(t) /\ 3 \in 1..Len(t) BY <1>3
<1>6. Has(t, "page", "cities") /\ Has(t, "stale", "cities") BY <1>2, <1>3, <1>5 DEF Has, Is
<1>7. Fine(t) BY <1>2, <1>3, <1>4, <1>6 DEF Fine, BoundaryOps
<1> QED BY <1>2, <1>4, <1>7 DEF t, x, y, z

LEMMA FineFull ==
  Fine(Tail(runFullBoundarySync))
    /\ runFullBoundarySync = <<Step("bump", "zips", 0)>> \o Tail(runFullBoundarySync)
    /\ \A i \in 1..Len(Tail(runFullBoundarySync)) : Tail(runFullBoundarySync)[i].layer \in Boundaries
<1> DEFINE a == Step("page", "counties", 0)
           b == Step("page", "cities", 0)
           c == Step("backfill", "cities", 0)
           d == Step("page", "zips", 0)
           e == Step("stale", "cities", 0)
           f == Step("stale", "counties", 0)
           g == Step("stale", "zips", 0)
           x == Step("bump", "zips", 0)
           t == <<a, b, c, d, e, f, g>>
<1>1. {a, b, c, d, e, f, g} \subseteq Steps BY StepType DEF BoundaryOps
<1>2. /\ a.op = "page" /\ a.layer = "counties" /\ a.off = 0
      /\ b.op = "page" /\ b.layer = "cities" /\ b.off = 0
      /\ c.op = "backfill" /\ c.layer = "cities" /\ c.off = 0
      /\ d.op = "page" /\ d.layer = "zips" /\ d.off = 0
      /\ e.op = "stale" /\ e.layer = "cities" /\ e.off = 0
      /\ f.op = "stale" /\ f.layer = "counties" /\ f.off = 0
      /\ g.op = "stale" /\ g.layer = "zips" /\ g.off = 0
  BY StepFacts
<1>3. runFullBoundarySync = <<x, a, b, c, d, e, f, g>> BY DEF runFullBoundarySync
<1> HIDE DEF a, b, c, d, e, f, g, x
<1>4. Tail(runFullBoundarySync) = t /\ runFullBoundarySync = <<x>> \o t BY <1>3
<1>5. /\ t \in Seq(Steps) /\ Len(t) = 7 /\ t[1] = a /\ t[2] = b /\ t[3] = c /\ t[4] = d
      /\ t[5] = e /\ t[6] = f /\ t[7] = g
  BY <1>1
<1> HIDE DEF t
<1>6. \A i \in 1..Len(t) :
        \/ (i = 1 /\ t[i] = a) \/ (i = 2 /\ t[i] = b) \/ (i = 3 /\ t[i] = c) \/ (i = 4 /\ t[i] = d)
        \/ (i = 5 /\ t[i] = e) \/ (i = 6 /\ t[i] = f) \/ (i = 7 /\ t[i] = g)
  BY <1>5
<1>7. 1..7 \subseteq 1..Len(t) BY <1>5
<1>8. \A l \in Boundaries : Has(t, "page", l) /\ Has(t, "stale", l)
  BY <1>2, <1>5, <1>7 DEF Has, Is
<1>9. \A i \in 1..Len(t) : /\ t[i].op \in BoundaryOps \ {"bump"}
                           /\ t[i].layer \in Boundaries /\ t[i].off = 0
  BY <1>2, <1>6 DEF BoundaryOps
<1>10. \A i, k \in 1..Len(t) :
          t[k].op = "page" /\ i # k /\ t[i].layer = t[k].layer => k < i /\ t[i].op # "page"
  BY <1>2, <1>6
<1>11. \A i \in 1..Len(t) : /\ t[i].layer = "parcels" <=> t[i].op = "initial"
                            /\ t[i].op \in {"backfill", "missing"} => t[i].layer = "cities"
  BY <1>2, <1>6
<1>12. Fine(t) BY <1>5, <1>8, <1>9, <1>10, <1>11 DEF Fine
<1> QED BY <1>4, <1>9, <1>12 DEF x

\* After a bump, or without one when there is nothing to read, the pieces are
\* what a boundary handler may have to do.
LEMMA FineTodo ==
  ASSUME NEW t, Fine(t)
  PROVE  BoundaryTodo(t) /\ ~Bumps(t)
<1>1. Len(t) \in Nat BY DEF Fine
<1>2. ~Bumps(t) BY <1>1 DEF Bumps, Fine
<1> QED BY <1>2 DEF Fine, BoundaryTodo

LEMMA BumpTodo ==
  ASSUME NEW t, Fine(t)
  PROVE  BoundaryTodo(<<Step("bump", "zips", 0)>> \o t) /\ Bumps(<<Step("bump", "zips", 0)>> \o t)
<1> DEFINE x == Step("bump", "zips", 0)
           s == <<x>>
           u == s \o t
<1>1. x \in Steps BY StepType DEF BoundaryOps
<1>2. x.op = "bump" /\ x.layer = "zips" BY StepFacts
<1> HIDE DEF x
<1>3. s \in Seq(Steps) /\ Len(s) = 1 /\ s[1] = x /\ t \in Seq(Steps) /\ Len(t) \in Nat
  BY <1>1 DEF Fine
<1> HIDE DEF s
<1>4. /\ u \in Seq(Steps) /\ Len(u) = 1 + Len(t)
      /\ 1 \in 1..Len(u) /\ u[1] = x
      /\ \A i \in 1..Len(t) : 1 + i \in 1..Len(u) /\ u[1 + i] = t[i]
  BY <1>1, <1>3, PrefixFacts DEF s
<1>5. \A o, l : Has(t, o, l) => Has(u, o, l) BY <1>3, HasConcat
<1> HIDE DEF u
<1>6. \A i \in 1..Len(u) : i = 1 \/ (i - 1 \in 1..Len(t) /\ u[i] = t[i - 1])
  <2> SUFFICES ASSUME NEW i \in 1..Len(u), i # 1
               PROVE  i - 1 \in 1..Len(t) /\ u[i] = t[i - 1]
    OBVIOUS
  <2>1. i - 1 \in 1..Len(t) /\ 1 + (i - 1) = i BY <1>3, <1>4
  <2> QED BY <2>1, <1>4
<1>7. ASSUME NEW i \in 1..Len(u)
      PROVE  /\ u[i].op \in BoundaryOps
             /\ u[i].layer = "parcels" <=> u[i].op = "initial"
             /\ u[i].op \in {"backfill", "missing"} => u[i].layer = "cities"
             /\ u[i].op = "bump" => i = 1
             /\ u[i].op = "page" /\ i > 1 => u[i].off = 0
             /\ u[i].op = "page" => Has(u, "stale", u[i].layer)
             /\ u[i].op = "stale" => Has(u, "page", u[i].layer)
  <2>1. CASE i = 1 BY <2>1, <1>2, <1>4 DEF BoundaryOps
  <2>2. CASE i - 1 \in 1..Len(t) /\ u[i] = t[i - 1] BY <2>2, <1>5 DEF Fine
  <2> QED BY <2>1, <2>2, <1>6
<1>8. ASSUME NEW i \in 1..Len(u), NEW k \in 1..Len(u), u[k].op = "page", i # k,
             u[i].layer = u[k].layer, u[i].op # "bump"
      PROVE  k < i /\ u[i].op # "page"
  <2>1. i # 1 /\ k # 1 BY <1>8, <1>2, <1>4
  <2>2. /\ i - 1 \in 1..Len(t) /\ u[i] = t[i - 1]
        /\ k - 1 \in 1..Len(t) /\ u[k] = t[k - 1] /\ i - 1 # k - 1
    BY <2>1, <1>6, <1>4, <1>8
  <2>3. k - 1 < i - 1 /\ t[i - 1].op # "page" BY <2>2, <1>8 DEF Fine
  <2> QED BY <2>2, <2>3, <1>3
<1>9. Bumps(u) BY <1>2, <1>3, <1>4 DEF Bumps
<1>10. BoundaryTodo(u) BY <1>4, <1>7, <1>8 DEF BoundaryTodo
<1> QED BY <1>9, <1>10 DEF u, s, x

LEMMA FineEmpty == Fine(<<>>)
<1>1. <<>> \in Seq(Steps) /\ Len(<<>>) = 0 OBVIOUS
<1> QED BY <1>1 DEF Fine

\* What a boundary job has to do when a worker takes it up.
Planned(t) ==
    /\ BoundaryTodo(t)
    /\ ~Bumps(t) => \A l \in Boundaries : ~Has(t, "page", l) /\ ~Has(t, "stale", l)

LEMMA GapFill ==
  \E t : /\ Fine(t)
         /\ RunGapFill = <<Step("bump", "zips", 0)>> \o t
              \/ (RunGapFill = t /\ \A i \in 1..Len(t) : t[i].op = "missing")
         /\ \A i \in 1..Len(t) : t[i].layer \in Boundaries
<1> DEFINE empty == {l \in Boundaries : rows[l] = {}}
           If(l, s) == IF l \in empty THEN s ELSE <<>>
           c == <<Step("page", "cities", 0), Step("backfill", "cities", 0),
                  Step("stale", "cities", 0)>>
           m == <<Step("missing", "cities", 0)>>
           t1 == If("counties", Refresh("counties"))
           t2 == If("cities", c)
           t3 == If("zips", Refresh("zips"))
           p == IF empty = {} THEN <<>> ELSE <<Step("bump", "zips", 0)>>
<1>1. RunGapFill = p \o t1 \o t2 \o t3 \o m BY DEF RunGapFill
<1>2. Len(<<>>) = 0 OBVIOUS
<1>3. Fine(t1) /\ \A i \in 1..Len(t1) : t1[i].layer = "counties"
  BY FineEmpty, <1>2, FineRefresh
<1>4. Fine(t2) /\ \A i \in 1..Len(t2) : t2[i].layer = "cities"
  BY FineEmpty, <1>2, FineCities
<1>5. Fine(t3) /\ \A i \in 1..Len(t3) : t3[i].layer = "zips"
  BY FineEmpty, <1>2, FineRefresh
<1>6. /\ Fine(m) /\ m \in Seq(Steps)
      /\ \A i \in 1..Len(m) : m[i].layer = "cities" /\ m[i].op = "missing"
  <2>1. Fine(m) BY FineSingle
  <2>2. Len(m) = 1 /\ m[1] = Step("missing", "cities", 0) OBVIOUS
  <2> HIDE DEF m
  <2>3. \A i \in 1..Len(m) : m[i] = Step("missing", "cities", 0) BY <2>2
  <2> QED BY <2>1, <2>3, StepFacts DEF Fine
<1>7. p \in Seq(Steps)
  <2>1. Step("bump", "zips", 0) \in Steps BY StepType DEF BoundaryOps
  <2> QED BY <2>1
<1>8. empty = {} => p = <<>> /\ t1 = <<>> /\ t2 = <<>> /\ t3 = <<>> OBVIOUS
<1>9. empty # {} => p = <<Step("bump", "zips", 0)>> OBVIOUS
<1> HIDE DEF p, t1, t2, t3, m, empty
<1>10. t1 \in Seq(Steps) /\ t2 \in Seq(Steps) /\ t3 \in Seq(Steps) BY <1>3, <1>4, <1>5 DEF Fine
<1> DEFINE u == t1 \o t2
           v == u \o t3
           t == v \o m
<1>11. Fine(u) /\ \A i \in 1..Len(u) : u[i].layer \in {"counties", "cities"}
  <2>1. Fine(u) BY <1>3, <1>4, FineConcat
  <2>2. \A i \in 1..Len(u) : u[i].layer \in {"counties", "cities"}
    BY <1>3, <1>4, <1>10, LayersConcat
  <2> QED BY <2>1, <2>2
<1> HIDE DEF u
<1>12. u \in Seq(Steps) BY <1>11 DEF Fine
<1>13. Fine(v) /\ \A i \in 1..Len(v) : v[i].layer \in Boundaries
  <2>1. Fine(v) BY <1>11, <1>5, FineConcat
  <2>2. \A i \in 1..Len(v) : v[i].layer \in Boundaries
    BY <1>5, <1>10, <1>11, <1>12, LayersConcat
  <2> QED BY <2>1, <2>2
<1> HIDE DEF v
<1>14. v \in Seq(Steps) BY <1>13 DEF Fine
<1>15. Fine(t) /\ \A i \in 1..Len(t) : t[i].layer \in Boundaries
  <2>1. Fine(t) BY <1>13, <1>6, FineConcat
  <2>2. \A i \in 1..Len(t) : t[i].layer \in Boundaries
    BY <1>6, <1>13, <1>14, LayersConcat
  <2> QED BY <2>1, <2>2
<1>16. RunGapFill = p \o t
  <2>1. (p \o t1) \o t2 = p \o u BY <1>7, <1>10 DEF u
  <2>2. (p \o u) \o t3 = p \o v BY <1>7, <1>10, <1>12 DEF v
  <2>3. (p \o v) \o m = p \o t BY <1>7, <1>14, <1>6
  <2> QED BY <1>1, <2>1, <2>2, <2>3
<1>17. CASE empty # {}
  <2>1. RunGapFill = <<Step("bump", "zips", 0)>> \o t BY <1>16, <1>17, <1>9
  <2> QED BY <2>1, <1>15
<1>18. CASE empty = {}
  <2>1. p = <<>> /\ t1 = <<>> /\ t2 = <<>> /\ t3 = <<>> BY <1>18, <1>8
  <2>2. u = <<>> BY <2>1 DEF u
  <2>3. v = <<>> BY <2>1, <2>2 DEF v
  <2>4. t = m BY <2>3, <1>6
  <2>5. RunGapFill = t BY <1>16, <2>1, <2>4, <1>6
  <2> QED BY <2>4, <2>5, <1>15, <1>6
<1> QED BY <1>17, <1>18

LEMMA BumpIsPlanned ==
  ASSUME NEW t, Fine(t)
  PROVE  Planned(<<Step("bump", "zips", 0)>> \o t)
  BY BumpTodo DEF Planned

LEMMA InitialIsPlanned == Planned(InitialSync)
<1> DEFINE b == <<Step("bump", "zips", 0)>>
           m == <<Step("initial", "parcels", 0)>>
<1>1. PICK t : /\ Fine(t)
               /\ \/ RunBootstrapBoundaries = b \o t
                  \/ RunBootstrapBoundaries = t /\ \A i \in 1..Len(t) : t[i].op = "missing"
  BY GapFill, FineFull DEF RunBootstrapBoundaries
<1>2. Fine(m) BY FineSingle
<1>3. \A i \in 1..Len(m) : m[i].op = "initial"
  <2>1. Len(m) = 1 /\ m[1] = Step("initial", "parcels", 0) OBVIOUS
  <2> HIDE DEF m
  <2>2. \A i \in 1..Len(m) : m[i] = Step("initial", "parcels", 0) BY <2>1
  <2> QED BY <2>2, StepFacts
<1>4. InitialSync = RunBootstrapBoundaries \o m BY DEF InitialSync
<1> HIDE DEF m
<1>5. \A k \in 1..Len(m) : m[k].op # "page" BY <1>3
<1>6. Fine(t \o m) BY <1>1, <1>2, <1>5, FineConcat
<1>7. t \in Seq(Steps) /\ m \in Seq(Steps) BY <1>1, <1>2 DEF Fine
<1>8. CASE RunBootstrapBoundaries = b \o t
  <2>1. b \in Seq(Steps)
    <3>1. Step("bump", "zips", 0) \in Steps BY StepType DEF BoundaryOps
    <3> QED BY <3>1
  <2> HIDE DEF b
  <2>2. InitialSync = b \o (t \o m) BY <1>4, <1>7, <1>8, <2>1
  <2> QED BY <1>6, <2>2, BumpIsPlanned DEF b
<1>9. CASE RunBootstrapBoundaries = t /\ \A i \in 1..Len(t) : t[i].op = "missing"
  <2>1. InitialSync = t \o m BY <1>4, <1>9
  <2>2. \A l : ~Has(t, "page", l) /\ ~Has(t, "stale", l) BY <1>9 DEF Has, Is
  <2>3. \A l : ~Has(m, "page", l) /\ ~Has(m, "stale", l) BY <1>3 DEF Has, Is
  <2>4. \A l : ~Has(t \o m, "page", l) /\ ~Has(t \o m, "stale", l)
    BY <2>2, <2>3, <1>7, HasConcat
  <2> QED BY <1>6, <2>1, <2>4, FineTodo DEF Planned
<1> QED BY <1>1, <1>8, <1>9

LEMMA BoundaryPlan ==
  ASSUME NEW j, j.kind \in BoundaryKinds
  PROVE  Planned(Plan(j))
<1>1. CASE j.kind = "initial"
  <2>1. Plan(j) = InitialSync BY <1>1 DEF Plan
  <2> QED BY <2>1, InitialIsPlanned
<1>2. CASE j.kind = "annual"
  <2>1. Plan(j) = runFullBoundarySync BY <1>2 DEF Plan
  <2> QED BY <2>1, FineFull, BumpIsPlanned
<1>3. CASE j.kind = "zip"
  <2>1. Plan(j) = RunZipSync BY <1>3 DEF Plan
  <2>2. RunZipSync = <<Step("bump", "zips", 0)>> \o Refresh("zips") BY DEF RunZipSync
  <2> QED BY <2>1, <2>2, FineRefresh, BumpIsPlanned
<1> QED BY <1>1, <1>2, <1>3 DEF BoundaryKinds

LEMMA KickoffFacts ==
  /\ Kickoff \in Seq(Steps) /\ Tail(Kickoff) \in Seq(Steps) /\ Tail(Tail(Kickoff)) \in Seq(Steps)
  /\ Len(Kickoff) = 3 /\ Len(Tail(Kickoff)) = 2 /\ Len(Tail(Tail(Kickoff))) = 1
  /\ Kickoff[1].op = "check" /\ Kickoff[2].op = "bump" /\ Kickoff[3].op = "kick"
  /\ \A i \in 1..3 : Kickoff[i].layer = "parcels" /\ Kickoff[i].off = 0
  /\ Tail(Kickoff) = <<Kickoff[2], Kickoff[3]>> /\ Tail(Tail(Kickoff)) = <<Kickoff[3]>>
<1> DEFINE x == Step("check", "parcels", 0)
           y == Step("bump", "parcels", 0)
           z == Step("kick", "parcels", 0)
<1>1. x \in Steps /\ y \in Steps /\ z \in Steps BY StepType DEF BoundaryOps
<1>2. /\ x.op = "check" /\ x.layer = "parcels" /\ x.off = 0
      /\ y.op = "bump" /\ y.layer = "parcels" /\ y.off = 0
      /\ z.op = "kick" /\ z.layer = "parcels" /\ z.off = 0
  BY StepFacts
<1>3. Kickoff = <<x, y, z>> BY DEF Kickoff
<1> HIDE DEF x, y, z
<1>4. Tail(Kickoff) = <<y, z>> /\ Tail(Tail(Kickoff)) = <<z>> BY <1>3
<1>5. Kickoff[1] = x /\ Kickoff[2] = y /\ Kickoff[3] = z BY <1>3
<1>6. \A i \in 1..3 : i = 1 \/ i = 2 \/ i = 3 OBVIOUS
<1>7. \A i \in 1..3 : Kickoff[i].layer = "parcels" /\ Kickoff[i].off = 0 BY <1>2, <1>5, <1>6
<1>8. /\ Kickoff \in Seq(Steps) /\ Tail(Kickoff) \in Seq(Steps) /\ Tail(Tail(Kickoff)) \in Seq(Steps)
      /\ Len(Kickoff) = 3 /\ Len(Tail(Kickoff)) = 2 /\ Len(Tail(Tail(Kickoff))) = 1
  BY <1>1, <1>3, <1>4
<1> QED BY <1>2, <1>4, <1>5, <1>7, <1>8

\* What a handler has to do says of which kind its job is.
LEMMA KickTodoFacts ==
  ASSUME NEW t, KickTodo(t)
  PROVE  /\ t \in Seq(Steps) /\ Len(t) \in 0..3
         /\ \A i \in 1..Len(t) : t[i].layer = "parcels" /\ t[i].op \in {"check", "bump", "kick"}
         /\ t # <<>> => \/ t = Kickoff /\ t[1].op = "check"
                        \/ t = Tail(Kickoff) /\ t[1].op = "bump"
                        \/ t = Tail(Tail(Kickoff)) /\ t[1].op = "kick" /\ t[1].off = 0
         /\ AtKick(t) <=> t = Tail(Tail(Kickoff))
<1>1. CASE t = <<>>
  <2>1. t \in Seq(Steps) /\ Len(t) = 0 BY <1>1
  <2>2. t # Tail(Tail(Kickoff)) BY <2>1, KickoffFacts
  <2> QED BY <1>1, <2>1, <2>2 DEF AtKick
<1>2. CASE t = Kickoff
  <2>1. t # Tail(Tail(Kickoff)) /\ Len(t) = 3 BY <1>2, KickoffFacts
  <2>2. \A i \in 1..3 : i = 1 \/ i = 2 \/ i = 3 OBVIOUS
  <2>3. \A i \in 1..Len(t) : t[i].layer = "parcels" /\ t[i].op \in {"check", "bump", "kick"}
    BY <1>2, <2>2, KickoffFacts
  <2> QED BY <1>2, <2>1, <2>3, KickoffFacts DEF AtKick
<1>3. CASE t = Tail(Kickoff)
  <2>1. t # Tail(Tail(Kickoff)) /\ Len(t) = 2 BY <1>3, KickoffFacts
  <2>2. \A i \in 1..2 : i = 1 \/ i = 2 OBVIOUS
  <2>3. t[1] = Kickoff[2] /\ t[2] = Kickoff[3] BY <1>3, KickoffFacts
  <2>4. 2 \in 1..3 /\ 3 \in 1..3 OBVIOUS
  <2>5. \A i \in 1..Len(t) : t[i].layer = "parcels" /\ t[i].op \in {"check", "bump", "kick"}
    BY <2>1, <2>2, <2>3, <2>4, KickoffFacts
  <2> QED BY <1>3, <2>1, <2>3, <2>5, KickoffFacts DEF AtKick
<1>4. CASE t = Tail(Tail(Kickoff))
  <2>1. Len(t) = 1 BY <1>4, KickoffFacts
  <2>2. \A i \in 1..1 : i = 1 OBVIOUS
  <2>3. t[1] = Kickoff[3] BY <1>4, KickoffFacts
  <2>4. 3 \in 1..3 OBVIOUS
  <2>5. \A i \in 1..Len(t) : t[i].layer = "parcels" /\ t[i].op \in {"check", "bump", "kick"}
    BY <2>1, <2>2, <2>3, <2>4, KickoffFacts
  <2>6. t[1].op = "kick" /\ t[1].off = 0 BY <2>3, <2>4, KickoffFacts
  <2> QED BY <1>4, <2>1, <2>5, <2>6, KickoffFacts DEF AtKick
<1> QED BY <1>1, <1>2, <1>3, <1>4 DEF KickTodo

LEMMA TailFacts ==
  ASSUME NEW S, NEW t \in Seq(S), t # <<>>
  PROVE  /\ Tail(t) \in Seq(S) /\ Len(Tail(t)) = Len(t) - 1 /\ Len(t) \in Nat \ {0}
         /\ 1 \in 1..Len(t) /\ Head(t) = t[1]
         /\ \A i \in 1..Len(Tail(t)) : i + 1 \in 1..Len(t) /\ Tail(t)[i] = t[i + 1]
         /\ \A i \in 1..Len(t) : i # 1 =>
               i - 1 \in 1..Len(Tail(t)) /\ Tail(t)[i - 1] = t[i]
<1>1. Len(t) \in Nat \ {0} OBVIOUS
<1>2. Tail(t) \in Seq(S) /\ Len(Tail(t)) = Len(t) - 1 /\ Head(t) = t[1] BY <1>1
<1>3. \A i \in 1..Len(Tail(t)) : i + 1 \in 1..Len(t) /\ Tail(t)[i] = t[i + 1] BY <1>1, <1>2
<1>4. ASSUME NEW i \in 1..Len(t), i # 1
      PROVE  i - 1 \in 1..Len(Tail(t)) /\ Tail(t)[i - 1] = t[i]
  <2>1. i - 1 \in 1..Len(Tail(t)) /\ (i - 1) + 1 = i BY <1>1, <1>2, <1>4
  <2> QED BY <2>1, <1>3
<1> QED BY <1>1, <1>2, <1>3, <1>4

LEMMA HasTail ==
  ASSUME NEW t \in Seq(Steps), t # <<>>, NEW o, NEW l
  PROVE  /\ Has(Tail(t), o, l) => Has(t, o, l)
         /\ Has(t, o, l) /\ ~Is(t, 1, o, l) => Has(Tail(t), o, l)
<1>1. ASSUME NEW i \in 1..Len(Tail(t)), Is(Tail(t), i, o, l) PROVE Has(t, o, l)
  <2>1. i + 1 \in 1..Len(t) /\ Tail(t)[i] = t[i + 1] BY TailFacts
  <2> QED BY <1>1, <2>1 DEF Is, Has
<1>2. ASSUME NEW i \in 1..Len(t), Is(t, i, o, l), ~Is(t, 1, o, l) PROVE Has(Tail(t), o, l)
  <2>1. i # 1 BY <1>2
  <2>2. i - 1 \in 1..Len(Tail(t)) /\ Tail(t)[i - 1] = t[i] BY <2>1, TailFacts
  <2> QED BY <1>2, <2>2 DEF Is, Has
<1> QED BY <1>1, <1>2 DEF Has

\* The first statement is done.
LEMMA TailTodo ==
  ASSUME NEW t, BoundaryTodo(t), t # <<>>
  PROVE  BoundaryTodo(Tail(t)) /\ ~Bumps(Tail(t))
<1> DEFINE u == Tail(t)
<1>1. t \in Seq(Steps) BY DEF BoundaryTodo
<1>2. /\ u \in Seq(Steps) /\ Len(u) = Len(t) - 1 /\ Len(t) \in Nat \ {0}
      /\ \A i \in 1..Len(u) : i + 1 \in 1..Len(t) /\ u[i] = t[i + 1]
      /\ \A i \in 1..Len(t) : i # 1 => i - 1 \in 1..Len(u) /\ u[i - 1] = t[i]
  BY <1>1, TailFacts
<1> HIDE DEF u
<1>3. ASSUME NEW i \in 1..Len(u)
      PROVE  /\ u[i].op \in BoundaryOps \ {"bump"}
             /\ u[i].layer = "parcels" <=> u[i].op = "initial"
             /\ u[i].op \in {"backfill", "missing"} => u[i].layer = "cities"
             /\ u[i].op = "page" => u[i].off = 0
             /\ u[i].op = "page" => Has(u, "stale", u[i].layer)
  <2>1. i + 1 \in 1..Len(t) /\ u[i] = t[i + 1] /\ i + 1 # 1 /\ i + 1 > 1 BY <1>2
  <2>2. /\ t[i + 1].op \in BoundaryOps \ {"bump"}
        /\ t[i + 1].layer = "parcels" <=> t[i + 1].op = "initial"
        /\ t[i + 1].op \in {"backfill", "missing"} => t[i + 1].layer = "cities"
        /\ t[i + 1].op = "page" => t[i + 1].off = 0
    BY <2>1 DEF BoundaryTodo
  <2>3. ASSUME u[i].op = "page" PROVE Has(u, "stale", u[i].layer)
    <3>1. Has(t, "stale", t[i + 1].layer) BY <2>1, <2>3 DEF BoundaryTodo
    <3>2. PICK k \in 1..Len(t) : Is(t, k, "stale", t[i + 1].layer) BY <3>1 DEF Has
    <3>3. t[k].op = "stale" /\ t[k].layer = t[i + 1].layer BY <3>2 DEF Is
    <3>4. k # i + 1 /\ t[k].op # "bump" BY <3>3, <2>1, <2>3
    <3>5. i + 1 < k BY <3>3, <3>4, <2>1, <2>3 DEF BoundaryTodo
    <3>6. k # 1 BY <3>5, <1>2
    <3>7. k - 1 \in 1..Len(u) /\ u[k - 1] = t[k] BY <3>6, <1>2
    <3> QED BY <3>3, <3>7, <2>1 DEF Has, Is
  <2> QED BY <2>1, <2>2, <2>3
<1>4. ASSUME NEW i \in 1..Len(u), NEW k \in 1..Len(u), u[k].op = "page", i # k,
             u[i].layer = u[k].layer, u[i].op # "bump"
      PROVE  k < i /\ u[i].op # "page"
  <2>1. /\ i + 1 \in 1..Len(t) /\ u[i] = t[i + 1]
        /\ k + 1 \in 1..Len(t) /\ u[k] = t[k + 1] /\ i + 1 # k + 1
    BY <1>2, <1>4
  <2>2. k + 1 < i + 1 /\ t[i + 1].op # "page" BY <2>1, <1>4 DEF BoundaryTodo
  <2> QED BY <2>1, <2>2, <1>2
<1>5. ~Bumps(u) BY <1>2, <1>3 DEF Bumps
<1>6. BoundaryTodo(u) BY <1>2, <1>3, <1>4, <1>5 DEF BoundaryTodo
<1> QED BY <1>5, <1>6 DEF u

\* syncLayer goes on to its next page.
LEMMA NextTodo ==
  ASSUME NEW t, BoundaryTodo(t), t # <<>>, t[1].op = "page", NEW n \in Nat
  PROVE  LET u == <<Step("page", t[1].layer, n)>> \o Tail(t)
         IN  /\ BoundaryTodo(u) /\ ~Bumps(u) /\ u # <<>>
             /\ \A o, l : Has(u, o, l) <=> Has(t, o, l)
             /\ \A i \in 1..Len(u) :
                   Is(u, i, "page", t[1].layer) => i = 1 /\ u[i].off = n
             /\ \A l : \A i \in 1..Len(u) : l # t[1].layer /\ Is(u, i, "page", l) =>
                   i \in 1..Len(t) /\ Is(t, i, "page", l) /\ u[i] = t[i]
<1> DEFINE x == Step("page", t[1].layer, n)
           u == <<x>> \o Tail(t)
<1>1. t \in Seq(Steps) BY DEF BoundaryTodo
<1>2. /\ Tail(t) \in Seq(Steps) /\ Len(Tail(t)) = Len(t) - 1 /\ Len(t) \in Nat \ {0}
      /\ 1 \in 1..Len(t)
      /\ \A i \in 1..Len(Tail(t)) : i + 1 \in 1..Len(t) /\ Tail(t)[i] = t[i + 1]
      /\ \A i \in 1..Len(t) : i # 1 => i - 1 \in 1..Len(Tail(t)) /\ Tail(t)[i - 1] = t[i]
  BY <1>1, TailFacts
<1>3. t[1].layer \in Layers
  <2>1. t[1] \in Steps BY <1>1, <1>2
  <2> QED BY <2>1 DEF Steps
<1>4. x \in Steps BY <1>3, StepType DEF BoundaryOps
<1>5. x.op = "page" /\ x.layer = t[1].layer /\ x.off = n BY StepFacts
<1> HIDE DEF x
<1>6. /\ u \in Seq(Steps) /\ Len(u) = 1 + Len(Tail(t)) /\ u[1] = x
      /\ \A i \in 1..Len(Tail(t)) : 1 + i \in 1..Len(u) /\ u[1 + i] = Tail(t)[i]
  BY <1>2, <1>4, PrefixFacts
<1> HIDE DEF u
<1>7. Len(u) = Len(t) BY <1>2, <1>6
<1>8. \A i \in 1..Len(t) : i # 1 => u[i] = t[i]
  <2> SUFFICES ASSUME NEW i \in 1..Len(t), i # 1 PROVE u[i] = t[i] OBVIOUS
  <2>1. i - 1 \in 1..Len(Tail(t)) /\ Tail(t)[i - 1] = t[i] /\ 1 + (i - 1) = i BY <1>2
  <2>2. u[1 + (i - 1)] = Tail(t)[i - 1] BY <2>1, <1>6
  <2> QED BY <2>1, <2>2
<1>9. \A i \in 1..Len(t) : u[i].op = t[i].op /\ u[i].layer = t[i].layer BY <1>5, <1>6, <1>8
<1>10. \A o, l : Has(u, o, l) <=> Has(t, o, l) BY <1>7, <1>9 DEF Has, Is
<1>11. ~Bumps(t) /\ ~Bumps(u) BY <1>9, <1>2, <1>7 DEF Bumps
<1>12. BoundaryTodo(u)
  <2>1. \A i \in 1..Len(u) : u[i].op = "page" /\ i > 1 => u[i].off = 0
    BY <1>7, <1>8 DEF BoundaryTodo
  <2> QED BY <1>6, <1>7, <1>9, <1>10, <1>11, <2>1 DEF BoundaryTodo
<1>13. \A i \in 1..Len(u) : Is(u, i, "page", t[1].layer) => i = 1 /\ u[i].off = n
  <2> SUFFICES ASSUME NEW i \in 1..Len(u), Is(u, i, "page", t[1].layer), i # 1 PROVE FALSE
    BY <1>5, <1>6
  <2>1. t[i].op = "page" /\ t[i].layer = t[1].layer /\ i \in 1..Len(t)
    BY <1>7, <1>9 DEF Is
  <2> QED BY <2>1, <1>2 DEF BoundaryTodo
<1>14. \A l : \A i \in 1..Len(u) : l # t[1].layer /\ Is(u, i, "page", l) =>
           i \in 1..Len(t) /\ Is(t, i, "page", l) /\ u[i] = t[i]
  <2> SUFFICES ASSUME NEW i \in 1..Len(u), NEW l, l # t[1].layer, Is(u, i, "page", l)
               PROVE  i \in 1..Len(t) /\ Is(t, i, "page", l) /\ u[i] = t[i]
    OBVIOUS
  <2>1. i # 1 BY <1>5, <1>6 DEF Is
  <2> QED BY <2>1, <1>7, <1>8 DEF Is
<1>15. u # <<>> BY <1>7, <1>2, <1>6
<1> QED BY <1>10, <1>11, <1>12, <1>13, <1>14, <1>15 DEF u, x

-----------------------------------------------------------------------------
(* A handler goes on to its next statement.                                *)

With(h, t) == [job |-> h.job, gen |-> h.gen, todo |-> t]

LEMMA WithFacts ==
  ASSUME NEW h \in Handler, NEW t \in Seq(Steps)
  PROVE  /\ With(h, t) \in Handler
         /\ With(h, t).job = h.job /\ With(h, t).gen = h.gen /\ With(h, t).todo = t
  BY DEF With, Handler

LEMMA TailLayers ==
  ASSUME NEW F, NEW T, NEW h \in Handler, BoundaryTodo(h.todo), h.todo # <<>>,
         h.todo[1].op # "bump", NEW l \in Boundaries, LayerOK(F, T, h, l),
         Is(h.todo, 1, "page", l) => Reached(F, T, l, Len(F[l]), h.gen)
  PROVE  LayerOK(F, T, With(h, Tail(h.todo)), l)
<1> DEFINE t == h.todo
           u == Tail(t)
           k == With(h, u)
<1>1. t \in Seq(Steps) /\ u \in Seq(Steps) BY TailTodo DEF BoundaryTodo
<1>2. k.gen = h.gen /\ k.todo = u BY <1>1, WithFacts
<1>3. ~Bumps(t) BY DEF Bumps
<1> HIDE DEF k
<1> SUFFICES ASSUME Has(u, "stale", l)
             PROVE  /\ Owned(F, T, l, h.gen)
                    /\ \A i \in 1..Len(u) : Is(u, i, "page", l) =>
                          /\ Reached(F, T, l, u[i].off, h.gen)
                          /\ l = "cities" => Bare(T, h.gen)
                    /\ ~Has(u, "page", l) => Reached(F, T, l, Len(F[l]), h.gen)
  <2>1. LayerOK(F, T, k, l)
    <3> HIDE DEF u
    <3> QED BY <1>2 DEF LayerOK
  <2> QED BY <2>1 DEF k
<1>4. Has(t, "stale", l) BY <1>1, HasTail
<1>5. /\ Owned(F, T, l, h.gen)
      /\ \A i \in 1..Len(t) : Is(t, i, "page", l) =>
            /\ Reached(F, T, l, t[i].off, h.gen)
            /\ l = "cities" => Bare(T, h.gen)
      /\ ~Has(t, "page", l) => Reached(F, T, l, Len(F[l]), h.gen)
  BY <1>3, <1>4 DEF LayerOK
<1>6. ASSUME NEW i \in 1..Len(u), Is(u, i, "page", l)
      PROVE  Reached(F, T, l, u[i].off, h.gen) /\ (l = "cities" => Bare(T, h.gen))
  <2>1. i + 1 \in 1..Len(t) /\ u[i] = t[i + 1] BY <1>1, TailFacts
  <2>2. Is(t, i + 1, "page", l) BY <2>1, <1>6 DEF Is
  <2> QED BY <1>5, <2>1, <2>2
<1>7. ASSUME ~Has(u, "page", l) PROVE Reached(F, T, l, Len(F[l]), h.gen)
  <2>1. CASE Is(t, 1, "page", l) BY <2>1
  <2>2. CASE ~Is(t, 1, "page", l)
    <3>1. ~Has(t, "page", l) BY <1>1, <1>7, <2>2, HasTail
    <3> QED BY <3>1, <1>5
  <2> QED BY <2>1, <2>2
<1> QED BY <1>5, <1>6, <1>7

LEMMA NextLayers ==
  ASSUME NEW F, NEW T, NEW h \in Handler, BoundaryTodo(h.todo), h.todo # <<>>,
         h.todo[1].op = "page", NEW n \in Nat, NEW l \in Boundaries, LayerOK(F, T, h, l),
         h.todo[1].layer = l => Reached(F, T, l, n, h.gen)
  PROVE  LayerOK(F, T, With(h, <<Step("page", h.todo[1].layer, n)>> \o Tail(h.todo)), l)
<1> DEFINE t == h.todo
           u == <<Step("page", t[1].layer, n)>> \o Tail(t)
           k == With(h, u)
<1>1. /\ BoundaryTodo(u) /\ ~Bumps(u)
      /\ \A o, m : Has(u, o, m) <=> Has(t, o, m)
      /\ \A i \in 1..Len(u) : Is(u, i, "page", t[1].layer) => i = 1 /\ u[i].off = n
      /\ \A m : \A i \in 1..Len(u) : m # t[1].layer /\ Is(u, i, "page", m) =>
             i \in 1..Len(t) /\ Is(t, i, "page", m) /\ u[i] = t[i]
  BY NextTodo
<1> HIDE DEF u
<1>2. u \in Seq(Steps) /\ t \in Seq(Steps) BY <1>1 DEF BoundaryTodo
<1>3. k.gen = h.gen /\ k.todo = u BY <1>2, WithFacts
<1>4. ~Bumps(t) BY DEF Bumps
<1> HIDE DEF k
<1> SUFFICES ASSUME Has(u, "stale", l)
             PROVE  /\ Owned(F, T, l, h.gen)
                    /\ \A i \in 1..Len(u) : Is(u, i, "page", l) =>
                          /\ Reached(F, T, l, u[i].off, h.gen)
                          /\ l = "cities" => Bare(T, h.gen)
                    /\ ~Has(u, "page", l) => Reached(F, T, l, Len(F[l]), h.gen)
  <2>1. LayerOK(F, T, k, l) BY <1>3 DEF LayerOK
  <2> QED BY <2>1 DEF k, u
<1>5. /\ Owned(F, T, l, h.gen)
      /\ \A i \in 1..Len(t) : Is(t, i, "page", l) =>
            /\ Reached(F, T, l, t[i].off, h.gen)
            /\ l = "cities" => Bare(T, h.gen)
      /\ ~Has(t, "page", l) => Reached(F, T, l, Len(F[l]), h.gen)
  BY <1>1, <1>4 DEF LayerOK
<1>6. ASSUME NEW i \in 1..Len(u), Is(u, i, "page", l)
      PROVE  Reached(F, T, l, u[i].off, h.gen) /\ (l = "cities" => Bare(T, h.gen))
  <2>1. CASE l = t[1].layer
    <3>1. u[i].off = n BY <1>1, <1>6, <2>1
    <3>2. 1 \in 1..Len(t) /\ Is(t, 1, "page", l) BY <1>2, <2>1, TailFacts DEF Is
    <3>3. l = "cities" => Bare(T, h.gen) BY <3>2, <1>5
    <3> QED BY <2>1, <3>1, <3>3
  <2>2. CASE l # t[1].layer
    <3>1. i \in 1..Len(t) /\ Is(t, i, "page", l) /\ u[i] = t[i] BY <1>1, <1>6, <2>2
    <3> QED BY <1>5, <3>1
  <2> QED BY <2>1, <2>2
<1>7. ~Has(u, "page", l) => Reached(F, T, l, Len(F[l]), h.gen) BY <1>1, <1>5
<1> QED BY <1>5, <1>6, <1>7

\* A boundary handler is done with a statement other than its bump.
LEMMA BoundaryTail ==
  ASSUME NEW F, NEW T, NEW G, NEW J, NEW R, Good(F, T, G, J, R),
         NEW w \in Workers, NEW a \in J, R[w].job = a.id, a.kind \in BoundaryKinds,
         BoundaryTodo(R[w].todo), R[w].todo # <<>>, R[w].todo[1].op # "bump",
         a.clean /\ R[w].todo[1].op = "page" =>
            Reached(F, T, R[w].todo[1].layer, Len(F[R[w].todo[1].layer]), R[w].gen)
  PROVE  Good(F, T, G, J, [R EXCEPT ![w] = With(R[w], Tail(R[w].todo))])
<1> DEFINE t == R[w].todo
           u == Tail(t)
           h == With(R[w], u)
<1>1. R[w] \in Handler BY DEF Good, RunsOK
<1>2. BoundaryTodo(u) /\ ~Bumps(u) /\ u \in Seq(Steps) /\ t \in Seq(Steps)
  BY TailTodo DEF BoundaryTodo
<1>3. h \in Handler /\ h.job = a.id /\ h.gen = R[w].gen /\ h.todo = u BY <1>1, <1>2, WithFacts
<1>4. ~AtKick(u)
  <2>1. \A i \in 1..Len(u) : u[i].op # "kick" BY <1>2 DEF BoundaryTodo, BoundaryOps
  <2>2. 1 \in 1..1 OBVIOUS
  <2> HIDE DEF u
  <2> QED BY <2>1, <2>2 DEF AtKick
<1>5. TodoOK(G, a, R[w]) BY DEF Good, HandlersOK
<1>6. ~Bumps(t) BY DEF Bumps
<1>7. \A o, l : Has(u, o, l) => Has(t, o, l) BY <1>2, HasTail
<1> HIDE DEF h
<1>8. TodoOK(G, a, h)
  <2>1. (\E l \in Boundaries : Has(u, "page", l) \/ Has(u, "stale", l)) => R[w].gen \in 1..G["fdot"]
    BY <1>5, <1>6, <1>7 DEF TodoOK
  <2>2. a.kind # "parcels" /\ a.kind # "page" BY DEF BoundaryKinds
  <2> HIDE DEF u
  <2> QED BY <1>2, <1>3, <1>4, <2>1, <2>2 DEF TodoOK
<1>9. ASSUME a.clean, NEW l \in Boundaries PROVE LayerOK(F, T, h, l)
  <2>1. LayerOK(F, T, R[w], l) BY <1>9 DEF Good, BoundariesOK
  <2>2. Is(t, 1, "page", l) => Reached(F, T, l, Len(F[l]), R[w].gen) BY <1>9 DEF Is
  <2> QED BY <1>1, <2>1, <2>2, TailLayers DEF h
<1>10. a.kind # "page" BY DEF BoundaryKinds
<1>11. ~AtKick(h.todo) BY <1>3, <1>4
<1>12. Good(F, T, G, J, [R EXCEPT ![w] = h])
  BY <1>3, <1>8, <1>9, <1>10, <1>11, HandlerStep
<1> QED BY <1>12 DEF h

LEMMA BoundaryNext ==
  ASSUME NEW F, NEW T, NEW G, NEW J, NEW R, Good(F, T, G, J, R),
         NEW w \in Workers, NEW a \in J, R[w].job = a.id, a.kind \in BoundaryKinds,
         BoundaryTodo(R[w].todo), R[w].todo # <<>>, R[w].todo[1].op = "page", NEW n \in Nat,
         a.clean => Reached(F, T, R[w].todo[1].layer, n, R[w].gen)
  PROVE  Good(F, T, G, J, [R EXCEPT ![w] = With(R[w],
                <<Step("page", R[w].todo[1].layer, n)>> \o Tail(R[w].todo))])
<1> DEFINE t == R[w].todo
           u == <<Step("page", t[1].layer, n)>> \o Tail(t)
           h == With(R[w], u)
<1>1. R[w] \in Handler BY DEF Good, RunsOK
<1>2. BoundaryTodo(u) /\ ~Bumps(u) /\ \A o, m : Has(u, o, m) <=> Has(t, o, m)
  BY NextTodo
<1> HIDE DEF u
<1>3. h \in Handler /\ h.job = a.id /\ h.gen = R[w].gen /\ h.todo = u
  BY <1>1, <1>2, WithFacts DEF BoundaryTodo
<1>4. ~AtKick(u)
  <2>1. \A i \in 1..Len(u) : u[i].op # "kick" BY <1>2 DEF BoundaryTodo, BoundaryOps
  <2>2. 1 \in 1..1 OBVIOUS
  <2> QED BY <2>1, <2>2 DEF AtKick
<1>5. TodoOK(G, a, R[w]) BY DEF Good, HandlersOK
<1>6. ~Bumps(t) BY DEF Bumps
<1> HIDE DEF h
<1>7. TodoOK(G, a, h)
  <2>1. (\E l \in Boundaries : Has(u, "page", l) \/ Has(u, "stale", l)) => R[w].gen \in 1..G["fdot"]
    BY <1>2, <1>5, <1>6 DEF TodoOK
  <2>2. a.kind # "parcels" /\ a.kind # "page" BY DEF BoundaryKinds
  <2> QED BY <1>2, <1>3, <1>4, <2>1, <2>2 DEF TodoOK
<1>8. ASSUME a.clean, NEW l \in Boundaries PROVE LayerOK(F, T, h, l)
  <2>1. LayerOK(F, T, R[w], l) BY <1>8 DEF Good, BoundariesOK
  <2>2. t[1].layer = l => Reached(F, T, l, n, R[w].gen) BY <1>8
  <2> QED BY <1>1, <2>1, <2>2, NextLayers DEF h, u
<1>9. a.kind # "page" BY DEF BoundaryKinds
<1>10. ~AtKick(h.todo) BY <1>3, <1>4
<1>11. Good(F, T, G, J, [R EXCEPT ![w] = h])
  BY <1>3, <1>7, <1>8, <1>9, <1>10, HandlerStep
<1> QED BY <1>11 DEF h, u

\* A kickoff goes on, up to the statement that enqueues its first page.
LEMMA KickoffStep ==
  ASSUME NEW F, NEW T, NEW G, NEW J, NEW R, Good(F, T, G, J, R),
         NEW w \in Workers, NEW a \in J, R[w].job = a.id, a.kind \in BoundaryKinds \cup {"parcels"},
         NEW t, KickTodo(t), ~AtKick(t)
  PROVE  Good(F, T, G, J, [R EXCEPT ![w] = With(R[w], t)])
<1> DEFINE h == With(R[w], t)
<1>1. R[w] \in Handler BY DEF Good, RunsOK
<1>2. t \in Seq(Steps) /\ \A i \in 1..Len(t) : t[i].layer = "parcels" BY KickTodoFacts
<1>3. h \in Handler /\ h.job = a.id /\ h.todo = t BY <1>1, <1>2, WithFacts
<1>4. a.kind # "page" BY DEF BoundaryKinds
<1>5. \A o : \A l \in Boundaries : ~Has(t, o, l) BY <1>2 DEF Has, Is
<1> HIDE DEF h
<1>6. TodoOK(G, a, h) BY <1>3, <1>4, <1>5 DEF TodoOK
<1>7. \A l \in Boundaries : LayerOK(F, T, h, l) BY <1>3, <1>5 DEF LayerOK
<1>8. Good(F, T, G, J, [R EXCEPT ![w] = h])
  BY <1>3, <1>4, <1>6, <1>7, HandlerStep
<1> QED BY <1>8 DEF h

\* A page handler goes on: its chain grows, ends, or it is done.
LEMMA PageStep ==
  ASSUME NEW F, NEW T, NEW G, NEW J, NEW R, Good(F, T, G, J, R),
         NEW w \in Workers, NEW a \in J, R[w].job = a.id, a.kind = "page",
         NEW t \in Seq(Steps), PageTodo(t, a.off),
         a.clean /\ t # <<>> =>
            /\ t[1].op = "next" => Reached(F, T, "parcels", a.off + PageSize, a.gen)
            /\ t[1].op = "stale" => Reached(F, T, "parcels", Len(F["parcels"]), a.gen)
  PROVE  Good(F, T, G, J, [R EXCEPT ![w] = With(R[w], t)])
<1> DEFINE h == With(R[w], t)
<1>1. R[w] \in Handler BY DEF Good, RunsOK
<1>2. h \in Handler /\ h.job = a.id /\ h.todo = t /\ h.gen = R[w].gen BY <1>1, WithFacts
<1>3. a.kind \notin BoundaryKinds BY DEF BoundaryKinds
<1>4. R[w].gen = a.gen BY DEF Good, HandlersOK, TodoOK
<1>5. ~AtKick(t)
  <2>1. CASE t = <<>> BY <2>1 DEF AtKick
  <2>2. ASSUME NEW o \in {"page", "next", "stale"}, NEW n, t = <<Step(o, "parcels", n)>>
        PROVE  ~AtKick(t)
    <3>1. t[1] = Step(o, "parcels", n) BY <2>2
    <3>2. t[1].op = o BY <3>1, StepFacts
    <3> QED BY <3>2 DEF AtKick
  <2> QED BY <2>1, <2>2 DEF PageTodo
<1> HIDE DEF h
<1>6. TodoOK(G, a, h) BY <1>2, <1>3, <1>4, <1>5 DEF TodoOK
<1>7. ~AtKick(h.todo) BY <1>2, <1>5
<1>8. Good(F, T, G, J, [R EXCEPT ![w] = h])
  BY <1>2, <1>3, <1>6, <1>7, HandlerStep
<1> QED BY <1>8 DEF h

-----------------------------------------------------------------------------
(* What the statements do to a table.                                      *)

LEMMA ToSetFacts ==
  ASSUME NEW S, NEW s \in Seq(S)
  PROVE  /\ \A i \in 1..Len(s) : s[i] \in ToSet(s)
         /\ \A x \in ToSet(s) : x \in S /\ \E i \in 1..Len(s) : x = s[i]
<1>1. DOMAIN s = 1..Len(s) /\ \A i \in 1..Len(s) : s[i] \in S OBVIOUS
<1> QED BY <1>1 DEF ToSet

\* The upstream answers with the features after the offset, a page of them or
\* what is left, and only a short last page says that there is nothing more.
LEMMA PageFacts ==
  ASSUME FeedOK(feed), NEW l \in Layers, NEW off \in Nat
  PROVE  /\ ToSet(Page(l, off)) \subseteq ToSet(feed[l])
         /\ \A i \in 1..Len(feed[l]) : off < i /\ i <= off + PageSize =>
               feed[l][i] \in ToSet(Page(l, off))
         /\ ~More(l, off) => Len(feed[l]) <= off + PageSize
<1> DEFINE f == feed[l]
           m == Min({off + PageSize, off + ServerCap, Len(f)})
           p == SubSeq(f, off + 1, m)
<1>1. f \in Seq(Names) BY DEF FeedOK
<1>2. Len(f) \in Nat BY <1>1
<1>3. /\ m \in {off + PageSize, off + ServerCap, Len(f)}
      /\ m <= off + PageSize /\ m <= Len(f)
  <2> DEFINE S == {off + PageSize, off + ServerCap, Len(f)}
  <2>1. \E x \in S : \A y \in S : x <= y
    <3>1. CASE Len(f) <= off + PageSize
      <4>1. \A y \in S : Len(f) <= y BY <3>1, <1>2, ConstantFacts
      <4> QED BY <4>1
    <3>2. CASE ~(Len(f) <= off + PageSize)
      <4>1. \A y \in S : off + PageSize <= y BY <3>2, <1>2, ConstantFacts
      <4> QED BY <4>1
    <3> QED BY <3>1, <3>2
  <2>2. m \in S /\ \A y \in S : m <= y BY <2>1 DEF Min
  <2> HIDE DEF m
  <2> QED BY <2>2
<1> HIDE DEF m
<1>4. m \in Nat /\ (m = off + PageSize \/ m = Len(f) \/ m = off + ServerCap)
  BY <1>2, <1>3, ConstantFacts
<1>5. off + PageSize <= m \/ Len(f) <= m BY <1>2, <1>3, <1>4, ConstantFacts
<1>6. Page(l, off) = p BY DEF Page, m
<1>7. /\ p \in Seq(Names) /\ Len(p) = IF off + 1 <= m THEN m - off ELSE 0
      /\ \A i \in 1..Len(p) : p[i] = f[off + i]
  <2>1. CASE off + 1 <= m
    <3>1. p \in Seq(Names) /\ Len(p) = m - off /\ \A i \in 1..Len(p) : p[i] = f[(off + 1) + i - 1]
      BY <1>1, <1>2, <1>3, <1>4, <2>1
    <3>2. \A i \in 1..Len(p) : (off + 1) + i - 1 = off + i BY <3>1
    <3> QED BY <2>1, <3>1, <3>2
  <2>2. CASE ~(off + 1 <= m)
    <3>1. p = <<>> BY <1>1, <1>4, <2>2
    <3>2. <<>> \in Seq(Names) /\ Len(<<>>) = 0 OBVIOUS
    <3> HIDE DEF p
    <3>3. p \in Seq(Names) /\ Len(p) = 0 BY <3>1, <3>2
    <3> QED BY <2>2, <3>3
  <2> QED BY <2>1, <2>2
<1> HIDE DEF p
<1>8. ToSet(p) \subseteq ToSet(f)
  <2> SUFFICES ASSUME NEW x \in ToSet(p) PROVE x \in ToSet(f) OBVIOUS
  <2>1. PICK i \in 1..Len(p) : x = p[i] BY <1>7, ToSetFacts
  <2>2. x = f[off + i] BY <2>1, <1>7
  <2>3. off + i \in 1..Len(f) BY <1>2, <1>3, <1>4, <1>7
  <2> QED BY <2>2, <2>3, <1>1, ToSetFacts
<1>9. ASSUME NEW i \in 1..Len(f), off < i, i <= off + PageSize PROVE f[i] \in ToSet(p)
  <2>1. i <= m BY <1>2, <1>4, <1>5, <1>9, ConstantFacts
  <2>2. i - off \in 1..Len(p) /\ off + (i - off) = i BY <2>1, <1>2, <1>4, <1>7, <1>9
  <2>3. p[i - off] = f[i] BY <2>2, <1>7
  <2> QED BY <2>2, <2>3, <1>7, ToSetFacts
<1>10. ASSUME ~More(l, off) PROVE Len(f) <= off + PageSize
  <2>1. Len(p) < PageSize /\ Len(f) <= off + Len(p)
    BY <1>10, <1>6, <1>7, <1>2, <1>4, ConstantFacts DEF More
  <2> QED BY <2>1, <1>2, <1>4, <1>7, ConstantFacts
<1> QED BY <1>6, <1>8, <1>9, <1>10

LEMMA UpsertRows ==
  ASSUME NEW l \in Layers, NEW names, NEW g
  PROVE  /\ \A r \in Upsert(l, names, g) :
               \/ r \in rows[l] /\ (l # "cities" => r.name \notin names)
               \/ r.name \in names /\ r = [name |-> r.name, county |-> Null, gen |-> g]
         /\ \A n \in names : [name |-> n, county |-> Null, gen |-> g] \in Upsert(l, names, g)
         /\ \A r \in rows[l] : r.name \notin names => r \in Upsert(l, names, g)
         /\ l = "cities" => \A r \in rows[l] : r \in Upsert(l, names, g)
  BY DEF Upsert, UpsertCities, UpsertByName, Stamped

LEMMA UpsertTables ==
  ASSUME TablesOK(rows, gen), NEW l \in Layers, NEW names \in SUBSET Names,
         NEW g \in 1..gen[SourceOf(l)]
  PROVE  TablesOK([rows EXCEPT ![l] = Upsert(l, names, g)], gen)
<1> DEFINE X == Upsert(l, names, g)
           U == [rows EXCEPT ![l] = X]
           fresh(n) == [name |-> n, county |-> Null, gen |-> g]
<1>1. gen \in [Sources -> 0..MaxGen] /\ rows \in [Layers -> SUBSET Row] BY DEF TablesOK
<1>2. g \in 1..MaxGen /\ g \in Nat
  <2>1. gen[SourceOf(l)] \in 0..MaxGen BY <1>1
  <2> QED BY <2>1, ConstantFacts
<1>3. \A n \in names : fresh(n) \in Row /\ fresh(n).name = n /\ fresh(n).gen = g BY <1>2 DEF Row
<1>4. \A r \in X : \/ r \in rows[l] /\ (l # "cities" => r.name \notin names)
                   \/ r.name \in names /\ r = fresh(r.name)
  BY UpsertRows
<1> HIDE DEF X, fresh
<1>5. X \subseteq Row BY <1>1, <1>3, <1>4
<1>6. \A r \in X : r.gen <= gen[SourceOf(l)]
  <2>1. \A r \in rows[l] : r.gen <= gen[SourceOf(l)] BY DEF TablesOK
  <2>2. g <= gen[SourceOf(l)] BY <1>1, <1>2, ConstantFacts
  <2> QED BY <1>3, <1>4, <2>1, <2>2
<1>7. l # "cities" => \A r, s \in X : r.name = s.name => r = s
  BY <1>3, <1>4 DEF TablesOK
<1>8. U \in [Layers -> SUBSET Row] /\ U[l] = X /\ \A m \in Layers : m # l => U[m] = rows[m]
  BY <1>1, <1>5
<1> HIDE DEF U
<1>9. \A m \in Layers : \A r \in U[m] : r.gen <= gen[SourceOf(m)] BY <1>6, <1>8 DEF TablesOK
<1>10. \A m \in Layers \ {"cities"} : \A r, s \in U[m] : r.name = s.name => r = s
  BY <1>7, <1>8 DEF TablesOK
<1>11. TablesOK(U, gen) BY <1>1, <1>8, <1>9, <1>10 DEF TablesOK
<1> QED BY <1>11 DEF U, X

Holds(U, l, names, g) == \A n \in names : \E r \in U[l] : r.name = n /\ r.gen = g

LEMMA UpsertOwned ==
  ASSUME TablesOK(rows, gen), NEW l \in Layers, NEW names \in SUBSET Kept(l, ToSet(feed[l])),
         NEW g \in Nat, Owned(feed, rows, l, g), l = "cities" => Bare(rows, g),
         NEW U, U[l] = Upsert(l, names, g)
  PROVE  /\ Owned(feed, U, l, g)
         /\ l = "cities" => Bare(U, g)
         /\ Keeps(rows, U, l, g)
         /\ Holds(U, l, names, g)
<1> DEFINE X == Upsert(l, names, g)
           fresh(n) == [name |-> n, county |-> Null, gen |-> g]
<1>1. rows \in [Layers -> SUBSET Row] BY DEF TablesOK
<1>2. U[l] = X OBVIOUS
<1>3. \A n \in names : /\ fresh(n).name = n /\ fresh(n).gen = g /\ fresh(n).county = Null
                       /\ fresh(n) \in X
  BY UpsertRows
<1>4. \A r \in X : \/ r \in rows[l] /\ (l # "cities" => r.name \notin names)
                   \/ r.name \in names /\ r = fresh(r.name)
  BY UpsertRows
<1>5. \A r \in rows[l] : r.name \notin names => r \in X BY UpsertRows
<1>6. \A r \in rows[l] : r.gen \in Nat /\ r = [name |-> r.name, county |-> r.county, gen |-> r.gen]
  BY <1>1, ConstantFacts DEF Row
<1>7. ASSUME l = "cities", NEW r \in rows[l], r.gen = g PROVE r = fresh(r.name)
  BY <1>6, <1>7 DEF Bare
<1> HIDE DEF X, fresh
<1>8. \A r \in X : r.gen <= g BY <1>3, <1>4 DEF Owned
<1>9. \A r \in X : r.gen = g => r.name \in Kept(l, ToSet(feed[l])) BY <1>4 DEF Owned
<1>10. ASSUME NEW r \in X, NEW s \in X, r.gen = g, s.gen = g, r.name = s.name PROVE r = s
  <2>1. CASE l = "cities"
    <3>1. r = fresh(r.name) /\ s = fresh(s.name) BY <1>4, <1>7, <1>10, <2>1
    <3> QED BY <3>1, <1>10
  <2>2. CASE l # "cities"
    <3>1. CASE r.name \in names BY <3>1, <1>4, <1>10, <2>2
    <3>2. CASE r.name \notin names
      <4>1. r \in rows[l] /\ s \in rows[l] BY <3>2, <1>4, <1>10
      <4> QED BY <4>1, <1>10 DEF Owned
    <3> QED BY <3>1, <3>2
  <2> QED BY <2>1, <2>2
<1>11. Owned(feed, U, l, g) BY <1>2, <1>8, <1>9, <1>10 DEF Owned
<1>12. l = "cities" => Bare(U, g) BY <1>2, <1>3, <1>4 DEF Bare
<1>13. Keeps(rows, U, l, g) BY <1>2, <1>3, <1>5 DEF Keeps
<1>14. Holds(U, l, names, g) BY <1>2, <1>3 DEF Holds
<1> QED BY <1>11, <1>12, <1>13, <1>14

-----------------------------------------------------------------------------
(* The steps of a handler keep the invariant.                              *)

LEMMA Working ==
  ASSUME Good(feed, rows, gen, jobs, run), NEW w \in Workers, Busy(w)
  PROVE  \E a \in jobs : /\ run[w].job = a.id /\ Job(run[w].job) = a /\ a \in JobRow
                         /\ TodoOK(gen, a, run[w]) /\ run[w] \in Handler
<1>1. PICK a \in jobs : a.id = run[w].job BY DEF Busy, Good, RunsOK
<1>2. \A j \in jobs : j.id = run[w].job => j = a BY <1>1 DEF Good, QueueOK
<1>3. Job(run[w].job) = a BY <1>1, <1>2 DEF Job
<1>4. a \in JobRow /\ run[w] \in Handler BY DEF Good, QueueOK, RunsOK
<1>5. TodoOK(gen, a, run[w]) BY <1>1 DEF Good, HandlersOK
<1> QED BY <1>1, <1>3, <1>4, <1>5

LEMMA PageTodoFacts ==
  ASSUME NEW off, NEW t, PageTodo(t, off), t # <<>>
  PROVE  /\ Len(t) = 1 /\ Tail(t) = <<>> /\ t[1].layer = "parcels"
         /\ \/ t[1].op = "page" /\ t[1].off = off
            \/ t[1].op = "next" /\ t[1].off = off + PageSize
            \/ t[1].op = "stale"
<1>1. ASSUME NEW o, NEW n, t = <<Step(o, "parcels", n)>>
      PROVE  Len(t) = 1 /\ Tail(t) = <<>> /\ t[1].layer = "parcels" /\ t[1].op = o /\ t[1].off = n
  <2>1. Len(t) = 1 /\ Tail(t) = <<>> /\ t[1] = Step(o, "parcels", n) BY <1>1
  <2> QED BY <2>1, StepFacts
<1>2. CASE t = <<Step("page", "parcels", off)>> BY <1>1, <1>2
<1>3. CASE t = <<Step("next", "parcels", off + PageSize)>> BY <1>1, <1>3
<1>4. CASE t = <<Step("stale", "parcels", 0)>> BY <1>1, <1>4
<1> QED BY <1>2, <1>3, <1>4 DEF PageTodo

\* Which job a statement belongs to.
LEMMA WhoseStep ==
  ASSUME NEW G, NEW a \in JobRow, NEW h \in Handler, TodoOK(G, a, h), h.todo # <<>>
  PROVE  \/ /\ a.kind \in BoundaryKinds /\ BoundaryTodo(h.todo)
            /\ h.todo[1].op \in BoundaryOps /\ h.todo[1].layer \in Layers
            /\ h.todo[1].layer = "parcels" <=> h.todo[1].op = "initial"
         \/ /\ a.kind \in BoundaryKinds \cup {"parcels"} /\ KickTodo(h.todo)
            /\ h.todo[1].op \in {"check", "bump", "kick"} /\ h.todo[1].layer = "parcels"
         \/ /\ a.kind = "page" /\ PageTodo(h.todo, a.off)
            /\ h.todo[1].op \in {"page", "next", "stale"} /\ h.todo[1].layer = "parcels"
<1>1. a.kind \in Kinds BY DEF JobRow
<1>2. h.todo \in Seq(Steps) BY DEF Handler
<1>3. 1 \in 1..Len(h.todo) BY <1>2, TailFacts
<1>4. h.todo[1] \in Steps BY <1>2, <1>3
<1>5. h.todo[1].layer \in Layers BY <1>4 DEF Steps
<1>6. CASE a.kind \in BoundaryKinds /\ BoundaryTodo(h.todo) BY <1>3, <1>5, <1>6 DEF BoundaryTodo
<1>7. CASE a.kind \in BoundaryKinds \cup {"parcels"} /\ KickTodo(h.todo)
  BY <1>3, <1>7, KickTodoFacts
<1>8. CASE a.kind = "page" BY <1>8, PageTodoFacts DEF TodoOK
<1> QED BY <1>1, <1>6, <1>7, <1>8 DEF TodoOK, Kinds

LEMMA GoFacts ==
  ASSUME Good(feed, rows, gen, jobs, run), NEW w \in Workers, NEW t
  PROVE  [run EXCEPT ![w].todo = t] = [run EXCEPT ![w] = With(run[w], t)]
<1>1. run \in [Workers -> Handler] BY DEF Good, RunsOK
<1>2. run[w] \in Handler BY <1>1
<1>3. [run[w] EXCEPT !.todo = t] = With(run[w], t) BY <1>2 DEF Handler, With
<1> QED BY <1>1, <1>3

\* What a clean refresh knows before it reads a page.
LEMMA PageOwned ==
  ASSUME Good(feed, rows, gen, jobs, run), NEW w \in Workers, NEW a \in jobs, run[w].job = a.id,
         run[w].todo # <<>>, run[w].todo[1].op = "page"
  PROVE  LET l == run[w].todo[1].layer
             off == run[w].todo[1].off
             g == run[w].gen
         IN  /\ l \in Layers /\ off \in Nat /\ g \in 1..gen[SourceOf(l)]
             /\ \/ l \in Boundaries /\ a.kind \in BoundaryKinds /\ BoundaryTodo(run[w].todo)
                \/ l = "parcels" /\ a.kind = "page" /\ PageTodo(run[w].todo, a.off)
                     /\ g = a.gen /\ off = a.off
             /\ a.clean => /\ Owned(feed, rows, l, g) /\ Reached(feed, rows, l, off, g)
                           /\ l = "cities" => Bare(rows, g)
<1> DEFINE h == run[w]
           t == h.todo
           l == t[1].layer
           off == t[1].off
           g == h.gen
<1>1. a \in JobRow /\ h \in Handler /\ TodoOK(gen, a, h)
  BY DEF Good, QueueOK, RunsOK, HandlersOK
<1>2. t \in Seq(Steps) BY <1>1 DEF Handler
<1>3. 1 \in 1..Len(t) BY <1>2, TailFacts
<1>4. t[1] \in Steps BY <1>2, <1>3
<1>5. l \in Layers /\ off \in Nat BY <1>4 DEF Steps
<1>6. CASE a.kind \in BoundaryKinds /\ BoundaryTodo(t) /\ l # "parcels"
  <2>1. l \in Boundaries BY <1>5, <1>6
  <2>2. Is(t, 1, "page", l) /\ Has(t, "page", l) BY <1>3 DEF Is, Has
  <2>3. ~Bumps(t) /\ Has(t, "stale", l) BY <1>3, <1>6 DEF Bumps, BoundaryTodo
  <2>4. g \in 1..gen["fdot"] BY <1>1, <1>6, <2>1, <2>2, <2>3 DEF TodoOK
  <2>5. ASSUME a.clean PROVE Owned(feed, rows, l, g) /\ Reached(feed, rows, l, off, g)
                               /\ (l = "cities" => Bare(rows, g))
    <3>1. LayerOK(feed, rows, h, l) BY <1>6, <2>1, <2>5 DEF Good, BoundariesOK
    <3> QED BY <3>1, <2>2, <2>3, <1>3 DEF LayerOK
  <2> QED BY <1>5, <1>6, <2>1, <2>4, <2>5
<1>7. CASE a.kind = "page" /\ PageTodo(t, a.off)
  <2>1. l = "parcels" /\ off = a.off BY <1>7, PageTodoFacts
  <2>2. g = a.gen BY <1>1, <1>7 DEF TodoOK
  <2>3. a.gen \in 1..gen["parcels"] BY <1>7 DEF Good, HandlersOK
  <2>4. a.clean => Owned(feed, rows, l, g) /\ Reached(feed, rows, l, off, g)
    BY <1>7, <2>1, <2>2 DEF Good, ChainOK
  <2> QED BY <1>5, <1>7, <2>1, <2>2, <2>3, <2>4
<1> QED BY <1>1, <1>6, <1>7, WhoseStep

\* The rows of a page, or the chunks of it before a failure.
LEMMA UpsertStep ==
  ASSUME Good(feed, rows, gen, jobs, run), NEW w \in Workers, NEW a \in jobs, run[w].job = a.id,
         run[w].todo # <<>>, run[w].todo[1].op = "page", NEW l, l = run[w].todo[1].layer,
         NEW names \in SUBSET Kept(l, ToSet(feed[l])), NEW U,
         U = [rows EXCEPT ![l] = Upsert(l, names, run[w].gen)]
  PROVE  Good(feed, U, gen, jobs, run)
<1> DEFINE h == run[w]
           t == h.todo
           off == t[1].off
           g == h.gen
           X == Upsert(l, names, g)
<1>1. /\ l \in Layers /\ off \in Nat /\ g \in 1..gen[SourceOf(l)]
      /\ \/ l \in Boundaries /\ a.kind \in BoundaryKinds /\ BoundaryTodo(run[w].todo)
         \/ l = "parcels" /\ a.kind = "page" /\ g = a.gen
      /\ a.clean => /\ Owned(feed, rows, l, g) /\ Reached(feed, rows, l, off, g)
                    /\ l = "cities" => Bare(rows, g)
  BY PageOwned
<1>2. TablesOK(rows, gen) BY DEF Good
<1>3. names \in SUBSET Names
  <2>1. feed[l] \in Seq(Names) BY <1>1 DEF Good, FeedOK
  <2> QED BY <2>1, ToSetFacts DEF Kept
<1>4. TablesOK(U, gen) BY <1>1, <1>2, <1>3, UpsertTables
<1>5. g \in Nat
  <2>1. gen[SourceOf(l)] \in 0..MaxGen BY <1>1, <1>2 DEF TablesOK
  <2> QED BY <2>1, <1>1, ConstantFacts
<1>6. U[l] = X /\ \A m \in Layers : m # l => U[m] = rows[m] BY <1>1, <1>2 DEF TablesOK
<1>7. ASSUME a.clean
      PROVE  /\ Owned(feed, U, l, g)
             /\ l = "cities" => Bare(U, g)
             /\ Keeps(rows, U, l, g)
  <2>1. Owned(feed, rows, l, g) /\ (l = "cities" => Bare(rows, g)) BY <1>1, <1>7
  <2>2. U[l] = Upsert(l, names, g) /\ l \in Layers BY <1>1, <1>6
  <2> HIDE DEF g, Layers
  <2>3. names \in SUBSET Kept(l, ToSet(feed[l])) OBVIOUS
  <2>4. Owned(feed, U, l, g) BY ONLY <1>2, <1>5, <2>1, <2>2, <2>3, UpsertOwned
  <2>5. l = "cities" => Bare(U, g) BY ONLY <1>2, <1>5, <2>1, <2>2, <2>3, UpsertOwned
  <2>6. Keeps(rows, U, l, g)
    BY ONLY <1>2, <1>5, <2>1, <2>2, <2>3, UpsertOwned
  <2> QED BY <2>4, <2>5, <2>6
<1>8. ASSUME l # "parcels", a.clean PROVE LayerOK(feed, U, h, l)
  <2>1. BoundaryTodo(t) /\ t \in Seq(Steps) BY <1>1, <1>8 DEF BoundaryTodo
  <2>2. 1 \in 1..Len(t) BY <2>1, TailFacts
  <2>3. Has(t, "page", l) BY <2>2 DEF Has, Is
  <2>4. a.kind \in BoundaryKinds /\ l \in Boundaries BY <1>1, <1>8
  <2>5. LayerOK(feed, rows, h, l) BY <2>4, <1>8 DEF Good, BoundariesOK
  <2>6. Keeps(rows, U, l, g)
    BY <1>7, <1>8
  <2>7. ASSUME NEW n, Reached(feed, rows, l, n, g) PROVE Reached(feed, U, l, n, g)
    <3> HIDE DEF g
    <3> QED BY <2>6, <2>7 DEF Reached, Keeps
  <2> QED BY <2>3, <2>5, <2>7, <1>7, <1>8 DEF LayerOK
<1>9. l = "parcels" => \A s \in U[l] : s.gen = a.gen \/ \E r \in rows[l] : r.gen = s.gen
  BY <1>1, <1>6, UpsertRows
<1>10. l # "parcels" => a.kind \in BoundaryKinds /\ (a.clean => LayerOK(feed, U, run[w], l))
  BY <1>1, <1>8
<1>11. l = "parcels" => a.kind = "page" /\ g = a.gen BY <1>1
<1>12. l = "parcels" /\ a.clean =>
          /\ Owned(feed, U, l, a.gen)
          /\ Keeps(rows, U, l, a.gen)
  BY <1>7, <1>11
<1>13. l \in Layers /\ \A m \in Layers : m # l => U[m] = rows[m] BY <1>1, <1>6
<1> HIDE DEF Layers
<1>14. w \in Workers /\ a \in jobs /\ run[w].job = a.id /\ Good(feed, rows, gen, jobs, run)
  OBVIOUS
<1> QED BY ONLY <1>4, <1>9, <1>10, <1>11, <1>12, <1>13, <1>14, TableStep

LEMMA DoingFacts ==
  ASSUME Good(feed, rows, gen, jobs, run), NEW w \in Workers, NEW o, Doing(w, o)
  PROVE  /\ Busy(w) /\ run[w].todo # <<>> /\ run[w].todo \in Seq(Steps)
         /\ Now(w) = run[w].todo[1] /\ run[w].todo[1].op = o /\ Then(w) = Tail(run[w].todo)
<1>1. run[w] \in Handler BY DEF Good, RunsOK
<1>2. run[w].todo \in Seq(Steps) BY <1>1 DEF Handler
<1>3. run[w].todo # <<>> /\ Busy(w) BY DEF Doing
<1>4. Head(run[w].todo) = run[w].todo[1] BY <1>2, <1>3, TailFacts
<1> QED BY <1>2, <1>3, <1>4 DEF Doing, Now, Then

LEMMA EmptyConcat ==
  ASSUME NEW S, NEW s \in Seq(S)
  PROVE  <<>> \o s = s /\ s \o <<>> = s
  OBVIOUS

\* After a page the feed has been read one page further.
LEMMA PageReached ==
  ASSUME Good(feed, rows, gen, jobs, run), NEW l \in Layers, NEW off \in Nat, NEW g \in Nat,
         Owned(feed, rows, l, g), Reached(feed, rows, l, off, g), l = "cities" => Bare(rows, g),
         NEW names, names = Kept(l, ToSet(Page(l, off))), NEW U, U[l] = Upsert(l, names, g)
  PROVE  /\ Reached(feed, U, l, off + PageSize, g)
         /\ ~More(l, off) => Reached(feed, U, l, Len(feed[l]), g)
<1>1. FeedOK(feed) /\ TablesOK(rows, gen) BY DEF Good
<1>2. /\ ToSet(Page(l, off)) \subseteq ToSet(feed[l])
      /\ \A i \in 1..Len(feed[l]) : off < i /\ i <= off + PageSize =>
            feed[l][i] \in ToSet(Page(l, off))
      /\ ~More(l, off) => Len(feed[l]) <= off + PageSize
  BY <1>1, PageFacts
<1>3. names \in SUBSET Kept(l, ToSet(feed[l])) BY <1>2 DEF Kept
<1>4. Keeps(rows, U, l, g) /\ Holds(U, l, names, g) BY <1>1, <1>3, UpsertOwned
<1>5. \A i \in 1..Len(feed[l]) :
         off < i /\ i <= off + PageSize /\ feed[l][i] \in Kept(l, ToSet(feed[l])) =>
            feed[l][i] \in names
  BY <1>2 DEF Kept
<1>6. Reached(feed, U, l, off + PageSize, g)
  <2> SUFFICES ASSUME NEW i \in 1..Len(feed[l]), i <= off + PageSize,
                      feed[l][i] \in Kept(l, ToSet(feed[l]))
               PROVE  \E r \in U[l] : r.name = feed[l][i] /\ r.gen = g
    BY DEF Reached
  <2>1. CASE i <= off
    <3>1. PICK r \in rows[l] : r.name = feed[l][i] /\ r.gen = g BY <2>1 DEF Reached
    <3> QED BY <3>1, <1>4 DEF Keeps
  <2>2. CASE ~(i <= off)
    <3>1. off < i BY <2>2
    <3> QED BY <3>1, <1>4, <1>5 DEF Holds
  <2> QED BY <2>1, <2>2
<1>7. ASSUME ~More(l, off) PROVE Reached(feed, U, l, Len(feed[l]), g)
  <2>1. Len(feed[l]) <= off + PageSize BY <1>2, <1>7
  <2>2. Len(feed[l]) \in Nat
    <3>1. feed[l] \in Seq(Names) BY <1>1 DEF FeedOK
    <3> QED BY <3>1
  <2>3. \A i \in 1..Len(feed[l]) : i <= off + PageSize BY <2>1, <2>2, ConstantFacts
  <2> QED BY <1>6, <2>3 DEF Reached
<1> QED BY <1>6, <1>7

LEMMA SyncPageGood ==
  ASSUME Good(feed, rows, gen, jobs, run), NEW w \in Workers, SyncPage(w)
  PROVE  Good(feed', rows', gen', jobs', run')
<1> DEFINE t == run[w].todo
           l == t[1].layer
           off == t[1].off
           g == run[w].gen
           n == off + PageSize
           names == Kept(l, ToSet(Page(l, off)))
<1>1. Doing(w, "page") BY DEF SyncPage
<1>2. /\ Busy(w) /\ t # <<>> /\ t \in Seq(Steps) /\ Now(w) = t[1] /\ t[1].op = "page"
      /\ Then(w) = Tail(t)
  BY <1>1, DoingFacts
<1>3. PICK a \in jobs : run[w].job = a.id BY <1>2, Working
<1>4. /\ l \in Layers /\ off \in Nat /\ g \in 1..gen[SourceOf(l)]
      /\ \/ l \in Boundaries /\ a.kind \in BoundaryKinds /\ BoundaryTodo(t)
         \/ l = "parcels" /\ a.kind = "page" /\ PageTodo(t, a.off) /\ g = a.gen /\ off = a.off
      /\ a.clean => /\ Owned(feed, rows, l, g) /\ Reached(feed, rows, l, off, g)
                    /\ l = "cities" => Bare(rows, g)
  BY <1>2, <1>3, PageOwned
<1>5. FeedOK(feed) /\ TablesOK(rows, gen) BY DEF Good
<1>6. n \in Nat /\ g \in Nat
  <2>1. gen[SourceOf(l)] \in 0..MaxGen BY <1>4, <1>5 DEF TablesOK
  <2> QED BY <2>1, <1>4, ConstantFacts
<1>7. /\ rows' = [rows EXCEPT ![l] = Upsert(l, names, g)]
      /\ run' = [run EXCEPT ![w].todo =
                    (IF More(l, off)
                     THEN <<Step(IF l = "parcels" THEN "next" ELSE "page", l, n)>>
                     ELSE IF l = "parcels" THEN <<Step("stale", l, 0)>> ELSE <<>>) \o Tail(t)]
      /\ feed' = feed /\ gen' = gen /\ jobs' = jobs
  BY <1>2 DEF SyncPage, Go
<1>8. names \in SUBSET Kept(l, ToSet(feed[l])) BY <1>4, <1>5, PageFacts DEF Kept
<1>9. Good(feed, rows', gen, jobs, run)
  BY ONLY <1>2, <1>3, <1>7, <1>8, UpsertStep, Good(feed, rows, gen, jobs, run), w \in Workers, a \in jobs
<1>10. rows'[l] = Upsert(l, names, g) BY <1>4, <1>5, <1>7 DEF TablesOK
<1>11. ASSUME a.clean PROVE /\ Reached(feed, rows', l, n, g)
                            /\ ~More(l, off) => Reached(feed, rows', l, Len(feed[l]), g)
  <2>1. Owned(feed, rows, l, g) /\ Reached(feed, rows, l, off, g) /\ (l = "cities" => Bare(rows, g))
    BY <1>4, <1>11
  <2>2. l \in Layers /\ off \in Nat BY <1>4
  <2> HIDE DEF l, off, g
  <2>3. rows'[l] = Upsert(l, names, g) BY <1>10
  <2> QED BY ONLY <1>6, <2>1, <2>2, <2>3, PageReached, Good(feed, rows, gen, jobs, run)
<1> DEFINE u == (IF More(l, off)
                 THEN <<Step(IF l = "parcels" THEN "next" ELSE "page", l, n)>>
                 ELSE IF l = "parcels" THEN <<Step("stale", l, 0)>> ELSE <<>>) \o Tail(t)
<1>12. run' = [run EXCEPT ![w] = With(run[w], u)] BY <1>7, GoFacts
<1>13. CASE l \in Boundaries /\ a.kind \in BoundaryKinds /\ BoundaryTodo(t)
  <2>1. CASE More(l, off)
    <3>1. u = <<Step("page", l, n)>> \o Tail(t) BY <1>13, <2>1
    <3>2. a.clean => Reached(feed, rows', l, n, g) BY <1>11
    <3> HIDE DEF n
    <3>3. Good(feed, rows', gen, jobs, [run EXCEPT ![w] = With(run[w], <<Step("page", l, n)>> \o Tail(t))])
      BY <1>2, <1>3, <1>6, <1>9, <1>13, <3>2, BoundaryNext
    <3> QED BY <3>1, <3>3, <1>7, <1>12
  <2>2. CASE ~More(l, off)
    <3>1. u = <<>> \o Tail(t) BY <1>13, <2>2
    <3>2. Tail(t) \in Seq(Steps) BY <1>2, TailFacts
    <3>3. u = Tail(t) BY ONLY <3>1, <3>2, EmptyConcat
    <3>4. a.clean => Reached(feed, rows', l, Len(feed[l]), g) BY <1>11, <2>2
    <3>5. Good(feed, rows', gen, jobs, [run EXCEPT ![w] = With(run[w], Tail(t))])
      BY <1>2, <1>3, <1>9, <1>13, <3>4, BoundaryTail
    <3> QED BY <3>3, <3>5, <1>7, <1>12
  <2> QED BY <2>1, <2>2
<1>14. CASE l = "parcels" /\ a.kind = "page" /\ PageTodo(t, a.off) /\ g = a.gen /\ off = a.off
  <2>1. Tail(t) = <<>> BY <1>2, <1>14, PageTodoFacts
  <2>2. CASE More(l, off)
    <3> DEFINE x == Step("next", "parcels", a.off + PageSize)
    <3>1. u = <<x>> \o <<>> BY <1>14, <2>1, <2>2
    <3>2. x \in Steps BY <1>6, <1>14, StepType
    <3>3. x.op = "next" BY StepFacts
    <3> HIDE DEF x
    <3>4. <<x>> \o <<>> = <<x>> /\ <<x>> \in Seq(Steps) /\ <<x>>[1] = x BY <3>2, EmptyConcat
    <3>5. PageTodo(<<x>>, a.off) BY DEF PageTodo, x
    <3>6. a.clean => Reached(feed, rows', "parcels", a.off + PageSize, a.gen) BY <1>11, <1>14
    <3>7. Good(feed, rows', gen, jobs, [run EXCEPT ![w] = With(run[w], <<x>>)])
      BY <1>3, <1>9, <1>14, <3>3, <3>4, <3>5, <3>6, PageStep
    <3> HIDE DEF u
    <3> QED BY <3>1, <3>4, <3>7, <1>7, <1>12
  <2>3. CASE ~More(l, off)
    <3> DEFINE x == Step("stale", "parcels", 0)
    <3>1. u = <<x>> \o <<>> BY <1>14, <2>1, <2>3
    <3>2. x \in Steps BY StepType DEF BoundaryOps
    <3>3. x.op = "stale" BY StepFacts
    <3> HIDE DEF x
    <3>4. <<x>> \o <<>> = <<x>> /\ <<x>> \in Seq(Steps) /\ <<x>>[1] = x BY <3>2, EmptyConcat
    <3>5. PageTodo(<<x>>, a.off) BY DEF PageTodo, x
    <3>6. a.clean => Reached(feed, rows', "parcels", Len(feed["parcels"]), a.gen)
      BY <1>11, <1>14, <2>3
    <3>7. Good(feed, rows', gen, jobs, [run EXCEPT ![w] = With(run[w], <<x>>)])
      BY <1>3, <1>9, <1>14, <3>3, <3>4, <3>5, <3>6, PageStep
    <3> HIDE DEF u
    <3> QED BY <3>1, <3>4, <3>7, <1>7, <1>12
  <2> QED BY <2>2, <2>3
<1> QED BY <1>4, <1>13, <1>14

LEMMA FewerRows ==
  ASSUME NEW T, NEW G, TablesOK(T, G), NEW U \in [Layers -> SUBSET Row],
         \A m \in Layers : U[m] \subseteq T[m]
  PROVE  TablesOK(U, G)
  BY DEF TablesOK

LEMMA KeepsReached ==
  ASSUME NEW F, NEW T, NEW U, NEW l, NEW g, Keeps(T, U, l, g), NEW n, Reached(F, T, l, n, g)
  PROVE  Reached(F, U, l, n, g)
  BY DEF Keeps, Reached

LEMMA StaleFacts ==
  ASSUME NEW l \in Layers, NEW g \in Nat, TablesOK(rows, gen), NEW U, U[l] = DeleteStale(l, g)
  PROVE  Keeps(rows, U, l, g) /\ U[l] \subseteq rows[l]
<1>1. \A r \in rows[l] : r.gen = g => r \in U[l] BY DEF DeleteStale
<1> QED BY <1>1 DEF Keeps, DeleteStale

LEMMA OwnedSubset ==
  ASSUME NEW F, NEW T, NEW U, NEW l, NEW g, Owned(F, T, l, g), U[l] \subseteq T[l]
  PROVE  Owned(F, U, l, g)
  BY DEF Owned

\* Whose rows a refresh deletes, and what it knows of them.
LEMMA StaleOwned ==
  ASSUME Good(feed, rows, gen, jobs, run), NEW w \in Workers, NEW a \in jobs, run[w].job = a.id,
         run[w].todo # <<>>, run[w].todo[1].op = "stale"
  PROVE  LET l == run[w].todo[1].layer
             g == run[w].gen
         IN  /\ l \in Layers /\ g \in Nat
             /\ \/ l \in Boundaries /\ a.kind \in BoundaryKinds /\ BoundaryTodo(run[w].todo)
                     /\ ~Has(run[w].todo, "page", l)
                \/ l = "parcels" /\ a.kind = "page" /\ PageTodo(run[w].todo, a.off) /\ g = a.gen
             /\ a.clean => Owned(feed, rows, l, g) /\ Reached(feed, rows, l, Len(feed[l]), g)
<1> DEFINE h == run[w]
           t == h.todo
           l == t[1].layer
           g == h.gen
<1>1. a \in JobRow /\ h \in Handler /\ TodoOK(gen, a, h)
  BY DEF Good, QueueOK, RunsOK, HandlersOK
<1>2. t \in Seq(Steps) /\ g \in Nat BY <1>1, ConstantFacts DEF Handler
<1>3. 1 \in 1..Len(t) BY <1>2, TailFacts
<1>4. t[1] \in Steps BY <1>2, <1>3
<1>5. l \in Layers BY <1>4 DEF Steps
<1>6. CASE a.kind \in BoundaryKinds /\ BoundaryTodo(t) /\ l # "parcels"
  <2>1. l \in Boundaries BY <1>5, <1>6
  <2>2. Has(t, "stale", l) /\ ~Bumps(t) BY <1>3 DEF Is, Has, Bumps
  <2>3. ~Has(t, "page", l)
    <3> SUFFICES ASSUME NEW k \in 1..Len(t), Is(t, k, "page", l) PROVE FALSE BY DEF Has
    <3>1. t[k].op = "page" /\ t[k].layer = l BY DEF Is
    <3>2. k < 1 BY <1>3, <1>6, <3>1 DEF BoundaryTodo
    <3> QED BY <3>2, <1>2
  <2>4. ASSUME a.clean PROVE Owned(feed, rows, l, g) /\ Reached(feed, rows, l, Len(feed[l]), g)
    <3>1. LayerOK(feed, rows, h, l) BY <1>6, <2>1, <2>4 DEF Good, BoundariesOK
    <3> QED BY <3>1, <2>2, <2>3 DEF LayerOK
  <2> QED BY <1>2, <1>5, <1>6, <2>1, <2>3, <2>4
<1>7. CASE a.kind = "page" /\ PageTodo(t, a.off)
  <2>1. l = "parcels" BY <1>7, PageTodoFacts
  <2>2. g = a.gen BY <1>1, <1>7 DEF TodoOK
  <2>3. a.clean => Owned(feed, rows, l, g) /\ Reached(feed, rows, l, Len(feed[l]), g)
    BY <1>7, <2>1, <2>2 DEF Good, ChainOK
  <2> QED BY <1>2, <1>5, <1>7, <2>1, <2>2, <2>3
<1> QED BY <1>1, <1>6, <1>7, WhoseStep

LEMMA StaleGood ==
  ASSUME Good(feed, rows, gen, jobs, run), NEW w \in Workers, Stale(w)
  PROVE  Good(feed', rows', gen', jobs', run')
<1> DEFINE t == run[w].todo
           l == t[1].layer
           g == run[w].gen
<1>1. Doing(w, "stale") BY DEF Stale
<1>2. /\ Busy(w) /\ t # <<>> /\ t \in Seq(Steps) /\ Now(w) = t[1] /\ t[1].op = "stale"
      /\ Then(w) = Tail(t)
  BY <1>1, DoingFacts
<1>3. PICK a \in jobs : run[w].job = a.id BY <1>2, Working
<1>4. /\ l \in Layers /\ g \in Nat
      /\ \/ l \in Boundaries /\ a.kind \in BoundaryKinds /\ BoundaryTodo(t) /\ ~Has(t, "page", l)
         \/ l = "parcels" /\ a.kind = "page" /\ PageTodo(t, a.off) /\ g = a.gen
      /\ a.clean => Owned(feed, rows, l, g) /\ Reached(feed, rows, l, Len(feed[l]), g)
  BY <1>2, <1>3, StaleOwned
<1>5. TablesOK(rows, gen) BY DEF Good
<1>6. /\ rows' = [rows EXCEPT ![l] = DeleteStale(l, g)]
      /\ run' = [run EXCEPT ![w].todo = Tail(t)]
      /\ feed' = feed /\ gen' = gen /\ jobs' = jobs
  BY <1>2 DEF Stale, Go
<1>7. DeleteStale(l, g) \in SUBSET rows[l] BY DEF DeleteStale
<1>8. /\ TablesOK(rows', gen) /\ rows'[l] = DeleteStale(l, g)
      /\ \A m \in Layers : m # l => rows'[m] = rows[m]
  <2>1. rows \in [Layers -> SUBSET Row] BY <1>5 DEF TablesOK
  <2>2. rows'[l] = DeleteStale(l, g) /\ \A m \in Layers : m # l => rows'[m] = rows[m]
    BY <1>4, <1>6, <2>1
  <2>3. \A m \in Layers : rows'[m] \subseteq rows[m] BY <1>7, <2>2
  <2>4. rows' \in [Layers -> SUBSET Row] BY <1>4, <1>6, <1>7, <2>1
  <2> QED BY <1>5, <2>2, <2>3, <2>4, FewerRows
<1>9. Keeps(rows, rows', l, g) /\ rows'[l] \subseteq rows[l] BY <1>4, <1>5, <1>8, StaleFacts
<1>10. Good(feed, rows', gen, jobs, run)
  <2>1. ASSUME l # "parcels", a.clean PROVE LayerOK(feed, rows', run[w], l)
    <3>1. Owned(feed, rows', l, g) BY <1>4, <1>9, <2>1, OwnedSubset
    <3>2. Reached(feed, rows', l, Len(feed[l]), g) BY <1>4, <1>9, <2>1, KeepsReached
    <3>3. ~Has(t, "page", l) BY <1>4, <2>1
    <3> QED BY <3>1, <3>2, <3>3 DEF LayerOK, Has
  <2>2. l = "parcels" /\ a.clean => Owned(feed, rows', l, a.gen) /\ Keeps(rows, rows', l, a.gen)
    BY <1>4, <1>9, OwnedSubset
  <2>3. \A s \in rows'[l] : \E r \in rows[l] : r.gen = s.gen BY <1>9
  <2>4. l \in Layers BY <1>4
  <2>5. l = "parcels" => a.kind = "page" BY <1>4
  <2>6. l # "parcels" => a.kind \in BoundaryKinds /\ (a.clean => LayerOK(feed, rows', run[w], l))
    BY <1>4, <2>1
  <2>7. l = "parcels" => \A s \in rows'[l] : s.gen = a.gen \/ \E r \in rows[l] : r.gen = s.gen
    BY <2>3
  <2>8. w \in Workers /\ a \in jobs /\ run[w].job = a.id /\ Good(feed, rows, gen, jobs, run)
    BY <1>3
  <2> HIDE DEF l
  <2> QED BY ONLY <1>8, <2>2, <2>4, <2>5, <2>6, <2>7, <2>8, TableStep
<1>11. run' = [run EXCEPT ![w] = With(run[w], Tail(t))] BY <1>6, GoFacts
<1>12. CASE a.kind \in BoundaryKinds /\ BoundaryTodo(t)
  <2>1. Good(feed, rows', gen, jobs, [run EXCEPT ![w] = With(run[w], Tail(t))])
    BY <1>2, <1>3, <1>10, <1>12, BoundaryTail
  <2> QED BY <2>1, <1>6, <1>11
<1>13. CASE a.kind = "page" /\ PageTodo(t, a.off)
  <2>1. Tail(t) = <<>> /\ <<>> \in Seq(Steps) BY <1>2, <1>13, PageTodoFacts
  <2>2. PageTodo(<<>>, a.off) BY DEF PageTodo
  <2>3. Good(feed, rows', gen, jobs, [run EXCEPT ![w] = With(run[w], <<>>)])
    BY <1>3, <1>10, <1>13, <2>1, <2>2, PageStep
  <2> QED BY <2>1, <2>3, <1>6, <1>11
<1> QED BY <1>4, <1>12, <1>13

\* An update of the cities changes counties only.
LEMMA BackfillRows ==
  ASSUME TablesOK(rows, gen), NEW cs \in SUBSET rows["cities"]
  PROVE  /\ Backfill(cs) \subseteq Row
         /\ \A s \in Backfill(cs) : \E r \in rows["cities"] :
               /\ s.name = r.name /\ s.gen = r.gen
               /\ s = IF r \in Joined(cs) THEN [r EXCEPT !.county = Home[r.name]] ELSE r
         /\ \A r \in rows["cities"] : \E s \in Backfill(cs) : s.name = r.name /\ s.gen = r.gen
<1> DEFINE up(r) == [r EXCEPT !.county = Home[r.name]]
<1>1. rows["cities"] \subseteq Row /\ rows["counties"] \subseteq Row BY DEF TablesOK
<1>2. Joined(cs) \subseteq rows["cities"] BY DEF Joined
<1>3. \A r \in rows["cities"] : up(r).name = r.name /\ up(r).gen = r.gen BY <1>1 DEF Row
<1>4. \A r \in Joined(cs) : Home[r.name] \in Names
  <2> SUFFICES ASSUME NEW r \in Joined(cs) PROVE Home[r.name] \in Names OBVIOUS
  <2>1. PICK co \in rows["counties"] : co.name = Home[r.name] BY DEF Joined
  <2>2. co.name \in Names BY <1>1 DEF Row
  <2> QED BY <2>1, <2>2
<1>5. \A r \in Joined(cs) : up(r) \in Row
  <2> SUFFICES ASSUME NEW r \in Joined(cs) PROVE up(r) \in Row OBVIOUS
  <2>1. r \in Row /\ Home[r.name] \in Names \cup {Null} BY <1>1, <1>2, <1>4
  <2> QED BY <2>1 DEF Row
<1>6. Backfill(cs) = (rows["cities"] \ Joined(cs)) \cup {up(r) : r \in Joined(cs)} BY DEF Backfill
<1>7. Backfill(cs) \subseteq Row BY <1>1, <1>5, <1>6
<1>8. \A r \in rows["cities"] : r \in Joined(cs) => up(r) \in Backfill(cs) BY <1>6
<1>9. \A r \in rows["cities"] : r \notin Joined(cs) => r \in Backfill(cs) BY <1>6
<1>10. \A s \in Backfill(cs) : \E r \in rows["cities"] :
         /\ s.name = r.name /\ s.gen = r.gen
         /\ s = IF r \in Joined(cs) THEN up(r) ELSE r
  <2> SUFFICES ASSUME NEW s \in Backfill(cs)
               PROVE  \E r \in rows["cities"] :
                        /\ s.name = r.name /\ s.gen = r.gen
                        /\ s = IF r \in Joined(cs) THEN up(r) ELSE r
    OBVIOUS
  <2>1. CASE s \in rows["cities"] \ Joined(cs) BY <2>1
  <2>2. CASE s \in {up(r) : r \in Joined(cs)}
    <3>1. PICK r \in Joined(cs) : s = up(r) BY <2>2
    <3>2. r \in rows["cities"] BY <1>2
    <3>3. s.name = r.name /\ s.gen = r.gen BY <1>3, <3>1, <3>2
    <3> HIDE DEF up
    <3> QED BY <3>1, <3>2, <3>3
  <2> QED BY <1>6, <2>1, <2>2
<1> QED BY <1>3, <1>7, <1>8, <1>9, <1>10

LEMMA AssignCountiesGood ==
  ASSUME Good(feed, rows, gen, jobs, run), NEW w \in Workers, AssignCounties(w)
  PROVE  Good(feed', rows', gen', jobs', run')
<1> DEFINE t == run[w].todo
           X == Backfill(Target(w))
<1>1. PICK o \in {"backfill", "missing"} : Doing(w, o) BY DEF AssignCounties
<1>2. /\ Busy(w) /\ t # <<>> /\ t \in Seq(Steps) /\ t[1].op = o /\ Then(w) = Tail(t)
  BY <1>1, DoingFacts
<1>3. PICK a \in jobs : /\ run[w].job = a.id /\ a \in JobRow /\ TodoOK(gen, a, run[w])
                        /\ run[w] \in Handler
  BY <1>2, Working
<1>4. a.kind \in BoundaryKinds /\ BoundaryTodo(t)
  <2>1. o \notin {"check", "bump", "kick", "page", "next", "stale"} OBVIOUS
  <2> QED BY <1>2, <1>3, <2>1, WhoseStep
<1>5. 1 \in 1..Len(t) BY <1>2, TailFacts
<1>6. t[1].layer = "cities" BY <1>2, <1>4, <1>5 DEF BoundaryTodo
<1>7. ~Has(t, "page", "cities")
  <2> SUFFICES ASSUME NEW k \in 1..Len(t), Is(t, k, "page", "cities") PROVE FALSE BY DEF Has
  <2>1. t[k].op = "page" /\ t[k].layer = "cities" BY DEF Is
  <2>2. k < 1 BY <1>2, <1>4, <1>5, <1>6, <2>1 DEF BoundaryTodo
  <2>3. k \in 1..Len(t) /\ Len(t) \in Nat BY <1>2
  <2> QED BY <2>2, <2>3
<1>8. /\ rows' = [rows EXCEPT !["cities"] = X] /\ run' = [run EXCEPT ![w].todo = Tail(t)]
      /\ feed' = feed /\ gen' = gen /\ jobs' = jobs
  BY <1>2 DEF AssignCounties, Go
<1>9. TablesOK(rows, gen) BY DEF Good
<1>10. Target(w) \in SUBSET rows["cities"]
  BY DEF Target, BackfillCityCounties, BackfillMissingCityCounties
<1>11. /\ X \subseteq Row
       /\ \A s \in X : \E r \in rows["cities"] :
             /\ s.name = r.name /\ s.gen = r.gen
             /\ s = IF r \in Joined(Target(w)) THEN [r EXCEPT !.county = Home[r.name]] ELSE r
       /\ \A r \in rows["cities"] : \E s \in X : s.name = r.name /\ s.gen = r.gen
  BY <1>9, <1>10, BackfillRows
<1> HIDE DEF X
<1>12. /\ rows' \in [Layers -> SUBSET Row] /\ rows'["cities"] = X
       /\ \A m \in Layers : m # "cities" => rows'[m] = rows[m]
  <2>1. rows \in [Layers -> SUBSET Row] BY <1>9 DEF TablesOK
  <2> QED BY <1>8, <1>11, <2>1
<1>13. TablesOK(rows', gen)
  <2>1. \A s \in X : s.gen <= gen["fdot"]
    <3>1. \A r \in rows["cities"] : r.gen <= gen["fdot"] BY <1>9 DEF TablesOK
    <3> QED BY <3>1, <1>11
  <2>2. \A m \in Layers : \A r \in rows'[m] : r.gen <= gen[SourceOf(m)]
    BY <1>9, <1>12, <2>1 DEF TablesOK
  <2>3. \A m \in Layers \ {"cities"} : \A r, s \in rows'[m] : r.name = s.name => r = s
    BY <1>9, <1>12 DEF TablesOK
  <2> QED BY <1>9, <1>12, <2>2, <2>3 DEF TablesOK
<1>14. ASSUME a.clean PROVE LayerOK(feed, rows', run[w], "cities")
  <2> DEFINE g == run[w].gen
  <2> SUFFICES ASSUME Has(t, "stale", "cities")
               PROVE  /\ Owned(feed, rows', "cities", g)
                      /\ Reached(feed, rows', "cities", Len(feed["cities"]), g)
    BY <1>7 DEF LayerOK, Has
  <2>1. LayerOK(feed, rows, run[w], "cities") BY <1>3, <1>4, <1>14 DEF Good, BoundariesOK
  <2>2. ~Bumps(t) BY <1>2 DEF Bumps
  <2>3. Owned(feed, rows, "cities", g) /\ Reached(feed, rows, "cities", Len(feed["cities"]), g)
    BY <1>7, <2>1, <2>2 DEF LayerOK
  <2> HIDE DEF g
  <2>4. \A s \in X : s.gen <= g BY <1>11, <2>3 DEF Owned
  <2>5. \A s \in X : s.gen = g => s.name \in Kept("cities", ToSet(feed["cities"]))
    BY <1>11, <2>3 DEF Owned
  <2>6. ASSUME NEW s1 \in X, NEW s2 \in X, s1.gen = g, s2.gen = g, s1.name = s2.name
        PROVE  s1 = s2
    <3>1. PICK r1 \in rows["cities"] :
             /\ s1.name = r1.name /\ s1.gen = r1.gen
             /\ s1 = IF r1 \in Joined(Target(w)) THEN [r1 EXCEPT !.county = Home[r1.name]] ELSE r1
      BY <1>11
    <3>2. PICK r2 \in rows["cities"] :
             /\ s2.name = r2.name /\ s2.gen = r2.gen
             /\ s2 = IF r2 \in Joined(Target(w)) THEN [r2 EXCEPT !.county = Home[r2.name]] ELSE r2
      BY <1>11
    <3>3. r1 = r2 BY <2>3, <2>6, <3>1, <3>2 DEF Owned
    <3> QED BY <3>1, <3>2, <3>3
  <2>7. Owned(feed, rows', "cities", g) BY <1>12, <2>4, <2>5, <2>6 DEF Owned
  <2>8. Keeps(rows, rows', "cities", g) BY <1>11, <1>12 DEF Keeps
  <2> QED BY <2>3, <2>7, <2>8, KeepsReached
<1>15. Good(feed, rows', gen, jobs, run)
  <2>1. "cities" # "parcels" /\ "cities" \in Layers OBVIOUS
  <2>2. w \in Workers /\ a \in jobs /\ run[w].job = a.id /\ Good(feed, rows, gen, jobs, run)
    BY <1>3
  <2> QED BY ONLY <1>4, <1>12, <1>13, <1>14, <2>1, <2>2, TableStep
<1>16. run' = [run EXCEPT ![w] = With(run[w], Tail(t))] BY <1>8, GoFacts
<1>17. Good(feed, rows', gen, jobs, [run EXCEPT ![w] = With(run[w], Tail(t))])
  <2>1. t[1].op # "bump" /\ t[1].op # "page" BY <1>2
  <2> QED BY <1>2, <1>3, <1>4, <1>15, <2>1, BoundaryTail
<1> QED BY <1>8, <1>16, <1>17

LEMMA FinishGood ==
  ASSUME Good(feed, rows, gen, jobs, run), NEW w \in Workers, Finish(w)
  PROVE  Good(feed', rows', gen', jobs', run')
<1>1. PICK a \in jobs : run[w].job = a.id /\ Job(run[w].job) = a BY Working DEF Finish
<1>2. /\ jobs' = jobs \ {a} /\ run' = [run EXCEPT ![w] = Idle]
      /\ feed' = feed /\ rows' = rows /\ gen' = gen
  BY <1>1 DEF Finish
<1>3. Good(feed, rows, gen, jobs', [run EXCEPT ![w] = Idle]) BY <1>1, <1>2, DropStep
<1> QED BY <1>2, <1>3

\* A handler gives up, whatever it has written so far.
LEMMA GiveUpGood ==
  ASSUME Good(feed, rows, gen, jobs, run), NEW w \in Workers, Busy(w), GiveUp(w),
         NEW U, Good(feed, U, gen, jobs, run)
  PROVE  Good(feed, U, gen, jobs', run')
<1>1. PICK a \in jobs : run[w].job = a.id /\ Job(run[w].job) = a BY Working
<1>2. /\ jobs' = IF a.tries < MaxTries THEN jobs ELSE jobs \ {a}
      /\ run' = [run EXCEPT ![w] = Idle]
  BY <1>1 DEF GiveUp, Failed
<1>3. Good(feed, U, gen, jobs', [run EXCEPT ![w] = Idle]) BY <1>1, <1>2, DropStep
<1> QED BY <1>2, <1>3

LEMMA AbortGood ==
  ASSUME Good(feed, rows, gen, jobs, run), NEW w \in Workers, Abort(w)
  PROVE  Good(feed', rows', gen', jobs', run')
<1>1. Busy(w) /\ GiveUp(w) /\ feed' = feed /\ rows' = rows /\ gen' = gen BY DEF Abort, Doing
<1>2. Good(feed, rows, gen, jobs', run') BY <1>1, GiveUpGood
<1> QED BY <1>1, <1>2

LEMMA FaultGood ==
  ASSUME Good(feed, rows, gen, jobs, run), NEW w \in Workers, Fault(w)
  PROVE  Good(feed', rows', gen', jobs', run')
<1>1. Busy(w) /\ GiveUp(w) /\ feed' = feed /\ gen' = gen BY DEF Fault
<1>2. Good(feed, rows', gen, jobs, run)
  <2>1. CASE rows' = rows BY <2>1
  <2>2. CASE rows' # rows
    <3> DEFINE t == run[w].todo
               l == t[1].layer
               off == t[1].off
    <3>1. Doing(w, "page") BY <2>2 DEF Fault
    <3>2. t # <<>> /\ Now(w) = t[1] /\ t[1].op = "page" BY <3>1, DoingFacts
    <3>3. PICK a \in jobs : run[w].job = a.id BY <1>1, Working
    <3>4. l \in Layers /\ off \in Nat BY <3>2, <3>3, PageOwned
    <3>5. PICK part \in SUBSET Kept(l, ToSet(Page(l, off))) :
             rows' = [rows EXCEPT ![l] = Upsert(l, part, run[w].gen)]
      BY <2>2, <3>2 DEF Fault
    <3>6. FeedOK(feed) BY DEF Good
    <3>7. part \in SUBSET Kept(l, ToSet(feed[l])) BY <3>4, <3>6, PageFacts DEF Kept
    <3> QED BY ONLY <3>2, <3>3, <3>5, <3>7, UpsertStep, Good(feed, rows, gen, jobs, run),
                    w \in Workers, a \in jobs
  <2> QED BY <2>1, <2>2
<1>3. Good(feed, rows', gen, jobs', run') BY ONLY <1>1, <1>2, GiveUpGood, w \in Workers,
                                              Good(feed, rows, gen, jobs, run)
<1> QED BY <1>1, <1>3

LEMMA CheckActiveGood ==
  ASSUME Good(feed, rows, gen, jobs, run), NEW w \in Workers, CheckActive(w)
  PROVE  Good(feed', rows', gen', jobs', run')
<1> DEFINE t == run[w].todo
<1>1. Busy(w) /\ t # <<>> /\ t[1].op = "check" /\ Then(w) = Tail(t)
  BY DoingFacts DEF CheckActive
<1>0. PICK u \in {<<>>, Tail(t)} : Go(w, u) BY <1>1 DEF CheckActive
<1>2. PICK a \in jobs : /\ run[w].job = a.id /\ a \in JobRow /\ TodoOK(gen, a, run[w])
                        /\ run[w] \in Handler
  BY <1>1, Working
<1>3. a.kind \in BoundaryKinds \cup {"parcels"} /\ KickTodo(t)
  <2>1. "check" \notin BoundaryOps BY DEF BoundaryOps
  <2> QED BY <1>1, <1>2, <2>1, WhoseStep
<1>4. t = Kickoff BY <1>1, <1>3, KickTodoFacts
<1>5. KickTodo(u) BY <1>0, <1>4 DEF KickTodo
<1>6. ~AtKick(u)
  <2>1. ~AtKick(<<>>) BY DEF AtKick
  <2>2. ~AtKick(Tail(Kickoff)) BY KickoffFacts DEF AtKick
  <2> QED BY <1>0, <1>4, <2>1, <2>2
<1>7. /\ run' = [run EXCEPT ![w].todo = u] /\ feed' = feed /\ rows' = rows /\ gen' = gen
      /\ jobs' = jobs
  BY <1>0 DEF CheckActive, Go
<1>8. run' = [run EXCEPT ![w] = With(run[w], u)] BY <1>7, GoFacts
<1>9. Good(feed, rows, gen, jobs, [run EXCEPT ![w] = With(run[w], u)])
  BY <1>2, <1>3, <1>5, <1>6, KickoffStep
<1> QED BY <1>7, <1>8, <1>9

LEMMA RunInitialSyncGood ==
  ASSUME Good(feed, rows, gen, jobs, run), NEW w \in Workers, RunInitialSync(w)
  PROVE  Good(feed', rows', gen', jobs', run')
<1> DEFINE t == run[w].todo
           u == IF rows["parcels"] = {} THEN Kickoff ELSE <<>>
<1>1. Busy(w) /\ t # <<>> /\ t[1].op = "initial" BY DoingFacts DEF RunInitialSync
<1>2. PICK a \in jobs : /\ run[w].job = a.id /\ a \in JobRow /\ TodoOK(gen, a, run[w])
                        /\ run[w] \in Handler
  BY <1>1, Working
<1>3. a.kind \in BoundaryKinds \cup {"parcels"} BY <1>1, <1>2, WhoseStep
<1>4. KickTodo(u) BY DEF KickTodo
<1>5. ~AtKick(u)
  <2>1. ~AtKick(<<>>) BY DEF AtKick
  <2>2. ~AtKick(Kickoff) BY KickoffFacts DEF AtKick
  <2> QED BY <2>1, <2>2
<1>6. /\ run' = [run EXCEPT ![w].todo = u] /\ feed' = feed /\ rows' = rows /\ gen' = gen
      /\ jobs' = jobs
  BY DEF RunInitialSync, Go
<1> HIDE DEF u
<1>7. run' = [run EXCEPT ![w] = With(run[w], u)] BY <1>6, GoFacts
<1>8. Good(feed, rows, gen, jobs, [run EXCEPT ![w] = With(run[w], u)])
  BY <1>2, <1>3, <1>4, <1>5, KickoffStep
<1> QED BY <1>6, <1>7, <1>8

LEMMA TwoFields ==
  ASSUME NEW r \in Handler, NEW x, NEW y
  PROVE  [[r EXCEPT !.gen = x] EXCEPT !.todo = y] = [job |-> r.job, gen |-> x, todo |-> y]
<1> DEFINE q == [r EXCEPT !.gen = x]
<1>1. q = [job |-> r.job, gen |-> x, todo |-> r.todo] BY DEF Handler
<1> HIDE DEF q
<1>2. [q EXCEPT !.todo = y] = [job |-> r.job, gen |-> x, todo |-> y] BY <1>1
<1> QED BY <1>2 DEF q

\* A generation nobody has: of the boundaries, every page is still to be read;
\* of the parcels, the first page is still to be enqueued.
LEMMA BumpGood ==
  ASSUME Good(feed, rows, gen, jobs, run), NEW w \in Workers, Bump(w)
  PROVE  Good(feed', rows', gen', jobs', run')
<1> DEFINE t == run[w].todo
           s == SourceOf(t[1].layer)
           g == gen[s] + 1
           h == [job |-> run[w].job, gen |-> g, todo |-> Tail(t)]
<1>1. /\ Busy(w) /\ t # <<>> /\ t \in Seq(Steps) /\ Now(w) = t[1] /\ t[1].op = "bump"
      /\ Then(w) = Tail(t)
  BY DoingFacts DEF Bump
<1>2. PICK a \in jobs : /\ run[w].job = a.id /\ a \in JobRow /\ TodoOK(gen, a, run[w])
                        /\ run[w] \in Handler
  BY <1>1, Working
<1>3. run \in [Workers -> Handler] /\ TablesOK(rows, gen) BY DEF Good, RunsOK
<1>4. gen \in [Sources -> 0..MaxGen] BY <1>3 DEF TablesOK
<1>5. s \in Sources OBVIOUS
<1>6. gen[s] \in Nat /\ gen[s] < MaxGen /\ g \in 1..MaxGen /\ g \in Nat
  BY <1>1, <1>4, <1>5, ConstantFacts DEF Bump
<1>7. gen' = [gen EXCEPT ![s] = g] /\ feed' = feed /\ rows' = rows /\ jobs' = jobs
  BY <1>1 DEF Bump
<1>8. run' = [run EXCEPT ![w] = h]
  <2>1. run' = [run EXCEPT ![w].gen = g, ![w].todo = Tail(t)] BY <1>1 DEF Bump
  <2>2. [[run[w] EXCEPT !.gen = g] EXCEPT !.todo = Tail(t)] = h BY <1>2, TwoFields
  <2> HIDE DEF h, g
  <2> QED BY <2>1, <2>2, <1>3
<1>9. gen' \in [Sources -> 0..MaxGen] /\ gen'[s] = g /\ \A q \in Sources : gen[q] <= gen'[q]
  <2>1. gen' \in [Sources -> 0..MaxGen] /\ gen'[s] = g BY <1>4, <1>5, <1>6, <1>7, ConstantFacts
  <2>2. ASSUME NEW q \in Sources PROVE gen[q] <= gen'[q]
    <3>1. gen[q] \in Nat BY <1>4, ConstantFacts
    <3>2. CASE q = s BY <2>1, <3>2, <1>6
    <3>3. CASE q # s BY <1>4, <1>7, <3>1, <3>3
    <3> QED BY <3>2, <3>3
  <2> QED BY <2>1, <2>2
<1>10. Good(feed, rows, gen', jobs, run) BY <1>9, GrowGood
<1>11. Tail(t) \in Seq(Steps) BY <1>1, TailFacts
<1>12. h \in Handler /\ h.job = a.id /\ h.gen = g /\ h.todo = Tail(t)
  BY <1>2, <1>6, <1>11 DEF Handler
<1> HIDE DEF h
<1>13. CASE a.kind \in BoundaryKinds /\ BoundaryTodo(t) /\ t[1].layer # "parcels"
  <2>1. BoundaryTodo(Tail(t)) /\ ~Bumps(Tail(t)) BY <1>1, <1>13, TailTodo
  <2>2. s = "fdot" BY <1>13
  <2>3. ~AtKick(Tail(t))
    <3>1. \A i \in 1..Len(Tail(t)) : Tail(t)[i].op # "kick" BY <2>1 DEF BoundaryTodo, BoundaryOps
    <3>2. 1 \in 1..1 OBVIOUS
    <3> QED BY <3>1, <3>2 DEF AtKick
  <2>4. a.kind # "parcels" /\ a.kind # "page" BY <1>13 DEF BoundaryKinds
  <2>5. TodoOK(gen', a, h)
    <3>1. g \in 1..gen'["fdot"] BY <2>2, <1>6, <1>9
    <3> HIDE DEF g
    <3> QED BY <1>12, <2>1, <2>3, <2>4, <3>1 DEF TodoOK
  <2>6. ASSUME NEW l \in Boundaries PROVE LayerOK(feed, rows, h, l)
    <3> SUFFICES ASSUME Has(Tail(t), "stale", l)
                 PROVE  /\ Owned(feed, rows, l, g)
                        /\ \A i \in 1..Len(Tail(t)) : Is(Tail(t), i, "page", l) =>
                              /\ Reached(feed, rows, l, Tail(t)[i].off, g)
                              /\ l = "cities" => Bare(rows, g)
                        /\ Has(Tail(t), "page", l)
      <4> HIDE DEF g
      <4> QED BY <1>12 DEF LayerOK
    <3>1. \A r \in rows[l] : r.gen <= gen["fdot"] /\ r.gen \in Nat
      <4>1. rows[l] \subseteq Row /\ SourceOf(l) = "fdot" BY <1>3 DEF TablesOK
      <4> QED BY <1>3, <4>1, ConstantFacts DEF TablesOK, Row
    <3>2. \A r \in rows[l] : r.gen < g /\ r.gen # g /\ r.gen <= g BY <3>1, <2>2, <1>6
    <3> HIDE DEF g
    <3>3. Owned(feed, rows, l, g) BY <3>2 DEF Owned
    <3>4. ASSUME NEW i \in 1..Len(Tail(t)), Is(Tail(t), i, "page", l)
          PROVE  Reached(feed, rows, l, Tail(t)[i].off, g) /\ (l = "cities" => Bare(rows, g))
      <4>1. i + 1 \in 1..Len(t) /\ Tail(t)[i] = t[i + 1] /\ i \in Nat /\ i > 0
        BY <1>1, <1>11, TailFacts
      <4>2. t[i + 1].op = "page" /\ i + 1 > 1 BY <3>4, <4>1 DEF Is
      <4>3. t[i + 1].off = 0 BY <1>13, <4>1, <4>2 DEF BoundaryTodo
      <4>4. \A k \in 1..Len(feed[l]) : ~(k <= 0) OBVIOUS
      <4>5. Reached(feed, rows, l, 0, g) BY <4>4 DEF Reached
      <4> QED BY <3>2, <4>1, <4>3, <4>5 DEF Bare
    <3>5. Has(Tail(t), "page", l)
      <4>1. Has(t, "stale", l) /\ Bumps(t) BY <1>1, HasTail DEF Bumps
      <4>2. Has(t, "page", l)
        <5>1. PICK k \in 1..Len(t) : Is(t, k, "stale", l) BY <4>1 DEF Has
        <5> QED BY <1>13, <4>1, <5>1 DEF BoundaryTodo, Is
      <4>3. ~Is(t, 1, "page", l) BY <1>1 DEF Is
      <4> QED BY <1>1, <4>2, <4>3, HasTail
    <3> QED BY <3>3, <3>4, <3>5
  <2>7. ~AtKick(h.todo) BY <1>12, <2>3
  <2>8. Good(feed, rows, gen', jobs, [run EXCEPT ![w] = h])
    BY ONLY <1>2, <1>10, <1>12, <2>4, <2>5, <2>6, <2>7, HandlerStep, w \in Workers, a \in jobs
  <2> QED BY <2>8, <1>7, <1>8
<1>14. CASE a.kind \in BoundaryKinds \cup {"parcels"} /\ KickTodo(t) /\ t[1].layer = "parcels"
  <2>1. t = Tail(Kickoff) BY <1>1, <1>14, KickTodoFacts
  <2>2. KickTodo(Tail(t)) BY <2>1 DEF KickTodo
  <2>3. s = "parcels" BY <1>14
  <2>4. \A o : \A l \in Boundaries : ~Has(Tail(t), o, l) BY <2>2, KickTodoFacts DEF Has, Is
  <2>5. a.kind # "page" BY <1>14 DEF BoundaryKinds
  <2>6. g \in 1..gen'["parcels"] BY <2>3, <1>6, <1>9
  <2>7. \A r \in rows["parcels"] : r.gen # g
    <3>1. \A r \in rows["parcels"] : r.gen <= gen["parcels"] /\ r.gen \in Nat
      <4>1. rows["parcels"] \subseteq Row /\ SourceOf("parcels") = "parcels" BY <1>3 DEF TablesOK
      <4> QED BY <1>3, <4>1, ConstantFacts DEF TablesOK, Row
    <3> QED BY <3>1, <2>3, <1>6
  <2>8. \A j \in jobs : j.kind = "page" => j.gen # g
    <3>1. \A j \in jobs : j.kind = "page" => j.gen \in 1..gen["parcels"] BY DEF Good, HandlersOK
    <3> QED BY <3>1, <2>3, <1>6
  <2>9. \A v \in Workers : v # w /\ AtKick(run[v].todo) => run[v].gen # g
    <3> SUFFICES ASSUME NEW v \in Workers, AtKick(run[v].todo) PROVE run[v].gen # g OBVIOUS
    <3>1. Len(run[v].todo) = 1 BY DEF AtKick
    <3>2. run[v].job # <<>>
      <4> SUFFICES ASSUME run[v].job = <<>> PROVE FALSE OBVIOUS
      <4>1. run[v] = Idle BY DEF Good, RunsOK
      <4>2. run[v].todo = <<>> BY <4>1 DEF Idle
      <4> QED BY <3>1, <4>2
    <3>3. PICK j \in jobs : j.id = run[v].job BY <3>2 DEF Good, RunsOK
    <3>4. TodoOK(gen, j, run[v]) BY <3>3 DEF Good, HandlersOK
    <3>5. run[v].gen \in 1..gen["parcels"] BY <3>4 DEF TodoOK
    <3> QED BY <3>5, <2>3, <1>6
  <2> HIDE DEF g
  <2>10. TodoOK(gen', a, h) BY <1>12, <2>2, <2>4, <2>5, <2>6 DEF TodoOK
  <2>11. \A l \in Boundaries : LayerOK(feed, rows, h, l) BY <1>12, <2>4 DEF LayerOK
  <2>12. /\ \A r \in rows["parcels"] : r.gen # h.gen
         /\ \A j \in jobs : j.kind = "page" => j.gen # h.gen
         /\ \A v \in Workers : v # w /\ AtKick(run[v].todo) => run[v].gen # h.gen
    BY <1>12, <2>7, <2>8, <2>9
  <2>13. Good(feed, rows, gen', jobs, [run EXCEPT ![w] = h])
    BY ONLY <1>2, <1>10, <1>12, <2>5, <2>10, <2>11, <2>12, HandlerStep, w \in Workers, a \in jobs
  <2> QED BY <2>13, <1>7, <1>8
<1> QED BY <1>1, <1>2, <1>13, <1>14, WhoseStep

-----------------------------------------------------------------------------
(* What is enqueued.                                                       *)

LEMMA FreeId ==
  ASSUME IsFiniteSet(jobs), NEW k
  PROVE  \E n \in 1..(Cardinality(jobs) + 1) : \A j \in jobs : j.id # <<k, n>>
<1> DEFINE C == Cardinality(jobs)
           S == 1..(C + 1)
           f == [n \in S |-> CHOOSE j \in jobs : j.id = <<k, n>>]
<1> SUFFICES ASSUME \A n \in S : \E j \in jobs : j.id = <<k, n>> PROVE FALSE OBVIOUS
<1>1. C \in Nat BY FS_CardinalityType
<1>2. IsFiniteSet(S) /\ Cardinality(S) = C + 1 BY <1>1, FS_Interval
<1>3. \A n \in S : f[n] \in jobs /\ f[n].id = <<k, n>> OBVIOUS
<1>4. f \in [S -> jobs] BY <1>3
<1>5. Cardinality(jobs) < Cardinality(S) BY <1>1, <1>2
<1> HIDE DEF f, S, C
<1>6. PICK x \in S, y \in S : x # y /\ f[x] = f[y] BY <1>2, <1>4, <1>5, FS_PigeonHole
<1>7. <<k, x>> = <<k, y>> BY <1>3, <1>6
<1> QED BY <1>6, <1>7

LEMMA NewRowFacts ==
  ASSUME IsFiniteSet(jobs), NEW k
  PROVE  \E n \in Nat :
            /\ NewRow(k) = [id |-> <<k, n>>, kind |-> k, gen |-> 0, off |-> 0, tries |-> 0,
                            clean |-> TRUE]
            /\ \A j \in jobs : j.id # <<k, n>>
<1> DEFINE S == 1..(Cardinality(jobs) + 1)
           n == CHOOSE n \in S : \A j \in jobs : j.id # <<k, n>>
<1>1. n \in S /\ \A j \in jobs : j.id # <<k, n>> BY FreeId
<1>2. n \in Nat
  <2>1. Cardinality(jobs) \in Nat BY FS_CardinalityType
  <2> HIDE DEF n
  <2> QED BY <1>1, <2>1
<1>3. NewRow(k) = [id |-> <<k, n>>, kind |-> k, gen |-> 0, off |-> 0, tries |-> 0, clean |-> TRUE]
  BY DEF NewRow
<1> HIDE DEF n
<1> QED BY <1>1, <1>2, <1>3

\* The schedulers and the operator enqueue refreshes, never a page.
LEMMA NewKind ==
  ASSUME Good(feed, rows, gen, jobs, run), NEW A, NEW k \in Kinds, k \notin A, k # "page",
         Good(feed, rows, gen, jobs \cup NewRows(A), run)
  PROVE  Good(feed, rows, gen, jobs \cup NewRows(A \cup {k}), run)
<1>1. IsFiniteSet(jobs) BY DEF Good, QueueOK
<1>2. PICK n \in Nat : /\ NewRow(k) = [id |-> <<k, n>>, kind |-> k, gen |-> 0, off |-> 0,
                                       tries |-> 0, clean |-> TRUE]
                       /\ \A j \in jobs : j.id # <<k, n>>
  BY <1>1, NewRowFacts
<1> DEFINE p == NewRow(k)
<1>3. p.id = <<k, n>> /\ p.kind = k /\ p.tries = 0 BY <1>2
<1>4. p \in JobRow BY <1>2, ConstantFacts DEF JobRow, Id
<1>5. ASSUME NEW i \in A PROVE NewRow(i).id # <<k, n>>
  <2>1. PICK m \in Nat : NewRow(i) = [id |-> <<i, m>>, kind |-> i, gen |-> 0, off |-> 0,
                                      tries |-> 0, clean |-> TRUE]
    BY <1>1, NewRowFacts
  <2>2. NewRow(i).id = <<i, m>> BY <2>1
  <2> QED BY <2>2
<1>6. \A j \in jobs \cup NewRows(A) : j.id # p.id BY <1>2, <1>3, <1>5 DEF NewRows
<1>7. jobs \cup NewRows(A \cup {k}) = (jobs \cup NewRows(A)) \cup {p} BY DEF NewRows
<1> DEFINE J == jobs \cup NewRows(A)
<1> HIDE DEF p, J
<1>8. Good(feed, rows, gen, J, run) /\ \A j \in J : j.id # p.id BY <1>6 DEF J
<1>9. Good(feed, rows, gen, J \cup {p}, run) BY <1>3, <1>4, <1>8, AddStep
<1> QED BY <1>7, <1>9 DEF J, p

LEMMA NewRowsGood ==
  ASSUME Good(feed, rows, gen, jobs, run), NEW A \in SUBSET {"initial", "parcels", "zip", "annual"}
  PROVE  Good(feed, rows, gen, jobs \cup NewRows(A), run)
<1> DEFINE B(S) == A \cap S
           Ok(S) == Good(feed, rows, gen, jobs \cup NewRows(B(S)), run)
<1>1. Ok({})
  <2>1. jobs \cup NewRows(B({})) = jobs BY DEF NewRows
  <2> QED BY <2>1
<1>2. ASSUME NEW S, NEW k \in {"initial", "parcels", "zip", "annual"}, k \notin S, Ok(S)
      PROVE  Ok(S \cup {k})
  <2>1. CASE k \notin A
    <3>1. B(S \cup {k}) = B(S) BY <2>1
    <3> QED BY <1>2, <3>1
  <2>2. CASE k \in A
    <3>1. B(S \cup {k}) = B(S) \cup {k} /\ k \notin B(S) BY <1>2, <2>2
    <3>2. k \in Kinds /\ k # "page" BY DEF Kinds, BoundaryKinds
    <3>3. Good(feed, rows, gen, jobs \cup NewRows(B(S) \cup {k}), run)
      BY <1>2, <3>1, <3>2, NewKind
    <3> QED BY <3>1, <3>3
  <2> QED BY <2>1, <2>2
<1> HIDE DEF Ok
<1>3. Ok({} \cup {"initial"}) BY <1>1, <1>2
<1>4. Ok(({} \cup {"initial"}) \cup {"parcels"}) BY <1>2, <1>3
<1>5. Ok((({} \cup {"initial"}) \cup {"parcels"}) \cup {"zip"}) BY <1>2, <1>4
<1>6. Ok(((({} \cup {"initial"}) \cup {"parcels"}) \cup {"zip"}) \cup {"annual"}) BY <1>2, <1>5
<1>7. B(((({} \cup {"initial"}) \cup {"parcels"}) \cup {"zip"}) \cup {"annual"}) = A OBVIOUS
<1> QED BY <1>6, <1>7 DEF Ok

\* The row of a page.
LEMMA PageRow ==
  ASSUME IsFiniteSet(jobs), NEW g, NEW o, NEW c
  PROVE  LET p == [NewRow("page") EXCEPT !.gen = g, !.off = o, !.clean = c]
         IN  \E n \in Nat :
                /\ p = [id |-> <<"page", n>>, kind |-> "page", gen |-> g, off |-> o,
                        tries |-> 0, clean |-> c]
                /\ \A j \in jobs : j.id # <<"page", n>>
<1>1. PICK n \in Nat : /\ NewRow("page") = [id |-> <<"page", n>>, kind |-> "page", gen |-> 0,
                                            off |-> 0, tries |-> 0, clean |-> TRUE]
                       /\ \A j \in jobs : j.id # <<"page", n>>
  BY NewRowFacts
<1> DEFINE i == <<"page", n>>
           k == "page"
           z == 0
           t == TRUE
           r == NewRow("page")
           u == [r EXCEPT !.gen = g]
           v == [u EXCEPT !.off = o]
           x == [v EXCEPT !.clean = c]
<1>2. r = [id |-> i, kind |-> k, gen |-> z, off |-> z, tries |-> z, clean |-> t]
  BY <1>1
<1> HIDE DEF i, k, z, t, r
<1>3. u = [id |-> i, kind |-> k, gen |-> g, off |-> z, tries |-> z, clean |-> t] BY <1>2
<1> HIDE DEF u
<1>4. v = [id |-> i, kind |-> k, gen |-> g, off |-> o, tries |-> z, clean |-> t] BY <1>3
<1> HIDE DEF v
<1>5. x = [id |-> i, kind |-> k, gen |-> g, off |-> o, tries |-> z, clean |-> c] BY <1>4
<1>6. [NewRow("page") EXCEPT !.gen = g, !.off = o, !.clean = c]
        = [id |-> <<"page", n>>, kind |-> "page", gen |-> g, off |-> o, tries |-> 0, clean |-> c]
  BY ONLY <1>5 DEF i, k, z, r, u, v, x
<1> HIDE DEF x
<1> QED BY ONLY <1>1, <1>6

\* The page after this one belongs to the same chain.
LEMMA NextPageGood ==
  ASSUME Good(feed, rows, gen, jobs, run), NEW w \in Workers, EnqueuePage(w), Doing(w, "next")
  PROVE  Good(feed', rows', gen', jobs', run')
<1> DEFINE t == run[w].todo
           R == [run EXCEPT ![w] = With(run[w], <<>>)]
<1>1. Busy(w) /\ t # <<>> /\ Now(w) = t[1] /\ t[1].op = "next" /\ Then(w) = Tail(t)
  BY DoingFacts
<1>2. PICK a \in jobs : /\ run[w].job = a.id /\ Job(run[w].job) = a /\ a \in JobRow
                        /\ TodoOK(gen, a, run[w]) /\ run[w] \in Handler
  BY <1>1, Working
<1>3. a.kind = "page" /\ PageTodo(t, a.off)
  <2>1. "next" \notin BoundaryOps BY DEF BoundaryOps
  <2> QED BY <1>1, <1>2, <2>1, WhoseStep
<1>4. Tail(t) = <<>> /\ t[1].off = a.off + PageSize BY <1>1, <1>3, PageTodoFacts
<1>5. ~Doing(w, "kick")
  <2>1. \A o : Doing(w, o) => t[1].op = o BY DoingFacts
  <2> QED BY <1>1, <2>1
<1>6. run[w].gen = a.gen BY <1>2, <1>3 DEF TodoOK
<1> DEFINE p == [NewRow("page") EXCEPT !.gen = a.gen, !.off = a.off + PageSize, !.clean = a.clean]
<1>7. /\ jobs' = jobs \cup {p} /\ run' = [run EXCEPT ![w].todo = <<>>]
      /\ feed' = feed /\ rows' = rows /\ gen' = gen
  <2>1. jobs = {j : j \in jobs} OBVIOUS
  <2>2. p = [NewRow("page") EXCEPT
                    !.gen = run[w].gen, !.off = Now(w).off, !.clean = Job(run[w].job).clean]
    BY <1>1, <1>2, <1>4, <1>6
  <2>3. run' = [run EXCEPT ![w].todo = <<>>] BY <1>1, <1>4 DEF EnqueuePage, Go
  <2>4. jobs' = jobs \cup {p}
    <3> HIDE DEF p
    <3> QED BY <1>5, <2>1, <2>2 DEF EnqueuePage
  <2> QED BY <2>3, <2>4 DEF EnqueuePage
<1>8. IsFiniteSet(jobs) BY DEF Good, QueueOK
<1>9. PICK n \in Nat : /\ p = [id |-> <<"page", n>>, kind |-> "page", gen |-> a.gen,
                               off |-> a.off + PageSize, tries |-> 0, clean |-> a.clean]
                       /\ \A j \in jobs : j.id # <<"page", n>>
  BY <1>8, PageRow
<1> HIDE DEF p
<1>10. /\ p.id = <<"page", n>> /\ p.kind = "page" /\ p.gen = a.gen /\ p.off = a.off + PageSize
       /\ p.tries = 0 /\ p.clean = a.clean
  BY <1>9
<1>11. p \in JobRow
  <2>1. a.gen \in 0..MaxGen /\ a.off + PageSize \in Nat /\ a.clean \in BOOLEAN
    BY <1>2, ConstantFacts DEF JobRow
  <2>2. <<"page", n>> \in Id BY DEF Id, Kinds
  <2> QED BY <1>9, <2>1, <2>2, ConstantFacts DEF JobRow, Kinds
<1>12. Good(feed, rows, gen, jobs, R)
  <2>1. PageTodo(<<>>, a.off) /\ <<>> \in Seq(Steps) BY DEF PageTodo
  <2> QED BY <1>2, <1>3, <2>1, PageStep
<1>13. a.gen \in 1..gen["parcels"] BY <1>3 DEF Good, HandlersOK
<1>14. \A j \in jobs : j.kind = "page" => j.clean = a.clean /\ (a.clean => j.gen = a.gen)
  <2>1. \A j \in jobs : j.clean \in BOOLEAN BY DEF Good, QueueOK, JobRow
  <2> QED BY <1>3, <2>1 DEF Good, OneChain
<1>15. a.clean => /\ Owned(feed, rows, "parcels", a.gen)
                  /\ Reached(feed, rows, "parcels", a.off + PageSize, a.gen)
  BY <1>1, <1>2, <1>3 DEF Good, ChainOK
<1>16. \A v \in Workers : AtKick(R[v].todo) => R[v].gen # a.gen
  BY <1>3, <1>12 DEF Good, Unborn
<1>17. run' = R BY <1>7, GoFacts
<1> HIDE DEF R
<1>18. Good(feed, rows, gen, jobs \cup {p}, R)
  BY <1>9, <1>10, <1>11, <1>12, <1>13, <1>14, <1>15, <1>16, AddStep
<1> QED BY <1>7, <1>17, <1>18

\* The first page of a kickoff starts a chain and spoils the ones in flight.
LEMMA FirstPageGood ==
  ASSUME Good(feed, rows, gen, jobs, run), NEW w \in Workers, EnqueuePage(w), Doing(w, "kick")
  PROVE  Good(feed', rows', gen', jobs', run')
<1> DEFINE t == run[w].todo
           g == run[w].gen
           c == ~ActivePage /\ Newest(g)
           R == [run EXCEPT ![w] = With(run[w], <<>>)]
           m == [j \in jobs |-> IF j.kind = "page" THEN [j EXCEPT !.clean = FALSE] ELSE j]
           K == {m[j] : j \in jobs}
           p == [NewRow("page") EXCEPT !.gen = g, !.off = 0, !.clean = c]
<1>1. Busy(w) /\ t # <<>> /\ Now(w) = t[1] /\ t[1].op = "kick" /\ Then(w) = Tail(t)
  BY DoingFacts
<1>2. PICK a \in jobs : /\ run[w].job = a.id /\ Job(run[w].job) = a /\ a \in JobRow
                        /\ TodoOK(gen, a, run[w]) /\ run[w] \in Handler
  BY <1>1, Working
<1>3. a.kind \in BoundaryKinds \cup {"parcels"} /\ KickTodo(t)
  <2>1. "kick" \notin BoundaryOps BY DEF BoundaryOps
  <2> QED BY <1>1, <1>2, <2>1, WhoseStep
<1>4. t = Tail(Tail(Kickoff)) /\ t[1].off = 0 /\ AtKick(t) BY <1>1, <1>3, KickTodoFacts
<1>5. Tail(t) = <<>> BY <1>4, KickoffFacts
<1>6. g \in 1..gen["parcels"] BY <1>2, <1>4 DEF TodoOK
<1>7. /\ jobs' = K \cup {p} /\ run' = [run EXCEPT ![w].todo = <<>>]
      /\ feed' = feed /\ rows' = rows /\ gen' = gen
  <2>1. K = {IF Doing(w, "kick") /\ j.kind = "page" THEN [j EXCEPT !.clean = FALSE] ELSE j : j \in jobs}
    OBVIOUS
  <2>2. p = [NewRow("page") EXCEPT !.gen = run[w].gen, !.off = Now(w).off,
                !.clean = IF Doing(w, "kick") THEN ~ActivePage /\ Newest(run[w].gen)
                          ELSE Job(run[w].job).clean]
    BY <1>1, <1>4
  <2>3. run' = [run EXCEPT ![w].todo = <<>>] BY <1>1, <1>5 DEF EnqueuePage, Go
  <2>4. jobs' = K \cup {p}
    <3> HIDE DEF K, p
    <3> QED BY <2>1, <2>2 DEF EnqueuePage
  <2> QED BY <2>3, <2>4 DEF EnqueuePage
<1>8. Good(feed, rows, gen, jobs, R)
  <2>1. KickTodo(<<>>) /\ ~AtKick(<<>>) BY DEF KickTodo, AtKick
  <2> QED BY <1>2, <1>3, <2>1, KickoffStep
<1>9. IsFiniteSet(jobs) /\ jobs \subseteq JobRow BY DEF Good, QueueOK
<1>10. /\ m \in [jobs -> JobRow]
       /\ \A j \in jobs : /\ m[j].id = j.id /\ m[j].kind = j.kind /\ m[j].gen = j.gen
                          /\ m[j].off = j.off /\ m[j].tries = j.tries
                          /\ m[j].clean => j.clean /\ j.kind # "page"
                          /\ j.kind = "page" => m[j].clean = FALSE
  <2> SUFFICES ASSUME NEW j \in jobs
               PROVE  /\ m[j] \in JobRow
                      /\ m[j].id = j.id /\ m[j].kind = j.kind /\ m[j].gen = j.gen
                      /\ m[j].off = j.off /\ m[j].tries = j.tries
                      /\ m[j].clean => j.clean /\ j.kind # "page"
                      /\ j.kind = "page" => m[j].clean = FALSE
    OBVIOUS
  <2>1. j \in JobRow BY <1>9
  <2>2. m[j] = IF j.kind = "page" THEN [j EXCEPT !.clean = FALSE] ELSE j OBVIOUS
  <2> HIDE DEF m
  <2> QED BY <2>1, <2>2 DEF JobRow
<1> HIDE DEF m
<1>11. Good(feed, rows, gen, K, R)
  <2>1. FeedOK(feed) BY DEF Good
  <2> HIDE DEF R
  <2> QED BY <1>8, <1>10, <2>1, UncleanStep
<1>12. PICK n \in Nat : /\ p = [id |-> <<"page", n>>, kind |-> "page", gen |-> g, off |-> 0,
                                tries |-> 0, clean |-> c]
                        /\ \A j \in jobs : j.id # <<"page", n>>
  BY <1>9, PageRow
<1>13. c \in BOOLEAN BY DEF ActivePage, Newest
<1>14. c => /\ \A j \in jobs : j.kind # "page"
            /\ \A r \in rows["parcels"] : r.gen <= g
  BY DEF ActivePage, Newest
<1> HIDE DEF p, c
<1>15. /\ p.id = <<"page", n>> /\ p.kind = "page" /\ p.gen = g /\ p.off = 0
       /\ p.tries = 0 /\ p.clean = c
  BY <1>12
<1>16. p \in JobRow
  <2>1. g \in 0..MaxGen BY <1>2 DEF Handler
  <2>2. <<"page", n>> \in Id BY DEF Id, Kinds
  <2> QED BY <1>12, <1>13, <2>1, <2>2, ConstantFacts DEF JobRow, Kinds
<1>17. \A k \in K : k.id # p.id BY <1>10, <1>12, <1>15
<1>18. \A v \in Workers : AtKick(R[v].todo) => R[v].gen # g
  <2>1. run \in [Workers -> Handler] BY DEF Good, RunsOK
  <2>2. R[w].todo = <<>> /\ \A v \in Workers : v # w => R[v] = run[v] BY <2>1 DEF With
  <2>3. ~AtKick(R[w].todo) BY <2>2 DEF AtKick
  <2>4. \A v \in Workers : v # w /\ AtKick(run[v].todo) => run[v].gen # g
    BY <1>4 DEF Good, Unborn
  <2> HIDE DEF R
  <2> QED BY <2>2, <2>3, <2>4
<1>19. \A k \in K : k.kind = "page" => k.clean = c /\ (c => k.gen = g)
  <2> SUFFICES ASSUME NEW k \in K, k.kind = "page" PROVE k.clean = c /\ ~c OBVIOUS
  <2>1. PICK j \in jobs : k = m[j] OBVIOUS
  <2>2. j.kind = "page" /\ k.clean = FALSE BY <1>10, <2>1
  <2> QED BY <1>13, <1>14, <2>2
<1>20. c => Owned(feed, rows, "parcels", g) /\ Reached(feed, rows, "parcels", 0, g)
  <2> SUFFICES ASSUME c PROVE Owned(feed, rows, "parcels", g) /\ Reached(feed, rows, "parcels", 0, g)
    OBVIOUS
  <2>1. \A r \in rows["parcels"] : r.gen <= g /\ r.gen # g BY <1>4, <1>14 DEF Good, Unborn
  <2>2. \A i \in 1..Len(feed["parcels"]) : ~(i <= 0) OBVIOUS
  <2> QED BY <2>1, <2>2 DEF Owned, Reached
<1>21. run' = R BY <1>7, GoFacts
<1> HIDE DEF R, K, g
<1>22. Good(feed, rows, gen, K \cup {p}, R)
  BY <1>6, <1>11, <1>15, <1>16, <1>17, <1>18, <1>19, <1>20, AddStep
<1> QED BY <1>7, <1>21, <1>22

LEMMA EnqueuePageGood ==
  ASSUME Good(feed, rows, gen, jobs, run), NEW w \in Workers, EnqueuePage(w)
  PROVE  Good(feed', rows', gen', jobs', run')
<1>1. Doing(w, "kick") \/ Doing(w, "next") BY DEF EnqueuePage
<1> QED BY <1>1, FirstPageGood, NextPageGood

-----------------------------------------------------------------------------
(* A worker reserves a job.                                                *)

\* The handler h of job a begins on worker w; the row of a counts the attempt,
\* and the boundary refreshes that meet lose their mark.
LEMMA ReserveStep ==
  ASSUME NEW F, NEW T, NEW G, NEW J, NEW R, Good(F, T, G, J, R),
         NEW w \in Workers, R[w].job = <<>>, NEW a \in J, \A v \in Workers : R[v].job # a.id,
         NEW m \in [J -> JobRow],
         \A j \in J : /\ m[j].id = j.id /\ m[j].kind = j.kind /\ m[j].gen = j.gen
                      /\ m[j].off = j.off
                      /\ m[j].clean => j.clean
                      /\ j.kind = "page" => m[j].clean = j.clean
                      /\ j # a => m[j].tries = j.tries,
         \A v \in Workers, i \in J :
            R[v].job = i.id /\ i.kind \in BoundaryKinds /\ a.kind \in BoundaryKinds
                => ~m[i].clean /\ ~m[a].clean,
         NEW h \in Handler, h.job = a.id, TodoOK(G, a, h), ~AtKick(h.todo),
         a.kind \in BoundaryKinds => \A l \in Boundaries : LayerOK(F, T, h, l),
         a.kind = "page" => h.todo[1].op = "page"
  PROVE  Good(F, T, G, {m[j] : j \in J}, [R EXCEPT ![w] = h])
<1> DEFINE K == {m[j] : j \in J}
           Q == [R EXCEPT ![w] = h]
<1>1. R \in [Workers -> Handler] /\ \A j \in J : j.id # <<>>
  BY IdsAreReal DEF Good, RunsOK, QueueOK, JobRow
<1>2. Q \in [Workers -> Handler] /\ Q[w] = h /\ \A v \in Workers : v # w => Q[v] = R[v]
  BY <1>1
<1>3. QueueOK(K) BY RelabelQueue DEF Good
<1>4. \A k \in K : \E j \in J : k = m[j] OBVIOUS
<1>5. \A j \in J : m[j] \in K OBVIOUS
<1>6. \A j \in J : j.id = a.id => j = a BY DEF Good, QueueOK
<1> HIDE DEF K, Q
<1>7. RunsOK(K, Q)
  <2>1. RunsOK(J, R) BY DEF Good
  <2>2. \A v \in Workers : Q[v].job = <<>> => Q[v] = Idle BY <2>1, <1>1, <1>2 DEF RunsOK
  <2>3. ASSUME NEW v \in Workers, Q[v].job # <<>> PROVE \E k \in K : k.id = Q[v].job
    <3>1. PICK j \in J : j.id = Q[v].job
      <4>1. CASE v = w BY <4>1, <1>2
      <4>2. CASE v # w BY <4>2, <1>2, <2>1, <2>3 DEF RunsOK
      <4> QED BY <4>1, <4>2
    <3> QED BY <3>1, <1>5
  <2>4. \A u, v \in Workers : u # v /\ Q[u].job # <<>> => Q[u].job # Q[v].job
    BY <2>1, <1>1, <1>2 DEF RunsOK
  <2>5. ASSUME NEW k \in K, \A v \in Workers : Q[v].job # k.id PROVE k.tries < MaxTries
    <3>1. PICK j \in J : k = m[j] BY <1>4
    <3>2. k.id = j.id BY <3>1
    <3>3. j # a BY <3>2, <2>5, <1>2
    <3>4. \A v \in Workers : R[v].job # j.id BY <3>2, <2>5, <1>1, <1>2
    <3>5. j.tries < MaxTries BY <3>4, <2>1 DEF RunsOK
    <3> QED BY <3>1, <3>3, <3>5
  <2> QED BY <1>2, <2>2, <2>3, <2>4, <2>5 DEF RunsOK
<1>8. ASSUME NEW v \in Workers, NEW j \in J, Q[v].job = j.id
      PROVE  \/ v = w /\ j = a /\ Q[v] = h
             \/ v # w /\ j # a /\ Q[v] = R[v] /\ R[v].job = j.id
  BY <1>2, <1>6, <1>8
<1>9. HandlersOK(G, K, Q)
  <2>1. ASSUME NEW k \in K, k.kind = "page" PROVE k.gen \in 1..G["parcels"]
    <3>1. PICK j \in J : k = m[j] BY <1>4
    <3>2. j.kind = "page" /\ k.gen = j.gen BY <3>1, <2>1
    <3> QED BY <3>2 DEF Good, HandlersOK
  <2>2. ASSUME NEW k \in K, NEW v \in Workers, Q[v].job = k.id PROVE TodoOK(G, k, Q[v])
    <3>1. PICK j \in J : k = m[j] BY <1>4
    <3>2. k.id = j.id /\ k.kind = j.kind /\ k.off = j.off /\ k.gen = j.gen BY <3>1
    <3>3. TodoOK(G, j, Q[v]) BY <3>2, <2>2, <1>8 DEF Good, HandlersOK
    <3> QED BY <3>2, <3>3 DEF TodoOK
  <2> QED BY <2>1, <2>2 DEF HandlersOK
<1>10. Alone(K, Q)
  <2> SUFFICES ASSUME NEW u \in Workers, NEW v \in Workers, NEW i \in K, NEW k \in K,
                      u # v, Q[u].job = i.id, Q[v].job = k.id,
                      i.kind \in BoundaryKinds, k.kind \in BoundaryKinds
               PROVE  ~i.clean /\ ~k.clean
    BY DEF Alone
  <2>1. PICK i2 \in J : i = m[i2] BY <1>4
  <2>2. PICK k2 \in J : k = m[k2] BY <1>4
  <2>3. i2.kind \in BoundaryKinds /\ k2.kind \in BoundaryKinds /\ Q[u].job = i2.id /\ Q[v].job = k2.id
    BY <2>1, <2>2
  <2>4. CASE u = w
    <3>1. i2 = a /\ R[v].job = k2.id BY <2>3, <2>4, <1>8
    <3> QED BY <3>1, <2>1, <2>2, <2>3
  <2>5. CASE v = w
    <3>1. k2 = a /\ R[u].job = i2.id BY <2>3, <2>5, <1>8
    <3> QED BY <3>1, <2>1, <2>2, <2>3
  <2>6. CASE u # w /\ v # w
    <3>1. R[u].job = i2.id /\ R[v].job = k2.id BY <2>3, <2>6, <1>8
    <3>2. ~i2.clean /\ ~k2.clean BY <3>1, <2>3 DEF Good, Alone
    <3> QED BY <3>2, <2>1, <2>2
  <2> QED BY <2>4, <2>5, <2>6
<1>11. BoundariesOK(F, T, K, Q)
  <2> SUFFICES ASSUME NEW v \in Workers, NEW k \in K, Q[v].job = k.id,
                      k.kind \in BoundaryKinds, k.clean, NEW l \in Boundaries
               PROVE  LayerOK(F, T, Q[v], l)
    BY DEF BoundariesOK
  <2>1. PICK j \in J : k = m[j] BY <1>4
  <2>2. j.kind \in BoundaryKinds /\ j.clean /\ Q[v].job = j.id BY <2>1
  <2>3. CASE v = w BY <2>2, <2>3, <1>8
  <2>4. CASE v # w BY <2>2, <2>4, <1>8 DEF Good, BoundariesOK
  <2> QED BY <2>3, <2>4
<1>12. \A k \in K : \E j \in J : /\ k.id = j.id /\ k.kind = j.kind /\ k.gen = j.gen /\ k.off = j.off
                                 /\ k.kind = "page" => k.clean = j.clean
  <2> SUFFICES ASSUME NEW k \in K
               PROVE  \E j \in J : /\ k.id = j.id /\ k.kind = j.kind /\ k.gen = j.gen /\ k.off = j.off
                                   /\ k.kind = "page" => k.clean = j.clean
    OBVIOUS
  <2>1. PICK j \in J : k = m[j] BY <1>4
  <2> QED BY <2>1
<1>13. OneChain(K)
  <2> SUFFICES ASSUME NEW i \in K, NEW k \in K, i.kind = "page", k.kind = "page", k.clean
               PROVE  i.clean /\ i.gen = k.gen
    BY DEF OneChain
  <2>1. PICK x \in J : x.kind = "page" /\ x.gen = i.gen /\ i.clean = x.clean BY <1>12
  <2>2. PICK y \in J : y.kind = "page" /\ y.gen = k.gen /\ y.clean BY <1>12
  <2> QED BY <2>1, <2>2 DEF Good, OneChain
<1>14. ChainOK(F, T, K, Q)
  <2> SUFFICES ASSUME NEW k \in K, k.kind = "page", k.clean
               PROVE
        /\ Owned(F, T, "parcels", k.gen)
        /\ Reached(F, T, "parcels", k.off, k.gen)
        /\ \A v \in Workers : Q[v].job = k.id /\ Q[v].todo # <<>> =>
              /\ Q[v].todo[1].op = "next" => Reached(F, T, "parcels", k.off + PageSize, k.gen)
              /\ Q[v].todo[1].op = "stale" => Reached(F, T, "parcels", Len(F["parcels"]), k.gen)
    BY DEF ChainOK
  <2>1. PICK j \in J : /\ j.id = k.id /\ j.kind = "page" /\ j.clean /\ j.gen = k.gen /\ j.off = k.off
    BY <1>12
  <2>2. ASSUME NEW v \in Workers, Q[v].job = k.id, Q[v].todo # <<>>
        PROVE /\ Q[v].todo[1].op = "next" => Reached(F, T, "parcels", k.off + PageSize, k.gen)
              /\ Q[v].todo[1].op = "stale" => Reached(F, T, "parcels", Len(F["parcels"]), k.gen)
    <3>1. CASE v = w
      <4>1. j = a /\ Q[v] = h BY <3>1, <2>1, <2>2, <1>8
      <4>2. Q[v].todo[1].op = "page" BY <4>1, <2>1
      <4> QED BY <4>2
    <3>2. CASE v # w
      <4>1. Q[v] = R[v] /\ R[v].job = j.id BY <3>2, <2>1, <2>2, <1>8
      <4> QED BY <4>1, <2>1, <2>2 DEF Good, ChainOK
    <3> QED BY <3>1, <3>2
  <2>3. Owned(F, T, "parcels", k.gen) /\ Reached(F, T, "parcels", k.off, k.gen)
    BY <2>1 DEF Good, ChainOK
  <2> QED BY <2>2, <2>3
<1>15. Unborn(T, K, Q)
  <2>1. \A v \in Workers : AtKick(Q[v].todo) => v # w /\ Q[v] = R[v] /\ AtKick(R[v].todo)
    BY <1>2
  <2>2. ASSUME NEW v \in Workers, AtKick(Q[v].todo), NEW k \in K, k.kind = "page"
        PROVE  k.gen # Q[v].gen
    <3>1. PICK j \in J : j.kind = "page" /\ j.gen = k.gen BY <2>2, <1>12
    <3> QED BY <3>1, <2>1, <2>2 DEF Good, Unborn
  <2> QED BY <2>1, <2>2 DEF Good, Unborn
<1>16. Good(F, T, G, K, Q)
  BY <1>3, <1>7, <1>9, <1>10, <1>11, <1>13, <1>14, <1>15 DEF Good
<1> QED BY <1>16 DEF K, Q

\* What a handler has to do at its start.
LEMMA PlanFacts ==
  ASSUME Good(feed, rows, gen, jobs, run), NEW a \in jobs, NEW h,
         h = [job |-> a.id, gen |-> a.gen, todo |-> Plan(a)]
  PROVE  /\ h \in Handler /\ h.job = a.id /\ TodoOK(gen, a, h) /\ ~AtKick(h.todo)
         /\ a.kind \in BoundaryKinds => \A l \in Boundaries : LayerOK(feed, rows, h, l)
         /\ a.kind = "page" => h.todo[1].op = "page"
<1>1. a \in JobRow BY DEF Good, QueueOK
<1>2. a.kind \in Kinds /\ a.off \in Nat /\ a.id \in Id /\ a.gen \in 0..MaxGen BY <1>1 DEF JobRow
<1>3. h.job = a.id /\ h.gen = a.gen /\ h.todo = Plan(a) OBVIOUS
<1>4. Plan(a) \in Seq(Steps) => h \in Handler BY <1>2 DEF Handler
<1>5. CASE a.kind \in BoundaryKinds
  <2>1. Planned(Plan(a)) BY <1>5, BoundaryPlan
  <2>2. BoundaryTodo(h.todo) /\ h.todo \in Seq(Steps)
    BY <2>1, <1>3 DEF Planned, BoundaryTodo
  <2>3. a.kind # "parcels" /\ a.kind # "page" BY <1>5 DEF BoundaryKinds
  <2>4. ~AtKick(h.todo)
    <3> SUFFICES ASSUME AtKick(h.todo) PROVE FALSE OBVIOUS
    <3>1. Len(h.todo) = 1 /\ h.todo[1].op = "kick" BY DEF AtKick
    <3>2. h.todo[1].op \in BoundaryOps BY ONLY <2>2, <3>1 DEF BoundaryTodo
    <3> QED BY <3>1, <3>2 DEF BoundaryOps
  <2>5. ~Bumps(h.todo) => \A l \in Boundaries : ~Has(h.todo, "page", l) /\ ~Has(h.todo, "stale", l)
    BY <2>1, <1>3 DEF Planned
  <2>6. TodoOK(gen, a, h) BY <2>2, <2>3, <2>4, <2>5 DEF TodoOK
  <2>7. \A l \in Boundaries : LayerOK(feed, rows, h, l) BY <2>5 DEF LayerOK
  <2> QED BY <1>3, <1>4, <2>2, <2>3, <2>4, <2>6, <2>7
<1>6. CASE a.kind = "parcels"
  <2>1. a.kind \notin BoundaryKinds /\ a.kind # "page" BY <1>6 DEF BoundaryKinds
  <2>2. h.todo = Kickoff BY <1>3, <1>6 DEF Plan
  <2>3. KickTodo(h.todo) /\ ~AtKick(h.todo) /\ Plan(a) \in Seq(Steps)
    BY <1>3, <2>2, KickoffFacts DEF KickTodo, AtKick
  <2> QED BY <1>3, <1>4, <2>1, <2>3 DEF TodoOK
<1>7. CASE a.kind = "page"
  <2>1. a.kind \notin BoundaryKinds /\ a.kind # "parcels" BY <1>7 DEF BoundaryKinds
  <2> DEFINE s == Step("page", "parcels", a.off)
  <2>2. h.todo = <<s>> BY <1>3, <1>7 DEF Plan
  <2>3. s.op = "page" /\ s \in Steps BY <1>2, StepFacts, StepType DEF BoundaryOps
  <2>4. PageTodo(h.todo, a.off) BY <2>2 DEF PageTodo
  <2> HIDE DEF s
  <2>5. h.todo[1].op = "page" /\ Plan(a) \in Seq(Steps) BY <1>3, <2>2, <2>3
  <2>6. ~AtKick(h.todo) BY <2>5 DEF AtKick
  <2> QED BY <1>3, <1>4, <2>1, <2>4, <2>5, <2>6 DEF TodoOK
<1> QED BY <1>2, <1>5, <1>6, <1>7 DEF Kinds

LEMMA StartGood ==
  ASSUME Good(feed, rows, gen, jobs, run), Start
  PROVE  Good(feed', rows', gen', jobs', run')
<1> DEFINE w == CHOOSE v \in Workers : ~Busy(v)
           inFlight == {i \in jobs : i.id \in Others(w) /\ i.kind \in BoundaryKinds}
           meets(j) == j.kind \in BoundaryKinds /\ inFlight # {}
           h(j) == [job |-> j.id, gen |-> j.gen, todo |-> Plan(j)]
           mark(j, i) == IF i = j THEN [j EXCEPT !.tries = @ + 1, !.clean = @ /\ ~meets(j)]
                         ELSE IF meets(j) /\ i \in inFlight THEN [i EXCEPT !.clean = FALSE]
                         ELSE i
<1>1. PICK a \in jobs : /\ \E v \in Workers : ~Busy(v)
                        /\ a.id \notin Others(w)
                        /\ jobs' = {mark(a, i) : i \in jobs}
                        /\ run' = [run EXCEPT ![w] = h(a)]
                        /\ feed' = feed /\ rows' = rows /\ gen' = gen
  BY DEF Start
<1>2. w \in Workers /\ run[w].job = <<>> BY <1>1 DEF Busy
<1>3. \A v \in Workers : run[v].job # <<>> => v # w /\ run[v].job \in Others(w)
  BY <1>2 DEF Others, Busy
<1>4. jobs \subseteq JobRow /\ a \in JobRow /\ \A j \in jobs : j.id # <<>>
  BY IdsAreReal DEF Good, QueueOK, JobRow
<1>5. \A v \in Workers : run[v].job # a.id BY <1>1, <1>3, <1>4
<1>6. a.tries < MaxTries BY <1>5 DEF Good, RunsOK
<1> DEFINE M == meets(a)
           m == [i \in jobs |-> mark(a, i)]
<1>7. \A v \in Workers, i \in jobs :
         run[v].job = i.id /\ i.kind \in BoundaryKinds /\ a.kind \in BoundaryKinds
             => i \in inFlight /\ i # a /\ M
  BY <1>3, <1>4, <1>5
<1>8. \A i \in inFlight : i.kind # "page" BY DEF BoundaryKinds
<1>9. \A i \in jobs : m[i] = mark(a, i) OBVIOUS
<1>10. jobs' = {m[i] : i \in jobs} BY <1>1
<1>11. M \in BOOLEAN /\ (M => a.kind # "page") BY DEF BoundaryKinds
<1> HIDE DEF M, m, inFlight, w
<1>12. m[a] = [a EXCEPT !.tries = @ + 1, !.clean = @ /\ ~M] BY <1>9 DEF M
<1>13. \A i \in jobs : i # a => m[i] = IF M /\ i \in inFlight THEN [i EXCEPT !.clean = FALSE] ELSE i
  BY <1>9 DEF M
<1>14. /\ m[a] \in JobRow
       /\ m[a].id = a.id /\ m[a].kind = a.kind /\ m[a].gen = a.gen /\ m[a].off = a.off
       /\ m[a].clean = (a.clean /\ ~M)
  <2> DEFINE t == a.tries + 1
             c == a.clean /\ ~M
             b == [a EXCEPT !.tries = t]
  <2>1. t \in 0..MaxTries /\ c \in BOOLEAN BY <1>4, <1>6, <1>11, ConstantFacts DEF JobRow
  <2>2. m[a] = [b EXCEPT !.clean = c] BY <1>12
  <2> HIDE DEF t, c
  <2>3. /\ b \in JobRow
        /\ b.id = a.id /\ b.kind = a.kind /\ b.gen = a.gen /\ b.off = a.off
    BY <1>4, <2>1 DEF JobRow
  <2> HIDE DEF b
  <2>4. /\ m[a] \in JobRow
        /\ m[a].id = b.id /\ m[a].kind = b.kind /\ m[a].gen = b.gen /\ m[a].off = b.off
        /\ m[a].clean = c
    BY <2>1, <2>2, <2>3 DEF JobRow
  <2> QED BY <2>3, <2>4 DEF c
<1>15. ASSUME NEW i \in jobs, i # a
       PROVE  /\ m[i] \in JobRow
              /\ m[i].id = i.id /\ m[i].kind = i.kind /\ m[i].gen = i.gen /\ m[i].off = i.off
              /\ m[i].tries = i.tries
              /\ M /\ i \in inFlight => m[i].clean = FALSE
              /\ ~(M /\ i \in inFlight) => m[i].clean = i.clean
  <2>1. i \in JobRow BY <1>4
  <2>2. CASE M /\ i \in inFlight
    <3>1. m[i] = [i EXCEPT !.clean = FALSE] BY <1>13, <1>15, <2>2
    <3> QED BY <2>1, <2>2, <3>1 DEF JobRow
  <2>3. CASE ~(M /\ i \in inFlight)
    <3>1. m[i] = i BY <1>13, <1>15, <2>3
    <3> QED BY <2>1, <2>3, <3>1
  <2> QED BY <2>2, <2>3
<1>16. \A i \in jobs : m[i] \in JobRow BY <1>14, <1>15
<1>17. m \in [jobs -> JobRow] BY <1>16 DEF m
<1>18. \A j \in jobs : /\ m[j].id = j.id /\ m[j].kind = j.kind /\ m[j].gen = j.gen
                       /\ m[j].off = j.off
                       /\ m[j].clean => j.clean
                       /\ j.kind = "page" => m[j].clean = j.clean
                       /\ j # a => m[j].tries = j.tries
  <2> SUFFICES ASSUME NEW j \in jobs
               PROVE   /\ m[j].id = j.id /\ m[j].kind = j.kind /\ m[j].gen = j.gen
                       /\ m[j].off = j.off
                       /\ m[j].clean => j.clean
                       /\ j.kind = "page" => m[j].clean = j.clean
                       /\ j # a => m[j].tries = j.tries
    OBVIOUS
  <2>1. CASE j = a
    <3>1. a.clean \in BOOLEAN BY <1>4 DEF JobRow
    <3> QED BY <2>1, <3>1, <1>11, <1>14
  <2>2. CASE j # a BY <2>2, <1>8, <1>15
  <2> QED BY <2>1, <2>2
<1>19. \A v \in Workers, i \in jobs :
          run[v].job = i.id /\ i.kind \in BoundaryKinds /\ a.kind \in BoundaryKinds
              => ~m[i].clean /\ ~m[a].clean
  BY <1>7, <1>14, <1>15
<1> DEFINE k == h(a)
<1>20. k = [job |-> a.id, gen |-> a.gen, todo |-> Plan(a)] OBVIOUS
<1>21. run' = [run EXCEPT ![w] = k] BY <1>1
<1> HIDE DEF k
<1>22. /\ k \in Handler /\ k.job = a.id /\ TodoOK(gen, a, k) /\ ~AtKick(k.todo)
       /\ a.kind \in BoundaryKinds => \A l \in Boundaries : LayerOK(feed, rows, k, l)
       /\ a.kind = "page" => k.todo[1].op = "page"
  BY <1>20, PlanFacts
<1>23. Good(feed, rows, gen, {m[j] : j \in jobs}, [run EXCEPT ![w] = k])
  BY <1>2, <1>5, <1>17, <1>18, <1>19, <1>22, ReserveStep
<1> QED BY <1>1, <1>10, <1>21, <1>23

-----------------------------------------------------------------------------
(* The upstream, the schedulers and the operator.                          *)

LEMMA ProbeOneGood ==
  ASSUME Good(feed, rows, gen, jobs, run), NEW s \in Sources, ProbeOne(s)
  PROVE  Good(feed', rows', gen', jobs', run')
<1>1. gen \in [Sources -> 0..MaxGen] BY DEF Good, TablesOK
<1>2. gen[s] < MaxGen /\ gen' = [gen EXCEPT ![s] = @ + 1] BY DEF ProbeOne
<1>3. gen' \in [Sources -> 0..MaxGen] /\ \A k \in Sources : gen[k] <= gen'[k]
  <2>1. gen[s] + 1 \in 0..MaxGen /\ \A k \in Sources : gen[k] \in Nat BY <1>1, <1>2, ConstantFacts
  <2> QED BY <1>1, <1>2, <2>1
<1>4. Good(feed, rows, gen', jobs, run) BY <1>3, GrowGood
<1> QED BY <1>4 DEF ProbeOne

LEMMA BootstrapGood ==
  ASSUME Good(feed, rows, gen, jobs, run), NEW s, EnqueueGISSyncBootstrap(s)
  PROVE  Good(feed', rows', gen', jobs', run')
<1>1. PlanBootstrapActions \subseteq {"initial", "parcels", "zip", "annual"}
  BY DEF PlanBootstrapActions
<1>2. \E A \in SUBSET {"initial", "parcels", "zip", "annual"} : jobs' = jobs \cup NewRows(A)
  BY <1>1 DEF EnqueueGISSyncBootstrap
<1> QED BY <1>2, NewRowsGood DEF EnqueueGISSyncBootstrap

LEMMA RefreshingGood ==
  ASSUME Good(feed, rows, gen, jobs, run), NEW k \in {"parcels", "annual", "zip"}, Refreshing(k)
  PROVE  Good(feed', rows', gen', jobs', run')
<1>1. {k} \in SUBSET {"initial", "parcels", "zip", "annual"} OBVIOUS
<1>2. Good(feed, rows, gen, jobs \cup NewRows({k}), run) BY <1>1, NewRowsGood
<1> QED BY <1>2 DEF Refreshing

LEMMA ChurnGood ==
  ASSUME Good(feed, rows, gen, jobs, run), Churn
  PROVE  Good(feed', rows', gen', jobs', run')
<1> DEFINE f == feed["parcels"]
           n == Len(f)
           s == SubSeq(f, PageSize + 1, n)
           m == [j \in jobs |-> [j EXCEPT !.clean = @ /\ j.kind # "page"]]
<1>1. feed \in [Layers -> Seq(Names)] /\ f \in Seq(Names)
      /\ \A i, k \in 1..Len(f) : f[i] = f[k] => i = k
  BY DEF Good, FeedOK
<1>2. feed' = [feed EXCEPT !["parcels"] = s] /\ jobs' = {m[j] : j \in jobs}
      /\ rows' = rows /\ gen' = gen /\ run' = run
  BY DEF Churn
<1>3. /\ s \in Seq(Names)
      /\ \A i \in 1..Len(s) : i + PageSize \in 1..n /\ s[i] = f[i + PageSize]
  <2>1. n \in Nat /\ PageSize + 1 \in Nat BY <1>1, ConstantFacts
  <2>2. s \in Seq(Names) /\ Len(s) = IF PageSize + 1 <= n THEN n - PageSize ELSE 0
    BY <1>1, <2>1, ConstantFacts
  <2>3. \A i \in 1..Len(s) : i \in Nat /\ i + PageSize \in 1..n BY <2>1, <2>2, ConstantFacts
  <2>4. \A i \in 1..Len(s) : s[i] = f[i + PageSize] BY <1>1, <2>1, <2>2, <2>3, ConstantFacts
  <2> QED BY <2>2, <2>3, <2>4
<1> HIDE DEF s
<1>4. FeedOK(feed') /\ \A l \in Boundaries : feed'[l] = feed[l]
  <2>1. feed' \in [Layers -> Seq(Names)] /\ feed'["parcels"] = s
        /\ \A l \in Layers : l # "parcels" => feed'[l] = feed[l]
    BY <1>1, <1>2, <1>3
  <2>2. \A i, k \in 1..Len(s) : s[i] = s[k] => i = k
    <3> SUFFICES ASSUME NEW i \in 1..Len(s), NEW k \in 1..Len(s), s[i] = s[k] PROVE i = k OBVIOUS
    <3>1. i + PageSize = k + PageSize BY <1>1, <1>3
    <3>2. Len(s) \in Nat BY <1>3
    <3> QED BY <3>1, <3>2, ConstantFacts
  <2>3. ASSUME NEW l \in Layers, NEW i \in 1..Len(feed'[l]), NEW k \in 1..Len(feed'[l]),
               feed'[l][i] = feed'[l][k]
        PROVE  i = k
    <3>1. CASE l = "parcels" BY <3>1, <2>1, <2>2, <2>3
    <3>2. CASE l # "parcels" BY <3>2, <2>1, <2>3 DEF Good, FeedOK
    <3> QED BY <3>1, <3>2
  <2> QED BY <2>1, <2>3 DEF FeedOK
<1>5. ASSUME NEW j \in jobs
      PROVE  /\ m[j] \in JobRow
             /\ m[j].id = j.id /\ m[j].kind = j.kind /\ m[j].gen = j.gen
             /\ m[j].off = j.off /\ m[j].tries = j.tries
             /\ m[j].clean => j.clean /\ j.kind # "page"
  <2>1. j \in JobRow BY DEF Good, QueueOK
  <2>2. m[j] = [j EXCEPT !.clean = @ /\ j.kind # "page"] OBVIOUS
  <2> HIDE DEF m
  <2> QED BY <2>1, <2>2 DEF JobRow
<1>6. m \in [jobs -> JobRow] BY <1>5
<1> HIDE DEF m
<1>7. Good(feed', rows, gen, {m[j] : j \in jobs}, run) BY <1>4, <1>5, <1>6, UncleanStep
<1> QED BY <1>2, <1>7

LEMMA StepGood ==
  ASSUME Good(feed, rows, gen, jobs, run), [Next]_vars
  PROVE  Good(feed', rows', gen', jobs', run')
<1>1. CASE Start BY <1>1, StartGood
<1>2. ASSUME NEW w \in Workers, Handle(w) PROVE Good(feed', rows', gen', jobs', run')
  <2>1. CASE Bump(w) BY <2>1, BumpGood
  <2>2. CASE SyncPage(w) BY <2>2, SyncPageGood
  <2>3. CASE EnqueuePage(w) BY <2>3, EnqueuePageGood
  <2>4. CASE CheckActive(w) BY <2>4, CheckActiveGood
  <2>5. CASE Stale(w) BY <2>5, StaleGood
  <2>6. CASE AssignCounties(w) BY <2>6, AssignCountiesGood
  <2>7. CASE RunInitialSync(w) BY <2>7, RunInitialSyncGood
  <2>8. CASE Finish(w) BY <2>8, FinishGood
  <2>9. CASE Abort(w) BY <2>9, AbortGood
  <2> QED BY <1>2, <2>1, <2>2, <2>3, <2>4, <2>5, <2>6, <2>7, <2>8, <2>9 DEF Handle
<1>3. ASSUME NEW w \in Workers, Fault(w) PROVE Good(feed', rows', gen', jobs', run')
  BY <1>3, FaultGood
<1>4. ASSUME NEW s \in Schedulers, TryAcquireLeader(s) \/ LoseSession(s) \/ Stop(s)
      PROVE  Good(feed', rows', gen', jobs', run')
  BY <1>4 DEF TryAcquireLeader, LoseSession, Stop
<1>5. ASSUME NEW s \in Schedulers, EnqueueGISSyncBootstrap(s)
      PROVE  Good(feed', rows', gen', jobs', run')
  BY <1>5, BootstrapGood
<1>6. CASE (\E s \in Schedulers : Cron(s)) \/ GisEnqueue
  BY <1>6, RefreshingGood DEF Cron, GisEnqueue
<1>7. ASSUME NEW s \in Sources, ProbeOne(s) PROVE Good(feed', rows', gen', jobs', run')
  BY <1>7, ProbeOneGood
<1>8. CASE Churn BY <1>8, ChurnGood
<1>9. CASE UNCHANGED vars BY <1>9 DEF vars
<1> HIDE DEF Sources
<1> QED BY <1>1, <1>2, <1>3, <1>4, <1>5, <1>6, <1>7, <1>8, <1>9 DEF Next

\* The schedulers' part of the state.
LEMMA ElectionStep ==
  ASSUME ElectionOK, [Next]_vars
  PROVE  ElectionOK'
<1>1. Event => events' \in 0..MaxEvents /\ faults' \in 0..MaxFaults
  BY ConstantFacts DEF Event, ElectionOK
<1>2. Failure => events' \in 0..MaxEvents /\ faults' \in 0..MaxFaults
  BY ConstantFacts DEF Failure, ElectionOK
<1>3. CASE UNCHANGED <<sched, lock, events, faults>> BY <1>3 DEF ElectionOK
<1>4. CASE UNCHANGED <<sched, lock>> /\ (Event \/ Failure)
  BY <1>1, <1>2, <1>4 DEF ElectionOK
<1>5. ASSUME NEW s \in Schedulers, TryAcquireLeader(s) PROVE ElectionOK'
  BY <1>5 DEF TryAcquireLeader, ElectionOK
<1>6. ASSUME NEW s \in Schedulers, LoseSession(s) PROVE ElectionOK'
  BY <1>2, <1>6 DEF LoseSession, ElectionOK
<1>7. ASSUME NEW s \in Schedulers, Stop(s) PROVE ElectionOK'
  BY <1>2, <1>7 DEF Stop, ElectionOK
<1>8. Start => UNCHANGED <<sched, lock, events, faults>> BY DEF Start
<1>9. \A w \in Workers : Handle(w) =>
          UNCHANGED <<sched, lock>> /\ (Event \/ UNCHANGED <<events, faults>>)
  BY DEF Handle, Bump, SyncPage, EnqueuePage, CheckActive, Stale, AssignCounties,
         RunInitialSync, Finish, Abort
<1>10. \A w \in Workers : Fault(w) => UNCHANGED <<sched, lock>> /\ Failure BY DEF Fault
<1>11. \A s \in Schedulers : EnqueueGISSyncBootstrap(s) =>
          UNCHANGED <<sched, lock>> /\ (Failure \/ UNCHANGED <<events, faults>>)
  BY DEF EnqueueGISSyncBootstrap
<1>12. (\E s \in Schedulers : Cron(s)) \/ GisEnqueue => UNCHANGED <<sched, lock>> /\ Event
  BY DEF Cron, GisEnqueue, Refreshing
<1>13. (\E s \in Sources : ProbeOne(s)) \/ Churn => UNCHANGED <<sched, lock>> /\ Event
  BY DEF ProbeOne, Churn
<1>14. UNCHANGED vars => UNCHANGED <<sched, lock, events, faults>> BY DEF vars
<1> HIDE DEF Sources
<1> QED BY <1>3, <1>4, <1>5, <1>6, <1>7, <1>8, <1>9, <1>10, <1>11, <1>12, <1>13, <1>14 DEF Next

LEMMA InitialGood ==
  ASSUME Init
  PROVE  GisInv
<1>1. FeedOK(feed)
  <2>1. \A l \in Layers : DOMAIN InitialFeed[l] = 1..Len(InitialFeed[l]) BY GisAssumption
  <2> QED BY <2>1, GisAssumption DEF Init, FeedOK
<1>2. \A l \in Layers : rows[l] = {} BY DEF Init
<1>3. TablesOK(rows, gen)
  <2>1. rows \in [Layers -> SUBSET Row] /\ gen \in [Sources -> 0..MaxGen] BY ConstantFacts DEF Init
  <2> QED BY <1>2, <2>1 DEF TablesOK
<1>4. jobs = {} /\ run \in [Workers -> Handler] /\ \A w \in Workers : run[w] = Idle
  BY ConstantFacts DEF Init, Idle, Handler
<1>5. Idle.job = <<>> /\ Idle.todo = <<>> BY DEF Idle
<1>6. ~AtKick(Idle.todo) BY <1>5 DEF AtKick
<1>7. QueueOK(jobs) BY <1>4, FS_EmptySet DEF QueueOK
<1>8. RunsOK(jobs, run) BY <1>4, <1>5 DEF RunsOK
<1>9. /\ HandlersOK(gen, jobs, run) /\ Alone(jobs, run) /\ BoundariesOK(feed, rows, jobs, run)
      /\ OneChain(jobs) /\ ChainOK(feed, rows, jobs, run)
  BY <1>4 DEF HandlersOK, Alone, BoundariesOK, OneChain, ChainOK
<1>10. Unborn(rows, jobs, run) BY <1>4, <1>6 DEF Unborn
<1>11. ElectionOK
  <2>1. lock \in Schedulers BY ConstantFacts DEF Init
  <2> QED BY <2>1, ConstantFacts DEF Init, ElectionOK
<1> QED BY <1>1, <1>3, <1>7, <1>8, <1>9, <1>10, <1>11 DEF GisInv, Good

\* The inductive invariant holds always.
LEMMA GisInvariant == Spec => []GisInv
<1>1. Init => GisInv BY InitialGood
<1>2. GisInv /\ [Next]_vars => GisInv'
  <2> SUFFICES ASSUME GisInv, [Next]_vars PROVE GisInv' OBVIOUS
  <2>1. Good(feed', rows', gen', jobs', run') BY StepGood DEF GisInv
  <2>2. ElectionOK' BY ElectionStep DEF GisInv
  <2> QED BY <2>1, <2>2 DEF GisInv
<1> QED BY <1>1, <1>2, PTL DEF Spec

LEMMA GisInvTypes ==
  ASSUME GisInv
  PROVE  TypeOK
<1>1. run \in [Workers -> Handler] /\ RunsOK(jobs, run) BY DEF GisInv, Good, RunsOK
<1>2. \A w \in Workers : run[w].gen \in 0..MaxGen BY <1>1 DEF Handler
<1>3. \A w \in Workers : Busy(w) => \E j \in jobs : j.id = run[w].job BY <1>1 DEF RunsOK, Busy
<1>4. \A v, w \in Workers : v # w /\ Busy(v) => run[v].job # run[w].job BY <1>1 DEF RunsOK, Busy
<1>5. feed \in [Layers -> Seq(Names)] BY DEF GisInv, Good, FeedOK
<1>6. rows \in [Layers -> SUBSET Row] /\ gen \in [Sources -> 0..MaxGen]
  BY DEF GisInv, Good, TablesOK
<1>7. DOMAIN rows = Layers /\ \A l \in Layers : rows[l] \subseteq Row BY <1>6
<1>8. jobs \subseteq JobRow BY DEF GisInv, Good, QueueOK
<1>9. ElectionOK BY DEF GisInv
<1> HIDE DEF Layers, Sources
<1> QED BY <1>2, <1>3, <1>4, <1>5, <1>6, <1>7, <1>8, <1>9 DEF TypeOK, JobRow, ElectionOK

\* In every reachable state the rows have their types, every busy worker has
\* its own job in the queue, and no attempt or generation passes its limit
\* (RunLoop, BumpSourceGeneration).
THEOREM GisTypes == Spec => []TypeOK
<1>1. GisInv => TypeOK BY GisInvTypes
<1> QED BY <1>1, GisInvariant, PTL

LEMMA FeedFinite ==
  ASSUME NEW S, NEW s \in Seq(S)
  PROVE  IsFiniteSet(ToSet(s))
<1> DEFINE n == Len(s)
           D == 1..n
           f == [i \in D |-> s[i]]
           T == {f[i] : i \in D}
<1>1. n \in Nat OBVIOUS
<1>2. IsFiniteSet(D) BY <1>1, FS_Interval
<1>3. f \in [D -> S] OBVIOUS
<1> HIDE DEF f
<1>4. IsFiniteSet(T) BY <1>2, <1>3, FiniteImage
<1>5. ToSet(s) \subseteq T
  <2>1. \A i \in D : f[i] = s[i] BY DEF f
  <2> QED BY <2>1, ToSetFacts
<1> HIDE DEF T
<1> QED BY <1>4, <1>5, FS_Subset

\* The delete of a clean refresh leaves the upstream's features, once each.
LEMMA StaleExact ==
  ASSUME GisInv, NEW w \in Workers, NEW l \in Layers, Stale(w), Now(w).layer = l,
         Job(run[w].job).clean
  PROVE  Exact(l)'
<1> DEFINE t == run[w].todo
           g == run[w].gen
           X == DeleteStale(l, g)
           W == Kept(l, ToSet(feed[l]))
<1>1. Good(feed, rows, gen, jobs, run) BY DEF GisInv
<1>2. Doing(w, "stale") BY DEF Stale
<1>3. Busy(w) /\ t # <<>> /\ Now(w) = t[1] /\ t[1].op = "stale" /\ t[1].layer = l
  BY <1>1, <1>2, DoingFacts
<1>4. PICK a \in jobs : run[w].job = a.id /\ Job(run[w].job) = a BY <1>1, <1>3, Working
<1>5. /\ g \in Nat
      /\ Owned(feed, rows, l, g) /\ Reached(feed, rows, l, Len(feed[l]), g)
  BY <1>1, <1>3, <1>4, StaleOwned
<1>6. feed \in [Layers -> Seq(Names)] /\ rows \in [Layers -> SUBSET Row]
  BY <1>1 DEF Good, FeedOK, TablesOK
<1>7. rows'[l] = X /\ feed' = feed BY <1>3, <1>5, <1>6 DEF Stale
<1>8. \A r \in X : r \in rows[l] /\ r.gen = g
  <2> SUFFICES ASSUME NEW r \in X PROVE r \in rows[l] /\ r.gen = g OBVIOUS
  <2>1. r \in rows[l] /\ r.gen >= g BY DEF DeleteStale
  <2>2. r.gen <= g /\ r.gen \in Nat BY <1>5, <1>6, <2>1, ConstantFacts DEF Owned, Row
  <2> QED BY <1>5, <2>1, <2>2
<1>9. \A r \in X : r.name \in W BY <1>5, <1>8 DEF Owned
<1>10. \A r, s \in X : r.name = s.name => r = s BY <1>5, <1>8 DEF Owned
<1>11. ASSUME NEW n \in W PROVE \E r \in X : r.name = n
  <2>1. n \in ToSet(feed[l]) /\ feed[l] \in Seq(Names) BY <1>5, <1>6 DEF Kept
  <2>2. PICK i \in 1..Len(feed[l]) : n = feed[l][i] BY <2>1, ToSetFacts
  <2>3. i <= Len(feed[l]) BY <2>1
  <2>4. PICK r \in rows[l] : r.name = n /\ r.gen = g BY <1>5, <2>2, <2>3 DEF Reached
  <2>5. r \in X BY <1>5, <2>4 DEF DeleteStale
  <2> QED BY <2>4, <2>5
<1>12. IsFiniteSet(W)
  <2>1. feed[l] \in Seq(Names) BY <1>5, <1>6
  <2>2. IsFiniteSet(ToSet(feed[l])) BY <2>1, FeedFinite
  <2>3. W \subseteq ToSet(feed[l]) BY DEF Kept
  <2> HIDE DEF W
  <2> QED BY <2>2, <2>3, FS_Subset
<1> HIDE DEF X, W
<1> DEFINE f == [n \in W |-> CHOOSE r \in X : r.name = n]
<1>13. \A n \in W : f[n] \in X /\ f[n].name = n BY <1>11
<1>14. f \in Bijection(W, X)
  <2>1. f \in [W -> X] BY <1>13
  <2>2. \A m, n \in W : f[m] = f[n] => m = n BY <1>13
  <2>3. \A r \in X : r.name \in W /\ f[r.name] = r BY <1>9, <1>10, <1>13
  <2> HIDE DEF f
  <2> QED BY <2>1, <2>2, <2>3 DEF Bijection, Injection, Surjection, IsInjective
<1> HIDE DEF f
<1>15. Cardinality(X) = Cardinality(W) BY <1>12, <1>14, FS_Bijection DEF ExistsBijection
<1>16. {r.name : r \in X} = W BY <1>9, <1>11
<1>17. Wanted(l)' = W BY <1>7 DEF Wanted, W
<1>18. {r.name : r \in rows'[l]} = Wanted(l)' /\ Cardinality(rows'[l]) = Cardinality(Wanted(l)')
  BY <1>7, <1>15, <1>16, <1>17
<1> QED BY <1>18 DEF Exact

\* When a refresh that had its tables and its upstream to itself deletes the
\* stale rows, the table is left with exactly what the upstream lists, for any
\* workers, feeds, page size, failures and retries (syncLayer, SyncPage,
\* deleteStale).
THEOREM RefreshesAreExact == Spec => RefreshExact
<1>1. GisInv /\ [Next]_vars =>
        [\A w \in Workers, l \in Layers :
           Stale(w) /\ Now(w).layer = l /\ Job(run[w].job).clean => Exact(l)']_vars
  BY StaleExact
<1> QED BY <1>1, GisInvariant, PTL DEF Spec, RefreshExact

-----------------------------------------------------------------------------
(* The read caches.                                                        *)

(***************************************************************************)
(* What FreshServed rests on.  A stamp says how old the answer is, up to   *)
(* the time the request held it: an entry was stored at most MaxHold after *)
(* the upstream gave it, wherever a copy of it is shown, the rows of a     *)
(* write-through carry a stamp taken while their request held the answer,  *)
(* and a request holds no answer for longer than MaxHold.                  *)
(***************************************************************************)
StampOK(e, ttl) == e # NULL => e.stamp - e.asOf <= ttl + MaxHold

HandOK(h) ==
    /\ h.op \in {"proxy", "gis", "upsert"} /\ h.asOf # NULL => now - h.asOf <= MaxHold
    /\ h.op = "upsert" /\ h.stamp # NULL => h.stamp - h.asOf <= MaxHold

HoldInv ==
    /\ \A e \in {proxy, replica.proxy} : StampOK(e, 0)
    /\ \A e \in {gis, replica.gis} : StampOK(e, EdgeTTL)
    /\ \A l \in Sales : StampOK(comps[l], 0)
    /\ \A s \in Slots : HandOK(slot[s])

CacheInv == CacheShapes /\ HoldInv /\ FreshServed

-----------------------------------------------------------------------------
(* Helpers *)

(***************************************************************************)
(* A non-empty set of natural numbers has a least element, which Min picks *)
(* (the oldest of the rows a comparables answer is made of).               *)
(***************************************************************************)
LEMMA MinInSet ==
    ASSUME NEW S \in SUBSET Nat, S # {}
    PROVE  Min(S) \in S /\ \A y \in S : Min(S) <= y
<1>. DEFINE Less == {p \in Nat \X Nat : p[1] < p[2]}
<1>1. OpToRel(<, Nat) = Less
  BY DEF OpToRel
<1>2. IsWellFoundedOn(Less, Nat)
  BY <1>1, NatLessThanWellFounded
<1>. HIDE DEF Less
<1>3. PICK x \in S : \A y \in S : ~(<<y, x>> \in Less)
  BY <1>2, WFMin
<1>4. ASSUME NEW y \in S PROVE x <= y
  <2>1. x \in Nat /\ y \in Nat
    OBVIOUS
  <2>2. y < x => <<y, x>> \in Less
    BY <2>1 DEF Less
  <2>. QED BY <1>3, <2>1, <2>2
<1>. QED
  BY <1>4 DEF Min

(***************************************************************************)
(* The latest n sales of a set are in it, and there are some if it and n   *)
(* are not empty.                                                          *)
(***************************************************************************)
LEMMA LatestSome ==
    ASSUME NEW S \in SUBSET Nat, NEW n \in Nat
    PROVE  /\ Latest(S, n) \subseteq S
           /\ S # {} /\ n > 0 => Latest(S, n) # {}
<1>1. Latest(S, n) \subseteq S
  BY DEF Latest
<1>2. ASSUME S # {}, n > 0 PROVE Latest(S, n) # {}
  <2>1. PICK m \in S : \A y \in S : m <= y
    BY <1>2, MinInSet
  <2>2. {k \in S : k < m} = {}
    <3>1. \A k \in S : k \in Nat /\ m \in Nat /\ m <= k
      BY <2>1
    <3>2. \A k \in S : ~(k < m)
      BY <3>1
    <3>. QED BY <3>2
  <2>3. m \in Latest(S, n)
    BY <1>2, <2>2, FS_EmptySet DEF Latest
  <2>. QED BY <2>3
<1>. QED BY <1>1, <1>2
-----------------------------------------------------------------------------
(* Types *)

(***************************************************************************)
(* Initially the caches are empty and nobody has asked.                    *)
(***************************************************************************)
LEMMA InitType == CacheInit => CacheShapes
BY CacheAssumption DEF CacheInit, CacheShapes, Time, Entry, Hand, NoRequest

(***************************************************************************)
(* What a request has in hand, by its kind.                                *)
(***************************************************************************)
LEMMA HandKinds ==
    ASSUME NEW h \in Hand
    PROVE  /\ h.op \in {"idle", "proxy", "gis", "live", "upsert"}
           /\ h.op = "idle" => h = NoRequest
           /\ h.op \in {"proxy", "gis"} =>
                /\ h = [op |-> h.op, asOf |-> h.asOf]
                /\ h.asOf # NULL => h.asOf \in Time
           /\ h.op = "live" => h = [op |-> "live", scope |-> h.scope] /\ h.scope \in Scopes
           /\ h.op = "upsert" =>
                /\ h = [op |-> "upsert", asOf |-> h.asOf, stamp |-> h.stamp, left |-> h.left]
                /\ h.asOf \in Time /\ h.stamp \in Time \union {NULL} /\ h.left \subseteq Sales
BY DEF Hand, NoRequest

(***************************************************************************)
(* A hit of FindClosedInScope is made of at least one cached row, and of   *)
(* fresh ones only.                                                        *)
(***************************************************************************)
LEMMA HitHasRows ==
    ASSUME NEW scope \in Scopes, NEW subject,
           Cardinality(Latest(FreshRows(scope), 2 * Limit) \ {subject}) >= MinHits
    PROVE  LET out == Latest(Latest(FreshRows(scope), 2 * Limit) \ {subject}, Limit)
           IN  out # {} /\ out \subseteq FreshRows(scope)
<1>. DEFINE cached == Latest(FreshRows(scope), 2 * Limit)
            rest == cached \ {subject}
<1>. USE CacheAssumption
<1>1. FreshRows(scope) \in SUBSET Nat
  BY DEF FreshRows
<1>2. cached \subseteq FreshRows(scope)
  BY <1>1, LatestSome
<1>3. rest # {}
  <2>1. SUFFICES ASSUME rest = {} PROVE FALSE
    OBVIOUS
  <2>2. Cardinality(rest) = 0 /\ Cardinality(rest) >= MinHits
    BY <2>1, FS_EmptySet
  <2>. QED BY <2>2
<1>4. Limit > 0
  <2>1. CASE Limit = 0
    <3>1. PICK l : l \in cached
      BY <1>3
    <3>2. l \in FreshRows(scope) /\ Cardinality({k \in FreshRows(scope) : k < l}) < 0
      BY <2>1, <3>1 DEF Latest
    <3>3. {k \in FreshRows(scope) : k < l} \subseteq 0..l /\ l \in Nat
      BY <1>1, <3>2
    <3>4. IsFiniteSet(0..l)
      BY <3>3, FS_Interval
    <3>5. IsFiniteSet({k \in FreshRows(scope) : k < l})
      BY <3>3, <3>4, FS_Subset
    <3>6. Cardinality({k \in FreshRows(scope) : k < l}) \in Nat
      BY <3>5, FS_CardinalityType
    <3>. QED BY <3>2, <3>6
  <2>. QED BY <2>1
<1>5. rest \in SUBSET Nat
  BY <1>1, <1>2
<1>6. Latest(rest, Limit) \subseteq rest /\ Latest(rest, Limit) # {}
  BY <1>3, <1>4, <1>5, LatestSome
<1>. QED BY <1>2, <1>6
(***************************************************************************)
(* Every step keeps the types.                                             *)
(***************************************************************************)
LEMMA NextType == CacheShapes /\ [CacheNext]_cacheVars => CacheShapes'
<1>. SUFFICES ASSUME CacheShapes, [CacheNext]_cacheVars PROVE CacheShapes'
  OBVIOUS
<1>. USE CacheAssumption
<1>0. now \in Time /\ Time \subseteq Nat /\ NULL \in Entry /\ MaxTime \in Nat /\ EdgeTTL \in Nat
  BY DEF CacheShapes, Time, Entry
<1>1. ASSUME NEW s \in Slots, ProxyGet(s) PROVE CacheShapes'
  <2>1. \A e \in ProxyViews : Fresh(e) => e.asOf \in Time
    BY DEF ProxyViews, Fresh, CacheShapes, Entry
  <2>. QED BY <1>0, <1>1, <2>1 DEF ProxyGet, Serve, Hold, Hand, CacheShapes
<1>2. ASSUME NEW s \in Slots, ProxyPut(s) PROVE CacheShapes'
  <2>1. slot[s].asOf \in Time
    BY <1>2, HandKinds DEF ProxyPut, CacheShapes
  <2>2. [asOf |-> slot[s].asOf, stamp |-> now] \in Entry
    BY <1>0, <2>1 DEF Entry, Time
  <2>. QED BY <1>2, <2>2 DEF ProxyPut, Hold, Hand, CacheShapes
<1>3. ASSUME NEW s \in Slots, FromCache(s) PROVE CacheShapes'
  <2>1. \A e \in GisViews : e # NULL => e.asOf \in Time
    BY DEF GisViews, CacheShapes, Entry
  <2>. QED BY <1>0, <1>3, <2>1 DEF FromCache, Serve, Hold, Hand, CacheShapes
<1>4. ASSUME NEW s \in Slots, StoreCache(s) PROVE CacheShapes'
  <2>1. slot[s].asOf \in Time
    BY <1>4, HandKinds DEF StoreCache, CacheShapes
  <2>2. [asOf |-> slot[s].asOf, stamp |-> now + EdgeTTL] \in Entry
    BY <1>0, <2>1 DEF Entry, Time
  <2>. QED BY <1>4, <2>2 DEF StoreCache, Hold, Hand, CacheShapes
<1>5. ASSUME NEW s \in Slots, FetchUpstream(s) PROVE CacheShapes'
  <2>1. slot[s] = [op |-> slot[s].op, asOf |-> slot[s].asOf] /\ slot[s].op \in {"proxy", "gis"}
    BY <1>5, HandKinds DEF FetchUpstream, CacheShapes
  <2>2. [slot[s] EXCEPT !.asOf = now] \in Hand
    BY <1>0, <2>1 DEF Hand
  <2>. QED BY <1>5, <2>2 DEF FetchUpstream, CacheShapes
<1>6. ASSUME NEW s \in Slots, UpstreamFails(s) PROVE CacheShapes'
  BY <1>6 DEF UpstreamFails, Hold, Hand, CacheShapes
<1>7. ASSUME NEW s \in Slots, NEW scope \in Scopes, NEW l \in Sales,
             FindClosedInScope(s, scope, l)
      PROVE  CacheShapes'
  <2>. DEFINE cached == Latest(FreshRows(scope), 2 * Limit)
              out == Latest(cached \ {l}, Limit)
              times == {comps[k].asOf : k \in out}
  <2>1. CASE Hold(s, [op |-> "live", scope |-> scope]) /\ UNCHANGED served
    BY <1>7, <2>1 DEF FindClosedInScope, Hold, Hand, CacheShapes
  <2>2. CASE /\ Cardinality(cached) >= MinHits /\ Cardinality(cached \ {l}) >= MinHits
             /\ Serve("comps", Min(times)) /\ UNCHANGED slot
    <3>1. out # {} /\ out \subseteq FreshRows(scope)
      BY <2>2, HitHasRows
    <3>2. \A k \in FreshRows(scope) : comps[k].asOf \in Time
      BY DEF FreshRows, CacheShapes, Entry
    <3>3. times \in SUBSET Time /\ times \in SUBSET Nat /\ times # {}
      <4>. HIDE DEF out
      <4>1. times \in SUBSET Time
        BY <3>1, <3>2
      <4>2. times # {}
        BY ONLY <3>1
      <4>. HIDE DEF times
      <4>. QED BY <1>0, <4>1, <4>2
    <3>. HIDE DEF times
    <3>4. Min(times) \in Time
      BY <3>3, MinInSet
    <3>. QED BY <1>0, <1>7, <2>2, <3>4 DEF FindClosedInScope, Serve, CacheShapes
  <2>. QED BY <1>7, <2>1, <2>2 DEF FindClosedInScope
<1>8. ASSUME NEW s \in Slots, FetchSoldCompsLive(s) PROVE CacheShapes'
  <2>1. slot[s].scope \in SUBSET Sales /\ slot[s].scope \in SUBSET Nat
    BY <1>8, HandKinds DEF FetchSoldCompsLive, CacheShapes
  <2>2. Latest(slot[s].scope, Limit) \subseteq Sales
    BY <2>1, LatestSome
  <2>. QED BY <1>0, <1>8, <2>2 DEF FetchSoldCompsLive, Hold, Hand, CacheShapes
<1>14. ASSUME NEW s \in Slots, UpsertClosedBatch(s) PROVE CacheShapes'
  <2>1. /\ slot[s] = [op |-> "upsert", asOf |-> slot[s].asOf, stamp |-> slot[s].stamp,
                      left |-> slot[s].left]
        /\ slot[s].asOf \in Time /\ slot[s].left \subseteq Sales
    BY <1>14, HandKinds DEF UpsertClosedBatch, CacheShapes
  <2>2. [slot[s] EXCEPT !.stamp = now] \in Hand
    BY <1>0, <2>1 DEF Hand
  <2>. QED BY <1>14, <2>2 DEF UpsertClosedBatch, CacheShapes
<1>9. ASSUME NEW s \in Slots, UpsertClosed(s) PROVE CacheShapes'
  <2>. DEFINE entry == [asOf |-> slot[s].asOf, stamp |-> slot[s].stamp]
  <2>0. PICK l, left : l = Min(slot[s].left) /\ left = slot[s].left \ {l}
    OBVIOUS
  <2>1. /\ slot[s] = [op |-> "upsert", asOf |-> slot[s].asOf, stamp |-> slot[s].stamp,
                      left |-> slot[s].left]
        /\ slot[s].asOf \in Time /\ slot[s].stamp \in Time /\ slot[s].left \subseteq Sales
    BY <1>9, HandKinds DEF UpsertClosed, CacheShapes
  <2>2. entry \in Entry
    BY <1>0, <2>1 DEF Entry, Time
  <2>3. PICK h : h = [slot[s] EXCEPT !.left = left]
    OBVIOUS
  <2>4. slot' \in [Slots -> Hand]
    <3>1. h = [op |-> "upsert", asOf |-> slot[s].asOf, stamp |-> slot[s].stamp, left |-> left]
      BY <2>1, <2>3
    <3>2. h \in Hand /\ NoRequest \in Hand
      BY <2>0, <2>1, <3>1 DEF Hand
    <3>3. slot' = [slot EXCEPT ![s] = NoRequest] \/ slot' = [slot EXCEPT ![s] = h]
      BY <1>9, <2>0, <2>3 DEF UpsertClosed, Hold, CacheShapes
    <3>. QED BY <3>2, <3>3 DEF CacheShapes
  <2>5. comps' \in [Sales -> Entry]
    BY <1>9, <2>2 DEF UpsertClosed, CacheShapes
  <2>. QED BY <1>9, <2>4, <2>5 DEF UpsertClosed, CacheShapes
<1>10. CASE PurgeExpired
  BY <1>0, <1>10 DEF PurgeExpired, CacheShapes
<1>11. CASE Replicate
  BY <1>11 DEF Replicate, CacheShapes
<1>12. CASE Tick
  BY <1>0, <1>12 DEF Tick, CacheShapes, Time
<1>13. CASE UNCHANGED cacheVars
  BY <1>13 DEF cacheVars, CacheShapes
<1>. QED
  BY <1>1, <1>2, <1>3, <1>4, <1>5, <1>6, <1>7, <1>8, <1>9, <1>10, <1>11, <1>12, <1>13, <1>14
     DEF CacheNext, Request
-----------------------------------------------------------------------------
(* No answer is from the future *)

HandPast(h, n) == h.op \in {"proxy", "gis", "upsert"} /\ h.asOf # NULL => h.asOf <= n
ServedPast(v, n) == v # NULL => v.asOf <= v.at /\ v.at <= n

LEMMA InitFuture == CacheInit => NoFuture
BY DEF CacheInit, NoFuture, Past, NoRequest

(***************************************************************************)
(* A step of a request takes what it stores or serves from an entry or     *)
(* from its hands, or from the upstream at this moment.                    *)
(***************************************************************************)
LEMMA FutureFrame ==
    ASSUME CacheShapes, NoFuture, now' = now, NEW s \in Slots, NEW h,
           slot' = slot \/ slot' = [slot EXCEPT ![s] = h], HandPast(h, now)
    PROVE  \A t \in Slots : HandPast(slot'[t], now')
BY DEF CacheShapes, NoFuture, HandPast

LEMMA NextFuture == CacheShapes /\ NoFuture /\ [CacheNext]_cacheVars => NoFuture'
<1>. SUFFICES ASSUME CacheShapes, NoFuture, [CacheNext]_cacheVars PROVE NoFuture'
  OBVIOUS
<1>. USE CacheAssumption
<1>0. now \in Nat /\ \A e \in Entry : e # NULL => e.asOf \in Nat
  BY DEF CacheShapes, Time, Entry
<1>1. ServedPast(served, now) /\ HandPast(NoRequest, now)
  BY DEF NoFuture, ServedPast, HandPast, NoRequest
<1>2. ASSUME NEW a \in Nat, a <= now, NEW from, Serve(from, a), now' = now
      PROVE  ServedPast(served', now')
  BY <1>0, <1>2 DEF Serve, ServedPast
<1>3. ASSUME NEW s \in Slots, ProxyGet(s) PROVE NoFuture'
  <2>1. \A t \in Slots : HandPast(slot'[t], now')
    <3>1. HandPast([op |-> "proxy", asOf |-> NULL], now)
      BY DEF HandPast
    <3>. QED BY <1>3, <3>1, FutureFrame DEF ProxyGet, Hold
  <2>2. \A e \in ProxyViews : e # NULL => e.asOf \in Nat /\ e.asOf <= now
    BY <1>0 DEF ProxyViews, CacheShapes, NoFuture, Past
  <2>3. ServedPast(served', now')
    BY <1>1, <1>2, <1>3, <2>2 DEF ProxyGet, Fresh
  <2>. QED BY <1>3, <2>1, <2>3 DEF ProxyGet, NoFuture, Past, HandPast, ServedPast
<1>4. ASSUME NEW s \in Slots, FromCache(s) PROVE NoFuture'
  <2>1. \A t \in Slots : HandPast(slot'[t], now')
    <3>1. HandPast([op |-> "gis", asOf |-> NULL], now)
      BY DEF HandPast
    <3>. QED BY <1>4, <3>1, FutureFrame DEF FromCache, Hold
  <2>2. \A e \in GisViews : e # NULL => e.asOf \in Nat /\ e.asOf <= now
    BY <1>0 DEF GisViews, CacheShapes, NoFuture, Past
  <2>3. ServedPast(served', now')
    BY <1>1, <1>2, <1>4, <2>2 DEF FromCache
  <2>. QED BY <1>4, <2>1, <2>3 DEF FromCache, NoFuture, Past, HandPast, ServedPast
<1>5. ASSUME NEW s \in Slots, ProxyPut(s) PROVE NoFuture'
  <2>1. \A t \in Slots : HandPast(slot'[t], now')
    BY <1>1, <1>5, FutureFrame DEF ProxyPut, Hold
  <2>2. Past(proxy)'
    BY <1>5 DEF ProxyPut, NoFuture, Past
  <2>. QED BY <1>5, <2>1, <2>2 DEF ProxyPut, NoFuture, Past, HandPast
<1>6. ASSUME NEW s \in Slots, StoreCache(s) PROVE NoFuture'
  <2>1. \A t \in Slots : HandPast(slot'[t], now')
    BY <1>1, <1>6, FutureFrame DEF StoreCache, Hold
  <2>2. Past(gis)'
    BY <1>6 DEF StoreCache, NoFuture, Past
  <2>. QED BY <1>6, <2>1, <2>2 DEF StoreCache, NoFuture, Past, HandPast
<1>7. ASSUME NEW s \in Slots, FetchUpstream(s) PROVE NoFuture'
  <2>1. PICK h : h = [slot[s] EXCEPT !.asOf = now]
    OBVIOUS
  <2>2. slot[s] = [op |-> slot[s].op, asOf |-> slot[s].asOf]
    BY <1>7, HandKinds DEF FetchUpstream, CacheShapes
  <2>3. h.asOf = now
    BY <2>1, <2>2
  <2>4. HandPast(h, now)
    BY <1>0, <2>3 DEF HandPast
  <2>5. slot' = [slot EXCEPT ![s] = h] /\ now' = now
    BY <1>7, <2>1 DEF FetchUpstream, CacheShapes
  <2>6. \A t \in Slots : HandPast(slot'[t], now')
    BY <2>4, <2>5, FutureFrame
  <2>. QED BY <1>7, <2>6 DEF FetchUpstream, NoFuture, Past, HandPast
<1>8. ASSUME NEW s \in Slots, UpstreamFails(s) PROVE NoFuture'
  <2>1. \A t \in Slots : HandPast(slot'[t], now')
    BY <1>1, <1>8, FutureFrame DEF UpstreamFails, Hold
  <2>. QED BY <1>8, <2>1 DEF UpstreamFails, NoFuture, Past, HandPast
<1>9. ASSUME NEW s \in Slots, NEW scope \in Scopes, NEW l \in Sales,
             FindClosedInScope(s, scope, l)
      PROVE  NoFuture'
  <2>. DEFINE cached == Latest(FreshRows(scope), 2 * Limit)
              out == Latest(cached \ {l}, Limit)
              times == {comps[k].asOf : k \in out}
  <2>1. \A t \in Slots : HandPast(slot'[t], now')
    <3>1. HandPast([op |-> "live", scope |-> scope], now)
      BY DEF HandPast
    <3>. QED BY <1>9, <3>1, FutureFrame DEF FindClosedInScope, Hold
  <2>2. ASSUME /\ Cardinality(cached) >= MinHits /\ Cardinality(cached \ {l}) >= MinHits
               /\ Serve("comps", Min(times))
        PROVE  ServedPast(served', now')
    <3>1. out # {} /\ out \subseteq FreshRows(scope)
      BY <2>2, HitHasRows
    <3>2. \A k \in FreshRows(scope) : comps[k].asOf \in Nat /\ comps[k].asOf <= now
      BY <1>0 DEF FreshRows, CacheShapes, NoFuture, Past
    <3>3. times \in SUBSET Nat /\ times # {} /\ \A a \in times : a <= now
      <4>. HIDE DEF out
      <4>. QED BY <3>1, <3>2
    <3>. HIDE DEF times
    <3>4. Min(times) \in Nat /\ Min(times) <= now
      BY <3>3, MinInSet
    <3>5. now' = now
      BY <1>9 DEF FindClosedInScope
    <3>. QED BY <1>2, <2>2, <3>4, <3>5
  <2>3. ServedPast(served', now')
    BY <1>1, <1>9, <2>2 DEF FindClosedInScope
  <2>. QED BY <1>9, <2>1, <2>3 DEF FindClosedInScope, NoFuture, Past, HandPast, ServedPast
<1>10. ASSUME NEW s \in Slots, FetchSoldCompsLive(s) PROVE NoFuture'
  <2>1. PICK h : h = [op |-> "upsert", asOf |-> now, stamp |-> NULL,
                      left |-> Latest(slot[s].scope, Limit)]
    OBVIOUS
  <2>2. HandPast(h, now) /\ slot' = [slot EXCEPT ![s] = h] /\ now' = now
    BY <1>0, <1>10, <2>1 DEF FetchSoldCompsLive, Hold, HandPast
  <2>3. \A t \in Slots : HandPast(slot'[t], now')
    BY <2>2, FutureFrame
  <2>. QED BY <1>10, <2>3 DEF FetchSoldCompsLive, NoFuture, Past, HandPast
<1>11. ASSUME NEW s \in Slots, UpsertClosedBatch(s) PROVE NoFuture'
  <2>1. PICK h : h = [slot[s] EXCEPT !.stamp = now]
    OBVIOUS
  <2>2. slot[s] = [op |-> "upsert", asOf |-> slot[s].asOf, stamp |-> slot[s].stamp,
                   left |-> slot[s].left]
    BY <1>11, HandKinds DEF UpsertClosedBatch, CacheShapes
  <2>3. h.asOf = slot[s].asOf /\ slot[s].op = "upsert"
    BY <2>1, <2>2
  <2>4. HandPast(h, now)
    BY <2>3 DEF HandPast, NoFuture
  <2>5. slot' = [slot EXCEPT ![s] = h] /\ now' = now
    BY <1>11, <2>1 DEF UpsertClosedBatch, CacheShapes
  <2>6. \A t \in Slots : HandPast(slot'[t], now')
    BY <2>4, <2>5, FutureFrame
  <2>. QED BY <1>11, <2>6 DEF UpsertClosedBatch, NoFuture, Past, HandPast
<1>12. ASSUME NEW s \in Slots, UpsertClosed(s) PROVE NoFuture'
  <2>0. PICK l, left : l = Min(slot[s].left) /\ left = slot[s].left \ {l}
    OBVIOUS
  <2>1. PICK h : h = [slot[s] EXCEPT !.left = left]
    OBVIOUS
  <2>2. slot[s] = [op |-> "upsert", asOf |-> slot[s].asOf, stamp |-> slot[s].stamp,
                   left |-> slot[s].left] /\ slot[s].asOf \in Nat
    BY <1>12, HandKinds DEF UpsertClosed, CacheShapes, Time
  <2>3. h.asOf = slot[s].asOf /\ slot[s].op = "upsert" /\ slot[s].asOf # NULL
    BY <2>1, <2>2
  <2>4. HandPast(h, now) /\ slot[s].asOf <= now
    BY <2>3 DEF HandPast, NoFuture
  <2>5. (slot' = [slot EXCEPT ![s] = h] \/ slot' = [slot EXCEPT ![s] = NoRequest]) /\ now' = now
    BY <1>12, <2>0, <2>1 DEF UpsertClosed, Hold, CacheShapes
  <2>6. \A t \in Slots : HandPast(slot'[t], now')
    BY <1>1, <2>4, <2>5, FutureFrame
  <2>7. comps' = comps
        \/ comps' = [comps EXCEPT ![l] = [asOf |-> slot[s].asOf, stamp |-> slot[s].stamp]]
    BY <1>12, <2>0 DEF UpsertClosed
  <2>8. \A k \in Sales : comps'[k] = comps[k] \/ comps'[k].asOf = slot[s].asOf
    BY <2>7 DEF CacheShapes
  <2>9. \A k \in Sales : comps'[k] # NULL => comps'[k].asOf <= now
    BY <2>4, <2>8 DEF NoFuture, Past
  <2>. QED BY <1>12, <2>6, <2>9 DEF UpsertClosed, NoFuture, Past, HandPast
<1>13. CASE PurgeExpired
  BY <1>13 DEF PurgeExpired, NoFuture, Past
<1>14. CASE Replicate
  BY <1>14 DEF Replicate, NoFuture, Past
<1>15. CASE Tick
  <2>1. \A e \in Entry : Past(e) => Past(e)'
    BY <1>0, <1>15 DEF Tick, Past
  <2>2. \A e \in {proxy, gis, replica.proxy, replica.gis} : Past(e)'
    BY <2>1 DEF NoFuture, CacheShapes
  <2>3. \A l \in Sales : Past(comps[l])'
    BY <1>15, <2>1 DEF Tick, NoFuture, CacheShapes, Past
  <2>4. \A s \in Slots : slot[s].op \in {"proxy", "gis", "upsert"} /\ slot[s].asOf # NULL
                          => slot[s].asOf \in Nat
    BY HandKinds DEF CacheShapes, Time
  <2>5. served # NULL => served.asOf <= served.at /\ served.at <= now + 1
    <3>1. served # NULL => served.at \in Nat
      BY DEF CacheShapes, Time
    <3>. QED BY <1>0, <3>1 DEF NoFuture
  <2>6. \A s \in Slots : slot[s].op \in {"proxy", "gis", "upsert"} /\ slot[s].asOf # NULL
                          => slot[s].asOf <= now + 1
    BY <1>0, <2>4 DEF NoFuture
  <2>. QED BY <1>15, <2>2, <2>3, <2>5, <2>6 DEF Tick, NoFuture, Past
<1>16. CASE UNCHANGED cacheVars
  BY <1>16 DEF cacheVars, NoFuture, Past
<1>. QED
  BY <1>3, <1>4, <1>5, <1>6, <1>7, <1>8, <1>9, <1>10, <1>11, <1>12, <1>13, <1>14, <1>15, <1>16
     DEF CacheNext, Request

-----------------------------------------------------------------------------
(* Freshness *)

(***************************************************************************)
(* Empty caches satisfy the inductive invariant.                           *)
(***************************************************************************)
LEMMA InitHold == CacheInit => HoldInv /\ FreshServed
BY DEF CacheInit, HoldInv, FreshServed, StampOK, HandOK, NoRequest

(***************************************************************************)
(* Every step keeps it: what is served was fresh by its stamp, and its     *)
(* stamp is honest.                                                        *)
(***************************************************************************)
LEMMA NextHold == CacheInv /\ CacheShapes' /\ [CacheNext]_cacheVars => HoldInv' /\ FreshServed'
<1>. SUFFICES ASSUME CacheShapes, CacheShapes', HoldInv, FreshServed, [CacheNext]_cacheVars
              PROVE  HoldInv' /\ FreshServed'
  BY DEF CacheInv
<1>. USE CacheAssumption
<1>0. /\ now \in Nat /\ MaxHold \in Nat /\ EdgeTTL \in Nat /\ ProxyTTL \in Nat /\ MaxAge \in Nat
      /\ \A e \in Entry : e # NULL => e.asOf \in Nat /\ e.stamp \in Nat
  BY DEF CacheShapes, Time, Entry
<1>a. ASSUME UNCHANGED served PROVE FreshServed'
  BY <1>a DEF FreshServed, TTL
<1>1. ASSUME NEW s \in Slots, ProxyGet(s) PROVE HoldInv' /\ FreshServed'
  <2>1. HoldInv'
    BY <1>1 DEF ProxyGet, Hold, HoldInv, HandOK, StampOK, CacheShapes
  <2>2. ASSUME NEW e \in ProxyViews, Fresh(e), Serve("proxy", e.asOf) PROVE FreshServed'
    <3>1. e \in Entry /\ StampOK(e, 0)
      BY DEF ProxyViews, HoldInv, CacheShapes
    <3>2. now - e.asOf <= ProxyTTL + MaxHold
      BY <1>0, <2>2, <3>1 DEF Fresh, StampOK
    <3>. QED BY <2>2, <3>2 DEF Serve, FreshServed, TTL
  <2>. QED BY <1>1, <1>a, <2>1, <2>2 DEF ProxyGet
<1>2. ASSUME NEW s \in Slots, ProxyPut(s) PROVE HoldInv' /\ FreshServed'
  <2>1. slot[s].asOf \in Nat /\ now - slot[s].asOf <= MaxHold
    BY <1>2, HandKinds DEF ProxyPut, CacheShapes, HoldInv, HandOK, Time
  <2>2. StampOK([asOf |-> slot[s].asOf, stamp |-> now], 0)
    BY <1>0, <2>1 DEF StampOK
  <2>3. StampOK(proxy', 0)
    BY <1>2, <2>2 DEF ProxyPut, HoldInv
  <2>4. \A t \in Slots : HandOK(slot[t])'
    BY <1>2 DEF ProxyPut, Hold, HoldInv, HandOK, NoRequest, CacheShapes
  <2>. QED BY <1>2, <1>a, <2>3, <2>4 DEF ProxyPut, HoldInv, StampOK
<1>3. ASSUME NEW s \in Slots, FromCache(s) PROVE HoldInv' /\ FreshServed'
  <2>1. HoldInv'
    BY <1>3 DEF FromCache, Hold, HoldInv, HandOK, StampOK, CacheShapes
  <2>2. ASSUME NEW e \in GisViews, e # NULL, e.stamp > now, Serve("gis", e.asOf)
        PROVE  FreshServed'
    <3>1. e \in Entry /\ StampOK(e, EdgeTTL)
      BY DEF GisViews, HoldInv, CacheShapes
    <3>2. now - e.asOf <= EdgeTTL + MaxHold
      BY <1>0, <2>2, <3>1 DEF StampOK
    <3>. QED BY <2>2, <3>2 DEF Serve, FreshServed, TTL
  <2>. QED BY <1>3, <1>a, <2>1, <2>2 DEF FromCache
<1>4. ASSUME NEW s \in Slots, StoreCache(s) PROVE HoldInv' /\ FreshServed'
  <2>1. slot[s].asOf \in Nat /\ now - slot[s].asOf <= MaxHold
    BY <1>4, HandKinds DEF StoreCache, CacheShapes, HoldInv, HandOK, Time
  <2>2. StampOK([asOf |-> slot[s].asOf, stamp |-> now + EdgeTTL], EdgeTTL)
    BY <1>0, <2>1 DEF StampOK
  <2>3. StampOK(gis', EdgeTTL)
    BY <1>4, <2>2 DEF StoreCache, HoldInv
  <2>4. \A t \in Slots : HandOK(slot[t])'
    BY <1>4 DEF StoreCache, Hold, HoldInv, HandOK, NoRequest, CacheShapes
  <2>. QED BY <1>4, <1>a, <2>3, <2>4 DEF StoreCache, HoldInv, StampOK
<1>5. ASSUME NEW s \in Slots, FetchUpstream(s) PROVE HoldInv' /\ FreshServed'
  <2>1. slot[s] = [op |-> slot[s].op, asOf |-> slot[s].asOf] /\ slot[s].op \in {"proxy", "gis"}
    BY <1>5, HandKinds DEF FetchUpstream, CacheShapes
  <2>2. slot'[s] = [op |-> slot[s].op, asOf |-> now]
    BY <1>5, <2>1 DEF FetchUpstream, CacheShapes
  <2>3. \A t \in Slots : HandOK(slot[t])'
    BY <1>0, <1>5, <2>1, <2>2 DEF FetchUpstream, HoldInv, HandOK, CacheShapes
  <2>. QED BY <1>5, <1>a, <2>3 DEF FetchUpstream, HoldInv, StampOK
<1>6. ASSUME NEW s \in Slots, UpstreamFails(s) PROVE HoldInv' /\ FreshServed'
  BY <1>6, <1>a DEF UpstreamFails, Hold, HoldInv, HandOK, StampOK, NoRequest, CacheShapes
<1>7. ASSUME NEW s \in Slots, NEW scope \in Scopes, NEW l \in Sales,
             FindClosedInScope(s, scope, l)
      PROVE  HoldInv' /\ FreshServed'
  <2>. DEFINE cached == Latest(FreshRows(scope), 2 * Limit)
              out == Latest(cached \ {l}, Limit)
              times == {comps[k].asOf : k \in out}
  <2>1. CASE Hold(s, [op |-> "live", scope |-> scope]) /\ UNCHANGED served
    BY <1>7, <1>a, <2>1 DEF FindClosedInScope, Hold, HoldInv, HandOK, StampOK, CacheShapes
  <2>2. CASE /\ Cardinality(cached) >= MinHits /\ Cardinality(cached \ {l}) >= MinHits
             /\ Serve("comps", Min(times)) /\ UNCHANGED slot
    <3>1. out # {} /\ out \subseteq FreshRows(scope)
      BY <2>2, HitHasRows
    <3>2. ASSUME NEW k \in FreshRows(scope)
          PROVE  comps[k].asOf \in Nat /\ now - comps[k].asOf <= MaxAge + MaxHold
      <4>1. k \in Sales /\ comps[k] \in Entry /\ comps[k] # NULL /\ now - comps[k].stamp <= MaxAge
        BY DEF FreshRows, CacheShapes
      <4>2. StampOK(comps[k], 0)
        BY <4>1 DEF HoldInv
      <4>. QED BY <1>0, <4>1, <4>2 DEF StampOK
    <3>3. /\ times \in SUBSET Nat /\ times # {}
          /\ \A a \in times : now - a <= MaxAge + MaxHold
      <4>. HIDE DEF out
      <4>. QED BY <3>1, <3>2
    <3>. HIDE DEF times
    <3>4. now - Min(times) <= MaxAge + MaxHold
      BY <3>3, MinInSet
    <3>5. FreshServed'
      BY <2>2, <3>4 DEF Serve, FreshServed, TTL
    <3>6. HoldInv'
      BY <1>7, <2>2 DEF FindClosedInScope, HoldInv, HandOK, StampOK
    <3>. QED BY <3>5, <3>6
  <2>. QED BY <1>7, <2>1, <2>2 DEF FindClosedInScope
<1>8. ASSUME NEW s \in Slots, FetchSoldCompsLive(s) PROVE HoldInv' /\ FreshServed'
  <2>1. slot'[s].op = "upsert" /\ slot'[s].asOf = now /\ slot'[s].stamp = NULL
    BY <1>8 DEF FetchSoldCompsLive, Hold, CacheShapes
  <2>2. \A t \in Slots : HandOK(slot[t])'
    BY <1>0, <1>8, <2>1 DEF FetchSoldCompsLive, Hold, HoldInv, HandOK, CacheShapes
  <2>. QED BY <1>8, <1>a, <2>2 DEF FetchSoldCompsLive, HoldInv, StampOK
<1>14. ASSUME NEW s \in Slots, UpsertClosedBatch(s) PROVE HoldInv' /\ FreshServed'
  <2>1. /\ slot[s] = [op |-> "upsert", asOf |-> slot[s].asOf, stamp |-> slot[s].stamp,
                      left |-> slot[s].left]
        /\ slot[s].asOf \in Nat /\ now - slot[s].asOf <= MaxHold
    BY <1>14, HandKinds DEF UpsertClosedBatch, CacheShapes, HoldInv, HandOK, Time
  <2>2. slot'[s].op = "upsert" /\ slot'[s].asOf = slot[s].asOf /\ slot'[s].stamp = now
    BY <1>14, <2>1 DEF UpsertClosedBatch, CacheShapes
  <2>3. \A t \in Slots : HandOK(slot[t])'
    BY <1>0, <1>14, <2>1, <2>2 DEF UpsertClosedBatch, HoldInv, HandOK, CacheShapes
  <2>. QED BY <1>14, <1>a, <2>3 DEF UpsertClosedBatch, HoldInv, StampOK
<1>9. ASSUME NEW s \in Slots, UpsertClosed(s) PROVE HoldInv' /\ FreshServed'
  <2>. DEFINE l == Min(slot[s].left)
              left == slot[s].left \ {l}
              entry == [asOf |-> slot[s].asOf, stamp |-> slot[s].stamp]
  <2>1. /\ slot[s] = [op |-> "upsert", asOf |-> slot[s].asOf, stamp |-> slot[s].stamp,
                      left |-> slot[s].left]
        /\ slot[s].asOf \in Nat /\ slot[s].stamp \in Nat /\ slot[s].stamp - slot[s].asOf <= MaxHold
    BY <1>9, HandKinds DEF UpsertClosed, CacheShapes, HoldInv, HandOK, Time
  <2>2. StampOK(entry, 0)
    BY <1>0, <2>1 DEF StampOK
  <2>3. \A k \in Sales : StampOK(comps'[k], 0)
    BY <1>9, <2>2 DEF UpsertClosed, HoldInv, CacheShapes
  <2>4. slot'[s] = NoRequest \/ slot'[s] = [slot[s] EXCEPT !.left = left]
    BY <1>9 DEF UpsertClosed, Hold, CacheShapes
  <2>5. HandOK(slot[s])'
    <3>1. CASE slot'[s] = NoRequest
      BY <3>1 DEF HandOK, NoRequest
    <3>2. CASE slot'[s] = [slot[s] EXCEPT !.left = left]
      <4>1. slot'[s].op = slot[s].op /\ slot'[s].asOf = slot[s].asOf /\ slot'[s].stamp = slot[s].stamp
        BY <2>1, <3>2
      <4>2. HandOK(slot[s]) /\ now' = now
        BY <1>9 DEF UpsertClosed, HoldInv
      <4>. QED BY <4>1, <4>2 DEF HandOK
    <3>. QED BY <2>4, <3>1, <3>2
  <2>6. \A t \in Slots : HandOK(slot[t])'
    BY <1>9, <2>5 DEF UpsertClosed, Hold, HoldInv, HandOK, CacheShapes
  <2>. QED BY <1>9, <1>a, <2>3, <2>6 DEF UpsertClosed, HoldInv, StampOK
<1>10. CASE PurgeExpired
  BY <1>10, <1>a DEF PurgeExpired, HoldInv, HandOK, StampOK
<1>11. CASE Replicate
  BY <1>11, <1>a DEF Replicate, HoldInv, HandOK, StampOK
<1>12. CASE Tick
  <2>1. ASSUME NEW s \in Slots PROVE HandOK(slot[s])'
    <3>1. slot[s] \in Hand /\ HandOK(slot[s]) /\ now' = now + 1 /\ slot' = slot
      BY <1>12 DEF Tick, HoldInv, CacheShapes
    <3>2. ASSUME slot[s].op \in {"proxy", "gis", "upsert"}, slot[s].asOf # NULL
          PROVE  (now + 1) - slot[s].asOf <= MaxHold
      <4>1. now - slot[s].asOf < MaxHold
        BY <1>12, <3>2 DEF Tick
      <4>2. slot[s].asOf \in Nat
        BY <3>1, <3>2, HandKinds DEF Time
      <4>. QED BY <1>0, <4>1, <4>2
    <3>. QED BY <3>1, <3>2 DEF HandOK
  <2>. QED BY <1>12, <1>a, <2>1 DEF Tick, HoldInv, StampOK
<1>13. CASE UNCHANGED cacheVars
  BY <1>13, <1>a DEF cacheVars, HoldInv, HandOK, StampOK
<1>. QED
  BY <1>1, <1>2, <1>3, <1>4, <1>5, <1>6, <1>7, <1>8, <1>9, <1>10, <1>11, <1>12, <1>13, <1>14
     DEF CacheNext, Request

-----------------------------------------------------------------------------
(* Theorems *)

(***************************************************************************)
(* The state keeps its types: whatever is in a cache or in a request's     *)
(* hands was answered by the upstream at a time that has been.             *)
(***************************************************************************)
THEOREM CacheTypes == CacheSpec => []CacheTypeOK
<1>1. CacheInit => CacheTypeOK
  BY InitType, InitFuture DEF CacheTypeOK
<1>2. CacheTypeOK /\ [CacheNext]_cacheVars => CacheTypeOK'
  BY NextType, NextFuture DEF CacheTypeOK
<1>. QED BY <1>1, <1>2, PTL DEF CacheSpec

(***************************************************************************)
(* No cache serves an answer older than its time to live and the longest   *)
(* time a request holds one: ProxyCache.Get, GIS Fetch and                 *)
(* FindClosedInScope, for any number of requests that miss at once and     *)
(* store in any order, any lag of the replica and any schedule of the      *)
(* purge.                                                                  *)
(***************************************************************************)
THEOREM AnswersAreFresh == CacheSpec => []FreshServed
<1>1. CacheInit => CacheInv
  BY InitType, InitHold DEF CacheInv
<1>2. CacheInv /\ [CacheNext]_cacheVars => CacheInv'
  BY NextType, NextHold DEF CacheInv
<1>3. CacheInv => FreshServed
  BY DEF CacheInv
<1>. QED BY <1>1, <1>2, <1>3, PTL DEF CacheSpec
=============================================================================
