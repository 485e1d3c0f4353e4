----------------------- MODULE ReplicaSelectorProofs ------------------------
(***************************************************************************)
(* Theorems about ReplicaSelector, for every set of hosts and readers and  *)
(* every pair of thresholds.                                               *)
(***************************************************************************)
EXTENDS ReplicaSelector, TLAPS

(***************************************************************************)
(* Types, with the domains TypeOK leaves open; a reader that has a pool in *)
(* hand, and one that has attempts left.                                   *)
(***************************************************************************)
Holding == {"ping", "mark", "health", "failures", "successes", "record", "return", "read"}
Trying == InCall \ {"fallback"}
Call1 == [pc : InCall \cup {"idle", "return", "read"}, pool : Pool \cup {NULL}, attempt : 0..2,
          held : Pool \cup {NULL}, rows : 0..MaxRows]

ReqOK(q) ==
    /\ q \in [Requests -> Call1]
    /\ \A r \in Requests : /\ q[r].pc \in Holding => q[r].pool \in Pool
                           /\ q[r].pc \in Trying => q[r].attempt <= 1

EntriesOK == replicas \in [Hosts -> Entry \cup {NULL}]

LoopOK ==
    /\ open \subseteq Pool /\ opened \in [Hosts -> 0..MaxPools]
    /\ desired \subseteq Hosts /\ todo \subseteq Hosts
    /\ cancelled \in BOOLEAN
    /\ run \in [Hosts -> [bad : 0..FailThreshold, good : 0..RecoverThreshold]]

(***************************************************************************)
(* Who is where: the mutex is held through one pass of syncReplicaPools,   *)
(* or by Close once the loop has ended, and what the loop works on is in   *)
(* the map.                                                                *)
(***************************************************************************)
PhaseOK ==
    /\ prober \in {"discover", "sync", "update", "probe", "wait", "done"}
    /\ cl \in {"open", "waiting", "closing", "closed"}
    /\ mu \in {NULL, "prober", "closer"}
    /\ mu = "prober" <=> prober = "update"
    /\ mu = "closer" <=> cl = "closing"
    /\ cl \in {"closing", "closed"} => prober = "done"
    /\ prober \in {"sync", "update"} => \A h \in desired : h \in Known \/ opened[h] < MaxPools
    /\ prober = "probe" => todo \subseteq Known
    /\ probe # NULL => probe \in ProbeState /\ prober = "probe" /\ probe.host \in Known

(***************************************************************************)
(* The open pools are those of the entries, but for the one being closed   *)
(* and, in Close, those closed already.                                    *)
(***************************************************************************)
Pools == {PoolOf(h) : h \in Known}

PoolsOK ==
    /\ closing # NULL => closing \in Pools /\ mu # NULL /\ closing \notin open
    /\ mu # "closer" => open = Pools \ {closing}
    /\ mu = "prober" /\ closing # NULL => closing[1] \notin desired
    /\ mu = "closer" => open \subseteq Pools
    /\ cl = "closed" => Known = {}

(***************************************************************************)
(* Circuit breaker: the counters of an entry against the history.  A       *)
(* concurrent markUnhealthy only raises failures and lowers successes.     *)
(***************************************************************************)
InFlight(h) == probe # NULL /\ probe.host = h

Counted(h) == /\ run[h].bad <= replicas[h].failures
              /\ replicas[h].successes <= run[h].good

CountersOK(h) ==
    /\ ~InFlight(h) =>
         Counted(h) /\ (run[h].bad = FailThreshold => ~replicas[h].healthy)
    /\ InFlight(h) /\ probe.ok =>
         /\ run[h].bad = 0
         /\ probe.step = "count" => UpTo(replicas[h].successes, RecoverThreshold) <= run[h].good
         /\ probe.step = "health" => /\ replicas[h].successes <= run[h].good
                                     /\ probe.trips => run[h].good = RecoverThreshold
    /\ InFlight(h) /\ ~probe.ok =>
         /\ replicas[h].successes = 0
         /\ probe.step = "count" => run[h].bad <= UpTo(replicas[h].failures, FailThreshold)
         /\ probe.step = "health" => /\ run[h].bad <= replicas[h].failures
                                     /\ run[h].bad = FailThreshold => probe.trips

BreakerOK ==
    /\ \A h \in Hosts \ Known : run[h] = NoRun
    /\ \A h \in Known : CountersOK(h)

SelectorInv == ReqOK(req) /\ EntriesOK /\ LoopOK /\ PhaseOK /\ PoolsOK /\ BreakerOK

-----------------------------------------------------------------------------
(* Readers *)

(***************************************************************************)
(* A reader leaves every entry where it is, with its pool; it may mark it  *)
(* unhealthy, raise its failures and lower its successes.                  *)
(***************************************************************************)
Marks ==
    /\ EntriesOK'
    /\ \A h \in Hosts :
         /\ replicas'[h] = NULL <=> replicas[h] = NULL
         /\ replicas[h] # NULL =>
              /\ replicas'[h].pool = replicas[h].pool
              /\ replicas'[h].healthy => replicas[h].healthy
              /\ replicas[h].failures <= replicas'[h].failures
              /\ replicas'[h].successes <= replicas[h].successes

LEMMA SameIsMarks ==
    ASSUME EntriesOK, replicas' = replicas
    PROVE  Marks
<1>1. \A h \in Hosts : replicas[h] # NULL => replicas[h].failures \in Nat /\ replicas[h].successes \in Nat
  BY SelectorAssumption DEF EntriesOK, Entry
<1>. QED BY <1>1 DEF Marks, EntriesOK

(***************************************************************************)
(* The three stores of markUnhealthy.                                      *)
(***************************************************************************)
LEMMA StoreMarks ==
    ASSUME EntriesOK, NEW r \in Requests, req[r].pool \in Pool, NEW e, StoreTo(r, e),
           replicas[req[r].pool[1]] # NULL =>
             /\ e \in Entry /\ e.pool = replicas[req[r].pool[1]].pool
             /\ e.healthy => replicas[req[r].pool[1]].healthy
             /\ replicas[req[r].pool[1]].failures <= e.failures
             /\ e.successes <= replicas[req[r].pool[1]].successes
    PROVE  Marks
<1>1. CASE ~SelectedEntry(r)
  BY <1>1, SameIsMarks DEF StoreTo
<1>2. CASE SelectedEntry(r)
  <2>1. PICK h \in Hosts : h = req[r].pool[1]
    BY DEF Pool
  <2>2. replicas[h] # NULL /\ replicas' = [replicas EXCEPT ![h] = e] /\ e \in Entry /\ e # NULL
    BY <1>2, <2>1, NullAssumption DEF StoreTo, SelectedEntry
  <2>3. EntriesOK' /\ replicas'[h] = e /\ \A k \in Hosts \ {h} : replicas'[k] = replicas[k]
    BY <2>2 DEF EntriesOK
  <2>4. \A k \in Hosts : replicas[k] # NULL => replicas[k].failures \in Nat /\ replicas[k].successes \in Nat
    BY SelectorAssumption DEF EntriesOK, Entry
  <2>. QED BY <2>1, <2>2, <2>3, <2>4 DEF Marks
<1>. QED BY <1>1, <1>2

LEMMA ReqMove ==
    ASSUME ReqOK(req), NEW r \in Requests, NEW q \in Call1, req' = [req EXCEPT ![r] = q],
           q.pc \in Holding => q.pool \in Pool, q.pc \in Trying => q.attempt <= 1
    PROVE  ReqOK(req')
<1>1. req' \in [Requests -> Call1] /\ req'[r] = q /\ \A t \in Requests \ {r} : req'[t] = req[t]
  BY DEF ReqOK
<1>. QED BY <1>1 DEF ReqOK

LEMMA ReaderStep ==
    ASSUME SelectorInv, NEW r \in Requests, Call(r) \/ Request(r)
    PROVE  ReqOK(req') /\ Marks /\ UNCHANGED <<poolVars, proberVars, stopVars, run>>
<1>0. ReqOK(req) /\ EntriesOK /\ req[r] \in Call1 /\ req \in [Requests -> Call1]
      /\ (req[r].pc \in Holding => req[r].pool \in Pool)
      /\ (req[r].pc \in Trying => req[r].attempt <= 1)
  BY DEF SelectorInv, ReqOK
<1>1. NoCall \in Call1 /\ NoCall.pc = "idle"
  BY SelectorAssumption DEF NoCall, Call1
<1>2. CASE Call(r)
  <2>1. PICK q : q = [NoCall EXCEPT !.pc = IF cl = "open" THEN "select" ELSE "idle"]
    OBVIOUS
  <2>2. q \in Call1 /\ q.attempt = 0 /\ q.pc \in {"select", "idle"}
    BY <2>1, SelectorAssumption DEF NoCall, Call1, InCall
  <2>3. q.pc \notin Holding /\ q.attempt <= 1
    BY <2>2 DEF Holding
  <2>4. req' = [req EXCEPT ![r] = q]
    BY <1>2, <2>1 DEF Call
  <2>5. ReqOK(req')
    BY <1>0, <2>2, <2>3, <2>4, ReqMove
  <2>. QED BY <1>0, <1>2, <2>5, SameIsMarks DEF Call
<1>3. ASSUME NEW pc \in InCall \cup {"return", "read"}, Goto(r, pc),
             pc \in Holding => req[r].pool \in Pool, pc \in Trying => req[r].attempt <= 1
      PROVE  ReqOK(req')
  <2>1. PICK q : q = [req[r] EXCEPT !.pc = pc]
    OBVIOUS
  <2>2. q \in Call1 /\ q.pc = pc /\ q.pool = req[r].pool /\ q.attempt = req[r].attempt
    BY <1>0, <2>1 DEF Call1
  <2>3. req' = [req EXCEPT ![r] = q]
    BY <1>0, <1>3, <2>1 DEF Goto
  <2>. QED BY <1>0, <1>3, <2>2, <2>3, ReqMove
<1>4. ASSUME NextAttempt(r), req[r].pc \in Trying PROVE ReqOK(req')
  <2>0. PICK pc : pc = IF req[r].attempt + 1 < 2 THEN "select" ELSE "fallback"
    OBVIOUS
  <2>1. PICK q : q = [req[r] EXCEPT !.pool = NULL, !.attempt = req[r].attempt + 1, !.pc = pc]
    OBVIOUS
  <2>2. req[r].attempt \in 0..1
    BY <1>0, <1>4 DEF Call1
  <2>3. q.pc = pc /\ q.attempt = req[r].attempt + 1 /\ q.pool = NULL /\ q \in Call1
    <3>1. pc \in InCall /\ req[r].attempt + 1 \in 0..2
      BY <2>0, <2>2 DEF InCall
    <3>. QED BY <1>0, <2>1, <3>1 DEF Call1
  <2>4. q.pc \notin Holding /\ (q.pc \in Trying => q.attempt <= 1)
    BY <2>0, <2>2, <2>3 DEF Holding, Trying
  <2>5. req' = [req EXCEPT ![r] = q]
    BY <1>0, <1>4, <2>0, <2>1 DEF NextAttempt
  <2>. QED BY <1>0, <2>3, <2>4, <2>5, ReqMove
<1>5. ASSUME NEW pc \in {"ping", "health"}, NEW p \in Pool, req[r].pc \in Trying,
             req' = [req EXCEPT ![r].pc = pc, ![r].pool = p]
      PROVE  ReqOK(req')
  <2>1. PICK q : q = [req[r] EXCEPT !.pc = pc, !.pool = p]
    OBVIOUS
  <2>2. q \in Call1 /\ q.pc = pc /\ q.pool = p /\ q.attempt = req[r].attempt
    BY <1>0, <2>1 DEF Call1, InCall
  <2>3. req' = [req EXCEPT ![r] = q]
    BY <1>0, <1>5, <2>1
  <2>. QED BY <1>0, <1>5, <2>2, <2>3, ReqMove
<1>6. ASSUME req' = [req EXCEPT ![r] = NoCall] PROVE ReqOK(req')
  <2>1. NoCall.pc \notin Holding /\ NoCall.pc \notin Trying
    BY <1>1 DEF Holding, Trying, InCall
  <2>. QED BY <1>0, <1>1, <1>6, <2>1, ReqMove
<1>21. ASSUME NEW a, NEW p \in Pool, NEW held \in Pool \cup {NULL}, NEW n \in 0..MaxRows,
              NEW pc \in {"read", "select"}, pc = "read" => a = p, pc = "select" => a = NULL,
              req' = [req EXCEPT ![r] = [pc |-> pc, pool |-> a, attempt |-> 0, held |-> held,
                                         rows |-> n]]
       PROVE  ReqOK(req')
  <2>1. PICK q : q = [pc |-> pc, pool |-> a, attempt |-> 0, held |-> held, rows |-> n]
    OBVIOUS
  <2>2. q.pc = pc /\ q.pool = a /\ q.attempt <= 1
    BY <2>1
  <2>3. q \in Call1
    BY <1>21, <2>1 DEF Call1, InCall
  <2>4. q.pc \in Holding => q.pool \in Pool
    BY <1>21, <2>2 DEF Holding
  <2>5. req' = [req EXCEPT ![r] = q]
    BY <1>21, <2>1
  <2>. QED BY <1>0, <2>2, <2>3, <2>4, <2>5, ReqMove
<1>22. ASSUME Resume(r) PROVE ReqOK(req')
  <2>1. CASE req[r].held = NULL
    BY <1>0, <1>6, <1>22, <2>1 DEF Resume
  <2>2. CASE req[r].held # NULL
    <3>1. PICK p, n : p = req[r].held /\ n = req[r].rows
      OBVIOUS
    <3>2. p \in Pool /\ n \in 0..MaxRows
      BY <1>0, <2>2, <3>1 DEF Call1
    <3>3. req' = [req EXCEPT ![r] = [pc |-> "read", pool |-> p, attempt |-> 0, held |-> NULL,
                                     rows |-> n]]
      BY <1>0, <1>22, <2>2, <3>1 DEF Resume
    <3>. QED BY <1>21, <3>2, <3>3
  <2>. QED BY <2>1, <2>2
<1>7. \A h \in Known : PoolOf(h) \in Pool
  BY <1>0 DEF Known, PoolOf, Pool, EntriesOK, Entry
<1>8. CASE SelectBest(r)
  <2>1. req[r].pc \in Trying
    BY <1>8 DEF SelectBest, Trying, InCall
  <2>2. ASSUME Goto(r, "fallback") PROVE ReqOK(req')
    BY <1>3, <2>2 DEF InCall, Holding, Trying
  <2>3. ASSUME NEW h \in Known, req' = [req EXCEPT ![r].pc = "ping", ![r].pool = PoolOf(h)]
        PROVE  ReqOK(req')
    BY <1>5, <1>7, <2>1, <2>3
  <2>4. ReqOK(req')
    BY <1>8, <2>2, <2>3 DEF SelectBest
  <2>5. UNCHANGED <<replicas, poolVars, proberVars, stopVars, run>>
    BY <1>8 DEF SelectBest
  <2>. QED BY <1>0, <2>4, <2>5, SameIsMarks
<1>9. CASE QuickPing(r)
  <2>1. req[r].pc \in Trying /\ req[r].pc \in Holding
    BY <1>9 DEF QuickPing, Trying, InCall, Holding
  <2>2. ReqOK(req')
    BY <1>0, <1>3, <1>9, <2>1 DEF QuickPing, InCall
  <2>. QED BY <1>0, <1>9, <2>2, SameIsMarks DEF QuickPing
<1>10. CASE MarkUnhealthy(r)
  <2>1. req[r].pc \in Trying /\ req[r].pc \in Holding
    BY <1>10 DEF MarkUnhealthy, Trying, InCall, Holding
  <2>2. ReqOK(req')
    BY <1>4, <1>5, <1>7, <1>10, <2>1 DEF MarkUnhealthy
  <2>. QED BY <1>0, <1>10, <2>2, SameIsMarks DEF MarkUnhealthy
<1>11. ASSUME req[r].pc \in Holding
       PROVE  /\ req[r].pool \in Pool /\ req[r].pool[1] \in Hosts
              /\ replicas[req[r].pool[1]] # NULL => replicas[req[r].pool[1]] \in Entry
  BY <1>0, <1>11 DEF Pool, EntriesOK
<1>12. CASE MarkHealth(r)
  <2>1. req[r].pc \in Trying /\ req[r].pc \in Holding
    BY <1>12 DEF MarkHealth, Trying, InCall, Holding
  <2>2. ReqOK(req')
    BY <1>0, <1>3, <1>12, <2>1 DEF MarkHealth, InCall
  <2>3. PICK e, f : f = replicas[req[r].pool[1]] /\ e = [f EXCEPT !.healthy = FALSE]
    OBVIOUS
  <2>4. f # NULL => /\ e \in Entry /\ e.pool = f.pool /\ ~e.healthy
                    /\ f.failures <= e.failures /\ e.successes <= f.successes
    <3>1. SUFFICES ASSUME f # NULL
                   PROVE  /\ e \in Entry /\ e.pool = f.pool /\ ~e.healthy
                          /\ f.failures <= e.failures /\ e.successes <= f.successes
      OBVIOUS
    <3>2. f \in Entry
      BY <1>11, <2>1, <2>3, <3>1
    <3>3. e \in Entry
      BY <2>3, <3>2 DEF Entry
    <3>4. ~e.healthy
      BY <2>3, <3>2 DEF Entry
    <3>. QED BY <2>3, <3>2, <3>3, <3>4, SelectorAssumption DEF Entry
  <2>5. Marks
    BY <1>0, <1>11, <1>12, <2>1, <2>3, <2>4, StoreMarks DEF MarkHealth
  <2>. QED BY <1>12, <2>2, <2>5 DEF MarkHealth
<1>13. CASE MarkFailures(r)
  <2>1. req[r].pc \in Trying /\ req[r].pc \in Holding
    BY <1>13 DEF MarkFailures, Trying, InCall, Holding
  <2>2. ReqOK(req')
    BY <1>0, <1>3, <1>13, <2>1 DEF MarkFailures, InCall
  <2>3. PICK e, f : f = replicas[req[r].pool[1]] /\ e = [f EXCEPT !.failures = FailThreshold]
    OBVIOUS
  <2>4. f # NULL => /\ e \in Entry /\ e.pool = f.pool /\ e.healthy = f.healthy
                    /\ f.failures <= e.failures /\ e.successes <= f.successes
    BY <1>11, <2>1, <2>3, SelectorAssumption DEF Entry
  <2>5. Marks
    BY <1>0, <1>11, <1>13, <2>1, <2>3, <2>4, StoreMarks DEF MarkFailures
  <2>. QED BY <1>13, <2>2, <2>5 DEF MarkFailures
<1>14. CASE MarkSuccesses(r)
  <2>1. req[r].pc \in Trying /\ req[r].pc \in Holding
    BY <1>14 DEF MarkSuccesses, Trying, InCall, Holding
  <2>2. ReqOK(req')
    BY <1>4, <1>14, <2>1 DEF MarkSuccesses
  <2>3. PICK e, f : f = replicas[req[r].pool[1]] /\ e = [f EXCEPT !.successes = 0]
    OBVIOUS
  <2>4. f # NULL => /\ e \in Entry /\ e.pool = f.pool /\ e.healthy = f.healthy
                    /\ f.failures <= e.failures /\ e.successes <= f.successes
    BY <1>11, <2>1, <2>3, SelectorAssumption DEF Entry
  <2>5. Marks
    BY <1>0, <1>11, <1>14, <2>1, <2>3, <2>4, StoreMarks DEF MarkSuccesses
  <2>. QED BY <1>14, <2>2, <2>5 DEF MarkSuccesses
<1>15. CASE RecordSelection(r)
  <2>1. ASSUME req[r].pc = "record", req' = [req EXCEPT ![r].pc = "return", ![r].attempt = 0]
        PROVE  ReqOK(req')
    <3>1. PICK q : q = [req[r] EXCEPT !.pc = "return", !.attempt = 0]
      OBVIOUS
    <3>2. q \in Call1 /\ q.pc = "return" /\ q.pool = req[r].pool /\ q.attempt = 0
      <4>1. q.pc = "return" /\ q.pool = req[r].pool /\ q.attempt = 0
        BY <1>0, <3>1 DEF Call1
      <4>2. q \in Call1
        <5>1. "return" \in InCall \cup {"idle", "return", "read"} /\ 0 \in 0..2
          OBVIOUS
        <5>. QED BY <1>0, <3>1, <5>1 DEF Call1
      <4>. QED BY <4>1, <4>2
    <3>3. req' = [req EXCEPT ![r] = q]
      BY <1>0, <2>1, <3>1
    <3>4. req[r].pool \in Pool
      BY <1>0, <2>1 DEF Holding
    <3>. QED BY <1>0, <3>2, <3>3, <3>4, ReqMove DEF Trying, InCall
  <2>2. ReqOK(req')
    BY <1>22, <1>15, <2>1 DEF RecordSelection
  <2>. QED BY <1>0, <1>15, <2>2, SameIsMarks DEF RecordSelection
<1>16. CASE Read(r) \/ ReadEnd(r)
  <2>1. Goto(r, "read") /\ req[r].pc = "return" => ReqOK(req')
    BY <1>0, <1>3 DEF Holding, Trying, InCall
  <2>2. ReqOK(req')
    BY <1>6, <1>22, <1>16, <2>1 DEF Read, ReadEnd
  <2>3. UNCHANGED <<replicas, poolVars, proberVars, stopVars, run>>
    BY <1>16 DEF Read, ReadEnd
  <2>. QED BY <1>0, <2>2, <2>3, SameIsMarks
<1>17. CASE NextRow(r)
  <2>1. ASSUME cl # "open" PROVE ReqOK(req')
    BY <1>6, <1>17, <2>1 DEF NextRow
  <2>2. ASSUME cl = "open" PROVE ReqOK(req')
    <3>1. PICK p, n : p = req[r].pool /\ n = req[r].rows + 1
      OBVIOUS
    <3>2. p \in Pool /\ n \in 0..MaxRows
      <4>1. req[r].pc \in Holding /\ req[r].rows < MaxRows
        BY <1>17 DEF NextRow, Holding
      <4>. QED BY <1>0, <3>1, <4>1, SelectorAssumption DEF Call1
    <3>3. req' = [req EXCEPT ![r] = [pc |-> "select", pool |-> NULL, attempt |-> 0, held |-> p,
                                     rows |-> n]]
      BY <1>0, <1>17, <2>2, <3>1 DEF NextRow
    <3>. QED BY <1>21, <3>2, <3>3
  <2>3. ReqOK(req')
    BY <2>1, <2>2
  <2>4. UNCHANGED <<replicas, poolVars, proberVars, stopVars, run>>
    BY <1>17 DEF NextRow
  <2>. QED BY <1>0, <2>3, <2>4, SameIsMarks
<1>. QED BY <1>2, <1>8, <1>9, <1>10, <1>12, <1>13, <1>14, <1>15, <1>16, <1>17 DEF Request

(***************************************************************************)
(* So a reader disturbs nothing that the others rely on.                   *)
(***************************************************************************)
LEMMA SamePools ==
    ASSUME Known' = Known, \A h \in Known : replicas'[h].pool = replicas[h].pool
    PROVE  Pools' = Pools
<1>1. \A h \in Known : PoolOf(h)' = PoolOf(h)
  BY DEF PoolOf
<1>. QED BY <1>1 DEF Pools

LEMMA ReaderKeeps ==
    ASSUME SelectorInv, Marks, UNCHANGED <<poolVars, proberVars, stopVars, run>>
    PROVE  EntriesOK' /\ LoopOK' /\ PhaseOK' /\ PoolsOK' /\ BreakerOK'
<1>0. UNCHANGED <<open, opened, mu, closing, prober, desired, todo, probe, cancelled, cl, run>>
  BY DEF poolVars, proberVars, stopVars
<1>1. EntriesOK /\ EntriesOK' /\ LoopOK'
  BY <1>0 DEF SelectorInv, LoopOK, Marks
<1>2. Known' = Known
  BY DEF Known, Marks
<1>3. \A h \in Known : /\ h \in Hosts /\ replicas'[h].pool = replicas[h].pool
                       /\ replicas'[h].healthy => replicas[h].healthy
                       /\ replicas[h].failures <= replicas'[h].failures
                       /\ replicas'[h].successes <= replicas[h].successes
  BY DEF Known, Marks
<1>4. Pools' = Pools
  BY <1>2, <1>3, SamePools
<1>5. PhaseOK'
  BY <1>0, <1>2 DEF SelectorInv, PhaseOK
<1>6. PoolsOK'
  BY <1>0, <1>2, <1>4 DEF SelectorInv, PoolsOK
<1>7. ASSUME NEW h \in Known PROVE CountersOK(h)'
  <2>1. CountersOK(h) /\ run'[h] = run[h] /\ (InFlight(h)' <=> InFlight(h)) /\ probe' = probe
    BY <1>0 DEF SelectorInv, BreakerOK, InFlight
  <2>2. /\ replicas[h] \in Entry /\ replicas'[h] \in Entry
        /\ run[h] \in [bad : 0..FailThreshold, good : 0..RecoverThreshold]
    BY <1>1, <1>2 DEF EntriesOK, Known, SelectorInv, LoopOK
  <2>3. PICK e, f, n : e = replicas[h] /\ f = replicas'[h] /\ n = run[h]
    OBVIOUS
  <2>4. /\ e.failures \in 0..FailThreshold /\ f.failures \in 0..FailThreshold
        /\ e.successes \in 0..RecoverThreshold /\ f.successes \in 0..RecoverThreshold
        /\ n.bad \in 0..FailThreshold /\ n.good \in 0..RecoverThreshold
        /\ FailThreshold \in Nat /\ RecoverThreshold \in Nat
        /\ e.failures <= f.failures /\ f.successes <= e.successes
        /\ f.healthy => e.healthy
    BY <1>3, <2>2, <2>3, SelectorAssumption DEF Entry
  <2>5. /\ UpTo(f.successes, RecoverThreshold) <= UpTo(e.successes, RecoverThreshold)
        /\ UpTo(e.failures, FailThreshold) <= UpTo(f.failures, FailThreshold)
        /\ UpTo(f.successes, RecoverThreshold) \in Nat /\ UpTo(e.successes, RecoverThreshold) \in Nat
        /\ UpTo(f.failures, FailThreshold) \in Nat /\ UpTo(e.failures, FailThreshold) \in Nat
    BY <2>4 DEF UpTo
  <2>6. CASE ~InFlight(h)
    BY <2>1, <2>3, <2>4, <2>6 DEF CountersOK, Counted
  <2>7. CASE InFlight(h) /\ probe.ok
    BY <2>1, <2>3, <2>4, <2>5, <2>7 DEF CountersOK
  <2>8. CASE InFlight(h) /\ ~probe.ok
    BY <2>1, <2>3, <2>4, <2>5, <2>8 DEF CountersOK
  <2>. QED BY <2>6, <2>7, <2>8
<1>8. BreakerOK'
  BY <1>0, <1>2, <1>7 DEF SelectorInv, BreakerOK
<1>. QED BY <1>1, <1>5, <1>6, <1>8

-----------------------------------------------------------------------------
(* The probe loop and Close *)

(***************************************************************************)
(* Steps that touch neither the entries nor the breakers.                  *)
(***************************************************************************)
LEMMA BreakerFrame ==
    ASSUME SelectorInv, UNCHANGED <<replicas, run, probe>>
    PROVE  EntriesOK' /\ BreakerOK' /\ Known' = Known /\ Pools' = Pools
<1>1. Known' = Known /\ Pools' = Pools
  BY DEF Known, Pools, PoolOf
<1>2. \A h \in Hosts : CountersOK(h)' <=> CountersOK(h)
  BY DEF CountersOK, Counted, InFlight
<1>3. \A h \in Known : h \in Hosts
  BY DEF Known
<1>. QED BY <1>1, <1>2, <1>3 DEF SelectorInv, EntriesOK, BreakerOK

LEMMA LoopStep ==
    ASSUME SelectorInv, Discover \/ SyncLock \/ CycleEnd \/ Wake \/ Stop
    PROVE  SelectorInv'
<1>0. UNCHANGED <<replicas, open, opened, closing, todo, probe, req, cancelled, cl, run>>
  BY DEF Discover, SyncLock, CycleEnd, Wake, Stop, poolVars, stopVars
<1>1. EntriesOK' /\ BreakerOK' /\ Known' = Known /\ Pools' = Pools
  BY <1>0, BreakerFrame
<1>2. ReqOK(req') /\ mu \in {NULL, "prober", "closer"} /\ NULL # "prober" /\ NULL # "closer"
  BY <1>0, NullAssumption DEF SelectorInv, PhaseOK
<1>3. CASE Discover
  <2>1. LoopOK' /\ mu' = mu
    BY <1>0, <1>3 DEF Discover, SelectorInv, LoopOK, poolVars
  <2>2. PhaseOK'
    BY <1>0, <1>1, <1>3, <2>1 DEF Discover, SelectorInv, PhaseOK
  <2>3. PoolsOK'
    <3>1. mu # "prober"
      BY <1>3 DEF Discover, SelectorInv, PhaseOK
    <3>. QED BY <1>0, <1>1, <2>1, <3>1 DEF SelectorInv, PoolsOK
  <2>. QED BY <1>1, <1>2, <2>1, <2>2, <2>3 DEF SelectorInv
<1>4. CASE SyncLock
  <2>1. desired' = desired /\ LoopOK'
    BY <1>0, <1>4 DEF SyncLock, SelectorInv, LoopOK
  <2>2. PhaseOK'
    BY <1>0, <1>1, <1>2, <1>4, <2>1 DEF SyncLock, SelectorInv, PhaseOK
  <2>3. PoolsOK'
    <3>1. mu = NULL /\ mu' = "prober" /\ closing = NULL /\ closing' = NULL
      BY <1>0, <1>4 DEF SyncLock, SelectorInv, PoolsOK
    <3>. QED BY <1>0, <1>1, <1>2, <3>1 DEF SelectorInv, PoolsOK
  <2>. QED BY <1>1, <1>2, <2>1, <2>2, <2>3 DEF SelectorInv
<1>5. CASE CycleEnd \/ Wake \/ Stop
  <2>1. desired' = desired /\ mu' = mu /\ LoopOK'
    BY <1>0, <1>5 DEF CycleEnd, Wake, Stop, SelectorInv, LoopOK, poolVars
  <2>2. PhaseOK'
    BY <1>0, <1>1, <1>2, <1>5, <2>1 DEF CycleEnd, Wake, Stop, SelectorInv, PhaseOK
  <2>3. PoolsOK'
    BY <1>0, <1>1, <2>1 DEF SelectorInv, PoolsOK
  <2>. QED BY <1>1, <1>2, <2>1, <2>2, <2>3 DEF SelectorInv
<1>. QED BY <1>3, <1>4, <1>5

(***************************************************************************)
(* syncReplicaPools.                                                       *)
(***************************************************************************)
LEMMA PoolsOfKnown ==
    ASSUME EntriesOK
    PROVE  /\ Pools \subseteq Pool /\ NULL \notin Pools
           /\ \A p \in Pools : p[1] \in Known /\ p = PoolOf(p[1])
<1>1. \A h \in Known : PoolOf(h) \in Pool /\ PoolOf(h)[1] = h
  BY DEF EntriesOK, Known, PoolOf, Pool, Entry
<1>. QED BY <1>1, NullAssumption DEF Pools

LEMMA RemoveStep ==
    ASSUME SelectorInv, SyncRemove
    PROVE  SelectorInv'
<1>0. /\ UNCHANGED <<opened, mu, prober, desired, todo, probe, req, cancelled, cl>>
      /\ prober = "update" /\ mu = "prober" /\ probe = NULL
      /\ cl \notin {"closing", "closed"}
  BY DEF SyncRemove, proberVars, stopVars, SelectorInv, PhaseOK
<1>1. EntriesOK /\ NULL # "prober" /\ NULL # "closer"
  BY NullAssumption DEF SelectorInv
<1>2. CASE \E h \in Known \ desired : CloseBegin(PoolOf(h)) /\ UNCHANGED <<replicas, run>>
  <2>1. PICK h \in Known \ desired : CloseBegin(PoolOf(h))
    BY <1>2
  <2>2. PICK p : p = PoolOf(h)
    OBVIOUS
  <2>3. closing = NULL /\ closing' = p /\ open' = open \ {p} /\ UNCHANGED <<replicas, run>>
    BY <1>2, <2>1, <2>2 DEF CloseBegin
  <2>4. EntriesOK' /\ BreakerOK' /\ Known' = Known /\ Pools' = Pools
    BY <1>0, <2>3, BreakerFrame
  <2>5. p \in Pools /\ p[1] = h /\ open = Pools /\ open' = Pools' \ {p}
    <3>1. p \in Pools /\ p[1] = h
      BY <2>2 DEF Pools, PoolOf
    <3>2. open = Pools \ {NULL}
      BY <1>0, <2>3 DEF SelectorInv, PoolsOK
    <3>. QED BY <1>1, <2>3, <2>4, <3>1, <3>2, PoolsOfKnown
  <2>6. PoolsOK'
    BY <1>0, <1>1, <2>1, <2>3, <2>4, <2>5 DEF PoolsOK
  <2>7. LoopOK' /\ PhaseOK' /\ ReqOK(req')
    BY <1>0, <2>3, <2>4 DEF SelectorInv, LoopOK, PhaseOK
  <2>. QED BY <2>4, <2>6, <2>7 DEF SelectorInv
<1>3. CASE /\ CloseEnd /\ UNCHANGED open
           /\ replicas' = [replicas EXCEPT ![closing[1]] = NULL]
           /\ run' = [run EXCEPT ![closing[1]] = NoRun]
  <2>1. PICK p, h : p = closing /\ h = closing[1]
    OBVIOUS
  <2>2. /\ closing # NULL /\ closing' = NULL /\ open' = open
        /\ replicas' = [replicas EXCEPT ![h] = NULL] /\ run' = [run EXCEPT ![h] = NoRun]
    BY <1>3, <2>1 DEF CloseEnd
  <2>3. /\ p \in Pools /\ h \in Known /\ p = PoolOf(h) /\ h \notin desired /\ h \in Hosts
        /\ open = Pools \ {p}
    <3>1. closing \in Pools /\ closing[1] \notin desired /\ open = Pools \ {closing}
      BY <1>0, <2>2 DEF SelectorInv, PoolsOK
    <3>. QED BY <1>1, <2>1, <3>1, PoolsOfKnown DEF Known
  <2>4. /\ EntriesOK' /\ Known' = Known \ {h}
        /\ \A k \in Hosts \ {h} : replicas'[k] = replicas[k] /\ run'[k] = run[k]
        /\ run'[h] = NoRun
    BY <1>1, <2>2, <2>3 DEF EntriesOK, Known, SelectorInv, LoopOK
  <2>5. Pools' = Pools \ {p}
    <3>1. \A k \in Known \ {h} : PoolOf(k)' = PoolOf(k) /\ PoolOf(k)[1] = k
      BY <2>4 DEF PoolOf, Known
    <3>2. PoolOf(h) = p /\ p[1] = h
      BY <2>1, <2>3
    <3>. QED BY <2>4, <3>1, <3>2 DEF Pools
  <2>6. PoolsOK'
    <3>1. NULL \notin Pools
      BY <1>1, PoolsOfKnown
    <3>. QED BY <1>0, <1>1, <2>2, <2>3, <2>5, <3>1 DEF PoolsOK
  <2>7. LoopOK'
    <3>1. NoRun \in [bad : 0..FailThreshold, good : 0..RecoverThreshold]
      BY SelectorAssumption DEF NoRun
    <3>. QED BY <1>0, <2>2, <3>1 DEF SelectorInv, LoopOK
  <2>8. PhaseOK'
    BY <1>0, <2>3, <2>4 DEF SelectorInv, PhaseOK
  <2>9. BreakerOK'
    <3>1. \A k \in Known \ {h} : CountersOK(k)' <=> CountersOK(k)
      BY <1>0, <2>4 DEF CountersOK, Counted, InFlight, Known
    <3>. QED BY <2>4, <3>1 DEF SelectorInv, BreakerOK
  <2>10. ReqOK(req')
    BY <1>0 DEF SelectorInv
  <2>. QED BY <2>4, <2>6, <2>7, <2>8, <2>9, <2>10 DEF SelectorInv
<1>. QED BY <1>2, <1>3 DEF SyncRemove

LEMMA AddStep ==
    ASSUME SelectorInv, SyncAdd
    PROVE  SelectorInv'
<1>0. /\ UNCHANGED <<closing, probe, req, cancelled, cl, run>>
      /\ prober = "update" /\ mu = "prober" /\ probe = NULL /\ closing = NULL
      /\ mu' = NULL /\ prober' = "probe" /\ desired' = {}
      /\ cl \notin {"closing", "closed"}
  BY DEF SyncAdd, stopVars, SelectorInv, PhaseOK
<1>1. EntriesOK /\ NULL # "prober" /\ NULL # "closer" /\ Known \subseteq Hosts
  BY NullAssumption DEF SelectorInv, Known
<1>2. PICK new \in SUBSET (desired \ Known) :
        /\ opened' = [h \in Hosts |-> IF h \in new THEN opened[h] + 1 ELSE opened[h]]
        /\ open' = open \cup {<<h, opened[h] + 1>> : h \in new}
        /\ replicas' = [h \in Hosts |->
             IF h \in new THEN [pool |-> opened[h] + 1, healthy |-> TRUE, latency |-> 0,
                                failures |-> 0, successes |-> 0]
             ELSE replicas[h]]
        /\ todo' = Known \cup new
  BY DEF SyncAdd
<1>3. /\ new \subseteq Hosts /\ new \cap Known = {}
      /\ \A h \in new : opened[h] \in 0..MaxPools /\ opened[h] + 1 \in 1..MaxPools
  <2>1. new \subseteq desired /\ desired \subseteq Hosts /\ new \cap Known = {}
    BY DEF SelectorInv, LoopOK
  <2>2. \A h \in new : opened[h] < MaxPools /\ opened[h] \in 0..MaxPools
    BY <1>0, <2>1 DEF SelectorInv, PhaseOK, LoopOK
  <2>3. MaxPools \in Nat
    BY SelectorAssumption
  <2>. QED BY <2>1, <2>2, <2>3
<1>4. \A h \in new : /\ replicas'[h] \in Entry /\ replicas'[h].pool = opened[h] + 1
                     /\ replicas'[h].failures = 0 /\ replicas'[h].successes = 0
  <2>1. ASSUME NEW h \in new
        PROVE  /\ replicas'[h] \in Entry /\ replicas'[h].pool = opened[h] + 1
               /\ replicas'[h].failures = 0 /\ replicas'[h].successes = 0
    <3>1. replicas'[h] = [pool |-> opened[h] + 1, healthy |-> TRUE, latency |-> 0,
                          failures |-> 0, successes |-> 0]
      BY <1>2, <1>3
    <3>. QED BY <1>3, <3>1, SelectorAssumption DEF Entry
  <2>. QED BY <2>1
<1>5. \A h \in Hosts \ new : replicas'[h] = replicas[h]
  BY <1>2
<1>6. EntriesOK' /\ Known' = Known \cup new
  <2>1. \A h \in new : replicas'[h] # NULL
    BY <1>4, NullAssumption
  <2>2. DOMAIN replicas' = Hosts /\ replicas' = [h \in Hosts |-> replicas'[h]]
    BY <1>2
  <2>3. \A h \in Hosts : replicas'[h] \in Entry \cup {NULL}
    BY <1>1, <1>4, <1>5 DEF EntriesOK
  <2>4. EntriesOK'
    BY <2>2, <2>3 DEF EntriesOK
  <2>5. Known' = Known \cup new
    BY <1>3, <1>5, <2>1 DEF Known
  <2>. QED BY <2>4, <2>5
<1>7. Pools' = Pools \cup {<<h, opened[h] + 1>> : h \in new}
  <2>1. \A h \in new : PoolOf(h)' = <<h, opened[h] + 1>>
    BY <1>4 DEF PoolOf
  <2>2. \A h \in Known : PoolOf(h)' = PoolOf(h)
    BY <1>1, <1>3, <1>5 DEF PoolOf
  <2>3. Pools' = {PoolOf(h)' : h \in Known'}
    BY DEF Pools
  <2>. QED BY <1>6, <2>1, <2>2, <2>3 DEF Pools
<1>8. open = Pools /\ open' = Pools' /\ NULL \notin Pools'
  <2>1. open = Pools
    BY <1>0, <1>1, PoolsOfKnown DEF SelectorInv, PoolsOK
  <2>2. \A h \in new : <<h, opened[h] + 1>> \in Pool
    BY <1>3 DEF Pool
  <2>. QED BY <1>1, <1>2, <1>7, <2>1, <2>2, PoolsOfKnown, NullAssumption
<1>9. PoolsOK'
  BY <1>0, <1>1, <1>8 DEF PoolsOK
<1>10. LoopOK'
  <2>1. \A h \in new : <<h, opened[h] + 1>> \in Pool
    BY <1>3 DEF Pool
  <2>2. open' \subseteq Pool
    BY <1>2, <2>1 DEF SelectorInv, LoopOK
  <2>3. opened' \in [Hosts -> 0..MaxPools]
    BY <1>2, <1>3, SelectorAssumption DEF SelectorInv, LoopOK
  <2>4. todo' \subseteq Hosts
    BY <1>1, <1>2, <1>3
  <2>. QED BY <1>0, <2>2, <2>3, <2>4 DEF SelectorInv, LoopOK
<1>11. PhaseOK'
  BY <1>0, <1>1, <1>2, <1>6 DEF SelectorInv, PhaseOK
<1>12. BreakerOK'
  <2>1. \A h \in new : run'[h] = NoRun /\ run'[h].bad = 0 /\ run'[h].good = 0
    BY <1>0, <1>3 DEF SelectorInv, BreakerOK, NoRun
  <2>2. ASSUME NEW h \in new PROVE CountersOK(h)'
    <3>1. FailThreshold # 0 /\ ~InFlight(h)'
      BY <1>0, SelectorAssumption DEF InFlight
    <3>. QED BY <1>4, <2>1, <3>1 DEF CountersOK, Counted
  <2>3. \A k \in Known : CountersOK(k)' <=> CountersOK(k)
    BY <1>0, <1>1, <1>3, <1>5 DEF CountersOK, Counted, InFlight
  <2>4. \A k \in Hosts \ Known' : run'[k] = NoRun
    BY <1>0, <1>6 DEF SelectorInv, BreakerOK
  <2>. QED BY <1>6, <2>2, <2>3, <2>4 DEF SelectorInv, BreakerOK
<1>13. ReqOK(req')
  BY <1>0 DEF SelectorInv
<1>. QED BY <1>6, <1>9, <1>10, <1>11, <1>12, <1>13 DEF SelectorInv

(***************************************************************************)
(* probeReplica and updateCircuitBreaker: one entry changes, and keeps its *)
(* pool.                                                                   *)
(***************************************************************************)
LEMMA ProbeFrame ==
    ASSUME SelectorInv, UNCHANGED <<poolVars, prober, desired, req, stopVars>>,
           prober = "probe", todo' \subseteq todo,
           NEW h \in Known, NEW e \in Entry, replicas' = [replicas EXCEPT ![h] = e],
           e.pool = replicas[h].pool,
           probe' # NULL => probe' \in ProbeState /\ probe'.host = h,
           run' \in [Hosts -> [bad : 0..FailThreshold, good : 0..RecoverThreshold]]
    PROVE  /\ ReqOK(req') /\ EntriesOK' /\ LoopOK' /\ PhaseOK' /\ PoolsOK' /\ Known' = Known
           /\ replicas'[h] = e /\ \A k \in Known \ {h} : replicas'[k] = replicas[k]
<1>0. UNCHANGED <<open, opened, mu, closing, prober, desired, req, cancelled, cl>>
  BY DEF poolVars, stopVars
<1>1. EntriesOK /\ h \in Hosts /\ e # NULL /\ replicas[h] # NULL
  BY NullAssumption DEF SelectorInv, Known
<1>2. EntriesOK' /\ replicas'[h] = e /\ \A k \in Hosts \ {h} : replicas'[k] = replicas[k]
  BY <1>1 DEF EntriesOK
<1>3. Known' = Known
  BY <1>1, <1>2 DEF Known
<1>4. \A k \in Known : k \in Hosts /\ replicas'[k].pool = replicas[k].pool
  BY <1>2 DEF Known
<1>5. Pools' = Pools
  BY <1>3, <1>4, SamePools
<1>6. LoopOK' /\ ReqOK(req')
  BY <1>0 DEF SelectorInv, LoopOK
<1>7. PhaseOK'
  BY <1>0, <1>3 DEF SelectorInv, PhaseOK
<1>8. PoolsOK'
  BY <1>0, <1>3, <1>5 DEF SelectorInv, PoolsOK
<1>. QED BY <1>2, <1>3, <1>4, <1>6, <1>7, <1>8

(***************************************************************************)
(* The breakers of the other hosts.                                        *)
(***************************************************************************)
LEMMA OthersKeep ==
    ASSUME SelectorInv, NEW h \in Known, Known' = Known,
           \A k \in Known \ {h} : replicas'[k] = replicas[k],
           \A k \in Hosts \ {h} : run'[k] = run[k],
           probe # NULL => probe.host = h, probe' # NULL => probe'.host = h,
           CountersOK(h)'
    PROVE  BreakerOK'
<1>1. \A k \in Known : k \in Hosts
  BY DEF Known
<1>2. ASSUME NEW k \in Known \ {h} PROVE CountersOK(k)'
  <2>1. CountersOK(k) /\ ~InFlight(k) /\ ~InFlight(k)' /\ replicas'[k] = replicas[k] /\ run'[k] = run[k]
    BY <1>1 DEF SelectorInv, BreakerOK, InFlight
  <2>. QED BY <2>1 DEF CountersOK, Counted
<1>. QED BY <1>2 DEF SelectorInv, BreakerOK

LEMMA UpToRange ==
    ASSUME NEW bound \in Nat, NEW n \in 0..bound, NEW m \in 0..bound
    PROVE  /\ UpTo(n, bound) \in 0..bound /\ n <= UpTo(n, bound)
           /\ n <= m => UpTo(n, bound) <= UpTo(m, bound)
           /\ UpTo(n, bound) >= bound => UpTo(n, bound) = bound
BY DEF UpTo

LEMMA ProbeStep ==
    ASSUME SelectorInv, NEW h \in Hosts, ProbeReplica(h)
    PROVE  SelectorInv'
<1>0. /\ UNCHANGED <<poolVars, prober, desired, req, stopVars>>
      /\ prober = "probe" /\ probe = NULL /\ h \in todo /\ todo' \subseteq todo
  BY DEF ProbeReplica
<1>1. h \in Known
  BY <1>0 DEF SelectorInv, PhaseOK
<1>2. PICK e, n : e = replicas[h] /\ n = run[h]
  OBVIOUS
<1>3. /\ e \in Entry /\ n \in [bad : 0..FailThreshold, good : 0..RecoverThreshold]
      /\ replicas \in [Hosts -> Entry \cup {NULL}]
      /\ run \in [Hosts -> [bad : 0..FailThreshold, good : 0..RecoverThreshold]]
  BY <1>1, <1>2 DEF Known, SelectorInv, EntriesOK, LoopOK
<1>4. n.bad <= e.failures /\ e.successes <= n.good
  BY <1>0, <1>1, <1>2 DEF SelectorInv, BreakerOK, CountersOK, Counted, InFlight
<1>5. /\ e.failures \in 0..FailThreshold /\ e.successes \in 0..RecoverThreshold
      /\ n.bad \in 0..FailThreshold /\ n.good \in 0..RecoverThreshold
      /\ FailThreshold \in Nat /\ RecoverThreshold \in Nat
  BY <1>3, SelectorAssumption DEF Entry
<1>6. /\ UpTo(n.bad, FailThreshold) \in 0..FailThreshold
      /\ UpTo(n.good, RecoverThreshold) \in 0..RecoverThreshold
      /\ UpTo(n.bad, FailThreshold) <= UpTo(e.failures, FailThreshold)
      /\ UpTo(e.successes, RecoverThreshold) <= UpTo(n.good, RecoverThreshold)
  BY <1>4, <1>5, UpToRange
<1>7. ASSUME NEW l \in Latencies, replicas' = [replicas EXCEPT ![h].latency = l, ![h].failures = 0],
             probe' = [host |-> h, ok |-> TRUE, step |-> "count", trips |-> FALSE],
             run' = [run EXCEPT ![h] = [bad |-> 0, good |-> UpTo(@.good, RecoverThreshold)]]
      PROVE  SelectorInv'
  <2>1. PICK f, m : /\ f = [e EXCEPT !.latency = l, !.failures = 0]
                    /\ m = [bad |-> 0, good |-> UpTo(n.good, RecoverThreshold)]
    OBVIOUS
  <2>2. /\ f \in Entry /\ f.pool = e.pool /\ f.failures = 0 /\ f.successes = e.successes
        /\ m \in [bad : 0..FailThreshold, good : 0..RecoverThreshold]
        /\ m.bad = 0 /\ m.good = UpTo(n.good, RecoverThreshold)
    <3>1. 0 \in 0..FailThreshold /\ l \in Latencies \cup {0, -1}
      BY <1>5
    <3>2. f \in Entry
      BY <1>3, <2>1, <3>1 DEF Entry
    <3>3. f.pool = e.pool /\ f.failures = 0 /\ f.successes = e.successes
      BY <1>3, <2>1 DEF Entry
    <3>. QED BY <1>6, <2>1, <3>1, <3>2, <3>3
  <2>3. replicas' = [replicas EXCEPT ![h] = f] /\ run' = [run EXCEPT ![h] = m]
    BY <1>2, <1>3, <1>7, <2>1
  <2>4. /\ run' \in [Hosts -> [bad : 0..FailThreshold, good : 0..RecoverThreshold]]
        /\ run'[h] = m /\ \A k \in Hosts \ {h} : run'[k] = run[k]
    BY <1>3, <2>2, <2>3
  <2>5. /\ probe' \in ProbeState /\ probe'.host = h /\ probe'.ok /\ probe'.step = "count"
    BY <1>7 DEF ProbeState
  <2>6. /\ ReqOK(req') /\ EntriesOK' /\ LoopOK' /\ PhaseOK' /\ PoolsOK' /\ Known' = Known
        /\ replicas'[h] = f /\ \A k \in Known \ {h} : replicas'[k] = replicas[k]
    BY <1>0, <1>1, <1>2, <2>2, <2>3, <2>4, <2>5, ProbeFrame
  <2>7. CountersOK(h)'
    <3>1. UpTo(f.successes, RecoverThreshold) <= m.good
      BY <1>6, <2>2
    <3>2. InFlight(h)' /\ probe' # NULL
      BY <2>5, NullAssumption DEF InFlight
    <3>. QED BY <2>2, <2>4, <2>5, <2>6, <3>1, <3>2 DEF CountersOK
  <2>8. BreakerOK'
    BY <1>0, <1>1, <2>4, <2>5, <2>6, <2>7, OthersKeep
  <2>. QED BY <2>6, <2>8 DEF SelectorInv
<1>8. ASSUME replicas' = [replicas EXCEPT ![h].latency = -1, ![h].successes = 0],
             probe' = [host |-> h, ok |-> FALSE, step |-> "count", trips |-> FALSE],
             run' = [run EXCEPT ![h] = [bad |-> UpTo(@.bad, FailThreshold), good |-> 0]]
      PROVE  SelectorInv'
  <2>1. PICK f, m : /\ f = [e EXCEPT !.latency = -1, !.successes = 0]
                    /\ m = [bad |-> UpTo(n.bad, FailThreshold), good |-> 0]
    OBVIOUS
  <2>2. /\ f \in Entry /\ f.pool = e.pool /\ f.failures = e.failures /\ f.successes = 0
        /\ m \in [bad : 0..FailThreshold, good : 0..RecoverThreshold]
        /\ m.good = 0 /\ m.bad = UpTo(n.bad, FailThreshold)
    <3>1. 0 \in 0..RecoverThreshold /\ -1 \in Latencies \cup {0, -1}
      BY <1>5
    <3>2. f \in Entry
      BY <1>3, <2>1, <3>1 DEF Entry
    <3>3. f.pool = e.pool /\ f.failures = e.failures /\ f.successes = 0
      BY <1>3, <2>1 DEF Entry
    <3>. QED BY <1>6, <2>1, <3>1, <3>2, <3>3
  <2>3. replicas' = [replicas EXCEPT ![h] = f] /\ run' = [run EXCEPT ![h] = m]
    BY <1>2, <1>3, <1>8, <2>1
  <2>4. /\ run' \in [Hosts -> [bad : 0..FailThreshold, good : 0..RecoverThreshold]]
        /\ run'[h] = m /\ \A k \in Hosts \ {h} : run'[k] = run[k]
    BY <1>3, <2>2, <2>3
  <2>5. /\ probe' \in ProbeState /\ probe'.host = h /\ ~probe'.ok /\ probe'.step = "count"
    BY <1>8 DEF ProbeState
  <2>6. /\ ReqOK(req') /\ EntriesOK' /\ LoopOK' /\ PhaseOK' /\ PoolsOK' /\ Known' = Known
        /\ replicas'[h] = f /\ \A k \in Known \ {h} : replicas'[k] = replicas[k]
    BY <1>0, <1>1, <1>2, <2>2, <2>3, <2>4, <2>5, ProbeFrame
  <2>7. CountersOK(h)'
    <3>1. m.bad <= UpTo(f.failures, FailThreshold)
      BY <1>6, <2>2
    <3>2. InFlight(h)' /\ probe' # NULL
      BY <2>5, NullAssumption DEF InFlight
    <3>. QED BY <2>2, <2>4, <2>5, <2>6, <3>1, <3>2 DEF CountersOK
  <2>8. BreakerOK'
    BY <1>0, <1>1, <2>4, <2>5, <2>6, <2>7, OthersKeep
  <2>. QED BY <2>6, <2>8 DEF SelectorInv
<1>. QED BY <1>7, <1>8 DEF ProbeReplica

LEMMA CountStep ==
    ASSUME SelectorInv, ProbeCount
    PROVE  SelectorInv'
<1>0. /\ UNCHANGED <<poolVars, prober, desired, todo, req, stopVars, run>>
      /\ probe # NULL /\ probe.step = "count" /\ probe \in ProbeState
      /\ prober = "probe" /\ todo' \subseteq todo
  BY DEF ProbeCount, SelectorInv, PhaseOK
<1>1. PICK h \in Known : h = probe.host
  BY <1>0 DEF SelectorInv, PhaseOK
<1>2. PICK e, n, p, q : e = replicas[h] /\ n = run[h] /\ p = probe /\ q = probe'
  OBVIOUS
<1>3. /\ h \in Hosts /\ e \in Entry /\ n \in [bad : 0..FailThreshold, good : 0..RecoverThreshold]
      /\ replicas \in [Hosts -> Entry \cup {NULL}]
      /\ run' \in [Hosts -> [bad : 0..FailThreshold, good : 0..RecoverThreshold]]
      /\ run' = run /\ run'[h] = n
  BY <1>0, <1>1, <1>2 DEF Known, SelectorInv, EntriesOK, LoopOK
<1>4. CountersOK(h) /\ InFlight(h)
  BY <1>0, <1>1 DEF SelectorInv, BreakerOK, InFlight
<1>5. /\ e.failures \in 0..FailThreshold /\ e.successes \in 0..RecoverThreshold
      /\ n.bad \in 0..FailThreshold /\ n.good \in 0..RecoverThreshold
      /\ FailThreshold \in Nat /\ RecoverThreshold \in Nat
  BY <1>3, SelectorAssumption DEF Entry
<1>6. PICK s, f : s = UpTo(e.successes, RecoverThreshold) /\ f = UpTo(e.failures, FailThreshold)
  OBVIOUS
<1>7. /\ s \in 0..RecoverThreshold /\ f \in 0..FailThreshold
      /\ (s >= RecoverThreshold => s = RecoverThreshold)
      /\ (f >= FailThreshold <=> f = FailThreshold)
  BY <1>5, <1>6 DEF UpTo
<1>8. ASSUME NEW g \in Entry, g.pool = e.pool, replicas' = [replicas EXCEPT ![h] = g],
             q \in ProbeState, q.host = h,
             replicas'[h] = g => CountersOK(h)'
      PROVE  SelectorInv'
  <2>1. /\ ReqOK(req') /\ EntriesOK' /\ LoopOK' /\ PhaseOK' /\ PoolsOK' /\ Known' = Known
        /\ replicas'[h] = g /\ \A k \in Known \ {h} : replicas'[k] = replicas[k]
    BY <1>0, <1>1, <1>2, <1>3, <1>8, ProbeFrame
  <2>2. BreakerOK'
    <3>1. \A k \in Hosts \ {h} : run'[k] = run[k]
      BY <1>3
    <3>. QED BY <1>1, <1>2, <1>8, <2>1, <3>1, OthersKeep
  <2>. QED BY <2>1, <2>2 DEF SelectorInv
<1>9. CASE probe.ok
  <2>1. PICK g : g = [e EXCEPT !.successes = s]
    OBVIOUS
  <2>2. g \in Entry /\ g.pool = e.pool /\ g.successes = s
    BY <1>3, <1>7, <2>1 DEF Entry
  <2>3. replicas' = [replicas EXCEPT ![h] = g]
    BY <1>1, <1>2, <1>3, <1>6, <1>9, <2>1 DEF ProbeCount
  <2>4. q = [p EXCEPT !.step = "health", !.trips = s >= RecoverThreshold]
    BY <1>1, <1>2, <1>6, <1>9 DEF ProbeCount
  <2>5. p \in ProbeState /\ p.host = h /\ p.ok
    BY <1>0, <1>1, <1>2, <1>9
  <2>11. PICK t \in BOOLEAN : t = (s >= RecoverThreshold)
    <3>1. (s >= RecoverThreshold) \in BOOLEAN
      OBVIOUS
    <3>. QED BY <3>1, Zenon
  <2>6. q \in ProbeState /\ q.host = h /\ q.step = "health"
    <3>1. q = [p EXCEPT !.step = "health", !.trips = t]
      BY <2>4, <2>11
    <3>2. q.host = h /\ q.step = "health"
      BY <2>5, <3>1 DEF ProbeState
    <3>3. q \in ProbeState
      BY <2>5, <3>1 DEF ProbeState
    <3>. QED BY <3>2, <3>3
  <2>7. q.ok /\ (q.trips <=> s >= RecoverThreshold)
    BY <2>4, <2>5 DEF ProbeState
  <2>8. n.bad = 0 /\ s <= n.good
    BY <1>0, <1>2, <1>4, <1>6, <1>9 DEF CountersOK
  <2>9. q.trips => n.good = RecoverThreshold
    BY <1>5, <1>7, <2>7, <2>8
  <2>10. ASSUME replicas'[h] = g PROVE CountersOK(h)'
    <3>1. InFlight(h)' /\ probe' # NULL
      BY <1>2, <2>6, NullAssumption DEF InFlight
    <3>. QED BY <1>2, <1>3, <2>2, <2>6, <2>7, <2>8, <2>9, <2>10, <3>1 DEF CountersOK
  <2>. QED BY <1>8, <2>2, <2>3, <2>6, <2>10
<1>10. CASE ~probe.ok
  <2>1. PICK g : g = [e EXCEPT !.failures = f]
    OBVIOUS
  <2>2. g \in Entry /\ g.pool = e.pool /\ g.failures = f /\ g.successes = e.successes
    BY <1>3, <1>7, <2>1 DEF Entry
  <2>3. replicas' = [replicas EXCEPT ![h] = g]
    BY <1>1, <1>2, <1>3, <1>6, <1>10, <2>1 DEF ProbeCount
  <2>4. q = [p EXCEPT !.step = "health", !.trips = f >= FailThreshold]
    BY <1>1, <1>2, <1>6, <1>10 DEF ProbeCount
  <2>5. p \in ProbeState /\ p.host = h /\ ~p.ok
    BY <1>0, <1>1, <1>2, <1>10
  <2>11. PICK t \in BOOLEAN : t = (f >= FailThreshold)
    <3>1. (f >= FailThreshold) \in BOOLEAN
      OBVIOUS
    <3>. QED BY <3>1, Zenon
  <2>6. q \in ProbeState /\ q.host = h /\ q.step = "health"
    <3>1. q = [p EXCEPT !.step = "health", !.trips = t]
      BY <2>4, <2>11
    <3>2. q.host = h /\ q.step = "health"
      BY <2>5, <3>1 DEF ProbeState
    <3>3. q \in ProbeState
      BY <2>5, <3>1 DEF ProbeState
    <3>. QED BY <3>2, <3>3
  <2>7. ~q.ok /\ (q.trips <=> f >= FailThreshold)
    BY <2>4, <2>5 DEF ProbeState
  <2>8. e.successes = 0 /\ n.bad <= f
    BY <1>0, <1>2, <1>4, <1>6, <1>10 DEF CountersOK
  <2>9. n.bad = FailThreshold => q.trips
    BY <1>5, <1>7, <2>7, <2>8
  <2>10. ASSUME replicas'[h] = g PROVE CountersOK(h)'
    <3>1. InFlight(h)' /\ probe' # NULL
      BY <1>2, <2>6, NullAssumption DEF InFlight
    <3>. QED BY <1>2, <1>3, <2>2, <2>6, <2>7, <2>8, <2>9, <2>10, <3>1 DEF CountersOK
  <2>. QED BY <1>8, <2>2, <2>3, <2>6, <2>10
<1>. QED BY <1>9, <1>10

LEMMA HealthStep ==
    ASSUME SelectorInv, ProbeHealth
    PROVE  /\ SelectorInv'
           /\ \A h \in Known : ~replicas[h].healthy /\ replicas'[h].healthy
                                 => run[h].good = RecoverThreshold
<1>0. /\ UNCHANGED <<poolVars, prober, desired, todo, req, stopVars, run>>
      /\ probe # NULL /\ probe.step = "health" /\ probe \in ProbeState
      /\ prober = "probe" /\ todo' \subseteq todo /\ probe' = NULL
  BY DEF ProbeHealth, SelectorInv, PhaseOK
<1>1. PICK h \in Known : h = probe.host
  BY <1>0 DEF SelectorInv, PhaseOK
<1>2. PICK e, n, ok : e = replicas[h] /\ n = run[h] /\ ok = probe.ok
  OBVIOUS
<1>3. /\ h \in Hosts /\ e \in Entry /\ n \in [bad : 0..FailThreshold, good : 0..RecoverThreshold]
      /\ replicas \in [Hosts -> Entry \cup {NULL}]
      /\ run' \in [Hosts -> [bad : 0..FailThreshold, good : 0..RecoverThreshold]]
      /\ run' = run /\ run'[h] = n /\ ok \in BOOLEAN
  BY <1>0, <1>1, <1>2 DEF Known, SelectorInv, EntriesOK, LoopOK, ProbeState
<1>4. CountersOK(h) /\ InFlight(h) /\ ~InFlight(h)'
  BY <1>0, <1>1 DEF SelectorInv, BreakerOK, InFlight
<1>5. /\ e.failures \in 0..FailThreshold /\ e.successes \in 0..RecoverThreshold
      /\ n.bad \in 0..FailThreshold /\ n.good \in 0..RecoverThreshold
      /\ FailThreshold \in Nat \ {0} /\ RecoverThreshold \in Nat
  BY <1>3, SelectorAssumption DEF Entry
<1>6. /\ n.bad <= e.failures /\ e.successes <= n.good
      /\ probe.ok => n.bad = 0 /\ (probe.trips => n.good = RecoverThreshold)
      /\ ~probe.ok => (n.bad = FailThreshold => probe.trips)
  BY <1>0, <1>2, <1>4, <1>5 DEF CountersOK
<1>7. PICK g : g = IF probe.trips THEN [e EXCEPT !.healthy = ok] ELSE e
  OBVIOUS
<1>8. g \in Entry /\ g.pool = e.pool /\ g.failures = e.failures /\ g.successes = e.successes
  <2>1. CASE probe.trips
    <3>1. g = [e EXCEPT !.healthy = ok]
      BY <1>7, <2>1
    <3>2. g \in Entry
      BY <1>3, <3>1 DEF Entry
    <3>. QED BY <1>3, <3>1, <3>2 DEF Entry
  <2>2. CASE ~probe.trips
    BY <1>3, <1>7, <2>2
  <2>. QED BY <2>1, <2>2
<1>9. replicas' = [replicas EXCEPT ![h] = g]
  <2>1. CASE probe.trips
    BY <1>1, <1>2, <1>3, <1>7, <2>1 DEF ProbeHealth
  <2>2. CASE ~probe.trips
    BY <1>1, <1>2, <1>3, <1>7, <2>2 DEF ProbeHealth
  <2>. QED BY <2>1, <2>2
<1>10. /\ ReqOK(req') /\ EntriesOK' /\ LoopOK' /\ PhaseOK' /\ PoolsOK' /\ Known' = Known
       /\ replicas'[h] = g /\ \A k \in Known \ {h} : replicas'[k] = replicas[k]
  BY <1>0, <1>1, <1>2, <1>3, <1>8, <1>9, ProbeFrame
<1>11. n.bad = FailThreshold => ~g.healthy
  <2>1. SUFFICES ASSUME n.bad = FailThreshold PROVE ~g.healthy
    OBVIOUS
  <2>2. ~probe.ok /\ probe.trips
    BY <1>5, <1>6, <2>1
  <2>3. g = [e EXCEPT !.healthy = ok] /\ ~ok
    BY <1>2, <1>7, <2>2
  <2>. QED BY <1>3, <2>3 DEF Entry
<1>12. CountersOK(h)'
  BY <1>3, <1>4, <1>6, <1>8, <1>10, <1>11 DEF CountersOK, Counted
<1>13. BreakerOK'
  <2>1. \A k \in Hosts \ {h} : run'[k] = run[k]
    BY <1>3
  <2>. QED BY <1>0, <1>1, <1>10, <1>12, <2>1, OthersKeep
<1>14. ~e.healthy /\ g.healthy => n.good = RecoverThreshold
  <2>1. SUFFICES ASSUME ~e.healthy, g.healthy PROVE n.good = RecoverThreshold
    OBVIOUS
  <2>2. probe.trips
    BY <1>7, <2>1
  <2>3. g = [e EXCEPT !.healthy = ok]
    BY <1>7, <2>2
  <2>4. ok
    BY <1>3, <2>1, <2>3 DEF Entry
  <2>. QED BY <1>2, <1>6, <2>2, <2>4
<1>15. ASSUME NEW k \in Known, ~replicas[k].healthy, replicas'[k].healthy
       PROVE  run[k].good = RecoverThreshold
  BY <1>2, <1>10, <1>14, <1>15
<1>. QED BY <1>10, <1>13, <1>15 DEF SelectorInv

-----------------------------------------------------------------------------
(* Close *)

LEMMA StopStep ==
    ASSUME SelectorInv, Signal \/ CloseCall \/ CloseLock
    PROVE  SelectorInv'
<1>0. UNCHANGED <<replicas, open, opened, closing, prober, desired, todo, probe, req, run>>
  BY DEF Signal, CloseCall, CloseLock, poolVars, proberVars
<1>1. EntriesOK' /\ BreakerOK' /\ Known' = Known /\ Pools' = Pools
  BY <1>0, BreakerFrame
<1>2. ReqOK(req') /\ NULL # "prober" /\ NULL # "closer"
  BY <1>0, NullAssumption DEF SelectorInv
<1>3. cancelled' \in BOOLEAN
  BY DEF Signal, CloseCall, CloseLock, SelectorInv, LoopOK
<1>4. LoopOK'
  BY <1>0, <1>3 DEF SelectorInv, LoopOK
<1>5. CASE Signal \/ CloseCall
  <2>1. mu' = mu /\ (cl' = cl \/ (cl = "open" /\ cl' = "waiting"))
    BY <1>5 DEF Signal, CloseCall, poolVars
  <2>2. PhaseOK'
    BY <1>0, <1>1, <2>1 DEF SelectorInv, PhaseOK
  <2>3. PoolsOK'
    BY <1>0, <1>1, <2>1 DEF SelectorInv, PoolsOK
  <2>. QED BY <1>1, <1>2, <1>4, <2>2, <2>3 DEF SelectorInv
<1>6. CASE CloseLock
  <2>1. mu = NULL /\ mu' = "closer" /\ cl = "waiting" /\ cl' = "closing" /\ prober = "done"
    BY <1>6 DEF CloseLock
  <2>2. PhaseOK'
    BY <1>0, <1>1, <1>2, <2>1 DEF SelectorInv, PhaseOK
  <2>3. PoolsOK'
    BY <1>0, <1>1, <1>2, <2>1 DEF SelectorInv, PoolsOK
  <2>. QED BY <1>1, <1>2, <1>4, <2>2, <2>3 DEF SelectorInv
<1>. QED BY <1>5, <1>6

LEMMA ClosePoolStep ==
    ASSUME SelectorInv, ClosePool
    PROVE  SelectorInv'
<1>0. UNCHANGED <<replicas, opened, mu, prober, desired, todo, probe, req, cancelled, cl, run>>
  BY DEF ClosePool, proberVars, stopVars
<1>1. EntriesOK' /\ BreakerOK' /\ Known' = Known /\ Pools' = Pools /\ EntriesOK
  BY <1>0, BreakerFrame DEF SelectorInv
<1>2. cl = "closing" /\ mu = "closer" /\ prober = "done" /\ NULL # "closer" /\ open \subseteq Pools
  BY NullAssumption DEF ClosePool, SelectorInv, PhaseOK, PoolsOK
<1>3. \/ \E p \in Pools : closing' = p /\ open' = open \ {p}
      \/ closing' = NULL /\ open' = open
  BY DEF ClosePool, CloseBegin, CloseEnd, Pools
<1>4. open' \subseteq Pools /\ open' \subseteq open
      /\ (closing' # NULL => closing' \in Pools /\ closing' \notin open')
  BY <1>2, <1>3
<1>5. PoolsOK'
  BY <1>0, <1>1, <1>2, <1>4 DEF PoolsOK
<1>6. LoopOK' /\ PhaseOK' /\ ReqOK(req')
  BY <1>0, <1>1, <1>4 DEF SelectorInv, LoopOK, PhaseOK
<1>. QED BY <1>1, <1>5, <1>6 DEF SelectorInv

LEMMA CloseDoneStep ==
    ASSUME SelectorInv, CloseDone
    PROVE  SelectorInv'
<1>0. /\ UNCHANGED <<open, opened, closing, prober, desired, todo, probe, req, cancelled>>
      /\ cl = "closing" /\ cl' = "closed" /\ mu' = NULL /\ closing = NULL
      /\ prober = "done" /\ mu = "closer" /\ probe = NULL
      /\ NULL # "closer" /\ NULL # "prober"
      /\ replicas' = [h \in Hosts |-> NULL] /\ run' = [h \in Hosts |-> NoRun]
  BY NullAssumption DEF CloseDone, proberVars, SelectorInv, PhaseOK
<1>1. Known' = {} /\ Pools' = {} /\ EntriesOK'
  BY <1>0 DEF Known, Pools, EntriesOK
<1>2. open' = {}
  BY <1>0 DEF CloseDone, SelectorInv, PoolsOK, Pools
<1>3. PoolsOK'
  BY <1>0, <1>1, <1>2 DEF PoolsOK
<1>4. LoopOK'
  <2>1. NoRun \in [bad : 0..FailThreshold, good : 0..RecoverThreshold]
    BY SelectorAssumption DEF NoRun
  <2>. QED BY <1>0, <2>1 DEF SelectorInv, LoopOK
<1>5. PhaseOK'
  BY <1>0, <1>1 DEF SelectorInv, PhaseOK
<1>6. BreakerOK' /\ ReqOK(req')
  BY <1>0, <1>1 DEF SelectorInv, BreakerOK
<1>. QED BY <1>1, <1>3, <1>4, <1>5, <1>6 DEF SelectorInv

-----------------------------------------------------------------------------
(* The inductive invariant *)

LEMMA InitSelector == Init => SelectorInv
<1>. SUFFICES ASSUME Init PROVE SelectorInv
  OBVIOUS
<1>1. Known = {} /\ Pools = {} /\ EntriesOK
  BY DEF Init, Known, Pools, EntriesOK
<1>2. NULL # "prober" /\ NULL # "closer"
  BY NullAssumption
<1>3. ReqOK(req)
  BY SelectorAssumption DEF Init, NoCall, ReqOK, Call1, Holding, Trying, InCall
<1>4. LoopOK
  <2>1. NoRun \in [bad : 0..FailThreshold, good : 0..RecoverThreshold]
    BY SelectorAssumption DEF NoRun
  <2>2. 0 \in 0..MaxPools
    BY SelectorAssumption
  <2>3. run \in [Hosts -> [bad : 0..FailThreshold, good : 0..RecoverThreshold]]
    BY <2>1 DEF Init
  <2>4. opened \in [Hosts -> 0..MaxPools]
    BY <2>2 DEF Init
  <2>. QED BY <2>3, <2>4 DEF Init, LoopOK
<1>5. PhaseOK
  BY <1>2 DEF Init, PhaseOK
<1>6. PoolsOK
  BY <1>1, <1>2 DEF Init, PoolsOK
<1>7. BreakerOK
  BY <1>1 DEF Init, BreakerOK
<1>. QED BY <1>1, <1>3, <1>4, <1>5, <1>6, <1>7 DEF SelectorInv

LEMMA NextSelector == SelectorInv /\ [Next]_vars => SelectorInv'
<1>. SUFFICES ASSUME SelectorInv, [Next]_vars PROVE SelectorInv'
  OBVIOUS
<1>1. CASE Prober
  BY <1>1, LoopStep, RemoveStep, AddStep, ProbeStep, CountStep, HealthStep DEF Prober
<1>2. CASE Closer \/ Signal \/ CloseCall
  BY <1>2, StopStep, ClosePoolStep, CloseDoneStep DEF Closer
<1>3. ASSUME NEW r \in Requests, Call(r) \/ Request(r) PROVE SelectorInv'
  BY <1>3, ReaderStep, ReaderKeeps DEF SelectorInv
<1>4. CASE UNCHANGED vars
  <2>1. UNCHANGED <<poolVars, proberVars, stopVars, run, replicas, req>>
    BY <1>4 DEF vars, poolVars, proberVars, stopVars
  <2>2. Marks
    BY <2>1, SameIsMarks DEF SelectorInv
  <2>3. ReqOK(req')
    BY <2>1 DEF SelectorInv
  <2>. QED BY <2>1, <2>2, <2>3, ReaderKeeps DEF SelectorInv
<1>. QED BY <1>1, <1>2, <1>3, <1>4 DEF Next

LEMMA SelectorAlways == Spec => []SelectorInv
BY InitSelector, NextSelector, PTL DEF Spec

-----------------------------------------------------------------------------
(* Theorems *)

(***************************************************************************)
(* Types of the selector's shared state.                                   *)
(***************************************************************************)
THEOREM SelectorTypes == Spec => []TypeOK
<1>1. SelectorInv => TypeOK
  <2>. SUFFICES ASSUME SelectorInv PROVE TypeOK
    OBVIOUS
  <2>1. \A h \in Hosts : replicas[h] = NULL \/ replicas[h] \in Entry
    BY DEF SelectorInv, EntriesOK
  <2>2. closing \in Pool \cup {NULL}
    BY PoolsOfKnown DEF SelectorInv, PoolsOK
  <2>3. req \in [Requests -> [pc : InCall \cup {"idle", "return", "read"},
                             pool : Pool \cup {NULL}, attempt : 0..2,
                             held : Pool \cup {NULL}, rows : 0..MaxRows]]
    BY DEF SelectorInv, ReqOK, Call1
  <2>. QED BY <2>1, <2>2, <2>3 DEF SelectorInv, LoopOK, PhaseOK, TypeOK
<1>. QED BY <1>1, SelectorAlways, PTL

(***************************************************************************)
(* syncReplicaPools and Close neither leak a pool nor leave an entry       *)
(* without one, however requests, probes and the shutdown interleave.      *)
(***************************************************************************)
THEOREM PoolsNeverLeak == Spec => []NoPoolLeak
<1>1. SelectorInv => NoPoolLeak
  <2>. SUFFICES ASSUME SelectorInv PROVE NoPoolLeak
    OBVIOUS
  <2>1. NULL # "closer" /\ NULL \notin Pools
    BY PoolsOfKnown, NullAssumption DEF SelectorInv
  <2>2. mu = NULL => open = Pools
    BY <2>1 DEF SelectorInv, PoolsOK
  <2>3. cl = "closed" => mu = NULL /\ Pools = {}
    BY DEF SelectorInv, PhaseOK, PoolsOK, Pools
  <2>. QED BY <2>2, <2>3 DEF NoPoolLeak, Pools
<1>. QED BY <1>1, SelectorAlways, PTL

(***************************************************************************)
(* updateCircuitBreaker against concurrent markUnhealthy: a replica whose  *)
(* last FailThreshold probes failed is not healthy.                        *)
(***************************************************************************)
THEOREM BreakersTrip == Spec => []BreakerTrips
<1>1. SelectorInv => BreakerTrips
  BY DEF SelectorInv, BreakerOK, CountersOK, InFlight, BreakerTrips
<1>. QED BY <1>1, SelectorAlways, PTL

(***************************************************************************)
(* An unhealthy replica is let back only by updateCircuitBreaker, after    *)
(* RecoverThreshold probes in a row have succeeded.                        *)
(***************************************************************************)
THEOREM ReadmittedAfterProbes == Spec => Readmission
<1>1. ASSUME SelectorInv, [Next]_vars, NEW h \in Hosts,
             replicas[h] # NULL, replicas'[h] # NULL,
             ~replicas[h].healthy, replicas'[h].healthy
      PROVE  run[h].good = RecoverThreshold
  <2>0. h \in Known /\ replicas \in [Hosts -> Entry \cup {NULL}] /\ replicas[h] \in Entry
    BY <1>1 DEF Known, SelectorInv, EntriesOK
  <2>1. ASSUME replicas' = replicas PROVE FALSE
    BY <1>1, <2>1
  <2>2. CASE Discover \/ SyncLock \/ CycleEnd \/ Wake \/ Stop \/ Signal \/ CloseCall \/ CloseLock
             \/ ClosePool \/ UNCHANGED vars
    BY <2>1, <2>2 DEF Discover, SyncLock, CycleEnd, Wake, Stop, Signal, CloseCall, CloseLock,
                      ClosePool, vars
  <2>3. CASE SyncRemove
    <3>1. CASE replicas' = [replicas EXCEPT ![closing[1]] = NULL]
      BY <1>1, <2>0, <3>1
    <3>. QED BY <2>1, <2>3, <3>1 DEF SyncRemove
  <2>4. CASE SyncAdd
    <3>1. replicas'[h] = replicas[h]
      BY <2>0, <2>4 DEF SyncAdd
    <3>. QED BY <1>1, <3>1
  <2>5. ASSUME NEW k \in Hosts, ProbeReplica(k) PROVE FALSE
    <3>1. CASE k = h
      <4>1. replicas'[h].healthy = replicas[h].healthy
        <5>1. \/ \E l \in Latencies :
                   replicas' = [replicas EXCEPT ![h].latency = l, ![h].failures = 0]
              \/ replicas' = [replicas EXCEPT ![h].latency = -1, ![h].successes = 0]
          BY <2>5, <3>1 DEF ProbeReplica
        <5>2. ASSUME NEW l, NEW z,
                     \/ replicas' = [replicas EXCEPT ![h].latency = l, ![h].failures = z]
                     \/ replicas' = [replicas EXCEPT ![h].latency = l, ![h].successes = z]
              PROVE  replicas'[h].healthy = replicas[h].healthy
          BY <2>0, <5>2 DEF Entry
        <5>. QED BY <5>1, <5>2
      <4>. QED BY <1>1, <4>1
    <3>2. CASE k # h
      <4>1. replicas'[h] = replicas[h]
        BY <2>0, <2>5, <3>2 DEF ProbeReplica
      <4>. QED BY <1>1, <4>1
    <3>. QED BY <3>1, <3>2
  <2>6. CASE ProbeCount
    <3>1. PICK k : k = probe.host
      OBVIOUS
    <3>2. CASE k = h
      <4>1. replicas'[h].healthy = replicas[h].healthy
        <5>1. PICK s, f : /\ s = UpTo(replicas[h].successes, RecoverThreshold)
                          /\ f = UpTo(replicas[h].failures, FailThreshold)
          OBVIOUS
        <5>2. \/ replicas' = [replicas EXCEPT ![h].successes = s]
              \/ replicas' = [replicas EXCEPT ![h].failures = f]
          BY <2>6, <3>1, <3>2, <5>1 DEF ProbeCount
        <5>. QED BY <2>0, <5>2 DEF Entry
      <4>. QED BY <1>1, <4>1
    <3>3. CASE k # h
      <4>1. replicas'[h] = replicas[h]
        BY <2>0, <2>6, <3>1, <3>3 DEF ProbeCount
      <4>. QED BY <1>1, <4>1
    <3>. QED BY <3>2, <3>3
  <2>7. CASE ProbeHealth
    BY <1>1, <2>0, <2>7, HealthStep
  <2>8. CASE CloseDone
    BY <1>1, <2>8 DEF CloseDone
  <2>9. ASSUME NEW r \in Requests, Call(r) \/ Request(r) PROVE FALSE
    BY <1>1, <2>9, ReaderStep DEF Marks
  <2>. QED BY <1>1, <2>2, <2>3, <2>4, <2>5, <2>6, <2>7, <2>8, <2>9 DEF Next, Prober, Closer
<1>2. SelectorInv /\ [Next]_vars =>
        [\A h \in Hosts :
           (/\ replicas[h] # NULL /\ replicas'[h] # NULL
            /\ replicas[h].pool = replicas'[h].pool
            /\ ~replicas[h].healthy /\ replicas'[h].healthy)
           => run[h].good = RecoverThreshold]_vars
  BY <1>1
<1>. QED BY <1>2, SelectorAlways, PTL DEF Spec, Readmission
=============================================================================
