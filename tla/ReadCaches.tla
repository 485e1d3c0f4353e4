----------------------------- MODULE ReadCaches -----------------------------
(***************************************************************************)
(* The caches in front of the upstream services, as the request handlers   *)
(* use them, and the job that purges them:                                 *)
(*                                                                         *)
(*   proxy   mls_search_cache, by finishProxy and live search: looked up   *)
(*           through ReadPool, fresh for a time to live after last_updated *)
(*   gis     gis_cache, by ProxyService.Fetch: looked up through ReadPool, *)
(*           valid until the expires_at it was stored with                 *)
(*   comps   listings_cache, by fetchSoldComps: one row per closed sale,   *)
(*           used when enough fresh rows lie in the scope asked for        *)
(*                                                                         *)
(* An answer is represented by asOf, the time at which the upstream gave   *)
(* it, which is all the properties ask of it.  Nothing locks: any number   *)
(* of requests miss at once and store what they fetched in any order, a    *)
(* replica shows old entries, the purge runs in between.  A look-up that   *)
(* fails counts as a miss, so that a request may go upstream at any time.  *)
(*                                                                         *)
(* One partition and fingerprint of the proxy cache and one query of the   *)
(* GIS cache stand for all of them: entries do not interact, and neither   *)
(* do the tables, so that a behaviour follows the requests of one of them  *)
(* (focus).  GIS queries for city, county and zip boundaries end without   *)
(* touching a cache.                                                       *)
(***************************************************************************)
EXTENDS Integers, FiniteSets, FiniteSetsExt

CONSTANTS
    Slots,      \* requests in flight
    Sales,      \* closed sales the upstream knows, numbered from the latest on
    Scopes,     \* the areas comparables are asked for: sets of sales
    MinHits,    \* ClosedCacheMinHits, cached rows a hit needs
    Limit,      \* sales a live comparables query returns at most
    ProxyTTL,   \* LookupCacheTTL or ListingsCacheTTL
    EdgeTTL,    \* GIS EdgeCacheTTL
    MaxAge,     \* ClosedCacheDays
    Retention,  \* ProxyCacheRetentionDays
    MaxHold,    \* bound: time from the upstream's answer to its last write
    MaxTime,    \* bound: the clock
    NULL

ASSUME CacheAssumption ==
    /\ {ProxyTTL, EdgeTTL, MaxAge, Retention, MaxHold, MaxTime, MinHits, Limit} \subseteq Nat
    /\ Scopes \subseteq SUBSET Sales /\ Sales \subseteq Nat /\ MinHits >= 3
    /\ NULL \notin Nat

VARIABLES
    focus,    \* the table whose requests are followed
    now,      \* the clock
    proxy,    \* entry on the primary: [asOf, stamp]; stamp is last_updated
    gis,      \* entry on the primary: [asOf, stamp]; stamp is expires_at
    replica,  \* what a replica shows of both
    comps,    \* row of each sale: [asOf, stamp]; stamp is last_refreshed_at
    slot,     \* what each request has in hand
    served    \* the latest answer given from a cache, and when

cacheVars == <<focus, now, proxy, gis, replica, comps, slot, served>>

Time == 0..MaxTime
Entry == [asOf : Time, stamp : 0..(MaxTime + EdgeTTL)] \union {NULL}
NoRequest == [op |-> "idle"]
Hand == {NoRequest}
        \union [op : {"proxy", "gis"}, asOf : Time \union {NULL}]
        \union [op : {"live"}, scope : Scopes]
        \union [op : {"upsert"}, asOf : Time, stamp : Time \union {NULL}, left : SUBSET Sales]

CacheInit ==
    /\ focus \in {"proxy", "gis", "comps"}
    /\ now = 0
    /\ proxy = NULL /\ gis = NULL
    /\ replica = [proxy |-> NULL, gis |-> NULL]
    /\ comps = [l \in Sales |-> NULL]
    /\ slot = [s \in Slots |-> NoRequest]
    /\ served = NULL

Hold(s, h) == slot' = [slot EXCEPT ![s] = h]

Serve(from, asOf) == served' = [from |-> from, asOf |-> asOf, at |-> now]

(***************************************************************************)
(* ReadPool: the replica's entry or, when no replica is fit, the primary's.*)
(***************************************************************************)
ProxyViews == {proxy, replica.proxy}
GisViews == {gis, replica.gis}

-----------------------------------------------------------------------------
(* MLS proxy *)

MutantFresh(e) == e # NULL

(***************************************************************************)
(* ProxyCache.Get: an entry not older than its time to live.               *)
(***************************************************************************)
Fresh(e) == e # NULL /\ now - e.stamp <= ProxyTTL

ProxyGet(s) ==
    /\ focus = "proxy" /\ slot[s] = NoRequest
    /\ \E e \in ProxyViews :
         \/ Fresh(e) /\ Serve("proxy", e.asOf) /\ UNCHANGED slot
         \/ Hold(s, [op |-> "proxy", asOf |-> NULL]) /\ UNCHANGED served
    /\ UNCHANGED <<focus, now, proxy, gis, replica, comps>>

MutantPut(s) ==
    /\ slot[s].op = "proxy"
    /\ Hold(s, NoRequest)
    /\ proxy' = [asOf |-> slot[s].asOf, stamp |-> now]
    /\ UNCHANGED <<focus, now, gis, replica, comps, served>>

(***************************************************************************)
(* ProxyCache.Put replaces whatever is there; its error is discarded.      *)
(***************************************************************************)
ProxyPut(s) ==
    /\ slot[s].op = "proxy" /\ slot[s].asOf # NULL
    /\ Hold(s, NoRequest)
    /\ \/ proxy' = [asOf |-> slot[s].asOf, stamp |-> now]
       \/ UNCHANGED proxy
    /\ UNCHANGED <<focus, now, gis, replica, comps, served>>

-----------------------------------------------------------------------------
(* GIS parcels *)

FromCache(s) ==
    /\ focus = "gis" /\ slot[s] = NoRequest
    /\ \E e \in GisViews :
         \/ e # NULL /\ e.stamp > now /\ Serve("gis", e.asOf) /\ UNCHANGED slot
         \/ Hold(s, [op |-> "gis", asOf |-> NULL]) /\ UNCHANGED served
    /\ UNCHANGED <<focus, now, proxy, gis, replica, comps>>

(***************************************************************************)
(* HasData is answered with an error whatever the tables hold: its queries *)
(* have four or five placeholders and are given eight or nine arguments.   *)
(* Fetch then turns to the live sources in the order of their priority;    *)
(* when all of them fail, an empty collection is stored like any answer.   *)
(* The MLS upstream answers likewise; an error or a status other than 2xx  *)
(* is passed on and nothing is stored.                                     *)
(***************************************************************************)
FetchUpstream(s) ==
    /\ slot[s].op \in {"proxy", "gis"} /\ slot[s].asOf = NULL
    /\ slot' = [slot EXCEPT ![s].asOf = now]
    /\ UNCHANGED <<focus, now, proxy, gis, replica, comps, served>>

UpstreamFails(s) ==
    /\ slot[s].op \in {"proxy", "live"} /\ (slot[s].op = "proxy" => slot[s].asOf = NULL)
    /\ Hold(s, NoRequest)
    /\ UNCHANGED <<focus, now, proxy, gis, replica, comps, served>>

StoreCache(s) ==
    /\ slot[s].op = "gis" /\ slot[s].asOf # NULL
    /\ Hold(s, NoRequest)
    /\ \/ gis' = [asOf |-> slot[s].asOf, stamp |-> now + EdgeTTL]
       \/ UNCHANGED gis
    /\ UNCHANGED <<focus, now, proxy, replica, comps, served>>

-----------------------------------------------------------------------------
(* Comparables *)

FreshRows(scope) ==
    {l \in scope : comps[l] # NULL /\ now - comps[l].stamp <= MaxAge}

(***************************************************************************)
(* FindClosedInScope, on the primary: twice the limit, latest first; the   *)
(* subject itself is dropped.  A hit needs enough rows before and after.   *)
(***************************************************************************)
Latest(S, n) == {l \in S : Cardinality({k \in S : k < l}) < n}

FindClosedInScope(s, scope, subject) ==
    LET cached == Latest(FreshRows(scope), 2 * Limit)
        out == Latest(cached \ {subject}, Limit)
    IN
    /\ focus = "comps" /\ slot[s] = NoRequest
    /\ \/ /\ Cardinality(cached) >= MinHits /\ Cardinality(cached \ {subject}) >= MinHits
          /\ Serve("comps", Min({comps[l].asOf : l \in out}))
          /\ UNCHANGED slot
       \/ Hold(s, [op |-> "live", scope |-> scope]) /\ UNCHANGED served
    /\ UNCHANGED <<focus, now, proxy, gis, replica, comps>>

(***************************************************************************)
(* The live answer goes to the caller and, row by row and under one time   *)
(* stamp taken before the first, into the cache; a row that fails ends the *)
(* write-through with the rest unwritten.                                  *)
(***************************************************************************)
FetchSoldCompsLive(s) ==
    /\ slot[s].op = "live"
    /\ Hold(s, [op |-> "upsert", asOf |-> now, stamp |-> NULL,
                left |-> Latest(slot[s].scope, Limit)])
    /\ UNCHANGED <<focus, now, proxy, gis, replica, comps, served>>

UpsertClosedBatch(s) ==
    /\ slot[s].op = "upsert" /\ slot[s].stamp = NULL
    /\ slot' = [slot EXCEPT ![s].stamp = now]
    /\ UNCHANGED <<focus, now, proxy, gis, replica, comps, served>>

UpsertClosed(s) ==
    /\ slot[s].op = "upsert" /\ slot[s].stamp # NULL
    /\ LET l == Min(slot[s].left)
           left == slot[s].left \ {l}
       IN \/ /\ comps' = [comps EXCEPT ![l] = [asOf |-> slot[s].asOf, stamp |-> slot[s].stamp]]
             /\ IF left = {} THEN Hold(s, NoRequest)
                             ELSE slot' = [slot EXCEPT ![s].left = left]
          \/ UNCHANGED comps /\ Hold(s, NoRequest)
    /\ UNCHANGED <<focus, now, proxy, gis, replica, served>>

-----------------------------------------------------------------------------
(* Purge, replication, time *)

(***************************************************************************)
(* RefreshJob.Run, every fifteen minutes: one DELETE for each table.       *)
(***************************************************************************)
PurgeExpired ==
    /\ proxy' = IF proxy # NULL /\ now - proxy.stamp > Retention THEN NULL ELSE proxy
    /\ comps' = [l \in Sales |-> IF comps[l] # NULL /\ now - comps[l].stamp > MaxAge
                                 THEN NULL ELSE comps[l]]
    /\ UNCHANGED <<focus, now, gis, replica, slot, served>>

Replicate ==
    /\ replica' = [proxy |-> proxy, gis |-> gis]
    /\ UNCHANGED <<focus, now, proxy, gis, comps, slot, served>>

Tick ==
    /\ now < MaxTime
    /\ \A s \in Slots : slot[s].op \in {"proxy", "gis", "upsert"} /\ slot[s].asOf # NULL
                          => now - slot[s].asOf < MaxHold
    /\ now' = now + 1
    /\ UNCHANGED <<focus, proxy, gis, replica, comps, slot, served>>

Request(s) ==
    \/ ProxyGet(s) \/ ProxyPut(s)
    \/ FromCache(s) \/ StoreCache(s)
    \/ FetchUpstream(s) \/ UpstreamFails(s)
    \/ \E scope \in Scopes, l \in Sales : FindClosedInScope(s, scope, l)
    \/ FetchSoldCompsLive(s) \/ UpsertClosedBatch(s) \/ UpsertClosed(s)

CacheNext == (\E s \in Slots : Request(s)) \/ PurgeExpired \/ Replicate \/ Tick

CacheSpec == CacheInit /\ [][CacheNext]_cacheVars

-----------------------------------------------------------------------------
(* Properties *)

CacheShapes ==
    /\ focus \in {"proxy", "gis", "comps"} /\ now \in Time
    /\ {proxy, gis, replica.proxy, replica.gis} \subseteq Entry
    /\ comps \in [Sales -> Entry]
    /\ slot \in [Slots -> Hand]
    /\ served \in {NULL} \union [from : {"proxy", "gis", "comps"}, asOf : Time, at : Time]

Past(e) == e # NULL => e.asOf <= now

NoFuture ==
    /\ \A e \in {proxy, gis, replica.proxy, replica.gis} : Past(e)
    /\ \A l \in Sales : Past(comps[l])
    /\ \A s \in Slots : slot[s].op \in {"proxy", "gis", "upsert"} /\ slot[s].asOf # NULL
                          => slot[s].asOf <= now
    /\ served # NULL => served.asOf <= served.at /\ served.at <= now

(***************************************************************************)
(* Types: what a cache holds, a request has in hand or was served is       *)
(* something the upstream has answered, at a time that has been.           *)
(***************************************************************************)
CacheTypeOK == CacheShapes /\ NoFuture

TTL == [proxy |-> ProxyTTL, gis |-> EdgeTTL, comps |-> MaxAge]

(***************************************************************************)
(* An answer given from a cache is what the upstream said at most a time   *)
(* to live ago, and the time a request may hold an answer before it stores *)
(* it: neither a slow request that overwrites a newer entry, a replica     *)
(* that lags, nor a write-through cut short lets older data through.       *)
(***************************************************************************)
FreshServed == served # NULL => served.at - served.asOf <= TTL[served.from] + MaxHold
=============================================================================
