---------------------------- MODULE DomainAccess ----------------------------
(***************************************************************************)
(* Accounts, customer hostnames and API keys: the dashboard's handlers     *)
(* that create, verify, replace and remove them, and the middleware that   *)
(* admits an API request.                                                  *)
(*                                                                         *)
(* Writes go to the primary; look-ups go through ReadPool, which hands out *)
(* a replica or falls back on the primary, anew for every repository call. *)
(* The database is therefore a log of states: its head is what a lagging   *)
(* replica shows, its last element the primary.  A transaction appends one *)
(* state.  Handlers that look something up and write later are two steps,  *)
(* and Slots of them run at a time.                                        *)
(*                                                                         *)
(* A bundle is a production row and its staging row: bundle b has the ids  *)
(* 2b-1 and 2b.  The random TXT value and the random key of a row are      *)
(* never repeated, so the id of the row stands for the first and a serial  *)
(* number for the second.  last_used_at, names and timestamps decide       *)
(* nothing here and are left out; so is the session that identifies the    *)
(* dashboard's user.  No code clears is_active, sets expires_at of a key   *)
(* or mints one without idx:full, so these checks of the middleware always *)
(* succeed.                                                                *)
(***************************************************************************)
EXTENDS Naturals, Sequences, FiniteSets, SequencesExt

CONSTANTS
    Hosts,       \* hostnames customers register
    Admin,       \* the seeded administrator's address
    Emails,      \* addresses that may be invited
    Catalog,     \* sequence of configured feed codes
    Offers,      \* dataset lists that may be ticked when a bundle is made
    Asked,       \* values of ?dataset= (NULL when absent)
    Slots,       \* dashboard requests in flight
    MaxBundles,  \* bound: bundles ever made
    MaxKeys,     \* bound: keys ever minted
    MaxInvites,  \* bound: invitations ever made
    MaxWrites,   \* bound: transactions
    MaxRecords,  \* bound: TXT records published
    MaxLag,      \* bound: transactions the replica is behind
    NULL

ASSUME AccessAssumption ==
    /\ {MaxBundles, MaxKeys, MaxInvites, MaxWrites, MaxRecords, MaxLag}
         \subseteq Nat
    /\ Admin \notin Emails /\ Catalog # <<>>
    /\ \A o \in Offers : o \in Seq(ToSet(o)) /\ o # <<>>

VARIABLES
    log,      \* states of the database: Head is the replica's, Last the primary's
    writes,   \* transactions so far
    lapsed,   \* invitations past their expires_at
    dns,      \* rows whose TXT value is published at their host
    slot,     \* what each dashboard request is about to write
    api,      \* the API request in the middleware
    minted,   \* history: owner and row of every key
    made,     \* history: owner, host and datasets of every bundle
    retired   \* history: keys that were replaced, revoked or went with their row

vars == <<log, writes, lapsed, dns, slot, api, minted, made, retired>>

Ids == 1..(2 * MaxBundles)
Keys == 1..MaxKeys
People == {Admin} \union Emails
BundleOf(id) == (id + 1) \div 2
IsStaging(id) == id % 2 = 0

(***************************************************************************)
(* A feed name is a provider prefix, possibly absent, and a dataset.       *)
(***************************************************************************)
Names == ToSet(Catalog) \union UNION {ToSet(o) : o \in Offers} \union Asked

Row == [user : People, host : Hosts, allowed : Offers, verified : BOOLEAN]
Token == [key : Keys, user : People, dom : Ids \union {NULL}]

Idle == [op |-> "idle"]
Op == {Idle}
      \union [op : {"accept"}, invite : 1..MaxInvites]
      \union [op : {"lookup", "verify", "regenerate"}, user : People, id : Ids]

NoApi == [pc |-> "idle", tok |-> NULL, id |-> NULL, feed |-> NULL]

Primary == Last(log)

(***************************************************************************)
(* The states a look-up may see: ReadPool's replica, or the primary.       *)
(***************************************************************************)
Views == {Head(log), Last(log)}

Commit(db) ==
    /\ writes < MaxWrites /\ Len(log) <= MaxLag
    /\ log' = Append(log, db)
    /\ writes' = writes + 1

Init ==
    /\ log = << [accounts |-> [e \in {Admin} |-> 0], invites |-> <<>>,
                 rows |-> <<>>, toks |-> {}] >>
    /\ writes = 0 /\ lapsed = {} /\ dns = {}
    /\ slot = [s \in Slots |-> Idle]
    /\ api = NoApi
    /\ minted = <<>> /\ made = <<>> /\ retired = {}

(***************************************************************************)
(* Replication applies the next transaction.                               *)
(***************************************************************************)
Replicate ==
    /\ Len(log) > 1
    /\ log' = Tail(log)
    /\ UNCHANGED <<writes, lapsed, dns, slot, api, minted, made, retired>>

-----------------------------------------------------------------------------
(* Invitations *)

(***************************************************************************)
(* Nothing stops a second invitation to the same address.                  *)
(***************************************************************************)
CreateInvitation(e) ==
    /\ Len(Primary.invites) < MaxInvites
    /\ \E v \in Views : Admin \in DOMAIN v.accounts
    /\ Commit([Primary EXCEPT !.invites = Append(@, [email |-> e, accepted |-> FALSE])])
    /\ UNCHANGED <<lapsed, dns, slot, api, minted, made, retired>>

Lapse(i) ==
    /\ i \in DOMAIN Primary.invites \ lapsed
    /\ lapsed' = lapsed \union {i}
    /\ UNCHANGED <<log, writes, dns, slot, api, minted, made, retired>>

(***************************************************************************)
(* FindOpenByHash on a view; the password is hashed before the write.      *)
(***************************************************************************)
FindOpenByHash(s, i) ==
    /\ slot[s] = Idle
    /\ \E v \in Views : i \in DOMAIN v.invites /\ ~v.invites[i].accepted
    /\ i \notin lapsed
    /\ slot' = [slot EXCEPT ![s] = [op |-> "accept", invite |-> i]]
    /\ UNCHANGED <<log, writes, lapsed, dns, api, minted, made, retired>>

(***************************************************************************)
(* One transaction: the account, refused when the address has one, and     *)
(* accepted_at.  Neither acceptance nor expiry is looked at again.  An     *)
(* account remembers the invitation it came from (0: seeded).              *)
(***************************************************************************)
Accepted(db, i) ==
    [db EXCEPT !.accounts = [e \in DOMAIN @ \union {db.invites[i].email} |->
                                IF e = db.invites[i].email THEN i ELSE @[e]],
               !.invites[i].accepted = TRUE]

MutantAccept(s) ==
    /\ slot[s].op = "accept"
    /\ LET i == slot[s].invite IN
         IF Primary.invites[i].email \in DOMAIN Primary.accounts
         THEN Commit([Primary EXCEPT !.invites[i].accepted = TRUE])
         ELSE Commit(Accepted(Primary, i))
    /\ slot' = [slot EXCEPT ![s] = Idle]
    /\ UNCHANGED <<lapsed, dns, api, minted, made, retired>>

Accept(s) ==
    /\ slot[s].op = "accept"
    /\ LET i == slot[s].invite IN
         IF Primary.invites[i].email \in DOMAIN Primary.accounts
         THEN UNCHANGED <<log, writes>>
         ELSE Commit(Accepted(Primary, i))
    /\ slot' = [slot EXCEPT ![s] = Idle]
    /\ UNCHANGED <<lapsed, dns, api, minted, made, retired>>

-----------------------------------------------------------------------------
(* Hostnames and keys *)

HostTaken(h) == \E id \in DOMAIN Primary.rows : Primary.rows[id].host = h

Key(k, u, d) == [key |-> k, user |-> u, dom |-> d]

(***************************************************************************)
(* ProvisionBundle: both rows and a key for each, in one transaction; a    *)
(* host already registered refuses it.                                     *)
(***************************************************************************)
ProvisionBundle(u, h, o) ==
    LET b == Len(made) + 1
        k == Len(minted) + 1
        row == [user |-> u, host |-> h, allowed |-> o, verified |-> FALSE]
    IN
    /\ b <= MaxBundles /\ k + 1 <= MaxKeys
    /\ u \in DOMAIN Primary.accounts /\ ~HostTaken(h)
    /\ Commit([Primary EXCEPT
                 !.rows = [id \in DOMAIN @ \union {2*b - 1, 2*b} |->
                              IF BundleOf(id) = b THEN row ELSE @[id]],
                 !.toks = @ \union {Key(k, u, 2*b - 1), Key(k + 1, u, 2*b)}])
    /\ minted' = minted \o << [user |-> u, dom |-> 2*b - 1], [user |-> u, dom |-> 2*b] >>
    /\ made' = Append(made, [user |-> u, host |-> h, allowed |-> o])
    /\ UNCHANGED <<lapsed, dns, slot, api, retired>>

(***************************************************************************)
(* POST /auth/token: a key of the account, for any of its hostnames.       *)
(***************************************************************************)
IssueToken(u) ==
    LET k == Len(minted) + 1 IN
    /\ k <= MaxKeys
    /\ \E v \in Views : u \in DOMAIN v.accounts
    /\ Commit([Primary EXCEPT !.toks = @ \union {Key(k, u, NULL)}])
    /\ minted' = Append(minted, [user |-> u, dom |-> NULL])
    /\ UNCHANGED <<lapsed, dns, slot, api, made, retired>>

(***************************************************************************)
(* The handlers of one row first read it, for its owner, from a view.      *)
(***************************************************************************)
OwnRow(v, u, id) == id \in DOMAIN v.rows /\ v.rows[id].user = u

ReadRow(s, op, u, id) ==
    /\ slot[s] = Idle
    /\ \E v \in Views : OwnRow(v, u, id)
    /\ slot' = [slot EXCEPT ![s] = [op |-> op, user |-> u, id |-> id]]
    /\ UNCHANGED <<log, writes, lapsed, dns, api, minted, made, retired>>

(***************************************************************************)
(* dns.VerifyTXT: the record is there, or it is not or the lookup fails    *)
(* and the request ends.                                                   *)
(***************************************************************************)
LookupTXT(s) ==
    /\ slot[s].op = "lookup"
    /\ \/ slot[s].id \in dns /\ slot' = [slot EXCEPT ![s].op = "verify"]
       \/ slot' = [slot EXCEPT ![s] = Idle]
    /\ UNCHANGED <<log, writes, lapsed, dns, api, minted, made, retired>>

(***************************************************************************)
(* UPDATE ... WHERE id AND user_id: the row may be gone by now.            *)
(***************************************************************************)
MutantVerifyByHost(s) ==
    /\ slot[s].op = "verify"
    /\ LET h == made[BundleOf(slot[s].id)].host
           same == {i \in DOMAIN Primary.rows :
                      Primary.rows[i].host = h /\ IsStaging(i) = IsStaging(slot[s].id)}
       IN  Commit([Primary EXCEPT
             !.rows = [i \in DOMAIN @ |-> IF i \in same THEN [@[i] EXCEPT !.verified = TRUE]
                                                        ELSE @[i]]])
    /\ slot' = [slot EXCEPT ![s] = Idle]
    /\ UNCHANGED <<lapsed, dns, api, minted, made, retired>>

VerifyTXT(s) ==
    /\ slot[s].op = "verify"
    /\ IF OwnRow(Primary, slot[s].user, slot[s].id)
       THEN Commit([Primary EXCEPT !.rows[slot[s].id].verified = TRUE])
       ELSE UNCHANGED <<log, writes>>
    /\ slot' = [slot EXCEPT ![s] = Idle]
    /\ UNCHANGED <<lapsed, dns, api, minted, made, retired>>

KeysOf(ids) == {k \in DOMAIN minted : minted[k].dom \in ids}

(***************************************************************************)
(* RegenerateForDomain: one transaction deletes the row's key and inserts  *)
(* another.  It is refused when the row has gone; of two that overlap the  *)
(* later may also end in a unique violation.                               *)
(***************************************************************************)
MutantRegenerate(s) ==
    LET id == slot[s].id
        u == slot[s].user
        k == Len(minted) + 1
    IN
    /\ slot[s].op = "regenerate" /\ k <= MaxKeys
    /\ OwnRow(Primary, u, id)
    /\ Commit([Primary EXCEPT !.toks = @ \union {Key(k, u, id)}])
    /\ minted' = Append(minted, [user |-> u, dom |-> id])
    /\ retired' = retired \union KeysOf({id})
    /\ slot' = [slot EXCEPT ![s] = Idle]
    /\ UNCHANGED <<lapsed, dns, api, made>>

RegenerateForDomain(s) ==
    LET id == slot[s].id
        u == slot[s].user
        k == Len(minted) + 1
    IN
    /\ slot[s].op = "regenerate" /\ k <= MaxKeys
    /\ OwnRow(Primary, u, id)
    /\ Commit([Primary EXCEPT
                 !.toks = {t \in @ : t.dom # id \/ t.user # u} \union {Key(k, u, id)}])
    /\ minted' = Append(minted, [user |-> u, dom |-> id])
    /\ retired' = retired \union KeysOf({id})
    /\ slot' = [slot EXCEPT ![s] = Idle]
    /\ UNCHANGED <<lapsed, dns, api, made>>

RegenerateFails(s) ==
    /\ slot[s].op = "regenerate"
    /\ \/ ~OwnRow(Primary, slot[s].user, slot[s].id)
       \/ \E t \in Slots \ {s} : slot[t] = slot[s]
    /\ slot' = [slot EXCEPT ![s] = Idle]
    /\ UNCHANGED <<log, writes, lapsed, dns, api, minted, made, retired>>

(***************************************************************************)
(* Only the production row may be named; its staging row and the keys of   *)
(* both go with it (ON DELETE CASCADE).                                    *)
(***************************************************************************)
MutantDelete(u, id) ==
    /\ OwnRow(Primary, u, id) /\ ~IsStaging(id)
    /\ Commit([Primary EXCEPT
                 !.rows = [i \in DOMAIN @ \ {id, id + 1} |-> @[i]],
                 !.toks = {t \in @ : t.dom # id}])
    /\ retired' = retired \union KeysOf({id, id + 1})
    /\ UNCHANGED <<lapsed, dns, slot, api, minted, made>>

DeleteDomainBundle(u, id) ==
    /\ OwnRow(Primary, u, id) /\ ~IsStaging(id)
    /\ Commit([Primary EXCEPT
                 !.rows = [i \in DOMAIN @ \ {id, id + 1} |-> @[i]],
                 !.toks = {t \in @ : t.dom \notin {id, id + 1}}])
    /\ retired' = retired \union KeysOf({id, id + 1})
    /\ UNCHANGED <<lapsed, dns, slot, api, minted, made>>

Revoke(u, k) ==
    /\ \E t \in Primary.toks :
         /\ t.key = k /\ t.user = u
         /\ Commit([Primary EXCEPT !.toks = @ \ {t}])
    /\ retired' = retired \union {k}
    /\ UNCHANGED <<lapsed, dns, slot, api, minted, made>>

(***************************************************************************)
(* A customer publishes the record of a row; records outlive their rows.   *)
(***************************************************************************)
Publish(id) ==
    /\ Cardinality(dns) < MaxRecords
    /\ BundleOf(id) \in DOMAIN made /\ id \notin dns
    /\ dns' = dns \union {id}
    /\ UNCHANGED <<log, writes, lapsed, slot, api, minted, made, retired>>

-----------------------------------------------------------------------------
(* The middleware *)

normalizeFeedCode(f) == IF f.provider = NULL THEN [f EXCEPT !.provider = "bridge"] ELSE f

(***************************************************************************)
(* enabledForDomain: the places of the row's list that are configured.     *)
(***************************************************************************)
enabledForDomain(allowed) ==
    {n \in DOMAIN allowed : normalizeFeedCode(allowed[n]) \in ToSet(Catalog)}

(***************************************************************************)
(* ResolveFeedCode: the dataset asked for if the row may have it, else its *)
(* default (the first ticked), else the first enabled one; NULL refuses.   *)
(***************************************************************************)
ResolveFeedCode(allowed, asked) ==
    LET enabled == enabledForDomain(allowed)
        feed(n) == normalizeFeedCode(allowed[n])
        want == normalizeFeedCode(IF asked = NULL THEN allowed[1] ELSE asked)
    IN  CASE enabled = {}                      -> NULL
          [] want \in {feed(n) : n \in enabled} -> want
          [] asked # NULL                      -> NULL
          [] OTHER                             -> feed(Min(enabled))

(***************************************************************************)
(* The row a request for host h (staging or not) may use: with a key, one  *)
(* of the key's owner, the key's own row if it has one, and verified;      *)
(* without a key, any row of that host.                                    *)
(***************************************************************************)
Admits(v, tok, id) ==
    /\ id \in DOMAIN v.rows
    /\ tok # NULL =>
         /\ v.rows[id].user = tok.user
         /\ tok.dom \in {NULL, id}
         /\ v.rows[id].verified

(***************************************************************************)
(* FindByPlaintext on one view.                                            *)
(***************************************************************************)
FindByPlaintext(k) ==
    /\ api = NoApi
    /\ \E v \in Views : \E t \in v.toks :
         t.key = k /\ api' = [NoApi EXCEPT !.pc = "token", !.tok = t]
    /\ UNCHANGED <<log, writes, lapsed, dns, slot, minted, made, retired>>

(***************************************************************************)
(* The domain look-up, on a view of its own, and the feed; GIS requests    *)
(* bypass the feed check and ask for no feed.                              *)
(***************************************************************************)
Grant(tok, id, asked) ==
    /\ \E v \in Views :
         /\ Admits(v, tok, id)
         /\ LET feed == ResolveFeedCode(v.rows[id].allowed, asked) IN
              /\ feed # NULL
              /\ api' = [pc |-> "granted", tok |-> tok, id |-> id, feed |-> feed]
    /\ UNCHANGED <<log, writes, lapsed, dns, slot, minted, made, retired>>

handleToken(id, asked) == api.pc = "token" /\ Grant(api.tok, id, asked)

handleDomain(id, asked) == api = NoApi /\ Grant(NULL, id, asked)

(***************************************************************************)
(* A key that is good for none of the rows a view shows, or for another    *)
(* host, is refused; a request that was granted is answered.               *)
(***************************************************************************)
Respond ==
    /\ api # NoApi
    /\ api' = NoApi
    /\ UNCHANGED <<log, writes, lapsed, dns, slot, minted, made, retired>>

-----------------------------------------------------------------------------
Writes(s) == Accept(s) \/ LookupTXT(s) \/ VerifyTXT(s) \/ RegenerateForDomain(s) \/ RegenerateFails(s)

Dashboard ==
    \/ \E e \in Emails : CreateInvitation(e)
    \/ \E i \in 1..MaxInvites : Lapse(i)
    \/ \E s \in Slots : \E i \in 1..MaxInvites : FindOpenByHash(s, i)
    \/ \E s \in Slots : Writes(s)
    \/ \E u \in People : \E h \in Hosts, o \in Offers : ProvisionBundle(u, h, o)
    \/ \E u \in People : IssueToken(u)
    \/ \E s \in Slots, u \in People, id \in Ids :
         ReadRow(s, "lookup", u, id) \/ ReadRow(s, "regenerate", u, id)
    \/ \E u \in People, id \in Ids : DeleteDomainBundle(u, id)
    \/ \E u \in People, k \in Keys : Revoke(u, k)
    \/ \E id \in Ids : Publish(id)

Middleware ==
    \/ \E k \in Keys : FindByPlaintext(k)
    \/ \E id \in Ids, a \in Asked : handleToken(id, a) \/ handleDomain(id, a)
    \/ Respond

Next == Dashboard \/ Middleware \/ Replicate

(***************************************************************************)
(* A replica that is in use keeps up, and a request is answered.           *)
(***************************************************************************)
Spec == Init /\ [][Next]_vars /\ WF_vars(Replicate) /\ WF_vars(Respond)

-----------------------------------------------------------------------------
(* Properties *)

(***************************************************************************)
(* Types, and what the constraints of the schema together with the         *)
(* handlers keep in every state the primary or a replica shows: bundles    *)
(* are whole, a host is registered once, a row has at most one key, and a  *)
(* key that names a row belongs to that row's owner.                       *)
(***************************************************************************)
TypeOK ==
    /\ \A n \in DOMAIN log :
         /\ DOMAIN log[n].rows \subseteq Ids
         /\ \A id \in DOMAIN log[n].rows :
              /\ log[n].rows[id] \in Row
              /\ (IF IsStaging(id) THEN id - 1 ELSE id + 1) \in DOMAIN log[n].rows
         /\ \A i, j \in DOMAIN log[n].rows :
              log[n].rows[i].host = log[n].rows[j].host => BundleOf(i) = BundleOf(j)
         /\ log[n].toks \subseteq Token
         /\ \A t \in log[n].toks : t.dom # NULL => OwnRow(log[n], t.user, t.dom)
         /\ \A t, w \in log[n].toks : t.dom = w.dom /\ t.dom # NULL => t = w
    /\ writes \in 0..MaxWrites
    /\ lapsed \subseteq 1..MaxInvites /\ dns \subseteq Ids /\ retired \subseteq Keys
    /\ slot \in [Slots -> Op]
    /\ api.pc \in {"idle", "token", "granted"}

(***************************************************************************)
(* An invitation is good for one account and an account comes from one     *)
(* invitation: accepted_at is set exactly when the account of its address  *)
(* was made by it, however many invitations the address has and however    *)
(* stale the look-ups of concurrent acceptances were.                      *)
(***************************************************************************)
OneAccountPerInvite ==
    \A i \in DOMAIN Primary.invites :
        LET e == Primary.invites[i].email IN
        Primary.invites[i].accepted <=>
            (e \in DOMAIN Primary.accounts /\ Primary.accounts[e] = i)

(***************************************************************************)
(* A request that is granted was entitled to it, although token and row    *)
(* are read from different, lagging databases: the feed is configured and  *)
(* was ticked for the host; and if it came with a key, the key was minted  *)
(* by the row's owner for this row or for the whole account, and this      *)
(* registration's own TXT record, and not the one of an earlier            *)
(* registration of the same host, has been published.  A request without a *)
(* key only names a host (handleDomain) and owes neither.                  *)
(***************************************************************************)
GrantSound ==
    api.pc = "granted" =>
        LET b == made[BundleOf(api.id)] IN
        /\ api.feed \in ToSet(Catalog)
        /\ \E n \in DOMAIN b.allowed : normalizeFeedCode(b.allowed[n]) = api.feed
        /\ api.tok # NULL =>
             /\ api.id \in dns
             /\ minted[api.tok.key].user = b.user
             /\ minted[api.tok.key].dom \in {NULL, api.id}

(***************************************************************************)
(* "DNS TXT verification is required before API auth"                      *)
(* (docs/admin-dashboard.md): no request is granted for a registration     *)
(* whose TXT record was never published, with or without a key.  Requests  *)
(* without a key break this; no run checks it.                             *)
(***************************************************************************)
VerifiedBeforeAuth == api.pc = "granted" => api.id \in dns

Grants(k) == api.pc = "granted" /\ api.tok # NULL /\ api.tok.key = k

(***************************************************************************)
(* "Old key stops working immediately" (docs/admin-dashboard.md): no       *)
(* request that begins once a key has been replaced, revoked or removed    *)
(* with its hostname is granted to it.                                     *)
(***************************************************************************)
RetiredKeyRefused == \A k \in Keys : [](k \in retired /\ api = NoApi => []~Grants(k))

(***************************************************************************)
(* What the look-up on a lagging replica leaves of it: once replication    *)
(* has caught up, retired keys are refused for ever, whichever handler     *)
(* retired them and however that overlapped others.  Transactions are      *)
(* bounded by MaxWrites, so that at some point every key there will be in  *)
(* retired is in it.                                                       *)
(***************************************************************************)
RetiredKeyRefusedInTheEnd == <>[](\A k \in retired : ~Grants(k))
=============================================================================
