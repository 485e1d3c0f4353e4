------------------------- MODULE DomainAccessProofs -------------------------
(***************************************************************************)
(* Theorems about DomainAccess, for every set of hosts, addresses and feed *)
(* codes, every number of dashboard requests in flight, and every lag of   *)
(* the replica.                                                            *)
(***************************************************************************)
EXTENDS DomainAccess, WellFoundedInduction, SequenceTheorems, TLAPS

(***************************************************************************)
(* The tables.                                                             *)
(***************************************************************************)
Accounts == UNION {[D -> Nat] : D \in SUBSET People}
Invite == [email : Emails, accepted : BOOLEAN]
Rows == UNION {[D -> Row] : D \in SUBSET Ids}
DB == [accounts : Accounts, invites : Seq(Invite), rows : Rows, toks : SUBSET Token]
Minted == [user : People, dom : Ids \union {NULL}]
Made == [user : People, host : Hosts, allowed : Offers]

(***************************************************************************)
(* What every state the primary or a replica shows satisfies, given the    *)
(* bundles md and keys mt made so far and the records pub published.       *)
(***************************************************************************)
Twin(id) == IF IsStaging(id) THEN id - 1 ELSE id + 1

RowsWhole(rs) == \A id \in DOMAIN rs : Twin(id) \in DOMAIN rs
HostsOnce(rs) == \A i, j \in DOMAIN rs : rs[i].host = rs[j].host => BundleOf(i) = BundleOf(j)
RowsAsMade(rs, md, pub) ==
    \A id \in DOMAIN rs :
        /\ BundleOf(id) \in DOMAIN md
        /\ rs[id].user = md[BundleOf(id)].user
        /\ rs[id].allowed = md[BundleOf(id)].allowed
        /\ rs[id].verified => id \in pub
KeysOwned(rs, ts) ==
    /\ \A t \in ts : t.dom # NULL => t.dom \in DOMAIN rs /\ rs[t.dom].user = t.user
    /\ \A t, w \in ts : t.dom = w.dom /\ t.dom # NULL => t = w
KeysAsMinted(ts, mt) ==
    \A t \in ts : t.key \in DOMAIN mt /\ mt[t.key] = [user |-> t.user, dom |-> t.dom]

Sound(d, md, mt, pub) ==
    /\ RowsWhole(d.rows) /\ HostsOnce(d.rows) /\ RowsAsMade(d.rows, md, pub)
    /\ KeysOwned(d.rows, d.toks) /\ KeysAsMinted(d.toks, mt)

(***************************************************************************)
(* The middleware holds a key as it was minted, and has granted nothing    *)
(* but what GrantSound says, to a row that was made.                       *)
(***************************************************************************)
TokenOK(tok, mt) ==
    tok # NULL => /\ tok \in Token /\ tok.key \in DOMAIN mt
                  /\ mt[tok.key] = [user |-> tok.user, dom |-> tok.dom]

ApiOK ==
    /\ api.pc \in {"idle", "token", "granted"}
    /\ api.pc \in {"token", "granted"} => TokenOK(api.tok, minted)
    /\ api.pc = "granted" => api.id \in Ids /\ BundleOf(api.id) \in DOMAIN made
    /\ GrantSound

LogOK ==
    /\ log \in Seq(DB) /\ log # <<>>
    /\ \A n \in DOMAIN log : Sound(log[n], made, minted, dns)
HistoryOK ==
    /\ made \in Seq(Made) /\ Len(made) <= MaxBundles
    /\ minted \in Seq(Minted) /\ Len(minted) <= MaxKeys
    /\ dns \subseteq Ids /\ retired \subseteq Keys
SlotOK ==
    /\ slot \in [Slots -> Op]
    /\ \A s \in Slots : slot[s].op = "verify" => slot[s].id \in dns
CountsOK == writes \in 0..MaxWrites /\ lapsed \subseteq 1..MaxInvites


(***************************************************************************)
(* The primary has every invitation a lagging view shows, the one a        *)
(* request is about to accept included; accounts come from invitations     *)
(* there are.                                                              *)
(***************************************************************************)
InvitesOK ==
    /\ \A n \in DOMAIN log : Len(log[n].invites) <= Len(Primary.invites)
    /\ \A s \in Slots : slot[s].op = "accept" => slot[s].invite \in DOMAIN Primary.invites
    /\ \A e \in DOMAIN Primary.accounts : Primary.accounts[e] <= Len(Primary.invites)
    /\ OneAccountPerInvite

AccessInv == LogOK /\ HistoryOK /\ SlotOK /\ CountsOK /\ InvitesOK /\ ApiOK

-----------------------------------------------------------------------------
(* Helpers *)

(***************************************************************************)
(* Bundle b consists of the rows 2b-1, production, and 2b, staging.        *)
(***************************************************************************)
LEMMA BundleIds ==
    ASSUME NEW id \in Nat \ {0}, NEW b \in Nat
    PROVE  /\ BundleOf(id) \in Nat \ {0}
           /\ BundleOf(id) = b <=> id \in {2*b - 1, 2*b}
           /\ IsStaging(id) <=> id = 2 * BundleOf(id)
           /\ ~IsStaging(id) <=> id = 2 * BundleOf(id) - 1
BY DEF BundleOf, IsStaging

(***************************************************************************)
(* A non-empty set of natural numbers has a least element.                 *)
(***************************************************************************)
LEMMA MinInSet ==
    ASSUME NEW S \in SUBSET Nat, S # {}
    PROVE  Min(S) \in S
<1>. DEFINE Less == {p \in Nat \X Nat : p[1] < p[2]}
<1>1. OpToRel(<, Nat) = Less
  BY DEF OpToRel
<1>2. IsWellFoundedOn(Less, Nat)
  BY <1>1, NatLessThanWellFounded
<1>. HIDE DEF Less
<1>3. PICK x \in S : \A y \in S : ~(<<y, x>> \in Less)
  BY <1>2, WFMin
<1>4. ASSUME NEW y \in S PROVE x <= y
  <2>1. x \in Nat /\ y \in Nat
    OBVIOUS
  <2>2. y < x => <<y, x>> \in Less
    BY <2>1 DEF Less
  <2>. QED BY <1>3, <2>1, <2>2
<1>. QED
  BY <1>4 DEF Min

(***************************************************************************)
(* ResolveFeedCode returns a configured feed that the row's list has.      *)
(***************************************************************************)
LEMMA FeedTicked ==
    ASSUME NEW allowed \in Offers, NEW asked, ResolveFeedCode(allowed, asked) # NULL
    PROVE  \E n \in DOMAIN allowed :
               /\ normalizeFeedCode(allowed[n]) = ResolveFeedCode(allowed, asked)
               /\ ResolveFeedCode(allowed, asked) \in ToSet(Catalog)
<1>. DEFINE enabled == enabledForDomain(allowed)
            feed(n) == normalizeFeedCode(allowed[n])
            want == normalizeFeedCode(IF asked = NULL THEN allowed[1] ELSE asked)
<1>1. \A n \in enabled : n \in DOMAIN allowed /\ feed(n) \in ToSet(Catalog)
  BY DEF enabledForDomain
<1>2. enabled \in SUBSET Nat
  BY AccessAssumption DEF enabledForDomain
<1>3. enabled # {} => Min(enabled) \in enabled
  BY <1>2, MinInSet
<1>4. ResolveFeedCode(allowed, asked) = 
        CASE enabled = {}                         -> NULL
          [] want \in {feed(n) : n \in enabled} -> want
          [] asked # NULL                         -> NULL
          [] OTHER                                -> feed(Min(enabled))
  BY DEF ResolveFeedCode
<1>. HIDE DEF enabled, feed, want
<1>5. \E n \in enabled : feed(n) = ResolveFeedCode(allowed, asked)
  BY <1>3, <1>4
<1>. QED BY <1>1, <1>5 DEF feed

-----------------------------------------------------------------------------
(* The log of database states *)

Grown(f, g) == DOMAIN f \subseteq DOMAIN g /\ \A x \in DOMAIN f : g[x] = f[x]

(***************************************************************************)
(* The states of the log after a step are those before it and the new      *)
(* primary.                                                                *)
(***************************************************************************)
LogMoves ==
    \A n \in DOMAIN log' : log'[n] = Primary' \/ \E m \in DOMAIN log : log'[n] = log[m]

(***************************************************************************)
(* A state stays sound as bundles, keys and records are added.             *)
(***************************************************************************)
LEMMA SoundStable ==
    ASSUME NEW d, NEW md, NEW mt, NEW pub, Sound(d, md, mt, pub),
           NEW md2, Grown(md, md2), NEW mt2, Grown(mt, mt2), NEW pub2, pub \subseteq pub2
    PROVE  Sound(d, md2, mt2, pub2)
BY DEF Sound, RowsAsMade, KeysAsMinted, Grown

(***************************************************************************)
(* What a look-up sees is one of the states of the log.                    *)
(***************************************************************************)
LEMMA ViewsSound ==
    ASSUME LogOK
    PROVE  /\ Primary \in DB /\ Sound(Primary, made, minted, dns)
           /\ \A v \in Views : v \in DB /\ Sound(v, made, minted, dns)
<1>1. Len(log) \in Nat \ {0} /\ DOMAIN log = 1..Len(log) /\ Head(log) = log[1]
  BY DEF LogOK
<1>2. 1 \in DOMAIN log /\ Len(log) \in DOMAIN log
  BY <1>1
<1>3. log[1] \in DB /\ log[Len(log)] \in DB
  BY <1>1 DEF LogOK
<1>. QED BY <1>1, <1>2, <1>3 DEF LogOK, Views, Primary, Last

(***************************************************************************)
(* A transaction adds one state to the log ...                             *)
(***************************************************************************)
LEMMA CommitLog ==
    ASSUME LogOK, NEW d \in DB, Commit(d)
    PROVE  /\ log' \in Seq(DB) /\ log' # <<>> /\ Last(log') = d
           /\ \A n \in DOMAIN log' : log'[n] = d \/ (n \in DOMAIN log /\ log'[n] = log[n])
<1>1. log \in Seq(DB) /\ log' = Append(log, d)
  BY DEF LogOK, Commit
<1>2. Len(log') = Len(log) + 1 /\ Len(log) \in Nat /\ log' \in Seq(DB)
  BY <1>1
<1>3. \A n \in 1..Len(log) : log'[n] = log[n]
  BY <1>1
<1>4. log'[Len(log) + 1] = d
  BY <1>1
<1>5. DOMAIN log' = 1..(Len(log) + 1) /\ DOMAIN log = 1..Len(log)
  BY <1>1, <1>2
<1>. QED BY <1>2, <1>3, <1>4, <1>5 DEF Last

(***************************************************************************)
(* ... and keeps it sound if that state is.                                *)
(***************************************************************************)
LEMMA CommitKeeps ==
    ASSUME LogOK, NEW d \in DB, Commit(d), Sound(d, made', minted', dns'),
           Grown(made, made'), Grown(minted, minted'), dns \subseteq dns'
    PROVE  LogOK' /\ LogMoves
<1>1. ASSUME NEW n \in DOMAIN log' PROVE Sound(log'[n], made', minted', dns')
  <2>1. CASE log'[n] = d
    BY <2>1
  <2>2. CASE n \in DOMAIN log /\ log'[n] = log[n]
    <3>1. PICK e, md, mt, pub : e = log[n] /\ md = made /\ mt = minted /\ pub = dns
      OBVIOUS
    <3>2. Sound(e, md, mt, pub)
      BY <2>2, <3>1 DEF LogOK
    <3>3. PICK md2, mt2, pub2 : md2 = made' /\ mt2 = minted' /\ pub2 = dns'
      OBVIOUS
    <3>4. Sound(e, md2, mt2, pub2)
      BY <3>1, <3>2, <3>3, SoundStable
    <3>. QED BY <2>2, <3>1, <3>3, <3>4
  <2>. QED BY <2>1, <2>2, CommitLog
<1>2. LogMoves
  BY CommitLog DEF LogMoves, Primary
<1>. QED BY <1>1, <1>2, CommitLog DEF LogOK

LEMMA ReplicateLog ==
    ASSUME LogOK, Replicate
    PROVE  /\ log' \in Seq(DB) /\ log' # <<>> /\ Last(log') = Last(log)
           /\ \A n \in DOMAIN log' : \E m \in DOMAIN log : log'[n] = log[m]
<1>1. log \in Seq(DB) /\ log' = Tail(log) /\ Len(log) > 1 /\ Len(log) \in Nat
  BY DEF LogOK, Replicate
<1>2. log' \in Seq(DB) /\ Len(log') = Len(log) - 1
  BY <1>1
<1>3. \A n \in 1..(Len(log) - 1) : log'[n] = log[n + 1]
  BY <1>1
<1>4. DOMAIN log' = 1..(Len(log) - 1) /\ DOMAIN log = 1..Len(log)
  BY <1>1, <1>2
<1>5. Last(log') = log[Len(log)]
  BY <1>1, <1>2, <1>3 DEF Last
<1>6. \A n \in 1..(Len(log) - 1) : n + 1 \in 1..Len(log)
  BY <1>1
<1>7. ASSUME NEW n \in DOMAIN log' PROVE \E m \in DOMAIN log : log'[n] = log[m]
  <2>1. n \in 1..(Len(log) - 1)
    BY <1>4
  <2>2. n + 1 \in DOMAIN log /\ log'[n] = log[n + 1]
    BY <1>3, <1>4, <1>6, <2>1
  <2>. QED BY <2>2
<1>8. log' # <<>>
  BY <1>1, <1>2
<1>9. Last(log) = log[Len(log)]
  BY DEF Last
<1>. QED BY <1>2, <1>5, <1>7, <1>8, <1>9

LEMMA ReplicateKeeps ==
    ASSUME LogOK, Replicate
    PROVE  LogOK' /\ LogMoves
<1>1. ASSUME NEW n \in DOMAIN log' PROVE Sound(log'[n], made, minted, dns)
  <2>1. PICK m \in DOMAIN log : log'[n] = log[m]
    BY ReplicateLog
  <2>2. Sound(log[m], made, minted, dns)
    BY DEF LogOK
  <2>. QED BY <2>1, <2>2
<1>2. UNCHANGED <<made, minted, dns>>
  BY DEF Replicate
<1>. QED BY <1>1, <1>2, ReplicateLog DEF LogOK, LogMoves

(***************************************************************************)
(* Steps that write nothing.                                               *)
(***************************************************************************)
LEMMA LogFrame ==
    ASSUME LogOK, UNCHANGED <<log, made, minted>>, dns \subseteq dns'
    PROVE  LogOK' /\ LogMoves
<1>1. ASSUME NEW n \in DOMAIN log PROVE Sound(log[n], made, minted, dns')
  <2>1. PICK e, md, mt, pub, pub2 :
            e = log[n] /\ md = made /\ mt = minted /\ pub = dns /\ pub2 = dns'
    OBVIOUS
  <2>2. Sound(e, md, mt, pub)
    BY <2>1 DEF LogOK
  <2>3. Sound(e, md, mt, pub2)
    BY <2>1, <2>2, SoundStable DEF Grown
  <2>. QED BY <2>1, <2>3
<1>. QED BY <1>1 DEF LogOK, LogMoves

-----------------------------------------------------------------------------
(* Transactions keep a state sound *)

LEMMA AppendGrown ==
    ASSUME NEW S, NEW q \in Seq(S), NEW x \in S
    PROVE  /\ Append(q, x) \in Seq(S) /\ Len(Append(q, x)) = Len(q) + 1
           /\ DOMAIN Append(q, x) = DOMAIN q \union {Len(q) + 1}
           /\ Append(q, x)[Len(q) + 1] = x
           /\ Grown(q, Append(q, x))
<1>1. /\ Len(q) \in Nat /\ DOMAIN q = 1..Len(q)
      /\ Append(q, x) \in Seq(S) /\ Len(Append(q, x)) = Len(q) + 1
      /\ DOMAIN Append(q, x) = 1..(Len(q) + 1)
  OBVIOUS
<1>2. \A n \in 1..Len(q) : Append(q, x)[n] = q[n]
  OBVIOUS
<1>3. Append(q, x)[Len(q) + 1] = x
  OBVIOUS
<1>4. 1..(Len(q) + 1) = 1..Len(q) \union {Len(q) + 1}
  BY <1>1
<1>. QED BY <1>1, <1>2, <1>3, <1>4 DEF Grown

(***************************************************************************)
(* The tables of a changed state.                                          *)
(***************************************************************************)
LEMMA Tables ==
    ASSUME NEW d \in DB
    PROVE  /\ d.rows \in [DOMAIN d.rows -> Row] /\ DOMAIN d.rows \in SUBSET Ids
           /\ d.toks \subseteq Token
           /\ d.accounts \in [DOMAIN d.accounts -> Nat] /\ DOMAIN d.accounts \in SUBSET People
           /\ d.invites \in Seq(Invite)
BY DEF DB, Rows, Accounts

(***************************************************************************)
(* The rows, keys and histories after ProvisionBundle.                     *)
(***************************************************************************)
BundleRows(d, b, u, h, o) ==
    [id \in DOMAIN d.rows \union {2*b - 1, 2*b} |->
        IF BundleOf(id) = b
        THEN [user |-> u, host |-> h, allowed |-> o, verified |-> FALSE]
        ELSE d.rows[id]]
BundleKeys(d, b, k, u) == d.toks \union {Key(k, u, 2*b - 1), Key(k + 1, u, 2*b)}
MadeBundle(md, u, h, o) == Append(md, [user |-> u, host |-> h, allowed |-> o])
MintedKey(mt, u, dom) == Append(mt, [user |-> u, dom |-> dom])
MintedPair(mt, b, u) == mt \o << [user |-> u, dom |-> 2*b - 1], [user |-> u, dom |-> 2*b] >>

LEMMA ProvisionSound ==
    ASSUME NEW d \in DB, NEW md \in Seq(Made), NEW mt \in Seq(Minted), NEW pub,
           Sound(d, md, mt, pub),
           NEW u \in People, NEW h \in Hosts, NEW o \in Offers,
           Len(md) + 1 <= MaxBundles, Len(mt) + 2 <= MaxKeys,
           \A id \in DOMAIN d.rows : d.rows[id].host # h
    PROVE  LET b == Len(md) + 1
               k == Len(mt) + 1
               md2 == MadeBundle(md, u, h, o)
               mt2 == MintedPair(mt, b, u)
               R == BundleRows(d, b, u, h, o)
               T == BundleKeys(d, b, k, u)
           IN  /\ md2 \in Seq(Made) /\ Len(md2) = b /\ Grown(md, md2)
               /\ mt2 \in Seq(Minted) /\ Len(mt2) = k + 1 /\ Grown(mt, mt2)
               /\ R \in Rows /\ T \in SUBSET Token
               /\ RowsWhole(R) /\ HostsOnce(R) /\ RowsAsMade(R, md2, pub)
               /\ KeysOwned(R, T) /\ KeysAsMinted(T, mt2)
<1>. DEFINE row == [user |-> u, host |-> h, allowed |-> o, verified |-> FALSE]
<1>0. PICK b, k, md2, mt2, R, T :
        /\ b = Len(md) + 1 /\ k = Len(mt) + 1
        /\ md2 = MadeBundle(md, u, h, o) /\ mt2 = MintedPair(mt, b, u)
        /\ R = BundleRows(d, b, u, h, o) /\ T = BundleKeys(d, b, k, u)
  OBVIOUS
<1>a. /\ R = [id \in DOMAIN d.rows \union {2*b - 1, 2*b} |->
                 IF BundleOf(id) = b THEN row ELSE d.rows[id]]
      /\ T = d.toks \union {Key(k, u, 2*b - 1), Key(k + 1, u, 2*b)}
      /\ md2 = Append(md, [user |-> u, host |-> h, allowed |-> o])
      /\ mt2 = mt \o << [user |-> u, dom |-> 2*b - 1], [user |-> u, dom |-> 2*b] >>
  BY <1>0 DEF BundleRows, BundleKeys, MadeBundle, MintedPair
<1>1. b \in Nat \ {0} /\ k \in Nat \ {0} /\ {2*b - 1, 2*b} \subseteq Ids /\ {k, k + 1} \subseteq Keys
      /\ MaxBundles \in Nat /\ MaxKeys \in Nat
  BY <1>0, AccessAssumption DEF Ids, Keys
<1>2. d.rows \in [DOMAIN d.rows -> Row] /\ DOMAIN d.rows \subseteq Ids /\ d.toks \subseteq Token
  BY Tables
<1>3. [user |-> u, host |-> h, allowed |-> o] \in Made
  BY DEF Made
<1>4. md2 \in Seq(Made) /\ Len(md2) = b /\ Grown(md, md2) /\ DOMAIN md2 = DOMAIN md \union {b}
      /\ md2[b] = [user |-> u, host |-> h, allowed |-> o]
  BY <1>0, <1>a, <1>3, AppendGrown
<1>5. /\ mt2 \in Seq(Minted) /\ Len(mt2) = k + 1 /\ Grown(mt, mt2)
      /\ {k, k + 1} \subseteq DOMAIN mt2
      /\ mt2[k] = [user |-> u, dom |-> 2*b - 1] /\ mt2[k + 1] = [user |-> u, dom |-> 2*b]
  <2>. DEFINE m1 == [user |-> u, dom |-> 2*b - 1]
              m2 == [user |-> u, dom |-> 2*b]
  <2>1. m1 \in Minted /\ m2 \in Minted
    BY <1>1 DEF Minted
  <2>. HIDE DEF m1, m2
  <2>2. << m1, m2 >> \in Seq(Minted) /\ Len(<< m1, m2 >>) = 2
    BY <2>1
  <2>3. mt2 = mt \o << m1, m2 >>
    BY <1>a DEF m1, m2
  <2>4. mt2 \in Seq(Minted) /\ Len(mt2) = k + 1 /\ Len(mt) \in Nat /\ DOMAIN mt = 1..Len(mt)
        /\ DOMAIN mt2 = 1..(k + 1)
    <3>1. Len(mt) \in Nat /\ DOMAIN mt = 1..Len(mt)
      OBVIOUS
    <3>2. mt2 \in Seq(Minted) /\ Len(mt2) = Len(mt) + 2
      BY <2>2, <2>3
    <3>3. Len(mt) + 2 = k + 1
      BY <1>0, <3>1
    <3>. QED BY <3>1, <3>2, <3>3
  <2>5. \A n \in 1..Len(mt) : mt2[n] = mt[n]
    BY <2>2, <2>3
  <2>6. mt2[k] = m1 /\ mt2[k + 1] = m2
    BY <1>0, <2>2, <2>3, <2>4
  <2>7. 1..Len(mt) \subseteq 1..(k + 1) /\ {k, k + 1} \subseteq 1..(k + 1)
    BY <1>0, <1>1, <2>4
  <2>. QED BY <2>4, <2>5, <2>6, <2>7 DEF Grown, m1, m2
<1>6. \A id \in Ids : /\ id \in Nat \ {0}
                      /\ BundleOf(id) = b <=> id \in {2*b - 1, 2*b}
                      /\ IsStaging(id) => id = 2 * BundleOf(id)
                      /\ ~IsStaging(id) => id = 2 * BundleOf(id) - 1
  <2>1. \A id \in Ids : id \in Nat \ {0}
    BY <1>1 DEF Ids
  <2>. QED BY <1>1, <2>1, BundleIds
<1>7. \A id \in DOMAIN d.rows : BundleOf(id) # b /\ id \notin {2*b - 1, 2*b}
  <2>1. b \notin DOMAIN md
    BY <1>0, <1>1
  <2>. QED BY <1>2, <1>6, <2>1 DEF Sound, RowsAsMade
<1>8. /\ DOMAIN R = DOMAIN d.rows \union {2*b - 1, 2*b}
      /\ \A id \in DOMAIN d.rows : R[id] = d.rows[id]
      /\ R[2*b - 1] = row /\ R[2*b] = row
  BY <1>a, <1>1, <1>2, <1>6, <1>7
<1>9. R \in Rows
  <2>1. row \in Row
    BY DEF Row
  <2>2. R \in [DOMAIN d.rows \union {2*b - 1, 2*b} -> Row]
    BY <1>a, <1>2, <1>8, <2>1
  <2>. QED BY <1>1, <1>2, <2>2 DEF Rows
<1>10. RowsWhole(R)
  <2>1. Twin(2*b - 1) = 2*b /\ Twin(2*b) = 2*b - 1
    BY <1>1 DEF Twin, IsStaging
  <2>. QED BY <1>8, <2>1 DEF RowsWhole, Sound
<1>11. HostsOnce(R)
  <2>1. row.host = h /\ BundleOf(2*b - 1) = b /\ BundleOf(2*b) = b
    BY <1>1, <1>6
  <2>. QED BY <1>8, <2>1 DEF HostsOnce, Sound
<1>12. RowsAsMade(R, md2, pub)
  <2>1. BundleOf(2*b - 1) = b /\ BundleOf(2*b) = b
    BY <1>1, <1>6
  <2>2. RowsAsMade(d.rows, md2, pub)
    BY <1>4 DEF Sound, RowsAsMade, Grown
  <2>. QED BY <1>4, <1>8, <2>1, <2>2 DEF RowsAsMade
<1>. DEFINE t1 == Key(k, u, 2*b - 1)
            t2 == Key(k + 1, u, 2*b)
<1>13. /\ t1 \in Token /\ t1.key = k /\ t1.user = u /\ t1.dom = 2*b - 1
       /\ t2 \in Token /\ t2.key = k + 1 /\ t2.user = u /\ t2.dom = 2*b
  BY <1>1 DEF Key, Token
<1>14. T = d.toks \union {t1, t2}
  BY <1>a
<1>. HIDE DEF t1, t2
<1>15. KeysOwned(R, T)
  <2>1. \A t \in d.toks : t.dom # NULL => t.dom \in DOMAIN d.rows /\ d.rows[t.dom].user = t.user
    BY DEF Sound, KeysOwned
  <2>2. \A t \in d.toks : t.dom # NULL => t.dom \notin {2*b - 1, 2*b}
    BY <1>7, <2>1
  <2>3. row.user = u /\ 2*b - 1 # 2*b
    BY <1>1
  <2>4. \A t \in T : t.dom # NULL => t.dom \in DOMAIN R /\ R[t.dom].user = t.user
    <3>1. ASSUME NEW t \in d.toks, t.dom # NULL
          PROVE  t.dom \in DOMAIN R /\ R[t.dom].user = t.user
      BY <1>8, <2>1, <3>1
    <3>2. t1.dom \in DOMAIN R /\ R[t1.dom].user = t1.user
      BY <1>8, <1>13, <2>3
    <3>3. t2.dom \in DOMAIN R /\ R[t2.dom].user = t2.user
      BY <1>8, <1>13, <2>3
    <3>. QED BY <1>14, <3>1, <3>2, <3>3
  <2>5. \A t, w \in T : t.dom = w.dom /\ t.dom # NULL => t = w
    <3>1. \A t, w \in d.toks : t.dom = w.dom /\ t.dom # NULL => t = w
      BY DEF Sound, KeysOwned
    <3>. QED BY <1>13, <1>14, <2>2, <2>3, <3>1
  <2>. QED BY <2>4, <2>5 DEF KeysOwned
<1>16. KeysAsMinted(T, mt2)
  <2>1. \A t \in d.toks : t.key \in DOMAIN mt2 /\ mt2[t.key] = [user |-> t.user, dom |-> t.dom]
    BY <1>5 DEF KeysAsMinted, Sound, Grown
  <2>2. t1.key \in DOMAIN mt2 /\ mt2[t1.key] = [user |-> t1.user, dom |-> t1.dom]
    BY <1>5, <1>13
  <2>3. t2.key \in DOMAIN mt2 /\ mt2[t2.key] = [user |-> t2.user, dom |-> t2.dom]
    BY <1>5, <1>13
  <2>. QED BY <1>14, <2>1, <2>2, <2>3 DEF KeysAsMinted
<1>17. T \in SUBSET Token
  BY <1>2, <1>13, <1>14
<1>. QED BY <1>0, <1>4, <1>5, <1>9, <1>10, <1>11, <1>12, <1>15, <1>16, <1>17

LEMMA MintSound ==
    ASSUME NEW d \in DB, NEW mt \in Seq(Minted), NEW md, NEW pub, Sound(d, md, mt, pub),
           NEW T0 \in SUBSET d.toks, NEW u \in People, NEW dom \in Ids \union {NULL},
           dom # NULL => /\ dom \in DOMAIN d.rows /\ d.rows[dom].user = u
                         /\ \A t \in T0 : t.dom # dom,
           Len(mt) + 1 <= MaxKeys
    PROVE  LET k == Len(mt) + 1
               mt2 == MintedKey(mt, u, dom)
               T == T0 \union {Key(k, u, dom)}
           IN  /\ mt2 \in Seq(Minted) /\ Len(mt2) = k /\ Grown(mt, mt2)
               /\ T \in SUBSET Token /\ KeysOwned(d.rows, T) /\ KeysAsMinted(T, mt2)
<1>0. PICK k, mt2, T : /\ k = Len(mt) + 1 /\ mt2 = Append(mt, [user |-> u, dom |-> dom])
                       /\ T = T0 \union {Key(k, u, dom)}
  OBVIOUS
<1>. DEFINE t1 == Key(k, u, dom)
<1>1. k \in Keys /\ t1 \in Token /\ t1.key = k /\ t1.user = u /\ t1.dom = dom
  BY <1>0, AccessAssumption DEF Keys, Key, Token
<1>2. T = T0 \union {t1}
  BY <1>0
<1>. HIDE DEF t1
<1>3. [user |-> u, dom |-> dom] \in Minted
  BY DEF Minted
<1>4. mt2 \in Seq(Minted) /\ Len(mt2) = k /\ Grown(mt, mt2)
      /\ k \in DOMAIN mt2 /\ mt2[k] = [user |-> u, dom |-> dom]
  BY <1>0, <1>3, AppendGrown
<1>5. d.toks \subseteq Token
  BY Tables
<1>6. KeysOwned(d.rows, T)
  <2>1. \A t \in T0 : t.dom # NULL => t.dom \in DOMAIN d.rows /\ d.rows[t.dom].user = t.user
    BY DEF Sound, KeysOwned
  <2>2. \A t, w \in T0 : t.dom = w.dom /\ t.dom # NULL => t = w
    BY DEF Sound, KeysOwned
  <2>. QED BY <1>1, <1>2, <2>1, <2>2 DEF KeysOwned
<1>7. KeysAsMinted(T, mt2)
  <2>1. \A t \in T0 : t.key \in DOMAIN mt2 /\ mt2[t.key] = [user |-> t.user, dom |-> t.dom]
    BY <1>4 DEF KeysAsMinted, Sound, Grown
  <2>. QED BY <1>1, <1>2, <1>4, <2>1 DEF KeysAsMinted
<1>. QED BY <1>0, <1>1, <1>2, <1>4, <1>5, <1>6, <1>7 DEF MintedKey

LEMMA VerifySound ==
    ASSUME NEW d \in DB, NEW mt, NEW md, NEW pub, Sound(d, md, mt, pub),
           NEW id \in DOMAIN d.rows, id \in pub,
           NEW R, R = [d.rows EXCEPT ![id].verified = TRUE]
    PROVE  /\ R \in Rows
           /\ RowsWhole(R) /\ HostsOnce(R) /\ RowsAsMade(R, md, pub) /\ KeysOwned(R, d.toks)
<1>1. d.rows \in [DOMAIN d.rows -> Row] /\ DOMAIN d.rows \in SUBSET Ids
  BY Tables
<1>2. R \in [DOMAIN d.rows -> Row]
  BY <1>1 DEF Row
<1>3. DOMAIN R = DOMAIN d.rows
      /\ \A i \in DOMAIN R : /\ R[i].user = d.rows[i].user /\ R[i].host = d.rows[i].host
                             /\ R[i].allowed = d.rows[i].allowed
                             /\ i # id => R[i].verified = d.rows[i].verified
  BY <1>1 DEF Row
<1>4. R \in Rows
  BY <1>1, <1>2 DEF Rows
<1>5. RowsWhole(R) /\ HostsOnce(R) /\ KeysOwned(R, d.toks)
  BY <1>3 DEF Sound, RowsWhole, HostsOnce, KeysOwned
<1>6. RowsAsMade(R, md, pub)
  BY <1>3 DEF Sound, RowsAsMade
<1>. QED BY <1>4, <1>5, <1>6

LEMMA DeleteSound ==
    ASSUME NEW d \in DB, NEW mt, NEW md, NEW pub, Sound(d, md, mt, pub),
           NEW id \in Ids, ~IsStaging(id),
           NEW R, R = [i \in DOMAIN d.rows \ {id, id + 1} |-> d.rows[i]],
           NEW T, T = {t \in d.toks : t.dom \notin {id, id + 1}}
    PROVE  /\ R \in Rows /\ T \in SUBSET Token
           /\ RowsWhole(R) /\ HostsOnce(R) /\ RowsAsMade(R, md, pub)
           /\ KeysOwned(R, T) /\ KeysAsMinted(T, mt)
<1>1. d.rows \in [DOMAIN d.rows -> Row] /\ DOMAIN d.rows \in SUBSET Ids /\ d.toks \subseteq Token
  BY Tables
<1>2. DOMAIN R = DOMAIN d.rows \ {id, id + 1} /\ \A i \in DOMAIN R : R[i] = d.rows[i]
  OBVIOUS
<1>3. R \in [DOMAIN R -> Row]
  BY <1>1, <1>2
<1>4. R \in Rows
  BY <1>1, <1>2, <1>3 DEF Rows
<1>5. RowsWhole(R)
  <2>1. ASSUME NEW i \in DOMAIN R PROVE Twin(i) \in DOMAIN R
    <3>1. Twin(i) \in DOMAIN d.rows
      BY <1>2 DEF Sound, RowsWhole
    <3>2. i \in Nat \ {0} /\ id \in Nat \ {0} /\ i # id /\ i # id + 1
      BY <1>1, <1>2, AccessAssumption DEF Ids
    <3>3. Twin(i) # id /\ Twin(i) # id + 1
      BY <3>2 DEF Twin, IsStaging
    <3>. QED BY <1>2, <3>1, <3>3
  <2>. QED BY <2>1 DEF RowsWhole
<1>6. HostsOnce(R) /\ RowsAsMade(R, md, pub)
  BY <1>2 DEF Sound, HostsOnce, RowsAsMade
<1>7. KeysOwned(R, T)
  BY <1>2 DEF Sound, KeysOwned
<1>8. KeysAsMinted(T, mt)
  BY DEF Sound, KeysAsMinted
<1>. QED BY <1>1, <1>4, <1>5, <1>6, <1>7, <1>8

LEMMA RevokeSound ==
    ASSUME NEW d \in DB, NEW mt, NEW md, NEW pub, Sound(d, md, mt, pub),
           NEW T \in SUBSET d.toks
    PROVE  T \in SUBSET Token /\ KeysOwned(d.rows, T) /\ KeysAsMinted(T, mt)
BY Tables DEF Sound, KeysOwned, KeysAsMinted

(***************************************************************************)
(* Transactions on invitations and accounts do not touch rows and keys.    *)
(***************************************************************************)
LEMMA SameRowsKeys ==
    ASSUME NEW d, NEW e, NEW md, NEW mt, NEW pub, Sound(d, md, mt, pub),
           e.rows = d.rows, e.toks = d.toks
    PROVE  Sound(e, md, mt, pub)
BY DEF Sound

LEMMA InviteTables ==
    ASSUME NEW d \in DB, NEW e \in Emails
    PROVE  /\ [d EXCEPT !.invites = Append(@, [email |-> e, accepted |-> FALSE])] \in DB
           /\ [d EXCEPT !.invites = Append(@, [email |-> e, accepted |-> FALSE])].rows = d.rows
           /\ [d EXCEPT !.invites = Append(@, [email |-> e, accepted |-> FALSE])].toks = d.toks
<1>1. [email |-> e, accepted |-> FALSE] \in Invite
  BY DEF Invite
<1>2. Append(d.invites, [email |-> e, accepted |-> FALSE]) \in Seq(Invite)
  BY <1>1, Tables
<1>. QED BY <1>2 DEF DB

LEMMA AcceptTables ==
    ASSUME NEW d \in DB, NEW i \in DOMAIN d.invites
    PROVE  /\ Accepted(d, i) \in DB
           /\ Accepted(d, i).rows = d.rows /\ Accepted(d, i).toks = d.toks
           /\ Accepted(d, i).accounts =
                [e \in DOMAIN d.accounts \union {d.invites[i].email} |->
                    IF e = d.invites[i].email THEN i ELSE d.accounts[e]]
           /\ Accepted(d, i).invites = [d.invites EXCEPT ![i].accepted = TRUE]
<1>. DEFINE A == [e \in DOMAIN d.accounts \union {d.invites[i].email} |->
                    IF e = d.invites[i].email THEN i ELSE d.accounts[e]]
            I == [d.invites EXCEPT ![i].accepted = TRUE]
<1>1. d.accounts \in [DOMAIN d.accounts -> Nat] /\ DOMAIN d.accounts \in SUBSET People
      /\ d.invites \in Seq(Invite)
  BY Tables
<1>2. d.invites[i] \in Invite /\ i \in Nat /\ d.invites[i].email \in People
  <2>1. d.invites[i] \in Invite /\ i \in Nat
    BY <1>1
  <2>. QED BY <2>1 DEF Invite, People
<1>3. A \in [DOMAIN d.accounts \union {d.invites[i].email} -> Nat]
  BY <1>1, <1>2
<1>4. A \in Accounts
  BY <1>1, <1>2, <1>3 DEF Accounts
<1>5. I \in Seq(Invite)
  <2>1. [d.invites[i] EXCEPT !.accepted = TRUE] \in Invite
    BY <1>2 DEF Invite
  <2>. QED BY <1>1, <2>1
<1>6. Accepted(d, i) = [d EXCEPT !.accounts = A, !.invites = I]
  BY DEF Accepted, DB
<1>. HIDE DEF A, I
<1>7. [d EXCEPT !.accounts = A, !.invites = I] \in DB
      /\ [d EXCEPT !.accounts = A, !.invites = I].rows = d.rows
      /\ [d EXCEPT !.accounts = A, !.invites = I].toks = d.toks
      /\ [d EXCEPT !.accounts = A, !.invites = I].accounts = A
      /\ [d EXCEPT !.accounts = A, !.invites = I].invites = I
  BY <1>4, <1>5 DEF DB
<1>. QED BY <1>6, <1>7 DEF A, I

-----------------------------------------------------------------------------
(* The steps *)

(***************************************************************************)
(* What histories and published records do in a step.                      *)
(***************************************************************************)
Grows == Grown(made, made') /\ Grown(minted, minted') /\ dns \subseteq dns'

LEMMA StaysGrows ==
    ASSUME UNCHANGED <<made, minted>>, dns \subseteq dns'
    PROVE  Grows
BY DEF Grows, Grown

LEMMA ProvisionStep ==
    ASSUME AccessInv, NEW u \in People, NEW h \in Hosts, NEW o \in Offers,
           ProvisionBundle(u, h, o)
    PROVE  LogOK' /\ LogMoves /\ HistoryOK' /\ Grows /\ Primary'.invites = Primary.invites
           /\ Primary'.accounts = Primary.accounts
<1>1. PICK d, md, mt, pub, b, k :
        /\ d = Primary /\ md = made /\ mt = minted /\ pub = dns
        /\ b = Len(made) + 1 /\ k = Len(minted) + 1
  OBVIOUS
<1>2. PICK R, T, md2, mt2 :
        /\ R = BundleRows(d, b, u, h, o) /\ T = BundleKeys(d, b, k, u)
        /\ md2 = MadeBundle(md, u, h, o) /\ mt2 = MintedPair(mt, b, u)
  OBVIOUS
<1>3. PICK e : e = [d EXCEPT !.rows = R, !.toks = T]
  OBVIOUS
<1>4. /\ b <= MaxBundles /\ k + 1 <= MaxKeys
      /\ \A id \in DOMAIN d.rows : d.rows[id].host # h
      /\ Commit(e) /\ made' = md2 /\ minted' = mt2 /\ UNCHANGED <<dns, retired>>
  BY <1>1, <1>2, <1>3
  DEF ProvisionBundle, HostTaken, BundleRows, BundleKeys, MadeBundle, MintedPair
<1>5. d \in DB /\ md \in Seq(Made) /\ mt \in Seq(Minted) /\ Sound(d, md, mt, pub) /\ LogOK
  BY <1>1, ViewsSound DEF AccessInv, HistoryOK
<1>6. /\ md2 \in Seq(Made) /\ Len(md2) = b /\ Grown(md, md2)
      /\ mt2 \in Seq(Minted) /\ Len(mt2) = k + 1 /\ Grown(mt, mt2)
      /\ R \in Rows /\ T \in SUBSET Token
      /\ RowsWhole(R) /\ HostsOnce(R) /\ RowsAsMade(R, md2, pub)
      /\ KeysOwned(R, T) /\ KeysAsMinted(T, mt2)
  <2>1. b = Len(md) + 1 /\ k = Len(mt) + 1 /\ Len(mt) + 2 <= MaxKeys
    BY <1>1, <1>4, <1>5, AccessAssumption
  <2>. QED BY <1>2, <1>4, <1>5, <2>1, ProvisionSound
<1>7. e \in DB /\ e.rows = R /\ e.toks = T
  BY <1>3, <1>5, <1>6 DEF DB
<1>8. e.invites = d.invites /\ e.accounts = d.accounts
  BY <1>3, <1>5 DEF DB
<1>9. Sound(e, md2, mt2, pub)
  BY <1>6, <1>7 DEF Sound
<1>10. Grown(made, made') /\ Grown(minted, minted') /\ dns \subseteq dns'
       /\ Sound(e, made', minted', dns')
  BY <1>1, <1>4, <1>6, <1>9
<1>11. LogOK' /\ LogMoves
  BY <1>4, <1>5, <1>7, <1>10, CommitKeeps
<1>12. HistoryOK'
  BY <1>4, <1>6 DEF AccessInv, HistoryOK
<1>13. Primary' = e
  BY <1>4, <1>5, <1>7, CommitLog DEF Primary
<1>. QED BY <1>1, <1>8, <1>10, <1>11, <1>12, <1>13 DEF Grows

LEMMA IssueStep ==
    ASSUME AccessInv, NEW u \in People, IssueToken(u)
    PROVE  LogOK' /\ LogMoves /\ HistoryOK' /\ Grows /\ Primary'.invites = Primary.invites
           /\ Primary'.accounts = Primary.accounts
<1>1. PICK d, md, mt, pub, k :
        /\ d = Primary /\ md = made /\ mt = minted /\ pub = dns /\ k = Len(minted) + 1
  OBVIOUS
<1>2. PICK T, mt2 : /\ T = d.toks \union {Key(k, u, NULL)}
                    /\ mt2 = MintedKey(mt, u, NULL)
  OBVIOUS
<1>3. PICK e : e = [d EXCEPT !.toks = T]
  OBVIOUS
<1>4. k <= MaxKeys /\ Commit(e) /\ minted' = mt2 /\ UNCHANGED <<made, dns, retired>>
  BY <1>1, <1>2, <1>3 DEF IssueToken, MintedKey
<1>5. d \in DB /\ mt \in Seq(Minted) /\ Sound(d, md, mt, pub) /\ LogOK
  BY <1>1, ViewsSound DEF AccessInv, HistoryOK
<1>6. /\ mt2 \in Seq(Minted) /\ Len(mt2) = k /\ Grown(mt, mt2)
      /\ T \in SUBSET Token /\ KeysOwned(d.rows, T) /\ KeysAsMinted(T, mt2)
  <2>1. d.toks \in SUBSET d.toks /\ NULL \in Ids \union {NULL}
    OBVIOUS
  <2>2. k = Len(mt) + 1
    BY <1>1
  <2>. QED BY <1>2, <1>4, <1>5, <2>1, <2>2, MintSound
<1>7. e \in DB /\ e.rows = d.rows /\ e.toks = T /\ e.invites = d.invites /\ e.accounts = d.accounts
  BY <1>3, <1>5, <1>6 DEF DB
<1>8. Sound(e, md, mt2, pub)
  BY <1>5, <1>6, <1>7 DEF Sound
<1>9. Grown(made, made') /\ Grown(minted, minted') /\ dns \subseteq dns'
      /\ Sound(e, made', minted', dns')
  BY <1>1, <1>4, <1>6, <1>8 DEF Grown
<1>10. LogOK' /\ LogMoves
  BY <1>4, <1>5, <1>7, <1>9, CommitKeeps
<1>11. HistoryOK'
  BY <1>4, <1>6 DEF AccessInv, HistoryOK
<1>12. Primary' = e
  BY <1>4, <1>5, <1>7, CommitLog DEF Primary
<1>. QED BY <1>1, <1>7, <1>9, <1>10, <1>11, <1>12 DEF Grows

LEMMA RegenerateStep ==
    ASSUME AccessInv, NEW s \in Slots, RegenerateForDomain(s)
    PROVE  LogOK' /\ LogMoves /\ HistoryOK' /\ Grows /\ Primary'.invites = Primary.invites
           /\ Primary'.accounts = Primary.accounts
<1>1. PICK d, md, mt, pub, k, id, u :
        /\ d = Primary /\ md = made /\ mt = minted /\ pub = dns /\ k = Len(minted) + 1
        /\ id = slot[s].id /\ u = slot[s].user
  OBVIOUS
<1>2. PICK T0, T, mt2 : /\ T0 = {t \in d.toks : t.dom # id \/ t.user # u}
                        /\ T = T0 \union {Key(k, u, id)}
                        /\ mt2 = MintedKey(mt, u, id)
  OBVIOUS
<1>3. PICK e : e = [d EXCEPT !.toks = T]
  OBVIOUS
<1>4. /\ k <= MaxKeys /\ id \in DOMAIN d.rows /\ d.rows[id].user = u
      /\ Commit(e) /\ minted' = mt2 /\ UNCHANGED <<made, dns>>
      /\ retired' = retired \union KeysOf({id})
  BY <1>1, <1>2, <1>3 DEF RegenerateForDomain, OwnRow, MintedKey
<1>5. d \in DB /\ mt \in Seq(Minted) /\ Sound(d, md, mt, pub) /\ LogOK
  BY <1>1, ViewsSound DEF AccessInv, HistoryOK
<1>6. u \in People /\ id \in Ids
  <2>1. d.rows \in [DOMAIN d.rows -> Row] /\ DOMAIN d.rows \in SUBSET Ids
    BY <1>5, Tables
  <2>2. d.rows[id] \in Row
    BY <1>4, <2>1
  <2>. QED BY <1>4, <2>1, <2>2 DEF Row
<1>7. /\ mt2 \in Seq(Minted) /\ Len(mt2) = k /\ Grown(mt, mt2)
      /\ T \in SUBSET Token /\ KeysOwned(d.rows, T) /\ KeysAsMinted(T, mt2)
  <2>1. T0 \in SUBSET d.toks /\ id \in Ids \union {NULL}
    BY <1>2, <1>6
  <2>2. ASSUME NEW t \in T0, id # NULL PROVE t.dom # id
    BY <1>2, <1>4, <1>5, <2>2 DEF Sound, KeysOwned
  <2>3. k = Len(mt) + 1
    BY <1>1
  <2>4. id # NULL => id \in DOMAIN d.rows /\ d.rows[id].user = u /\ \A t \in T0 : t.dom # id
    BY <1>4, <2>2
  <2>5. Len(mt) + 1 <= MaxKeys
    BY <1>4, <2>3
  <2>. QED BY <1>2, <1>5, <1>6, <2>1, <2>3, <2>4, <2>5, MintSound
<1>8. e \in DB /\ e.rows = d.rows /\ e.toks = T /\ e.invites = d.invites /\ e.accounts = d.accounts
  BY <1>3, <1>5, <1>7 DEF DB
<1>9. Sound(e, md, mt2, pub)
  BY <1>5, <1>7, <1>8 DEF Sound
<1>10. Grown(made, made') /\ Grown(minted, minted') /\ dns \subseteq dns'
      /\ Sound(e, made', minted', dns')
  BY <1>1, <1>4, <1>7, <1>9 DEF Grown
<1>11. LogOK' /\ LogMoves
  BY <1>4, <1>5, <1>8, <1>10, CommitKeeps
<1>12. KeysOf({id}) \subseteq Keys
  BY AccessAssumption DEF KeysOf, Keys, AccessInv, HistoryOK
<1>13. HistoryOK'
  BY <1>4, <1>7, <1>12 DEF AccessInv, HistoryOK
<1>14. Primary' = e
  BY <1>4, <1>5, <1>8, CommitLog DEF Primary
<1>. QED BY <1>1, <1>8, <1>10, <1>11, <1>13, <1>14 DEF Grows

LEMMA VerifyStep ==
    ASSUME AccessInv, NEW s \in Slots, VerifyTXT(s)
    PROVE  LogOK' /\ LogMoves /\ HistoryOK' /\ Grows /\ Primary'.invites = Primary.invites
           /\ Primary'.accounts = Primary.accounts
<1>0. UNCHANGED <<made, minted, dns, retired>> /\ LogOK
  BY DEF VerifyTXT, AccessInv
<1>1. CASE ~OwnRow(Primary, slot[s].user, slot[s].id)
  <2>1. UNCHANGED log
    BY <1>1 DEF VerifyTXT
  <2>. QED BY <1>0, <2>1, LogFrame, StaysGrows DEF AccessInv, HistoryOK, Primary
<1>2. CASE OwnRow(Primary, slot[s].user, slot[s].id)
  <2>1. PICK d, md, mt, pub, id :
          d = Primary /\ md = made /\ mt = minted /\ pub = dns /\ id = slot[s].id
    OBVIOUS
  <2>2. PICK R : R = [d.rows EXCEPT ![id].verified = TRUE]
    OBVIOUS
  <2>3. d \in DB /\ Sound(d, md, mt, pub)
    BY <1>0, <2>1, ViewsSound
  <2>4. PICK e : e = [d EXCEPT !.rows = R]
    OBVIOUS
  <2>5. Commit(e) /\ id \in DOMAIN d.rows /\ id \in pub
    <3>1. [d EXCEPT !.rows[id].verified = TRUE] = e
      BY <2>2, <2>3, <2>4 DEF DB
    <3>. QED BY <1>2, <2>1, <3>1 DEF VerifyTXT, OwnRow, AccessInv, SlotOK
  <2>6. R \in Rows /\ RowsWhole(R) /\ HostsOnce(R) /\ RowsAsMade(R, md, pub) /\ KeysOwned(R, d.toks)
    BY <2>2, <2>3, <2>5, VerifySound
  <2>7. e \in DB /\ e.rows = R /\ e.toks = d.toks /\ e.invites = d.invites /\ e.accounts = d.accounts
    BY <2>3, <2>4, <2>6 DEF DB
  <2>8. Sound(e, md, mt, pub)
    BY <2>3, <2>6, <2>7 DEF Sound
  <2>9. Grown(made, made') /\ Grown(minted, minted') /\ dns \subseteq dns'
        /\ Sound(e, made', minted', dns')
    BY <1>0, <2>1, <2>8 DEF Grown
  <2>10. LogOK' /\ LogMoves
    BY <1>0, <2>5, <2>7, <2>9, CommitKeeps
  <2>11. Primary' = e
    BY <1>0, <2>5, <2>7, CommitLog DEF Primary
  <2>. QED BY <1>0, <2>1, <2>7, <2>9, <2>10, <2>11 DEF Grows, AccessInv, HistoryOK
<1>. QED BY <1>1, <1>2

LEMMA KeysMinted ==
    ASSUME AccessInv, NEW ids
    PROVE  KeysOf(ids) \subseteq Keys
BY AccessAssumption DEF KeysOf, Keys, AccessInv, HistoryOK

LEMMA DeleteStep ==
    ASSUME AccessInv, NEW u \in People, NEW id \in Ids, DeleteDomainBundle(u, id)
    PROVE  LogOK' /\ LogMoves /\ HistoryOK' /\ Grows /\ Primary'.invites = Primary.invites
           /\ Primary'.accounts = Primary.accounts
<1>1. PICK d, md, mt, pub : d = Primary /\ md = made /\ mt = minted /\ pub = dns
  OBVIOUS
<1>2. PICK R, T : /\ R = [i \in DOMAIN d.rows \ {id, id + 1} |-> d.rows[i]]
                  /\ T = {t \in d.toks : t.dom \notin {id, id + 1}}
  OBVIOUS
<1>3. PICK e : e = [d EXCEPT !.rows = R, !.toks = T]
  OBVIOUS
<1>4. /\ ~IsStaging(id) /\ Commit(e) /\ UNCHANGED <<made, minted, dns>>
      /\ retired' = retired \union KeysOf({id, id + 1})
  BY <1>1, <1>2, <1>3 DEF DeleteDomainBundle
<1>5. d \in DB /\ Sound(d, md, mt, pub) /\ LogOK
  BY <1>1, ViewsSound DEF AccessInv
<1>6. /\ R \in Rows /\ T \in SUBSET Token
      /\ RowsWhole(R) /\ HostsOnce(R) /\ RowsAsMade(R, md, pub)
      /\ KeysOwned(R, T) /\ KeysAsMinted(T, mt)
  BY <1>2, <1>4, <1>5, DeleteSound
<1>7. e \in DB /\ e.rows = R /\ e.toks = T /\ e.invites = d.invites /\ e.accounts = d.accounts
  BY <1>3, <1>5, <1>6 DEF DB
<1>8. Sound(e, md, mt, pub)
  BY <1>6, <1>7 DEF Sound
<1>9. Grown(made, made') /\ Grown(minted, minted') /\ dns \subseteq dns'
      /\ Sound(e, made', minted', dns')
  BY <1>1, <1>4, <1>8 DEF Grown
<1>10. LogOK' /\ LogMoves
  BY <1>4, <1>5, <1>7, <1>9, CommitKeeps
<1>11. HistoryOK'
  BY <1>4, KeysMinted DEF AccessInv, HistoryOK
<1>12. Primary' = e
  BY <1>4, <1>5, <1>7, CommitLog DEF Primary
<1>. QED BY <1>1, <1>7, <1>9, <1>10, <1>11, <1>12 DEF Grows

LEMMA RevokeStep ==
    ASSUME AccessInv, NEW u \in People, NEW k \in Keys, Revoke(u, k)
    PROVE  LogOK' /\ LogMoves /\ HistoryOK' /\ Grows /\ Primary'.invites = Primary.invites
           /\ Primary'.accounts = Primary.accounts
<1>1. PICK d, md, mt, pub : d = Primary /\ md = made /\ mt = minted /\ pub = dns
  OBVIOUS
<1>2. PICK t \in d.toks : Commit([d EXCEPT !.toks = @ \ {t}])
  BY <1>1 DEF Revoke
<1>3. PICK e, T : T = d.toks \ {t} /\ e = [d EXCEPT !.toks = T]
  OBVIOUS
<1>4. Commit(e) /\ UNCHANGED <<made, minted, dns>> /\ retired' = retired \union {k}
  BY <1>2, <1>3 DEF Revoke
<1>5. d \in DB /\ Sound(d, md, mt, pub) /\ LogOK
  BY <1>1, ViewsSound DEF AccessInv
<1>6. T \in SUBSET Token /\ KeysOwned(d.rows, T) /\ KeysAsMinted(T, mt)
  BY <1>3, <1>5, RevokeSound
<1>7. e \in DB /\ e.rows = d.rows /\ e.toks = T /\ e.invites = d.invites /\ e.accounts = d.accounts
  BY <1>3, <1>5, <1>6 DEF DB
<1>8. Sound(e, md, mt, pub)
  BY <1>5, <1>6, <1>7 DEF Sound
<1>9. Grown(made, made') /\ Grown(minted, minted') /\ dns \subseteq dns'
      /\ Sound(e, made', minted', dns')
  BY <1>1, <1>4, <1>8 DEF Grown
<1>10. LogOK' /\ LogMoves
  BY <1>4, <1>5, <1>7, <1>9, CommitKeeps
<1>11. HistoryOK'
  BY <1>4 DEF AccessInv, HistoryOK
<1>12. Primary' = e
  BY <1>4, <1>5, <1>7, CommitLog DEF Primary
<1>. QED BY <1>1, <1>7, <1>9, <1>10, <1>11, <1>12 DEF Grows

LEMMA InviteStep ==
    ASSUME AccessInv, NEW e \in Emails, CreateInvitation(e)
    PROVE  /\ LogOK' /\ LogMoves /\ HistoryOK' /\ Grows
           /\ Primary'.invites = Append(Primary.invites, [email |-> e, accepted |-> FALSE])
           /\ Primary'.accounts = Primary.accounts
<1>1. PICK d, md, mt, pub : d = Primary /\ md = made /\ mt = minted /\ pub = dns
  OBVIOUS
<1>2. PICK n : n = [d EXCEPT !.invites = Append(@, [email |-> e, accepted |-> FALSE])]
  OBVIOUS
<1>3. Commit(n) /\ UNCHANGED <<made, minted, dns, retired>>
  BY <1>1, <1>2 DEF CreateInvitation
<1>4. d \in DB /\ Sound(d, md, mt, pub) /\ LogOK
  BY <1>1, ViewsSound DEF AccessInv
<1>5. n \in DB /\ n.rows = d.rows /\ n.toks = d.toks
  BY <1>2, <1>4, InviteTables
<1>6. n.invites = Append(d.invites, [email |-> e, accepted |-> FALSE]) /\ n.accounts = d.accounts
  BY <1>2, <1>4 DEF DB
<1>7. Sound(n, md, mt, pub)
  BY <1>4, <1>5, SameRowsKeys
<1>8. Grown(made, made') /\ Grown(minted, minted') /\ dns \subseteq dns'
      /\ Sound(n, made', minted', dns')
  BY <1>1, <1>3, <1>7 DEF Grown
<1>9. LogOK' /\ LogMoves
  BY <1>3, <1>4, <1>5, <1>8, CommitKeeps
<1>10. HistoryOK'
  BY <1>3 DEF AccessInv, HistoryOK
<1>11. Primary' = n
  BY <1>3, <1>4, <1>5, CommitLog DEF Primary
<1>. QED BY <1>1, <1>6, <1>8, <1>9, <1>10, <1>11 DEF Grows

LEMMA AcceptStep ==
    ASSUME AccessInv, NEW s \in Slots, Accept(s),
           Primary.invites[slot[s].invite].email \notin DOMAIN Primary.accounts
    PROVE  /\ LogOK' /\ LogMoves /\ HistoryOK' /\ Grows
           /\ slot[s].invite \in DOMAIN Primary.invites
           /\ Primary'.invites = [Primary.invites EXCEPT ![slot[s].invite].accepted = TRUE]
           /\ Primary'.accounts =
                [e \in DOMAIN Primary.accounts \union {Primary.invites[slot[s].invite].email} |->
                    IF e = Primary.invites[slot[s].invite].email
                    THEN slot[s].invite ELSE Primary.accounts[e]]
<1>1. PICK d, md, mt, pub, i :
        d = Primary /\ md = made /\ mt = minted /\ pub = dns /\ i = slot[s].invite
  OBVIOUS
<1>2. PICK n : n = Accepted(d, i)
  OBVIOUS
<1>3. Commit(n) /\ UNCHANGED <<made, minted, dns, retired>> /\ i \in DOMAIN d.invites
  BY <1>1, <1>2 DEF Accept, AccessInv, InvitesOK
<1>4. d \in DB /\ Sound(d, md, mt, pub) /\ LogOK
  BY <1>1, ViewsSound DEF AccessInv
<1>5. /\ n \in DB /\ n.rows = d.rows /\ n.toks = d.toks
      /\ n.accounts = [e \in DOMAIN d.accounts \union {d.invites[i].email} |->
                          IF e = d.invites[i].email THEN i ELSE d.accounts[e]]
      /\ n.invites = [d.invites EXCEPT ![i].accepted = TRUE]
  BY <1>2, <1>3, <1>4, AcceptTables
<1>6. Sound(n, md, mt, pub)
  BY <1>4, <1>5, SameRowsKeys
<1>7. Grown(made, made') /\ Grown(minted, minted') /\ dns \subseteq dns'
      /\ Sound(n, made', minted', dns')
  BY <1>1, <1>3, <1>6 DEF Grown
<1>8. LogOK' /\ LogMoves
  BY <1>3, <1>4, <1>5, <1>7, CommitKeeps
<1>9. HistoryOK'
  BY <1>3 DEF AccessInv, HistoryOK
<1>10. Primary' = n
  BY <1>3, <1>4, <1>5, CommitLog DEF Primary
<1>. QED BY <1>1, <1>3, <1>5, <1>7, <1>8, <1>9, <1>10 DEF Grows

-----------------------------------------------------------------------------
(* The inductive invariant *)

(***************************************************************************)
(* What a step does to the invitations and accounts of the primary.        *)
(***************************************************************************)
SameAccounts == /\ Primary'.invites = Primary.invites
                /\ Primary'.accounts = Primary.accounts

Invites(e) == /\ Primary'.invites = Append(Primary.invites, [email |-> e, accepted |-> FALSE])
              /\ Primary'.accounts = Primary.accounts

AcceptsInvite(i) ==
    /\ i \in DOMAIN Primary.invites
    /\ Primary.invites[i].email \notin DOMAIN Primary.accounts
    /\ Primary'.invites = [Primary.invites EXCEPT ![i].accepted = TRUE]
    /\ Primary'.accounts =
         [e \in DOMAIN Primary.accounts \union {Primary.invites[i].email} |->
            IF e = Primary.invites[i].email THEN i ELSE Primary.accounts[e]]

LEMMA NextLog ==
    ASSUME AccessInv, [Next]_vars
    PROVE  /\ LogOK' /\ LogMoves /\ HistoryOK' /\ Grows
           /\ \/ SameAccounts
              \/ \E e \in Emails : Invites(e)
              \/ \E s \in Slots : slot[s].op = "accept" /\ AcceptsInvite(slot[s].invite)
<1>0. LogOK /\ HistoryOK
  BY DEF AccessInv
<1>1. ASSUME UNCHANGED <<log, made, minted, retired>>, dns \subseteq dns', dns' \subseteq Ids
      PROVE  LogOK' /\ LogMoves /\ HistoryOK' /\ Grows /\ SameAccounts
  BY <1>0, <1>1, LogFrame, StaysGrows DEF HistoryOK, SameAccounts, Primary
<1>2. dns \subseteq Ids
  BY <1>0 DEF HistoryOK
<1>3. ASSUME NEW e \in Emails, CreateInvitation(e)
      PROVE  LogOK' /\ LogMoves /\ HistoryOK' /\ Grows /\ Invites(e)
  BY <1>3, InviteStep DEF Invites
<1>4. ASSUME NEW i, Lapse(i)
      PROVE  LogOK' /\ LogMoves /\ HistoryOK' /\ Grows /\ SameAccounts
  BY <1>1, <1>2, <1>4 DEF Lapse
<1>5. ASSUME NEW s \in Slots, NEW i, FindOpenByHash(s, i)
      PROVE  LogOK' /\ LogMoves /\ HistoryOK' /\ Grows /\ SameAccounts
  BY <1>1, <1>2, <1>5 DEF FindOpenByHash
<1>6. ASSUME NEW s \in Slots, Accept(s)
      PROVE  /\ LogOK' /\ LogMoves /\ HistoryOK' /\ Grows
             /\ SameAccounts \/ (slot[s].op = "accept" /\ AcceptsInvite(slot[s].invite))
  <2>1. CASE Primary.invites[slot[s].invite].email \in DOMAIN Primary.accounts
    BY <1>1, <1>2, <1>6, <2>1 DEF Accept
  <2>2. CASE Primary.invites[slot[s].invite].email \notin DOMAIN Primary.accounts
    BY <1>6, <2>2, AcceptStep DEF AcceptsInvite, Accept
  <2>. QED BY <2>1, <2>2
<1>7. ASSUME NEW s \in Slots, LookupTXT(s) \/ RegenerateFails(s)
      PROVE  LogOK' /\ LogMoves /\ HistoryOK' /\ Grows /\ SameAccounts
  BY <1>1, <1>2, <1>7 DEF LookupTXT, RegenerateFails
<1>8. ASSUME NEW s \in Slots, VerifyTXT(s) \/ RegenerateForDomain(s)
      PROVE  LogOK' /\ LogMoves /\ HistoryOK' /\ Grows /\ SameAccounts
  BY <1>8, VerifyStep, RegenerateStep DEF SameAccounts
<1>9. ASSUME NEW u \in People, NEW h \in Hosts, NEW o \in Offers, ProvisionBundle(u, h, o)
      PROVE  LogOK' /\ LogMoves /\ HistoryOK' /\ Grows /\ SameAccounts
  BY <1>9, ProvisionStep DEF SameAccounts
<1>10. ASSUME NEW u \in People, IssueToken(u)
       PROVE  LogOK' /\ LogMoves /\ HistoryOK' /\ Grows /\ SameAccounts
  BY <1>10, IssueStep DEF SameAccounts
<1>11. ASSUME NEW s, NEW op, NEW u, NEW id, ReadRow(s, op, u, id)
       PROVE  LogOK' /\ LogMoves /\ HistoryOK' /\ Grows /\ SameAccounts
  BY <1>1, <1>2, <1>11 DEF ReadRow
<1>12. ASSUME NEW u \in People, NEW id \in Ids, DeleteDomainBundle(u, id)
       PROVE  LogOK' /\ LogMoves /\ HistoryOK' /\ Grows /\ SameAccounts
  BY <1>12, DeleteStep DEF SameAccounts
<1>13. ASSUME NEW u \in People, NEW k \in Keys, Revoke(u, k)
       PROVE  LogOK' /\ LogMoves /\ HistoryOK' /\ Grows /\ SameAccounts
  BY <1>13, RevokeStep DEF SameAccounts
<1>14. ASSUME NEW id \in Ids, Publish(id)
       PROVE  LogOK' /\ LogMoves /\ HistoryOK' /\ Grows /\ SameAccounts
  <2>1. dns' \subseteq Ids /\ dns \subseteq dns' /\ UNCHANGED <<log, made, minted, retired>>
    BY <1>2, <1>14 DEF Publish
  <2>. QED BY <1>1, <2>1
<1>15. ASSUME Middleware
       PROVE  LogOK' /\ LogMoves /\ HistoryOK' /\ Grows /\ SameAccounts
  <2>1. UNCHANGED <<log, made, minted, retired, dns>>
    BY <1>15 DEF Middleware, FindByPlaintext, handleToken, handleDomain, Grant, Respond
  <2>. QED BY <1>1, <1>2, <2>1
<1>16. ASSUME Replicate
       PROVE  LogOK' /\ LogMoves /\ HistoryOK' /\ Grows /\ SameAccounts
  <2>1. UNCHANGED <<made, minted, retired, dns>>
    BY <1>16 DEF Replicate
  <2>2. Primary' = Primary
    BY <1>0, <1>16, ReplicateLog DEF Primary
  <2>. QED BY <1>0, <1>16, <2>1, <2>2, ReplicateKeeps, StaysGrows DEF HistoryOK, SameAccounts
<1>17. CASE UNCHANGED vars
  BY <1>1, <1>2, <1>17 DEF vars
<1>18. CASE Dashboard
  <2>1. ASSUME NEW s \in Slots, Writes(s)
        PROVE  /\ LogOK' /\ LogMoves /\ HistoryOK' /\ Grows
               /\ SameAccounts \/ (slot[s].op = "accept" /\ AcceptsInvite(slot[s].invite))
    BY <1>6, <1>7, <1>8, <2>1 DEF Writes
  <2>. QED BY <1>3, <1>4, <1>5, <1>9, <1>10, <1>11, <1>12, <1>13, <1>14, <1>18, <2>1, Zenon
           DEF Dashboard
<1>. QED BY <1>15, <1>16, <1>17, <1>18 DEF Next

(***************************************************************************)
(* What requests remember, and the counters.                               *)
(***************************************************************************)
LEMMA NextCounts ==
    ASSUME AccessInv, [Next]_vars
    PROVE  CountsOK'
<1>1. writes' = writes \/ (writes < MaxWrites /\ writes' = writes + 1)
  BY DEF Next, vars, Dashboard, Writes, Middleware, CreateInvitation, Lapse, FindOpenByHash,
         Accept, LookupTXT, VerifyTXT, RegenerateForDomain, RegenerateFails, ProvisionBundle,
         IssueToken, ReadRow, DeleteDomainBundle, Revoke, Publish, FindByPlaintext,
         handleToken, handleDomain, Grant, Respond, Replicate, Commit
<1>2. lapsed' = lapsed \/ \E i \in 1..MaxInvites : lapsed' = lapsed \union {i}
  BY DEF Next, vars, Dashboard, Writes, Middleware, CreateInvitation, Lapse, FindOpenByHash,
         Accept, LookupTXT, VerifyTXT, RegenerateForDomain, RegenerateFails, ProvisionBundle,
         IssueToken, ReadRow, DeleteDomainBundle, Revoke, Publish, FindByPlaintext,
         handleToken, handleDomain, Grant, Respond, Replicate, Commit
<1>3. writes \in 0..MaxWrites /\ MaxWrites \in Nat
  BY AccessAssumption DEF AccessInv, CountsOK
<1>4. writes' \in 0..MaxWrites
  BY <1>1, <1>3
<1>5. lapsed' \subseteq 1..MaxInvites
  BY <1>2 DEF AccessInv, CountsOK
<1>. QED BY <1>4, <1>5 DEF CountsOK

(***************************************************************************)
(* The change of one slot, or none.                                        *)
(***************************************************************************)
LEMMA SlotStep ==
    ASSUME AccessInv, [Next]_vars
    PROVE  \/ slot' = slot
           \/ \E s \in Slots :
                \/ slot' = [slot EXCEPT ![s] = Idle]
                \/ \E i \in 1..MaxInvites, v \in Views :
                     i \in DOMAIN v.invites /\ slot' = [slot EXCEPT ![s] = [op |-> "accept", invite |-> i]]
                \/ \E op \in {"lookup", "regenerate"}, u \in People, id \in Ids :
                     slot' = [slot EXCEPT ![s] = [op |-> op, user |-> u, id |-> id]]
                \/ slot[s].op = "lookup" /\ slot[s].id \in dns /\ slot' = [slot EXCEPT ![s].op = "verify"]
<1>1. CASE Middleware \/ Replicate \/ UNCHANGED vars
  BY <1>1 DEF Middleware, FindByPlaintext, handleToken, handleDomain, Grant, Respond, Replicate, vars
<1>2. ASSUME NEW s \in Slots, NEW i \in 1..MaxInvites, FindOpenByHash(s, i)
      PROVE  \E v \in Views :
               i \in DOMAIN v.invites /\ slot' = [slot EXCEPT ![s] = [op |-> "accept", invite |-> i]]
  BY <1>2 DEF FindOpenByHash
<1>3. ASSUME NEW s \in Slots, Writes(s)
      PROVE  \/ slot' = [slot EXCEPT ![s] = Idle]
             \/ slot[s].op = "lookup" /\ slot[s].id \in dns /\ slot' = [slot EXCEPT ![s].op = "verify"]
  BY <1>3 DEF Writes, Accept, LookupTXT, VerifyTXT, RegenerateForDomain, RegenerateFails
<1>4. ASSUME NEW s \in Slots, NEW op, NEW u \in People, NEW id \in Ids, ReadRow(s, op, u, id)
      PROVE  slot' = [slot EXCEPT ![s] = [op |-> op, user |-> u, id |-> id]]
  BY <1>4 DEF ReadRow
<1>5. CASE Dashboard
  <2>1. CASE \E e \in Emails : CreateInvitation(e)
    BY <2>1 DEF CreateInvitation
  <2>2. CASE \E i \in 1..MaxInvites : Lapse(i)
    BY <2>2 DEF Lapse
  <2>3. CASE \E s \in Slots : \E i \in 1..MaxInvites : FindOpenByHash(s, i)
    BY <1>2, <2>3, Zenon
  <2>4. CASE \E s \in Slots : Writes(s)
    BY <1>3, <2>4, Zenon
  <2>5. CASE \E u \in People : \E h \in Hosts, o \in Offers : ProvisionBundle(u, h, o)
    BY <2>5 DEF ProvisionBundle
  <2>6. CASE \E u \in People : IssueToken(u)
    BY <2>6 DEF IssueToken
  <2>7. CASE \E s \in Slots, u \in People, id \in Ids :
               ReadRow(s, "lookup", u, id) \/ ReadRow(s, "regenerate", u, id)
    <3>1. "lookup" \in {"lookup", "regenerate"} /\ "regenerate" \in {"lookup", "regenerate"}
      OBVIOUS
    <3>2. PICK s \in Slots, u \in People, id \in Ids, op \in {"lookup", "regenerate"} :
            ReadRow(s, op, u, id)
      BY <2>7, <3>1, Zenon
    <3>3. slot' = [slot EXCEPT ![s] = [op |-> op, user |-> u, id |-> id]]
      BY <1>4, <3>2
    <3>. QED BY <3>3
  <2>8. CASE \E u \in People, id \in Ids : DeleteDomainBundle(u, id)
    BY <2>8 DEF DeleteDomainBundle
  <2>9. CASE \E u \in People, k \in Keys : Revoke(u, k)
    BY <2>9 DEF Revoke
  <2>10. CASE \E id \in Ids : Publish(id)
    BY <2>10 DEF Publish
  <2>. QED BY <1>5, <2>1, <2>2, <2>3, <2>4, <2>5, <2>6, <2>7, <2>8, <2>9, <2>10 DEF Dashboard
<1>. QED BY <1>1, <1>5 DEF Next

LEMMA NextSlots ==
    ASSUME AccessInv, [Next]_vars
    PROVE  /\ SlotOK'
           /\ \A s \in Slots : slot'[s].op = "accept" =>
                \/ slot'[s] = slot[s]
                \/ \E v \in Views : slot'[s].invite \in DOMAIN v.invites
<1>0. slot \in [Slots -> Op] /\ \A s \in Slots : slot[s].op = "verify" => slot[s].id \in dns
  BY DEF AccessInv, SlotOK
<1>1. dns \subseteq dns'
  BY NextLog DEF Grows
<1>2. CASE slot' = slot
  BY <1>0, <1>1, <1>2 DEF SlotOK
<1>3. ASSUME NEW s \in Slots, NEW r \in Op, slot' = [slot EXCEPT ![s] = r],
             r.op = "verify" => r.id \in dns,
             r.op = "accept" => \E v \in Views : r.invite \in DOMAIN v.invites
      PROVE  /\ SlotOK'
             /\ \A t \in Slots : slot'[t].op = "accept" =>
                  \/ slot'[t] = slot[t]
                  \/ \E v \in Views : slot'[t].invite \in DOMAIN v.invites
  <2>1. slot' \in [Slots -> Op] /\ slot'[s] = r /\ \A t \in Slots \ {s} : slot'[t] = slot[t]
    BY <1>0, <1>3
  <2>2. \A t \in Slots : slot'[t].op = "verify" => slot'[t].id \in dns'
    BY <1>0, <1>1, <1>3, <2>1
  <2>3. SlotOK'
    BY <2>1, <2>2 DEF SlotOK
  <2>. QED BY <1>3, <2>1, <2>3
<1>4. Idle \in Op /\ Idle.op = "idle"
  BY DEF Op, Idle
<1>5. ASSUME NEW s \in Slots, slot' = [slot EXCEPT ![s] = Idle]
      PROVE  /\ SlotOK'
             /\ \A t \in Slots : slot'[t].op = "accept" =>
                  \/ slot'[t] = slot[t]
                  \/ \E v \in Views : slot'[t].invite \in DOMAIN v.invites
  BY <1>3, <1>4, <1>5
<1>6. ASSUME NEW s \in Slots, NEW i \in 1..MaxInvites, NEW v \in Views, i \in DOMAIN v.invites,
             slot' = [slot EXCEPT ![s] = [op |-> "accept", invite |-> i]]
      PROVE  /\ SlotOK'
             /\ \A t \in Slots : slot'[t].op = "accept" =>
                  \/ slot'[t] = slot[t]
                  \/ \E w \in Views : slot'[t].invite \in DOMAIN w.invites
  <2>1. PICK r : r = [op |-> "accept", invite |-> i]
    OBVIOUS
  <2>2. r \in Op /\ r.op = "accept" /\ r.invite = i
    BY <2>1 DEF Op
  <2>. QED BY <1>3, <1>6, <2>1, <2>2
<1>7. ASSUME NEW s \in Slots, NEW op \in {"lookup", "regenerate"}, NEW u \in People, NEW id \in Ids,
             slot' = [slot EXCEPT ![s] = [op |-> op, user |-> u, id |-> id]]
      PROVE  /\ SlotOK'
             /\ \A t \in Slots : slot'[t].op = "accept" =>
                  \/ slot'[t] = slot[t]
                  \/ \E v \in Views : slot'[t].invite \in DOMAIN v.invites
  <2>1. PICK r : r = [op |-> op, user |-> u, id |-> id]
    OBVIOUS
  <2>2. r \in Op /\ r.op = op /\ op # "verify" /\ op # "accept"
    BY <2>1 DEF Op
  <2>. QED BY <1>3, <1>7, <2>1, <2>2
<1>8. ASSUME NEW s \in Slots, slot[s].op = "lookup", slot[s].id \in dns,
             slot' = [slot EXCEPT ![s].op = "verify"]
      PROVE  /\ SlotOK'
             /\ \A t \in Slots : slot'[t].op = "accept" =>
                  \/ slot'[t] = slot[t]
                  \/ \E v \in Views : slot'[t].invite \in DOMAIN v.invites
  <2>1. PICK r : r = [slot[s] EXCEPT !.op = "verify"]
    OBVIOUS
  <2>2. slot[s] \in [op : {"lookup", "verify", "regenerate"}, user : People, id : Ids]
    BY <1>0, <1>8 DEF Op, Idle
  <2>3. r \in Op /\ r.op = "verify" /\ r.id = slot[s].id
    BY <2>1, <2>2 DEF Op
  <2>4. slot' = [slot EXCEPT ![s] = r]
    BY <1>0, <1>8, <2>1
  <2>. QED BY <1>3, <1>8, <2>3, <2>4
<1>. QED BY <1>2, <1>5, <1>6, <1>7, <1>8, SlotStep

(***************************************************************************)
(* Invitations and the accounts made from them, in one state.              *)
(***************************************************************************)
OneAccount(d) ==
    /\ \A e \in DOMAIN d.accounts : d.accounts[e] <= Len(d.invites)
    /\ \A i \in DOMAIN d.invites :
         d.invites[i].accepted <=> /\ d.invites[i].email \in DOMAIN d.accounts
                                   /\ d.accounts[d.invites[i].email] = i

LEMMA NewInvite ==
    ASSUME NEW d \in DB, NEW f \in DB, OneAccount(d), NEW e \in Emails,
           f.invites = Append(d.invites, [email |-> e, accepted |-> FALSE]),
           f.accounts = d.accounts
    PROVE  OneAccount(f) /\ Len(d.invites) <= Len(f.invites)
<1>1. d.invites \in Seq(Invite) /\ d.accounts \in [DOMAIN d.accounts -> Nat]
  BY Tables
<1>2. PICK inv : inv = [email |-> e, accepted |-> FALSE]
  OBVIOUS
<1>3. inv \in Invite /\ inv.email = e /\ inv.accepted = FALSE
  BY <1>2 DEF Invite
<1>4. /\ f.invites \in Seq(Invite) /\ Len(f.invites) = Len(d.invites) + 1
      /\ DOMAIN f.invites = DOMAIN d.invites \union {Len(d.invites) + 1}
      /\ f.invites[Len(d.invites) + 1] = inv /\ Grown(d.invites, f.invites)
  BY <1>1, <1>2, <1>3, AppendGrown
<1>5. Len(d.invites) \in Nat
  BY <1>1
<1>6. \A x \in DOMAIN d.accounts : d.accounts[x] \in Nat /\ d.accounts[x] <= Len(d.invites)
  BY <1>1 DEF OneAccount
<1>7. \A x \in DOMAIN f.accounts : f.accounts[x] <= Len(f.invites)
  BY <1>4, <1>5, <1>6
<1>8. ASSUME NEW i \in DOMAIN f.invites
      PROVE  f.invites[i].accepted <=> /\ f.invites[i].email \in DOMAIN f.accounts
                                       /\ f.accounts[f.invites[i].email] = i
  <2>1. CASE i \in DOMAIN d.invites
    BY <1>4, <2>1 DEF Grown, OneAccount
  <2>2. CASE i = Len(d.invites) + 1
    <3>1. f.invites[i].accepted = FALSE
      BY <1>3, <1>4, <2>2
    <3>2. \A x \in DOMAIN d.accounts : d.accounts[x] # i
      BY <1>5, <1>6, <2>2
    <3>. QED BY <3>1, <3>2
  <2>. QED BY <1>4, <2>1, <2>2
<1>. QED BY <1>4, <1>5, <1>7, <1>8 DEF OneAccount

LEMMA NewAccount ==
    ASSUME NEW d \in DB, NEW f \in DB, OneAccount(d), NEW i \in DOMAIN d.invites,
           d.invites[i].email \notin DOMAIN d.accounts,
           f.invites = [d.invites EXCEPT ![i].accepted = TRUE],
           f.accounts = [x \in DOMAIN d.accounts \union {d.invites[i].email} |->
                           IF x = d.invites[i].email THEN i ELSE d.accounts[x]]
    PROVE  OneAccount(f) /\ Len(d.invites) <= Len(f.invites)
<1>1. d.invites \in Seq(Invite) /\ d.accounts \in [DOMAIN d.accounts -> Nat]
  BY Tables
<1>2. /\ DOMAIN f.invites = DOMAIN d.invites /\ Len(f.invites) = Len(d.invites)
      /\ Len(d.invites) \in Nat /\ i \in 1..Len(d.invites)
  <2>1. f.invites \in Seq(Invite)
    BY Tables
  <2>. QED BY <1>1, <2>1
<1>3. \A j \in DOMAIN d.invites : d.invites[j] \in Invite
  BY <1>1
<1>4. /\ \A j \in DOMAIN d.invites : f.invites[j].email = d.invites[j].email
      /\ \A j \in DOMAIN d.invites \ {i} : f.invites[j].accepted = d.invites[j].accepted
      /\ f.invites[i].accepted = TRUE
  BY <1>1, <1>3 DEF Invite
<1>5. PICK e : e = d.invites[i].email
  OBVIOUS
<1>6. /\ DOMAIN f.accounts = DOMAIN d.accounts \union {e} /\ f.accounts[e] = i
      /\ \A x \in DOMAIN d.accounts : x # e /\ f.accounts[x] = d.accounts[x]
  BY <1>5
<1>7. \A x \in DOMAIN f.accounts : f.accounts[x] <= Len(f.invites)
  BY <1>2, <1>6 DEF OneAccount
<1>8. ASSUME NEW j \in DOMAIN f.invites
      PROVE  f.invites[j].accepted <=> /\ f.invites[j].email \in DOMAIN f.accounts
                                       /\ f.accounts[f.invites[j].email] = j
  <2>1. CASE j = i
    BY <1>2, <1>4, <1>5, <1>6, <2>1
  <2>2. CASE j # i
    <3>1. f.invites[j].accepted = d.invites[j].accepted /\ f.invites[j].email = d.invites[j].email
      BY <1>2, <1>4, <2>2
    <3>2. d.invites[j].accepted <=> /\ d.invites[j].email \in DOMAIN d.accounts
                                    /\ d.accounts[d.invites[j].email] = j
      BY <1>2 DEF OneAccount
    <3>3. CASE d.invites[j].email = e
      BY <1>5, <1>6, <2>2, <3>1, <3>2, <3>3
    <3>4. CASE d.invites[j].email # e
      BY <1>6, <3>1, <3>2, <3>4
    <3>. QED BY <3>3, <3>4
  <2>. QED BY <2>1, <2>2
<1>. QED BY <1>2, <1>7, <1>8 DEF OneAccount

LEMMA NextInvites ==
    ASSUME AccessInv, [Next]_vars
    PROVE  InvitesOK'
<1>0. LogOK /\ LogOK' /\ LogMoves /\ InvitesOK
  BY NextLog DEF AccessInv
<1>1. PICK d, f : d = Primary /\ f = Primary'
  OBVIOUS
<1>2. d \in DB /\ OneAccount(d)
  BY <1>0, <1>1, ViewsSound DEF OneAccount, InvitesOK, OneAccountPerInvite
<1>3. f \in DB
  <2>1. log' \in Seq(DB) /\ log' # <<>>
    BY <1>0 DEF LogOK
  <2>2. Len(log') \in 1..Len(log')
    BY <2>1
  <2>. QED BY <1>1, <2>1, <2>2 DEF Primary, Last
<1>4. OneAccount(f) /\ Len(d.invites) <= Len(f.invites)
  <2>1. CASE SameAccounts
    <3>1. Len(d.invites) \in Nat
      BY <1>2, Tables
    <3>. QED BY <1>1, <1>2, <2>1, <3>1 DEF SameAccounts, OneAccount
  <2>2. ASSUME NEW e \in Emails, Invites(e) PROVE OneAccount(f) /\ Len(d.invites) <= Len(f.invites)
    BY <1>1, <1>2, <1>3, <2>2, NewInvite DEF Invites
  <2>3. ASSUME NEW s \in Slots, AcceptsInvite(slot[s].invite)
        PROVE  OneAccount(f) /\ Len(d.invites) <= Len(f.invites)
    BY <1>1, <1>2, <1>3, <2>3, NewAccount DEF AcceptsInvite
  <2>. QED BY <2>1, <2>2, <2>3, NextLog
<1>5. /\ Len(d.invites) \in Nat /\ Len(f.invites) \in Nat
      /\ DOMAIN d.invites = 1..Len(d.invites) /\ DOMAIN f.invites = 1..Len(f.invites)
  <2>1. d.invites \in Seq(Invite) /\ f.invites \in Seq(Invite)
    BY <1>2, <1>3, Tables
  <2>. QED BY <2>1
<1>6. \A m \in DOMAIN log : log[m] \in DB /\ Len(log[m].invites) <= Len(d.invites)
  BY <1>0, <1>1 DEF LogOK, InvitesOK
<1>7. \A m \in DOMAIN log : Len(log[m].invites) \in Nat
                            /\ DOMAIN log[m].invites = 1..Len(log[m].invites)
  BY <1>6, Tables
<1>8. ASSUME NEW n \in DOMAIN log' PROVE Len(log'[n].invites) <= Len(f.invites)
  <2>1. CASE log'[n] = f
    BY <1>5, <2>1
  <2>2. ASSUME NEW m \in DOMAIN log, log'[n] = log[m] PROVE Len(log'[n].invites) <= Len(f.invites)
    BY <1>4, <1>5, <1>6, <1>7, <2>2
  <2>. QED BY <1>0, <1>1, <2>1, <2>2 DEF LogMoves
<1>9. ASSUME NEW s \in Slots, slot'[s].op = "accept" PROVE slot'[s].invite \in DOMAIN f.invites
  <2>1. slot'[s].invite \in DOMAIN d.invites
    <3>1. CASE slot'[s] = slot[s]
      BY <1>0, <1>1, <1>9, <3>1 DEF InvitesOK
    <3>2. ASSUME NEW v \in Views, slot'[s].invite \in DOMAIN v.invites
          PROVE  slot'[s].invite \in DOMAIN d.invites
      <4>1. PICK m \in DOMAIN log : v = log[m]
        BY <1>0 DEF Views, Last, LogOK
      <4>. QED BY <1>5, <1>6, <1>7, <3>2, <4>1
    <3>. QED BY <1>9, <3>1, <3>2, NextSlots
  <2>. QED BY <1>4, <1>5, <2>1
<1>10. /\ \A e \in DOMAIN Primary'.accounts : Primary'.accounts[e] <= Len(Primary'.invites)
       /\ OneAccountPerInvite'
  BY <1>1, <1>4 DEF OneAccount, OneAccountPerInvite
<1>. QED BY <1>1, <1>8, <1>9, <1>10 DEF InvitesOK

(***************************************************************************)
(* The middleware: bundles, keys and records it relied on stay as they     *)
(* were, and a grant is made from a row and a key as some state has them.  *)
(***************************************************************************)
LEMMA ApiKept ==
    ASSUME ApiOK, Grows, api' = api
    PROVE  ApiOK'
<1>1. PICK a, md, md2, mt, mt2, pub, pub2 :
        /\ a = api /\ a = api' /\ md = made /\ md2 = made' /\ mt = minted /\ mt2 = minted'
        /\ pub = dns /\ pub2 = dns'
  OBVIOUS
<1>2. /\ Grown(md, md2) /\ Grown(mt, mt2) /\ pub \subseteq pub2
  BY <1>1 DEF Grows
<1>3. TokenOK(a.tok, mt) => TokenOK(a.tok, mt2)
  BY <1>2 DEF TokenOK, Grown
<1>4. a.pc \in {"token", "granted"} => TokenOK(a.tok, mt) /\ TokenOK(a.tok, mt2)
  BY <1>1, <1>3 DEF ApiOK
<1>5. a.pc = "granted" =>
        /\ a.id \in Ids /\ BundleOf(a.id) \in DOMAIN md
        /\ md2[BundleOf(a.id)] = md[BundleOf(a.id)] /\ BundleOf(a.id) \in DOMAIN md2
  BY <1>1, <1>2 DEF ApiOK, Grown
<1>6. a.pc = "granted" /\ a.tok # NULL => mt2[a.tok.key] = mt[a.tok.key]
  BY <1>2, <1>4 DEF TokenOK, Grown
<1>7. GrantSound'
  <2>1. SUFFICES ASSUME a.pc = "granted"
                 PROVE  LET b == md2[BundleOf(a.id)] IN
                        /\ a.feed \in ToSet(Catalog)
                        /\ \E n \in DOMAIN b.allowed : normalizeFeedCode(b.allowed[n]) = a.feed
                        /\ a.tok # NULL =>
                             /\ a.id \in pub2
                             /\ mt2[a.tok.key].user = b.user
                             /\ mt2[a.tok.key].dom \in {NULL, a.id}
    BY <1>1 DEF GrantSound
  <2>2. LET b == md[BundleOf(a.id)] IN
        /\ a.feed \in ToSet(Catalog)
        /\ \E n \in DOMAIN b.allowed : normalizeFeedCode(b.allowed[n]) = a.feed
        /\ a.tok # NULL =>
             /\ a.id \in pub
             /\ mt[a.tok.key].user = b.user
             /\ mt[a.tok.key].dom \in {NULL, a.id}
    BY <1>1, <2>1 DEF ApiOK, GrantSound
  <2>. QED BY <1>2, <1>5, <1>6, <2>1, <2>2
<1>8. api'.pc \in {"idle", "token", "granted"}
  BY DEF ApiOK
<1>. QED BY <1>1, <1>4, <1>5, <1>7, <1>8 DEF ApiOK

LEMMA FindStep ==
    ASSUME LogOK, NEW k, FindByPlaintext(k)
    PROVE  ApiOK'
<1>1. PICK v \in Views : \E t \in v.toks : api' = [NoApi EXCEPT !.pc = "token", !.tok = t]
  BY DEF FindByPlaintext
<1>2. PICK t \in v.toks : api' = [NoApi EXCEPT !.pc = "token", !.tok = t]
  BY <1>1
<1>3. v \in DB /\ Sound(v, made, minted, dns) /\ minted' = minted
  BY ViewsSound DEF FindByPlaintext
<1>4. t \in Token /\ t.key \in DOMAIN minted /\ minted[t.key] = [user |-> t.user, dom |-> t.dom]
  BY <1>3, Tables DEF Sound, KeysAsMinted
<1>5. api'.pc = "token" /\ api'.tok = t
  BY <1>2 DEF NoApi
<1>. QED BY <1>3, <1>4, <1>5 DEF ApiOK, TokenOK, GrantSound

LEMMA GrantStep ==
    ASSUME LogOK, HistoryOK, NEW tok, TokenOK(tok, minted), NEW id \in Ids, NEW asked,
           Grant(tok, id, asked)
    PROVE  ApiOK'
<1>1. PICK v \in Views :
        /\ Admits(v, tok, id)
        /\ ResolveFeedCode(v.rows[id].allowed, asked) # NULL
        /\ api' = [pc |-> "granted", tok |-> tok, id |-> id,
                   feed |-> ResolveFeedCode(v.rows[id].allowed, asked)]
  BY DEF Grant
<1>2. PICK row, feed : row = v.rows[id] /\ feed = ResolveFeedCode(row.allowed, asked)
  OBVIOUS
<1>3. v \in DB /\ Sound(v, made, minted, dns) /\ UNCHANGED <<made, minted, dns>>
  BY ViewsSound DEF Grant
<1>4. id \in DOMAIN v.rows /\ row \in Row
  BY <1>1, <1>2, <1>3, Tables DEF Admits
<1>5. row.allowed \in Offers
  BY <1>4 DEF Row
<1>6. feed \in ToSet(Catalog) /\ \E n \in DOMAIN row.allowed : normalizeFeedCode(row.allowed[n]) = feed
  BY <1>1, <1>2, <1>5, FeedTicked
<1>7. PICK b : b = made[BundleOf(id)]
  OBVIOUS
<1>8. BundleOf(id) \in DOMAIN made /\ row.user = b.user /\ row.allowed = b.allowed
      /\ (row.verified => id \in dns)
  BY <1>2, <1>3, <1>4, <1>7 DEF Sound, RowsAsMade
<1>9. tok # NULL => id \in dns /\ minted[tok.key].user = b.user /\ minted[tok.key].dom \in {NULL, id}
  <2>1. SUFFICES ASSUME tok # NULL
                 PROVE  id \in dns /\ minted[tok.key].user = b.user
                        /\ minted[tok.key].dom \in {NULL, id}
    OBVIOUS
  <2>2. minted[tok.key].user = tok.user /\ minted[tok.key].dom = tok.dom
    BY <2>1 DEF TokenOK
  <2>3. row.user = tok.user /\ tok.dom \in {NULL, id} /\ row.verified
    BY <1>1, <1>2, <2>1 DEF Admits
  <2>. QED BY <1>8, <2>2, <2>3
<1>10. api'.pc = "granted" /\ api'.tok = tok /\ api'.id = id /\ api'.feed = feed
  BY <1>1, <1>2
<1>11. GrantSound'
  BY <1>3, <1>6, <1>7, <1>8, <1>9, <1>10 DEF GrantSound
<1>. QED BY <1>3, <1>8, <1>10, <1>11 DEF ApiOK

LEMMA NextApi ==
    ASSUME AccessInv, [Next]_vars
    PROVE  ApiOK'
<1>0. LogOK /\ HistoryOK /\ ApiOK /\ Grows
  BY NextLog DEF AccessInv
<1>1. CASE Dashboard
  <2>1. api' = api
    BY <1>1 DEF Dashboard, Writes, CreateInvitation, Lapse, FindOpenByHash,
         Accept, LookupTXT, VerifyTXT, RegenerateForDomain, RegenerateFails, ProvisionBundle,
         IssueToken, ReadRow, DeleteDomainBundle, Revoke, Publish
  <2>. QED BY <1>0, <2>1, ApiKept
<1>2. CASE Replicate \/ UNCHANGED vars
  BY <1>0, <1>2, ApiKept DEF Replicate, vars
<1>3. ASSUME NEW k, FindByPlaintext(k) PROVE ApiOK'
  BY <1>0, <1>3, FindStep
<1>4. ASSUME NEW id \in Ids, NEW a, handleToken(id, a) PROVE ApiOK'
  BY <1>0, <1>4, GrantStep DEF handleToken, ApiOK
<1>5. ASSUME NEW id \in Ids, NEW a, handleDomain(id, a) PROVE ApiOK'
  <2>1. TokenOK(NULL, minted)
    BY DEF TokenOK
  <2>. QED BY <1>0, <1>5, <2>1, GrantStep DEF handleDomain
<1>6. CASE Respond
  BY <1>6 DEF Respond, NoApi, ApiOK, GrantSound
<1>7. CASE Middleware
  BY <1>3, <1>4, <1>5, <1>6, <1>7 DEF Middleware
<1>. QED BY <1>1, <1>2, <1>7 DEF Next

LEMMA InitAccess == Init => AccessInv
<1>. SUFFICES ASSUME Init PROVE AccessInv
  OBVIOUS
<1>1. PICK d : d = [accounts |-> [e \in {Admin} |-> 0], invites |-> <<>>, rows |-> <<>>, toks |-> {}]
  OBVIOUS
<1>2. log = << d >>
  BY <1>1 DEF Init
<1>3. /\ d.accounts = [e \in {Admin} |-> 0] /\ d.invites = <<>> /\ d.rows = <<>> /\ d.toks = {}
  BY <1>1
<1>4. d \in DB
  <2>1. d.accounts \in Accounts
    <3>1. d.accounts \in [{Admin} -> Nat] /\ {Admin} \in SUBSET People
      BY <1>3 DEF People
    <3>. QED BY <3>1 DEF Accounts
  <2>2. d.rows \in Rows
    <3>1. d.rows \in [{} -> Row]
      BY <1>3
    <3>. QED BY <3>1 DEF Rows
  <2>3. d.invites \in Seq(Invite)
    BY <1>3
  <2>. QED BY <1>1, <1>3, <2>1, <2>2, <2>3 DEF DB
<1>5. log \in Seq(DB) /\ log # <<>> /\ DOMAIN log = {1} /\ log[1] = d /\ Primary = d
  BY <1>2, <1>4 DEF Primary, Last
<1>6. DOMAIN d.rows = {} /\ DOMAIN d.invites = {} /\ Len(d.invites) = 0
  BY <1>3
<1>7. Sound(d, made, minted, dns)
  BY <1>3, <1>6 DEF Sound, RowsWhole, HostsOnce, RowsAsMade, KeysOwned, KeysAsMinted
<1>8. LogOK
  BY <1>5, <1>7 DEF LogOK
<1>9. HistoryOK
  BY AccessAssumption DEF Init, HistoryOK
<1>10. SlotOK /\ \A s \in Slots : slot[s].op = "idle"
  BY DEF Init, SlotOK, Op, Idle
<1>11. CountsOK
  BY AccessAssumption DEF Init, CountsOK
<1>12. InvitesOK
  BY <1>3, <1>5, <1>6, <1>10 DEF InvitesOK, OneAccountPerInvite
<1>13. ApiOK
  BY DEF Init, NoApi, ApiOK, GrantSound
<1>. QED BY <1>8, <1>9, <1>10, <1>11, <1>12, <1>13 DEF AccessInv

(***************************************************************************)
(* TypeOK reads off the inductive invariant.                               *)
(***************************************************************************)
LEMMA AccessTypes == AccessInv => TypeOK
<1>. SUFFICES ASSUME AccessInv PROVE TypeOK
  OBVIOUS
<1>1. ASSUME NEW n \in DOMAIN log
      PROVE  /\ DOMAIN log[n].rows \subseteq Ids
             /\ \A id \in DOMAIN log[n].rows :
                  /\ log[n].rows[id] \in Row
                  /\ (IF IsStaging(id) THEN id - 1 ELSE id + 1) \in DOMAIN log[n].rows
             /\ \A i, j \in DOMAIN log[n].rows :
                  log[n].rows[i].host = log[n].rows[j].host => BundleOf(i) = BundleOf(j)
             /\ log[n].toks \subseteq Token
             /\ \A t \in log[n].toks : t.dom # NULL => OwnRow(log[n], t.user, t.dom)
             /\ \A t, w \in log[n].toks : t.dom = w.dom /\ t.dom # NULL => t = w
  <2>1. PICK d : d = log[n]
    OBVIOUS
  <2>2. d \in DB /\ Sound(d, made, minted, dns)
    BY <2>1 DEF AccessInv, LogOK
  <2>3. d.rows \in [DOMAIN d.rows -> Row] /\ DOMAIN d.rows \in SUBSET Ids /\ d.toks \subseteq Token
    BY <2>2, Tables
  <2>4. \A id \in DOMAIN d.rows : d.rows[id] \in Row
    BY <2>3
  <2>5. /\ \A id \in DOMAIN d.rows : (IF IsStaging(id) THEN id - 1 ELSE id + 1) \in DOMAIN d.rows
        /\ \A i, j \in DOMAIN d.rows : d.rows[i].host = d.rows[j].host => BundleOf(i) = BundleOf(j)
    BY <2>2 DEF Sound, RowsWhole, HostsOnce, Twin
  <2>6. /\ \A t \in d.toks : t.dom # NULL => OwnRow(d, t.user, t.dom)
        /\ \A t, w \in d.toks : t.dom = w.dom /\ t.dom # NULL => t = w
    BY <2>2 DEF Sound, KeysOwned, OwnRow
  <2>. QED BY <2>1, <2>3, <2>4, <2>5, <2>6
<1>2. /\ writes \in 0..MaxWrites /\ lapsed \subseteq 1..MaxInvites
      /\ dns \subseteq Ids /\ retired \subseteq Keys /\ slot \in [Slots -> Op]
      /\ api.pc \in {"idle", "token", "granted"}
  BY DEF AccessInv, CountsOK, HistoryOK, SlotOK, ApiOK
<1>. QED BY <1>1, <1>2 DEF TypeOK

LEMMA AccessAlways == Spec => []AccessInv
<1>1. AccessInv /\ [Next]_vars => AccessInv'
  BY NextLog, NextSlots, NextCounts, NextInvites, NextApi DEF AccessInv
<1>. QED BY <1>1, InitAccess, PTL DEF Spec

-----------------------------------------------------------------------------
(* Theorems *)

(***************************************************************************)
(* In every state the primary or a replica ever shows, bundles are whole,  *)
(* a host is registered once, a row has at most one key and that key       *)
(* belongs to the row's owner (ProvisionBundle, RegenerateForDomain,       *)
(* DeleteDomainBundle and the schema's constraints).                       *)
(***************************************************************************)
THEOREM TablesStayWhole == Spec => []TypeOK
BY AccessAlways, AccessTypes, PTL

(***************************************************************************)
(* A granted request was entitled to what it got, although the middleware  *)
(* reads the key and the row from different, lagging databases: the feed   *)
(* is configured and was ticked; and a key, if there was one, was minted   *)
(* by the row's owner for this row or the whole account, and this          *)
(* registration's own TXT record has been published.                       *)
(***************************************************************************)
THEOREM GrantsAreEntitled == Spec => []GrantSound
<1>1. AccessInv => GrantSound
  BY DEF AccessInv, ApiOK
<1>. QED BY <1>1, AccessAlways, PTL

(***************************************************************************)
(* However many invitations an address has and however many requests       *)
(* accept them at once after stale look-ups, an invitation is marked       *)
(* accepted exactly when the account of its address was made by it.        *)
(***************************************************************************)
THEOREM InvitesMakeOneAccount == Spec => []OneAccountPerInvite
<1>1. AccessInv => OneAccountPerInvite
  BY DEF AccessInv, InvitesOK
<1>. QED BY <1>1, AccessAlways, PTL
=============================================================================
