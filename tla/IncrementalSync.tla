-------------------------- MODULE IncrementalSync ---------------------------
(***************************************************************************)
(* What the incremental cycle of src/internal/service/sync selects and     *)
(* mirrors: OData pages of the listings changed since the cursor's         *)
(* last_modification_timestamp, taken while upstream keeps changing.       *)
(* Which job runs when is the subject of module SyncPipeline; here one     *)
(* cycle runs after another and only FetchIncrementalPage, the persisting  *)
(* of its page and the cursor patch of finalize are kept.                  *)
(*                                                                         *)
(* A listing is represented by the time of its last change, which tells    *)
(* its versions apart; time advances PerSecond units a second.             *)
(***************************************************************************)
EXTENDS Naturals, FiniteSets, FiniteSetsExt

CONSTANTS
    Rows,       \* the listings (Active or Pending)
    Top,        \* SyncIncrementalTop
    PerSecond,  \* units of upstream's clock per second
    MaxTime,    \* bound: upstream's clock
    NULL

ASSUME IncrementalAssumption ==
    /\ {Top, PerSecond} \subseteq Nat \ {0} /\ MaxTime \in Nat
    /\ IsFiniteSet(Rows) /\ NULL \notin Nat

VARIABLES
    windowed,   \* a Spark dataset, with an upper bound to each cycle?
    clock,
    up,         \* upstream: listing -> time of its last change (0: never)
    mir,        \* mirror: listing -> the version it holds
    cursor,     \* last_modification_timestamp
    window,     \* incremental_window_end, or NULL
    skip,       \* the pending fetch: its IncrementalSkip, or NULL
    page        \* the staged page [rows, more, end], or NULL

vars == <<windowed, clock, up, mir, cursor, window, skip, page>>

Time == 0..MaxTime

(***************************************************************************)
(* Timestamps in filters and in finalize's arguments are formatted to the  *)
(* second ("2006-01-02T15:04:05Z", RFC3339).                               *)
(***************************************************************************)
Seconds(t) == t - (t % PerSecond)

TypeOK ==
    /\ windowed \in BOOLEAN /\ clock \in Time
    /\ up \in [Rows -> Time] /\ mir \in [Rows -> Time]
    /\ cursor \in {Seconds(t) : t \in Time}
    /\ window \in Time \cup {NULL}
    /\ skip = NULL \/ skip \in Nat
    /\ page = NULL \/ page \in [rows : SUBSET (Rows \X Time), more : BOOLEAN,
                                end : Time \cup {NULL}]

Init ==
    /\ windowed \in BOOLEAN
    /\ clock = 0
    /\ up = [r \in Rows |-> 0] /\ mir = [r \in Rows |-> 0]
    /\ cursor = 0 /\ window = NULL /\ skip = NULL /\ page = NULL

(***************************************************************************)
(* Upstream changes some listings at one instant.                          *)
(***************************************************************************)
Touch(S) ==
    /\ clock < MaxTime
    /\ clock' = clock + 1
    /\ up' = [r \in Rows |-> IF r \in S THEN clock + 1 ELSE up[r]]
    /\ UNCHANGED <<windowed, mir, cursor, window, skip, page>>

(***************************************************************************)
(* A cycle begins: a fetch without arguments.                              *)
(***************************************************************************)
Poll ==
    /\ skip = NULL /\ page = NULL
    /\ skip' = 0
    /\ UNCHANGED <<windowed, clock, up, mir, cursor, window, page>>

(***************************************************************************)
(* $filter of FetchIncrementalPage.  Spark bounds a cycle from above by    *)
(* the time of its first request.                                          *)
(***************************************************************************)
WindowEnd == IF ~windowed THEN NULL ELSE IF window # NULL THEN window ELSE clock

\* Mutant: the filter compares whole seconds.
MutantSelected ==
    {r \in Rows : /\ Seconds(up[r]) > cursor
                  /\ windowed => up[r] < Seconds(WindowEnd)}

Selected ==
    {r \in Rows : /\ up[r] > cursor
                  /\ windowed => up[r] < Seconds(WindowEnd)}

(***************************************************************************)
(* $orderby=... asc, $skip, $top: P is the page after the skipped rows Q,  *)
(* in some order of the selected rows by time.                             *)
(***************************************************************************)
IsPage(S, Q, P) ==
    /\ Q \subseteq S /\ P \subseteq S \ Q
    /\ Cardinality(Q) = Min({skip, Cardinality(S)})
    /\ Cardinality(P) = Min({Top, Cardinality(S \ Q)})
    /\ \A q \in Q, r \in S \ Q : up[q] <= up[r]
    /\ \A p \in P, r \in S \ (Q \cup P) : up[p] <= up[r]

(***************************************************************************)
(* FetchPage in incremental mode.  An empty page ends the cycle; another   *)
(* one is staged, and is full if it has $top rows.                         *)
(***************************************************************************)
Fetch ==
    /\ skip # NULL /\ page = NULL
    /\ \E Q \in SUBSET Selected : \E P \in SUBSET Selected :
        /\ IsPage(Selected, Q, P)
        /\ \/ /\ P = {}
              /\ skip' = NULL /\ window' = NULL
              /\ UNCHANGED page
           \/ /\ P # {}
              /\ page' = [rows |-> {<<p, up[p]>> : p \in P}, more |-> Cardinality(P) >= Top,
                          end |-> IF window = NULL THEN WindowEnd ELSE NULL]
              /\ UNCHANGED <<skip, window>>
    /\ UNCHANGED <<windowed, clock, up, mir, cursor>>

(***************************************************************************)
(* PersistChunk and PersistFinalize for the page: the rows are upserted,   *)
(* the cursor advances to the newest of them, and a full page is followed  *)
(* by a fetch of the next one, $top further on.                            *)
(***************************************************************************)
Newest == Max({x[2] : x \in page.rows})

\* Mutant: the cursor keeps fractions of a second.
MutantFinalizeExact ==
    /\ page # NULL
    /\ mir' = [r \in Rows |-> IF \E x \in page.rows : x[1] = r
                              THEN (CHOOSE x \in page.rows : x[1] = r)[2] ELSE mir[r]]
    /\ cursor' = Max({cursor, Newest})
    /\ skip' = IF page.more THEN skip + Top ELSE NULL
    /\ window' = IF ~page.more THEN NULL
                 ELSE IF page.end # NULL THEN Seconds(page.end) ELSE window
    /\ page' = NULL
    /\ UNCHANGED <<windowed, clock, up>>

\* Mutant: the cursor advances to the time of the finalize.
MutantFinalizeNow ==
    /\ page # NULL
    /\ mir' = [r \in Rows |-> IF \E x \in page.rows : x[1] = r
                              THEN (CHOOSE x \in page.rows : x[1] = r)[2] ELSE mir[r]]
    /\ cursor' = Max({cursor, Seconds(clock)})
    /\ skip' = IF page.more THEN skip + Top ELSE NULL
    /\ window' = IF ~page.more THEN NULL
                 ELSE IF page.end # NULL THEN Seconds(page.end) ELSE window
    /\ page' = NULL
    /\ UNCHANGED <<windowed, clock, up>>

Finalize ==
    /\ page # NULL
    /\ mir' = [r \in Rows |-> IF \E x \in page.rows : x[1] = r
                              THEN (CHOOSE x \in page.rows : x[1] = r)[2] ELSE mir[r]]
    /\ cursor' = Max({cursor, Seconds(Newest)})
    /\ skip' = IF page.more THEN skip + Top ELSE NULL
    /\ window' = IF ~page.more THEN NULL
                 ELSE IF page.end # NULL THEN Seconds(page.end) ELSE window
    /\ page' = NULL
    /\ UNCHANGED <<windowed, clock, up>>

Sync == Poll \/ Fetch \/ Finalize

Next == Sync \/ \E S \in SUBSET Rows : Touch(S)

(***************************************************************************)
(* Cycles keep being run (what it takes for that is SyncPipeline's         *)
(* subject).                                                               *)
(***************************************************************************)
Spec == Init /\ [][Next]_vars /\ WF_vars(Sync)

-----------------------------------------------------------------------------
(* Properties *)

(***************************************************************************)
(* "last_modification_timestamp holds the high-water mark" (docs/listings- *)
(* mirror.md): at the end of a cycle every change up to it is in the       *)
(* mirror.  A change that is not in the mirror and not after the cursor    *)
(* will never be asked for again.  Cycles of several pages break this.     *)
(***************************************************************************)
HighWaterMark ==
    skip = NULL => \A r \in Rows : up[r] <= cursor => mir[r] = up[r]

(***************************************************************************)
(* What a request selects fits one page.  Otherwise finalize moves the     *)
(* cursor, and with it the selection, between one $skip and the next.      *)
(***************************************************************************)
FitsOnePage == skip # NULL /\ page = NULL => Cardinality(Selected) <= Top

(***************************************************************************)
(* The cursor is a high-water mark as long as $skip never passes over a    *)
(* row, whatever changes upstream between the requests of a cycle and      *)
(* within the second the cursor is truncated to.                           *)
(***************************************************************************)
OnePageHighWaterMark == []FitsOnePage => []HighWaterMark

(***************************************************************************)
(* Then, once upstream is quiet, the mirror gets equal to it (but for the  *)
(* changes of the current second of a windowed feed).                      *)
(***************************************************************************)
OnePageConverges ==
    []FitsOnePage =>
        <>[](\A r \in Rows : mir[r] = up[r] \/ (windowed /\ up[r] >= Seconds(clock)))
=============================================================================
