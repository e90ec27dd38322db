------------------------------ MODULE Issuers ------------------------------
(***************************************************************************)
(* What the terminal knows of its issuers beside their filings: the rows   *)
(* of `securities` (store/securities.py), the weekly refresh of their      *)
(* share counts (services/company_facts.py), the enrichment that fills in  *)
(* their sectors (services/enrichment.py), and the Peers tab with its      *)
(* cache (services/company.py).  The two sites the pages come from answer, *)
(* answer with gaps, or do not answer.                                     *)
(***************************************************************************)
EXTENDS Listings, SequencesExt

CONSTANTS
    Equities,        \* tickers
    Sector,          \* Sector[e]: the sector the sites list the issuer under
    Week, MaxTime,   \* seven days and the time followed, in fetches
    Ttl,             \* of the cached peers
    Blank

Facts == {"shares", "cap"}     \* and the float, that goes as they do
Passes == {"weekly", "manual"}
Security == [sector : {Sector[e] : e \in Equities} \cup {Blank}, facts : SUBSET Facts, stamp : Int \cup {Blank}]

\* A pass over all equities takes less than a week.
ASSUME IssuersAssumption ==
    /\ Equities \subseteq Int /\ IsFiniteSet(Equities)
    /\ {Week, MaxTime, Ttl} \subseteq Nat /\ Cardinality(Equities) < Week
    /\ Blank \notin Int \cup Security /\ \A e \in Equities : Sector[e] # Blank

VARIABLES
    isNow,
    isRows,       \* securities: per equity its sector, the facts known and when they were stamped
    isDue,        \* the next weekly run
    isQueue,      \* the equities each refresh under way still has to ask for
    isEnrich,     \* those the enrichment still has to
    isAsked,      \* history: when the site was last asked for an equity's facts
    isPeers,      \* _peers_cache: per equity, when and which rows
    isView        \* history: the peers table last shown, and the rows its statistics are of

isVars == <<isNow, isRows, isDue, isQueue, isEnrich, isAsked, isPeers, isView>>

Known == {e \in Equities : isRows[e] # Blank}
Age(e) == isNow - isRows[e].stamp

IssuersInit ==
    /\ isNow = 0 /\ isDue \in {0, Week}
    /\ isRows = [e \in Equities |-> Blank]
    /\ isQueue = [r \in Passes |-> <<>>] /\ isEnrich = <<>>
    /\ isAsked = [e \in Equities |-> 0]
    /\ isPeers = [e \in Equities |-> [at |-> Blank, rows |-> <<>>]]
    /\ isView = [of |-> Blank, rows |-> <<>>, samples |-> {}]

\* store/securities.py upsert: the quotation page knows no sector, and what it
\* leaves out stays.
Upsert(e) == IF isRows[e] = Blank THEN [sector |-> Blank, facts |-> {}, stamp |-> Blank] ELSE isRows[e]
MeetEquity(e) ==
    /\ isRows' = [isRows EXCEPT ![e] = Upsert(e)]
    /\ isAsked' = IF e \in Known THEN isAsked ELSE [isAsked EXCEPT ![e] = isNow]
    /\ UNCHANGED <<isNow, isDue, isQueue, isEnrich, isPeers, isView>>

\* The scheduler starts the weekly run on time, also while one started by hand
\* goes on.
TimePasses == isNow < isDue /\ isNow < MaxTime /\ isNow' = isNow + 1
Wait ==
    /\ \A r \in Passes : isQueue[r] = <<>>
    /\ TimePasses
    /\ UNCHANGED <<isRows, isDue, isQueue, isEnrich, isAsked, isPeers, isView>>

-----------------------------------------------------------------------------
(* refresh_all                                                             *)

\* Mutant of Stale: what was stamped once is never asked again.
NeverStamped == {e \in Known : isRows[e].stamp = Blank}

\* list_stale_company_facts: never stamped, or stamped more than a week ago; there
\* are fewer equities than the 200 rows a pass may list.
Stale == {e \in Known : isRows[e].stamp = Blank \/ Age(e) > Week}

ByTicker == {o \in Equities \X Equities : o[1] < o[2]}

WeeklyRefresh ==
    /\ isQueue["weekly"] = <<>> /\ isNow = isDue
    /\ isQueue' = [isQueue EXCEPT !["weekly"] = Listing(Stale, ByTicker)]
    /\ isDue' = isDue + Week
    /\ UNCHANGED <<isNow, isRows, isEnrich, isAsked, isPeers, isView>>

\* `just company-refresh`, at any time.
ManualRefresh ==
    /\ isQueue["manual"] = <<>> /\ Stale # {}
    /\ isQueue' = [isQueue EXCEPT !["manual"] = Listing(Stale, ByTicker)]
    /\ UNCHANGED <<isNow, isRows, isDue, isEnrich, isAsked, isPeers, isView>>

\* What the company page gives, gaps and all.
FactsPage == SUBSET Facts

\* Mutant of Coalesced: a NULL overwrites what was known.
Replaced(old, given) == given

\* update_company_facts
Coalesced(old, given) == old \cup given
UpdateFacts(e, given) ==
    [isRows[e] EXCEPT !.facts = Coalesced(isRows[e].facts, given), !.stamp = isNow']

\* The equity each pass has come to.
Current == {Head(isQueue[r]) : r \in {p \in Passes : isQueue[p] # <<>>}}

\* Its page: what it gave is stored and stamped, an empty one stamped, a
\* failure passed over.
RefreshNext ==
    /\ Current # {} /\ TimePasses
    /\ isQueue' = [r \in Passes |-> IF isQueue[r] = <<>> THEN <<>> ELSE Tail(isQueue[r])]
    /\ isAsked' = [e \in Equities |-> IF e \in Current THEN isNow' ELSE isAsked[e]]
    /\ \E answered \in SUBSET Current : \E given \in [answered -> FactsPage] :
        isRows' = [e \in Equities |-> IF e \in answered THEN UpdateFacts(e, given[e]) ELSE isRows[e]]
    /\ UNCHANGED <<isDue, isEnrich, isPeers, isView>>

-----------------------------------------------------------------------------
(* enrich_sectors                                                          *)

MissingSector == {e \in Known : isRows[e].sector = Blank}

EnrichStart ==
    /\ isEnrich = <<>> /\ MissingSector # {}
    /\ isEnrich' = Listing(MissingSector, ByTicker)
    /\ UNCHANGED <<isNow, isRows, isDue, isQueue, isAsked, isPeers, isView>>

\* The first site that names a sector, if either does.
SectorFound(e) == {Blank, Sector[e]}
EnrichNext ==
    /\ isEnrich # <<>>
    /\ isEnrich' = Tail(isEnrich)
    /\ \E first, second \in SectorFound(Head(isEnrich)) :
        LET sector == IF first # Blank THEN first ELSE second
        IN  isRows' = IF sector = Blank THEN isRows ELSE [isRows EXCEPT ![Head(isEnrich)].sector = sector]
    /\ UNCHANGED <<isNow, isDue, isQueue, isAsked, isPeers, isView>>

-----------------------------------------------------------------------------
(* The Peers tab.                                                          *)

Fresh(entry) == entry.at # Blank /\ isNow - entry.at < Ttl

\* parse_secteur lists the sector, the issuer too; parse_competitors leaves the
\* issuer out.
SectorPage(e) == {f \in Equities : Sector[f] = Sector[e]}
Competitors(e) == SectorPage(e) \ {e}
\* Mutant of PeersPage: the page as it is.
WholePage(e) == SectorPage(e)
PeersPage(e) == SectorPage(e) \ {e}

\* get_peers: the cached rows, or those of the first site that lists any.
PageRows(S) == [i \in 1..Cardinality(S) |-> [ticker |-> Listing(S, ByTicker)[i], self |-> FALSE]]
FetchPeers(e) ==
    /\ ~Fresh(isPeers[e])
    /\ \E first \in {{}, PeersPage(e)}, second \in {{}, Competitors(e)} :
        isPeers' = [isPeers EXCEPT ![e] =
                       [at |-> isNow, rows |-> PageRows(IF first # {} THEN first ELSE second)]]
    /\ UNCHANGED <<isNow, isRows, isDue, isQueue, isEnrich, isAsked, isView>>

\* _self_row: the issuer's own row, when the table has it.
WithSelf(e, rows) == IF e \in Known THEN Append(rows, [ticker |-> e, self |-> TRUE]) ELSE rows

\* _peer_stats: every row but the issuer's own.
Samples(rows) == {i \in DOMAIN rows : ~rows[i].self}

\* Mutant of CacheAfter: the issuer's own row is appended to the cached list.
CacheShared(e) == WithSelf(e, isPeers[e].rows)

\* get_peers_with_ratios: a copy of the cached rows, and the issuer's own.
CacheAfter(e) == isPeers[e].rows
ViewPeers(e) ==
    /\ Fresh(isPeers[e])
    /\ LET rows == WithSelf(e, isPeers[e].rows)
       IN  isView' = [of |-> e, rows |-> rows, samples |-> Samples(rows)]
    /\ isPeers' = [isPeers EXCEPT ![e].rows = CacheAfter(e)]
    /\ UNCHANGED <<isNow, isRows, isDue, isQueue, isEnrich, isAsked>>

IssuersNext ==
    \/ \E e \in Equities : MeetEquity(e)
    \/ Wait
    \/ WeeklyRefresh
    \/ ManualRefresh
    \/ RefreshNext
    \/ EnrichStart
    \/ EnrichNext
    \/ \E e \in Equities : FetchPeers(e)
    \/ \E e \in Equities : ViewPeers(e)

IssuersSpec == IssuersInit /\ [][IssuersNext]_isVars

-----------------------------------------------------------------------------
KnowledgeGrows ==
    \A e \in Known : /\ e \in Known' /\ isRows[e].facts \subseteq isRows'[e].facts
                     /\ isRows[e].sector # Blank => isRows'[e].sector = isRows[e].sector

\* A pass asks for one equity after another.
PassLength == Cardinality(Equities)
AskedEveryFortnight == \A e \in Known : isNow - isAsked[e] =< 2 * Week + PassLength

PeersReadTrue ==
    /\ \A i, j \in DOMAIN isView.rows : i # j => isView.rows[i].ticker # isView.rows[j].ticker
    /\ isView.samples = {i \in DOMAIN isView.rows : isView.rows[i].ticker # isView.of}

\* A page with gaps never takes away a fact or a sector an earlier one gave,
\* nor do the snapshots that store the issuer again; whatever refreshes are
\* started by hand in between, the weekly run leaves no equity the site was not
\* asked about for two weeks; and the Peers table has the issuer once, among its
\* peers and not among the samples of their statistics, also when the cached
\* rows are shown again.
IssuersReadTrue == [][KnowledgeGrows /\ AskedEveryFortnight' /\ PeersReadTrue']_isVars

=============================================================================
