------------------------------- MODULE Visits -------------------------------
(***************************************************************************)
(* The page counter (services/analytics.py, store/analytics.py, the        *)
(* middleware of apps/web/main.py).  A visitor is counted under a hash of  *)
(* address, agent, day and a salt that belongs to one day; the salt is     *)
(* kept in one row, overwritten when the day rolls, and in a cache of the  *)
(* process, which may be stopped and started again between any two         *)
(* commits.  A hash is modelled by what goes into it.                      *)
(***************************************************************************)
EXTENDS Integers, FiniteSets

CONSTANTS
    Readers, Crawlers,    \* visitors; those that ask like a program
    Paths,
    Retention,            \* days a view is kept
    LastVisitDay, MaxRestarts   \* bounds

ASSUME VisitsAssumption == Readers \cap Crawlers = {} /\ Retention \in Nat \ {0}

Visitors == Readers \cup Crawlers
NoSalt == 0

VARIABLES
    vsDay,
    vsMinted,       \* salts made so far
    vsRow,          \* analytics_salt: the day and the salt
    vsCache,        \* _salt_cache, a day and a salt
    vsViews,        \* pageviews: day, hash, path, is_suspected_bot
    vsOpen,         \* the request whose salt is settled and whose row is not: its visitor and page
    vsCame,         \* history: who was counted, on which day
    vsRestarts

vsVars == <<vsDay, vsMinted, vsRow, vsCache, vsViews, vsOpen, vsCame, vsRestarts>>

Unset == <<0, NoSalt>>
NoRequest == <<>>

VisitsInit ==
    /\ vsDay = 1 /\ vsMinted = 0
    /\ vsRow = Unset /\ vsCache = Unset
    /\ vsViews = {} /\ vsOpen = NoRequest /\ vsCame = {} /\ vsRestarts = 0

\* Mutant of FromRow: the row's salt, whatever its day.
AnyDaySalt(day) == vsRow

\* _salt_for: the cached salt, the row's, or a new one, by the first that is
\* of today.
FromRow(day) == IF vsRow[1] = day THEN vsRow ELSE <<day, vsMinted + 1>>
SaltFor(day) == IF vsCache[1] = day THEN vsCache ELSE FromRow(day)

\* should_record: a page, and not a part of one; the other half of a request
\* that fails it changes nothing.  The salt's row is a commit of its own.
Settle(v, p) ==
    /\ vsOpen = NoRequest
    /\ LET salt == SaltFor(vsDay)
       IN  /\ vsMinted' = IF salt[2] > vsMinted THEN salt[2] ELSE vsMinted
           /\ vsRow' = IF vsCache[1] = vsDay THEN vsRow ELSE salt
           /\ vsCache' = salt
    /\ vsOpen' = <<v, p>>
    /\ UNCHANGED <<vsDay, vsViews, vsCame, vsRestarts>>

\* looks_automated: recorded, and flagged.
LooksAutomated(v) == v \in Crawlers

\* _visitor_hash, and insert_view.
VisitorHash(salt, v, day) == <<salt, v, day>>
Record ==
    /\ vsOpen # NoRequest
    /\ vsViews' = vsViews \cup {[day |-> vsDay, hash |-> VisitorHash(vsCache[2], vsOpen[1], vsDay), path |-> vsOpen[2],
                                 suspected |-> LooksAutomated(vsOpen[1])]}
    /\ vsCame' = vsCame \cup {<<vsDay, vsOpen[1], vsOpen[2]>>}
    /\ vsOpen' = NoRequest
    /\ UNCHANGED <<vsDay, vsMinted, vsRow, vsCache, vsRestarts>>

\* The process stops, wherever it is, and is started again.
Restart ==
    /\ vsRestarts < MaxRestarts
    /\ vsRestarts' = vsRestarts + 1 /\ vsCache' = Unset /\ vsOpen' = NoRequest
    /\ UNCHANGED <<vsDay, vsMinted, vsRow, vsViews, vsCame>>

\* A request keeps the day it began on; it is over before the next one ends.
Midnight ==
    /\ vsDay < LastVisitDay /\ vsOpen = NoRequest
    /\ vsDay' = vsDay + 1
    /\ UNCHANGED <<vsMinted, vsRow, vsCache, vsViews, vsOpen, vsCame, vsRestarts>>

\* prune, every night.
Prune ==
    /\ \E w \in vsViews : w.day < vsDay - Retention
    /\ vsViews' = {w \in vsViews : w.day >= vsDay - Retention}
    /\ UNCHANGED <<vsDay, vsMinted, vsRow, vsCache, vsOpen, vsCame, vsRestarts>>

VisitsNext ==
    \/ \E v \in Visitors, p \in Paths : Settle(v, p)
    \/ Record
    \/ Restart
    \/ Midnight
    \/ Prune

VisitsSpec == VisitsInit /\ [][VisitsNext]_vsVars

-----------------------------------------------------------------------------
(* summary: what the page about visitors shows for the days since one.     *)

Human(since) == {w \in vsViews : w.day >= since /\ ~w.suspected}
Suspected(since) == {w \in vsViews : w.day >= since /\ w.suspected}

\* total_visitors, daily_totals, visitors_on_path and suspected_totals
HashesOf(W) == {w.hash : w \in W}
TotalVisitors(since) == Cardinality(HashesOf(Human(since)))
DailyVisitors(day) == Cardinality(HashesOf({w \in Human(day) : w.day = day}))
VisitorsOnPath(since, p) == Cardinality(HashesOf({w \in Human(since) : w.path = p}))
SuspectedVisitors(since) == Cardinality(HashesOf(Suspected(since)))

-----------------------------------------------------------------------------
CountedOnceADay ==
    \A since \in vsDay - Retention + 1..vsDay :
        LET came(V, P) == {<<c[1], c[2]>> : c \in {d \in vsCame : d[1] >= since /\ d[2] \in V /\ d[3] \in P}}
        IN  /\ TotalVisitors(since) = Cardinality(came(Readers, Paths))
            /\ DailyVisitors(since) = Cardinality({c \in came(Readers, Paths) : c[1] = since})
            /\ \A p \in Paths : VisitorsOnPath(since, p) = Cardinality(came(Readers, {p}))
            /\ SuspectedVisitors(since) = Cardinality(came(Crawlers, Paths))

DaysStayApart ==
    /\ \A w, x \in vsViews : w.day # x.day => w.hash[1] # x.hash[1]
    /\ (\E w \in vsViews : w.day = vsDay) => \A w \in vsViews : w.day < vsDay => w.hash[1] # vsRow[2]

\* Every reader is counted once a day, however often the process is started
\* again, on the whole site and on each page of the funnel; what looks like a
\* program is left out of those figures and is in the suspected one.  No salt is
\* used on two days, and the one of an earlier day is gone from the row with the
\* first view of the next: nothing kept links two days' visits.
VisitorsCountedRight == CountedOnceADay /\ DaysStayApart
=============================================================================
