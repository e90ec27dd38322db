------------------------------- MODULE Boards -------------------------------
(***************************************************************************)
(* The price of a security on the boards: the directory and its period     *)
(* returns (services/directory.py), a watchlist (services/watchlist.py),   *)
(* the overview and the security's page (services/market.py).  Each joins  *)
(* the newest capture with the newest row in a way of its own.  The rows   *)
(* and the jobs that write them are those of Quotes; a figure is known by  *)
(* the session it is of.                                                   *)
(***************************************************************************)
EXTENDS Quotes

CONSTANTS
    Spans,       \* _ref_dates: the days back of each period column
    NewYear,     \* the first day of a year
    NoPrice

ASSUME SpansAssumption == \A s \in DOMAIN Spans : Spans[s] \in Nat \ {0}

VARIABLE brNewest   \* the newest capture: the session it is of, its change's sign

boardVars == <<qtVars, brNewest>>

BoardsInit == QuotesInit /\ brNewest = NoPrice

\* A page may leave a change out.
Moves == {-1, 0, 1, NoPrice}

\* insert_snapshots: captures are kept, and the newest one is read.
Capture ==
    /\ SnapshotOnce
    /\ IF qtKind = "equity" THEN \E m \in Moves : brNewest' = [of |-> PageShows, move |-> m]
       ELSE UNCHANGED brNewest

\* A request's or a backfill's fetch, between two looks at the boards.
PageRead ==
    /\ qtKind = "equity" /\ HistoryPage # {}
    /\ UpsertDailyBars(HistoryPage) /\ <<qtDaily', qtIngested'>> # <<qtDaily, qtIngested>>
    /\ UNCHANGED <<clockVars, qtSnaps, qtIndex, qtCache, loadVars, qtFill, qtAnswer, brNewest>>

TickBoards == Tick /\ UNCHANGED brNewest
BondsPolled == SnapshotBonds /\ UNCHANGED brNewest

BoardsNext == Capture \/ PageRead \/ TickBoards \/ BondsPolled

-----------------------------------------------------------------------------
(* The rows the boards read: `prices`, daily_bars and index_levels.        *)

Rows ==
    IF qtKind = "index" THEN {[date |-> d, of |-> qtIndex[d]] : d \in {e \in Days : qtIndex[e] # -1}}
    ELSE {Bar(d) : d \in qtDaily}

\* Mutant of OnOrBefore: the nearest row after the date.
OnOrAfter(d) ==
    LET S == {r \in Rows : r.date >= d}
    IN  IF S = {} THEN NoPrice ELSE CHOOSE r \in S : \A q \in S : r.date =< q.date

\* The newest row up to a date.
OnOrBefore(d) ==
    LET S == {r \in Rows : r.date =< d}
    IN  IF S = {} THEN NoPrice ELSE CHOOSE r \in S : \A q \in S : q.date =< r.date
LatestRow == OnOrBefore(LastDay)
Oldest == IF Rows = {} THEN NoPrice ELSE CHOOSE r \in Rows : \A q \in Rows : r.date =< q.date

SessionOf(row) == IF row = NoPrice THEN NoPrice ELSE row.of
ChangeOf(capture) == IF capture = NoPrice \/ capture.move = NoPrice THEN NoPrice ELSE capture.of
Coalesce(x, y) == IF x # NoPrice THEN x ELSE y

\* _ref_dates.
RefDate(s) == qtDay - Spans[s]
PeriodBase(s) == OnOrBefore(RefDate(s))

\* The last row of the year before; no year before the first is followed.
PriorYearEnd == IF qtDay >= NewYear THEN OnOrBefore(NewYear - 1) ELSE NoPrice

-----------------------------------------------------------------------------
(* The boards.  A change is absent, or of a session.                       *)

\* Mutant of DirectoryLast: a stored close before a capture.
RowsFirst == Coalesce(SessionOf(LatestRow), SessionOf(brNewest))

DirectoryLast == Coalesce(SessionOf(brNewest), SessionOf(LatestRow))

\* The capture's own change, or the newest index level's.
DirectoryChange == Coalesce(ChangeOf(brNewest), IF qtKind = "index" THEN SessionOf(LatestRow) ELSE NoPrice)

\* list_directory: each period's base for the return of the newest row.
Directory ==
    [last |-> DirectoryLast,
     change |-> DirectoryChange,
     base |-> [s \in DOMAIN Spans |-> PeriodBase(s)],
     ytd |-> PriorYearEnd, all |-> Oldest]

\* Mutant of WatchlistRow: a bond is read like an equity (F-38).
CapturesOnly == [last |-> SessionOf(brNewest), change |-> ChangeOf(brNewest)]

\* get_with_quotes: a bond has the close of its newest row and no change.
WatchlistRow ==
    IF qtKind = "bond" THEN [last |-> SessionOf(LatestRow), change |-> NoPrice]
    ELSE [last |-> SessionOf(brNewest), change |-> ChangeOf(brNewest)]

\* _latest_snapshot_join_sql: the newest capture of an equity; indices_tiles.
LatestSnapshot == IF qtKind = "equity" THEN brNewest ELSE NoPrice
Tile ==
    IF qtKind = "index" THEN [last |-> SessionOf(LatestRow), change |-> SessionOf(LatestRow)]
    ELSE [last |-> NoPrice, change |-> NoPrice]

\* get_security, and the overview's rows for the same capture.
SecurityPage == [last |-> SessionOf(LatestSnapshot), change |-> ChangeOf(LatestSnapshot)]
Moved(S) == LatestSnapshot # NoPrice /\ LatestSnapshot.move \in S
Gainers == Moved({1})
Losers == Moved({-1})
TopByTurnover == LatestSnapshot # NoPrice

\* overview: what the home page has of this security.
Overview ==
    [tile |-> Tile, listed |-> (IF Gainers THEN {"gainers"} ELSE {}) \cup (IF Losers THEN {"losers"} ELSE {})
                               \cup (IF TopByTurnover THEN {"turnover"} ELSE {})]

-----------------------------------------------------------------------------
Priced == {b \in {[last |-> DirectoryLast, change |-> DirectoryChange], WatchlistRow, SecurityPage, Overview.tile} :
            b.last # NoPrice}
BoardsAgree ==
    /\ \A a, b \in Priced : a.last = b.last /\ (a.change # NoPrice => a.change = a.last)
    /\ Overview.listed # {} => SecurityPage \in Priced /\ WatchlistRow \in Priced
    /\ ~{"gainers", "losers"} \subseteq Overview.listed
    /\ qtKind = "bond" => WatchlistRow.last = DirectoryLast

\* A longer period has the older base, and only if it has one.
WindowsNest ==
    LET directory == Directory
        base == directory.base
    IN  \A s \in DOMAIN Spans : base[s] # NoPrice =>
            /\ base[s].date =< RefDate(s) /\ directory.all.date =< base[s].date
            /\ \A t \in DOMAIN Spans : Spans[t] < Spans[s] =>
                base[t] # NoPrice /\ base[s].date =< base[t].date

NotBack(old, new) == old # NoPrice => new # NoPrice /\ new >= old
BoardsMoveOn ==
    /\ NotBack(DirectoryLast, DirectoryLast') /\ NotBack(WatchlistRow.last, WatchlistRow.last')
    /\ NotBack(SecurityPage.last, SecurityPage.last')
    /\ \A s \in DOMAIN Spans : NotBack(SessionOf(PeriodBase(s)), SessionOf(PeriodBase(s))')

WhatTheyRead == <<qtDay, qtDaily, qtIndex, brNewest>>

\* What a request or a backfill of Quotes stores, PageRead stores too.
BoardStep ==
    WhatTheyRead' # WhatTheyRead /\ <<qtPc, qtFill>>' = <<qtPc, qtFill>>
        => BoardsMoveOn /\ BoardsAgree' /\ WindowsNest'

\* A chart has one bar per day, newest first: today's candle made from the
\* captures, or today's row, which a fetch after the close brings, never both.
\* On a day the exchange is open no bar carries another day's figures: captures
\* made before the opening, which show yesterday's session, stay out.  However
\* requests and backfills interleave, the newest row a chart lacks was written
\* less than two thirds of a day ago: a slow request cannot leave its old rows
\* in the cache for longer than the TTL.  And an index level is stored under
\* the session it is of, whenever it is polled (F-11), except on a holiday.
\* Every board that has a price for a security has the price of one session,
\* beside a change of that session; a bond's row on a watchlist has the price
\* the directory has (F-38); no board goes back to an older session when a
\* capture, a fetch or a poll arrives; and the period returns' bases are as old
\* as their names say, the longer ones older.
PricesReadTrue == [][ChartStep /\ BoardStep]_boardVars
=============================================================================
