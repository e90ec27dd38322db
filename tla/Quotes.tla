------------------------------- MODULE Quotes -------------------------------
(***************************************************************************)
(* The price history of a security: snapshots of the quotation page, daily *)
(* bars and index levels in the database (services/quotes.py,              *)
(* store/quotes.py), and the read-through cache in front of them           *)
(* (services/history.py), which several requests of the web server use at  *)
(* once while a backfill rewrites the rows below it.                       *)
(*                                                                         *)
(* Time passes in thirds of a day: before the opening, the session, after  *)
(* the close.  A bar is the day it is dated and the session its figures    *)
(* are really of.                                                          *)
(***************************************************************************)
EXTENDS Integers, FiniteSets, SequencesExt

CONSTANTS
    FirstDay, LastDay,   \* the days followed; day 0 is a Monday
    Holidays,            \* days the exchange is closed beside the weekends
    Window,              \* sessions the history page lists
    Loaders,             \* requests being answered at the same time
    NoEntry

ASSUME DaysAssumption == FirstDay \in Nat /\ LastDay \in Nat /\ Holidays \subseteq Nat /\ Window \in Nat \ {0}

VARIABLES
    qtKind,              \* the security is an equity, an index or a bond
    qtDay, qtSlot,       \* now
    qtSnaps,             \* the parts of today quote_snapshots has a capture of
    qtDaily,             \* the sessions daily_bars has a row for
    qtIngested,          \* when a row was last written, in thirds of a day
    qtIndex,             \* index_levels: per date, the session the level is of
    qtCache,             \* the server's _cache entry
    qtPc, qtAt, qtBars,  \* each request: where it stands, its `now`, the rows it read
    qtFill,              \* the backfill: where it stands
    qtAnswer             \* history: the last answer of this third of the day

qtVars == <<qtKind, qtDay, qtSlot, qtSnaps, qtDaily, qtIngested, qtIndex, qtCache, qtPc, qtAt, qtBars, qtFill, qtAnswer>>
clockVars == <<qtKind, qtDay, qtSlot>>
rowsVars == <<qtSnaps, qtDaily, qtIngested, qtIndex>>
loadVars == <<qtPc, qtAt, qtBars>>

Days == (FirstDay - 3)..LastDay
Now == 3 * qtDay + qtSlot

Weekday(d) == d % 7
\* clock.is_market_holiday and is_market_open
IsHoliday(d) == d \in Holidays
Trading(d) == Weekday(d) < 5 /\ ~IsHoliday(d)

Greatest(S) == CHOOSE d \in S : \A e \in S : e =< d
Bar(d) == [date |-> d, of |-> d]
Descending(S) == SetToSortSeq(S, >)
BarsOf(S) == [i \in DOMAIN Descending(S) |-> Bar(Descending(S)[i])]

\* The quotation page: the session that is open or the last one that was.
PageShows == Greatest({d \in Days : Trading(d) /\ (d < qtDay \/ (d = qtDay /\ qtSlot > 0))})

\* The history page: the last sessions that are over.
Over == {d \in Days : Trading(d) /\ (d < qtDay \/ (d = qtDay /\ qtSlot = 2))}
HistoryPage == {d \in Over : Cardinality({e \in Over : e > d}) < Window}

\* Mutant of LastCompletedSession: the day on the calendar.
CalendarDay == qtDay

\* clock.last_completed_session_date: weekends and mornings belong to the
\* weekday before.
LastCompletedSession ==
    IF Weekday(qtDay) >= 5 THEN qtDay - (Weekday(qtDay) - 4)
    ELSE IF qtSlot = 0 THEN qtDay - (IF Weekday(qtDay) = 0 THEN 3 ELSE 1)
    ELSE qtDay

-----------------------------------------------------------------------------
(* The rows.                                                               *)

\* store/quotes.py: upserts of one row per date, and captures that add up.
InsertSnapshots(slot) == qtSnaps' = qtSnaps \cup {slot}
UpsertDailyBars(dates) == qtDaily' = qtDaily \cup dates /\ qtIngested' = Now
UpsertIndexLevels(date, session) == qtIndex' = [qtIndex EXCEPT ![date] = session]

\* _load_from_db and _load_index_levels, newest first; _newest_ingested_age.
DailyBars == BarsOf(qtDaily)
NewestIngestedAge == Now - qtIngested
IndexBars ==
    LET dates == Descending({d \in Days : qtIndex[d] # -1})
    IN  [i \in DOMAIN dates |-> [date |-> dates[i], of |-> qtIndex[dates[i]]]]

\* Mutant of SinceOpening: the captures before the opening, too.
AllCaptures == qtSnaps

\* _todays_intraday_bar: the captures of today made since 09:00.
SinceOpening == {s \in qtSnaps : s >= 1}
CaptureOf(s) == Greatest({d \in Days : Trading(d) /\ (d < qtDay \/ (d = qtDay /\ s > 0))})
Intraday ==
    IF SinceOpening = {} THEN <<>>
    ELSE <<[date |-> qtDay, of |-> CaptureOf(Greatest(SinceOpening))]>>

\* Mutant of Overlay: the rows are not looked at.
AlwaysOverlay(bars) == Intraday \o bars

\* _with_intraday_overlay: today's candle, unless the rows have it.
Overlay(bars) ==
    IF bars # <<>> /\ bars[1].date >= qtDay THEN bars ELSE Intraday \o bars

Shown(bars) == IF qtKind = "equity" THEN Overlay(bars) ELSE bars

\* What is older than a third of a day is past any TTL; what is not may be
\* either within it or past it.
MayBeWithin(stamp) == stamp >= Now - 1

QuotesInit ==
    /\ qtKind \in {"equity", "index", "bond"}
    /\ qtDay = FirstDay /\ qtSlot = 0
    /\ qtSnaps = {} /\ qtDaily = {} /\ qtIngested = -9 /\ qtIndex = [d \in Days |-> -1]
    /\ qtCache = NoEntry
    /\ qtPc = [l \in Loaders |-> "idle"] /\ qtAt = [l \in Loaders |-> 0]
    /\ qtBars = [l \in Loaders |-> <<>>]
    /\ qtFill = "idle" /\ qtAnswer = <<>>

\* A request or a backfill lasts less than a third of a day.
Tick ==
    /\ \A l \in Loaders : qtPc[l] # "idle" => qtAt[l] = Now
    /\ qtFill = "idle"
    /\ qtSlot' = (qtSlot + 1) % 3
    /\ qtDay' = IF qtSlot = 2 THEN qtDay + 1 ELSE qtDay
    /\ qtDay' =< LastDay
    /\ qtSnaps' = IF qtSlot = 2 THEN {} ELSE qtSnaps
    /\ qtAnswer' = <<>>
    /\ UNCHANGED <<qtKind, qtDaily, qtIngested, qtIndex, qtCache, loadVars, qtFill>>

-----------------------------------------------------------------------------
(* The jobs that write.                                                    *)

\* snapshot_once, by the timetable or by hand at any hour of any day: the
\* equities' captures, and the indices' levels under the session's date.
SnapshotOnce ==
    /\ IF qtKind = "equity" THEN InsertSnapshots(qtSlot) ELSE UNCHANGED qtSnaps
    /\ IF qtKind = "index" THEN UpsertIndexLevels(LastCompletedSession, PageShows) ELSE UNCHANGED qtIndex
    /\ <<qtSnaps', qtIndex'>> # <<qtSnaps, qtIndex>>
    /\ UNCHANGED <<clockVars, qtDaily, qtIngested, qtCache, loadVars, qtFill, qtAnswer>>

\* snapshot_bonds_once: weekdays after the close, the day's price.
SnapshotBonds ==
    /\ qtKind = "bond" /\ Trading(qtDay) /\ qtSlot = 2 /\ qtDay \notin qtDaily
    /\ UpsertDailyBars({qtDay})
    /\ UNCHANGED <<clockVars, qtSnaps, qtIndex, qtCache, loadVars, qtFill, qtAnswer>>

\* backfill_all, for this security: skipped when a row was written within a
\* week; the page is read and stored; every cached chart is dropped.
StartBackfill ==
    /\ qtFill = "idle" /\ qtKind = "equity" /\ NewestIngestedAge >= 21
    /\ qtFill' = "fetch"
    /\ UNCHANGED <<clockVars, rowsVars, qtCache, loadVars, qtAnswer>>

BackfillRows ==
    /\ qtFill = "fetch"
    /\ qtFill' = "clear"
    /\ \/ UpsertDailyBars(HistoryPage)
       \/ UNCHANGED <<qtDaily, qtIngested>>                       \* no rows, or an HTTP error
    /\ UNCHANGED <<clockVars, qtSnaps, qtIndex, qtCache, loadVars, qtAnswer>>

ClearCache ==
    /\ qtFill = "clear"
    /\ qtFill' = "idle" /\ qtCache' = NoEntry
    /\ UNCHANGED <<clockVars, rowsVars, loadVars, qtAnswer>>

-----------------------------------------------------------------------------
(* get_history, by a request.                                              *)

AnswerCached(l) ==
    /\ qtPc[l] = "idle" /\ qtCache # NoEntry /\ MayBeWithin(qtCache.at)
    /\ qtAnswer' = Shown(qtCache.bars)
    /\ UNCHANGED <<clockVars, rowsVars, qtCache, loadVars, qtFill>>

\* No entry, or one past its TTL.
MissCache(l) ==
    /\ qtPc[l] = "idle"
    /\ qtPc' = [qtPc EXCEPT ![l] = "rows"] /\ qtAt' = [qtAt EXCEPT ![l] = Now]
    /\ UNCHANGED <<clockVars, rowsVars, qtCache, qtBars, qtFill, qtAnswer>>

\* Indices and bonds are served from their rows, and an equity's rows are good
\* for twice the TTL after they were written.
ReadRows(l) ==
    /\ qtPc[l] = "rows"
    /\ qtBars' = [qtBars EXCEPT ![l] = IF qtKind = "index" THEN IndexBars ELSE DailyBars]
    /\ \/ /\ qtKind # "equity" \/ (qtDaily # {} /\ MayBeWithin(qtIngested))
          /\ qtPc' = [qtPc EXCEPT ![l] = "store"]
       \/ /\ qtKind = "equity"
          /\ qtPc' = [qtPc EXCEPT ![l] = "fetch"]
    /\ UNCHANGED <<clockVars, rowsVars, qtCache, qtAt, qtFill, qtAnswer>>

\* The page's rows are stored and are the answer; a failed or empty fetch
\* leaves the rows that were read.
FetchHistory(l) ==
    /\ qtPc[l] = "fetch"
    /\ qtPc' = [qtPc EXCEPT ![l] = "store"]
    /\ \/ /\ HistoryPage # {}
          /\ UpsertDailyBars(HistoryPage)
          /\ qtBars' = [qtBars EXCEPT ![l] = BarsOf(HistoryPage)]
       \/ UNCHANGED <<qtDaily, qtIngested, qtBars>>
    /\ UNCHANGED <<clockVars, qtSnaps, qtIndex, qtCache, qtAt, qtFill, qtAnswer>>

\* Mutant of Stamp: the time the entry is written.
StampEnd(l) == Now

\* The entry carries the time the request began.
Stamp(l) == qtAt[l]

StoreCache(l) ==
    /\ qtPc[l] = "store"
    /\ qtCache' = [at |-> Stamp(l), bars |-> qtBars[l]]
    /\ qtAnswer' = Shown(qtBars[l])
    /\ qtPc' = [qtPc EXCEPT ![l] = "idle"] /\ qtBars' = [qtBars EXCEPT ![l] = <<>>]
    /\ qtAt' = [qtAt EXCEPT ![l] = 0]
    /\ UNCHANGED <<clockVars, rowsVars, qtFill>>

QuotesNext ==
    \/ Tick
    \/ SnapshotOnce
    \/ SnapshotBonds
    \/ StartBackfill
    \/ BackfillRows
    \/ ClearCache
    \/ \E l \in Loaders : AnswerCached(l)
    \/ \E l \in Loaders : MissCache(l)
    \/ \E l \in Loaders : ReadRows(l)
    \/ \E l \in Loaders : FetchHistory(l)
    \/ \E l \in Loaders : StoreCache(l)

-----------------------------------------------------------------------------
OneBarPerDay == \A i \in 1..Len(qtAnswer) - 1 : qtAnswer[i].date > qtAnswer[i + 1].date

TodayIsToday ==
    qtAnswer' # qtAnswer /\ Now' = Now /\ Trading(qtDay) /\ qtKind = "equity"
        => \A i \in DOMAIN qtAnswer' : qtAnswer'[i].of = qtAnswer'[i].date

ChartCatchesUp ==
    qtAnswer' # qtAnswer /\ Now' = Now /\ qtKind = "equity" /\ qtDaily # {} /\ qtIngested < Now - 1
        => qtAnswer' # <<>> /\ qtAnswer'[1].date >= Greatest(qtDaily)

IndexDatedRight == \A d \in Days : qtIndex[d] # -1 /\ ~IsHoliday(d) => qtIndex[d] = d

\* A step keeps charts right; PricesReadTrue, in Boards, says what of.
ChartStep == OneBarPerDay' /\ TodayIsToday /\ ChartCatchesUp /\ IndexDatedRight'
=============================================================================
