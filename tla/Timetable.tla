----------------------------- MODULE Timetable -----------------------------
(***************************************************************************)
(* The cron table of jobs/scheduler.py and the watchdog's reading of it    *)
(* (services/watchdog.py: last_due_times, check).  JobWatch has the passes *)
(* and their crashes over abstract due times; here the due times are those *)
(* of its 23 jobs, in minutes since a Monday 00:00, and a behaviour stops  *)
(* one job and waits for the watchdog to say so.                           *)
(***************************************************************************)
EXTENDS Integers, FiniteSets

CONSTANTS Stops   \* minutes of the week, on the quarter, a job may stop at

Weekdays == 0..4
AllDays == 0..6
Session == 9..14
AnyHour == 0..23

\* _cron: the days, the hours and the minutes of a job.
At(days, hours, minutes) == [days |-> days, hours |-> hours, minutes |-> minutes]
Every(first, step) == {m \in first..59 : (m - first) % step = 0}
Daily(h, m) == At(AllDays, {h}, {m})
Hourly(m) == At(AllDays, AnyHour, {m})

Cron ==
    [snapshot_market_hours |-> At(Weekdays, Session, Every(0, 10)),
     snapshot_hourly_outside |-> Hourly(17),
     bonds_snapshot_daily |-> At(Weekdays, {15}, {20}),
     news_market_hours |-> At(Weekdays, Session, Every(0, 15)),
     news_hourly_outside |-> Hourly(23),
     news_tag_market_hours |-> At(Weekdays, Session, Every(7, 15)),
     news_tag_hourly_outside |-> Hourly(31),
     sector_enrichment_weekly |-> At({6}, {4}, {0}),
     company_facts_refresh_weekly |-> At({6}, {4}, {30}),
     history_backfill_weekly |-> At({6}, {5}, {0}),
     filings_pull_daily |-> Daily(1, 0),
     filings_ocr_daily |-> Daily(2, 0),
     fundamentals_extract_daily |-> Daily(3, 0),
     alerts_evaluate_market_hours |-> At(Weekdays, Session, Every(11, 15)),
     alerts_evaluate_hourly_outside |-> Hourly(41),
     alerts_deliver_every_5min |-> At(AllDays, AnyHour, Every(0, 5)),
     brief_daily |-> At(Weekdays, {15}, {45}),
     boc_reconcile_daily |-> At(Weekdays, {16}, {0}),
     analyst_notes_weekly |-> At({5}, {20}, {0}),
     sessions_purge_daily |-> Daily(3, 30),
     analytics_prune_daily |-> Daily(3, 40),
     billing_expire_hourly |-> Hourly(50),
     billing_remind_daily |-> Daily(8, 0)]

Watched == DOMAIN Cron

Week == 7 * 1440
DueOf == [j \in Watched |->
            {1440 * d + 60 * h + m : d \in Cron[j].days, h \in Cron[j].hours, m \in Cron[j].minutes}]

\* The due times of a job in an interval.
DueIn(j, from, to) ==
    {t \in {w * Week + d : w \in (from \div Week)..(to \div Week), d \in DueOf[j]} : from =< t /\ t =< to}

Latest(S) == CHOOSE t \in S : \A u \in S : u =< t

-----------------------------------------------------------------------------
GraceMinutes == 10
SlackMinutes == 1
CadenceMinutes == 60
Strikes == 3
TwoHours == 120
OneDay == 1440
EightDays == 8 * 1440

\* The k latest of a set, or all of it.
RECURSIVE LastOf(_, _)
LastOf(S, k) == IF S = {} \/ k = 0 THEN {} ELSE {Latest(S)} \cup LastOf(S \ {Latest(S)}, k - 1)

\* Mutant of LastDueTimes: nothing older than a day is looked up.
ShortLookback(j, limit) ==
    LET short == DueIn(j, limit - TwoHours, limit)
    IN  LastOf(IF Cardinality(short) >= Strikes THEN short ELSE DueIn(j, limit - OneDay, limit),
               Strikes)

\* last_due_times: the first lookback window that holds enough due times.
LastDueTimes(j, limit) ==
    LET short == DueIn(j, limit - TwoHours, limit)
        day == DueIn(j, limit - OneDay, limit)
    IN  LastOf(IF Cardinality(short) >= Strikes THEN short
               ELSE IF Cardinality(day) >= Strikes THEN day
               ELSE DueIn(j, limit - EightDays, limit), Strikes)

\* Fires often enough for a blip to be let pass: some gap within an hour.
FiresOften(due) == \E s, t \in due : s < t /\ t - s =< CadenceMinutes

\* check: has the job whose last run began at `last` missed what it was due?
Missed(j, last, now) ==
    LET due == LastDueTimes(j, now - GraceMinutes)
        required == IF FiresOften(due) THEN due ELSE LastOf(due, 1)
    IN  due # {} /\ \A t \in required : last < t - SlackMinutes

-----------------------------------------------------------------------------
VARIABLES
    tmJob, tmLast,   \* the job and its last run
    tmNow,           \* the time of the last watchdog pass
    tmTold           \* did that pass report the job missed?

tmVars == <<tmJob, tmLast, tmNow, tmTold>>

TimetableInit ==
    /\ tmJob \in Watched /\ tmNow \in Stops
    /\ tmLast = Latest(IF DueIn(tmJob, tmNow - OneDay, tmNow) # {} THEN DueIn(tmJob, tmNow - OneDay, tmNow)
                       ELSE DueIn(tmJob, tmNow - EightDays, tmNow))
    /\ tmTold = FALSE

\* The watchdog's own cron: every quarter of an hour.
WatchdogPass ==
    /\ ~tmTold
    /\ tmNow' = tmNow + 15
    /\ tmTold' = Missed(tmJob, tmLast, tmNow')
    /\ UNCHANGED <<tmJob, tmLast>>

TimetableNext == WatchdogPass

-----------------------------------------------------------------------------
FiresHourly(j) == \E s, t \in DueOf[j] : s < t /\ t - s =< 60
RunsMissed(now) == Cardinality(DueIn(tmJob, tmLast + 1, now - 10))

\* A job that fires at least hourly is reported on the first pass ten minutes
\* after its third missed run, every other job after its first, whatever the
\* day and the hour it stopped: across the night, the weekend and the week.
MissedInTime ==
    [][tmNow' # tmNow => (tmTold' <=> RunsMissed(tmNow') >= (IF FiresHourly(tmJob) THEN 3 ELSE 1))]_tmVars
=============================================================================
