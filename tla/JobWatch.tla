------------------------------ MODULE JobWatch ------------------------------
(***************************************************************************)
(* The scheduler (jobs/scheduler.py), the rows every job leaves in         *)
(* job_runs (store/job_runs.py) and the watchdog that reads them back,     *)
(* keeps the list of open problems and tells the operator                  *)
(* (services/watchdog.py).                                                 *)
(*                                                                         *)
(* Time is a count of ticks.  A cron trigger is the set of its due times;  *)
(* the scheduler may start a due run late, drop it after the misfire       *)
(* grace, die with its process or die alone while the web server goes on.  *)
(***************************************************************************)
EXTENDS Integers, FiniteSets

CONSTANTS
    Jobs,           \* the jobs the watchdog judges
    Watchdog,       \* WATCHDOG_JOB_ID
    Due,            \* Due[j]: when j's trigger fires
    Misfire,        \* Misfire[j]: ticks a due run may start late
    MaxRuntime,     \* MaxRuntime[j]
    MissGrace, StartSlack, FrequentCadence, FrequentStrikes, Lookback,
    RepeatAfter, StaleAfter, Retention,
    Horizon, MaxCrashes, MaxFaults,    \* bounds
    Never           \* not a time

AllJobs == Jobs \cup {Watchdog}
Times == 0..Horizon

ASSUME JobAssumption ==
    /\ Watchdog \notin Jobs /\ IsFiniteSet(Jobs)
    /\ Due \in [AllJobs -> SUBSET Times]
    /\ Misfire \in [AllJobs -> Nat] /\ MaxRuntime \in [Jobs -> Nat]
    /\ {MissGrace, StartSlack, Horizon, MaxCrashes, MaxFaults, Lookback, Retention, StaleAfter} \subseteq Nat
    /\ {FrequentCadence, FrequentStrikes, RepeatAfter} \subseteq Nat \ {0}
    /\ Never \notin Int

VARIABLES
    now,
    up, alive, bootAt,    \* the process, its scheduler thread, PROCESS_STARTED
    pending,              \* each job's due time the scheduler has yet to act on
    working,              \* jobs whose body is running now
    runs,                 \* rows of job_runs
    open,                 \* job_problems: last_notified_utc of each open problem
    pc, passAt,           \* the watchdog's pass and its `now`
    found, told, todo,    \* what the scan found; whether the message arrived; rows still to write
    passed, notice, early, deadFor, crashes, faults    \* history: last complete pass, last notice of an open
                              \* problem, notices given too soon, ticks without a scheduler

world == <<now, up, alive, bootAt>>
passVars == <<pc, passAt, found, told, todo>>
history == <<passed, notice, early, deadFor, crashes, faults>>
jobVars == <<world, pending, working, runs, open, passVars, history>>

Keys == Jobs \X {"missed", "failed", "stuck"}
Statuses == {"running", "ok", "failed"}    \* a skipped run is judged as one that is ok
Stamps == -RepeatAfter..Horizon

WorldTyped ==
    /\ now \in Times /\ up \in BOOLEAN /\ alive \in BOOLEAN /\ bootAt \in Times /\ (alive => up)
    /\ pending \in [AllJobs -> Times \cup {Never}]
    /\ working \subseteq AllJobs /\ (working # {} => up)

RunsTyped ==
    /\ runs \subseteq [job : AllJobs, started : Times, status : Statuses]
    /\ \A r, q \in runs : r.job = q.job /\ r.started = q.started => r = q

PassTyped ==
    /\ pc \in {"idle", "orphans", "scan", "send", "save"} /\ (pc # "idle" => Watchdog \in working)
    /\ passAt \in Times /\ found \subseteq Keys /\ told \in BOOLEAN /\ todo \subseteq Keys

NoticesTyped ==
    /\ open \in [Keys -> Stamps \cup {Never}] /\ notice \in [Keys -> Times \cup {Never}]
    /\ passed \in Times \cup {Never}
    /\ early \in Nat /\ deadFor \in Times /\ crashes \in 0..MaxCrashes /\ faults \in 0..MaxFaults

JobTypeOK == WorldTyped /\ RunsTyped /\ PassTyped /\ NoticesTyped

\* The process has just come up on an empty database; its first watchdog pass is due at once.
JobInit ==
    /\ now = 0 /\ up = TRUE /\ alive = TRUE /\ bootAt = 0
    /\ pending = [j \in AllJobs |-> IF j = Watchdog \/ 0 \in Due[j] THEN 0 ELSE Never]
    /\ working = {} /\ runs = {} /\ open = [k \in Keys |-> Never]
    /\ pc = "idle" /\ passAt = 0 /\ found = {} /\ told = FALSE /\ todo = {}
    /\ passed = Never /\ notice = [k \in Keys |-> Never] /\ early = 0 /\ deadFor = 0 /\ crashes = 0 /\ faults = 0

(***************************************************************************)
(* The scheduler: memory job store, coalesce, one instance of each job.    *)
(***************************************************************************)
\* A due time replaces an older one (coalesce); one past its misfire grace is dropped.
Pend(j, t) ==
    IF t \in Due[j] THEN t
    ELSE IF pending[j] # Never /\ t > pending[j] + Misfire[j] THEN Never ELSE pending[j]

\* A tick is minutes, a pass of the watchdog seconds: it ends, or its process does, within one.
Tick ==
    /\ now < Horizon /\ now' = now + 1
    /\ pc = "idle"
    /\ pending' = IF alive THEN [j \in AllJobs |-> Pend(j, now + 1)] ELSE pending
    /\ deadFor' = IF up /\ ~alive THEN deadFor + 1 ELSE 0
    /\ UNCHANGED <<up, alive, bootAt, working, runs, open, passVars, passed, notice, early, crashes, faults>>

Started(j) == {r.started : r \in {q \in runs : q.job = j}}

\* tracked: the row says running before the body starts.
Fire(j) ==
    /\ alive /\ pending[j] # Never /\ j \notin working /\ now \notin Started(j)
    /\ pending' = [pending EXCEPT ![j] = Never]
    /\ working' = working \cup {j}
    /\ runs' = runs \cup {[job |-> j, started |-> now, status |-> "running"]}
    /\ IF j = Watchdog THEN pc' = "orphans" /\ passAt' = now ELSE UNCHANGED <<pc, passAt>>
    /\ UNCHANGED <<world, open, found, told, todo, history>>

\* max_instances=1: a job still running is not started again.
Skip(j) ==
    /\ alive /\ pending[j] # Never /\ j \in working
    /\ pending' = [pending EXCEPT ![j] = Never]
    /\ UNCHANGED <<world, working, runs, open, passVars, history>>

IsNewest(r) == \A q \in runs : q.job = r.job => q.started =< r.started
Newest(j) == CHOOSE r \in runs : r.job = j /\ IsNewest(r)

\* finish_run updates the row of this start, whatever became of it meanwhile, if it is still there.
Finished(j, status) == {IF r.job = j /\ IsNewest(r) THEN [r EXCEPT !.status = status] ELSE r : r \in runs}

Finish(j) ==
    /\ j \in working \cap Jobs
    /\ \E status \in {"ok", "failed"} : runs' = Finished(j, status)
    /\ working' = working \ {j}
    /\ UNCHANGED <<world, pending, open, passVars, history>>

\* The scheduler thread dies while the web server goes on answering.
SchedulerDies ==
    /\ alive /\ crashes < MaxCrashes
    /\ alive' = FALSE /\ crashes' = crashes + 1
    /\ UNCHANGED <<now, up, bootAt, pending, working, runs, open, passVars, passed, notice, early, deadFor, faults>>

ProcessDies ==
    /\ up /\ crashes < MaxCrashes
    /\ up' = FALSE /\ alive' = FALSE /\ crashes' = crashes + 1
    /\ pending' = [j \in AllJobs |-> Never] /\ working' = {}
    /\ pc' = "idle" /\ found' = {} /\ told' = FALSE /\ todo' = {} /\ deadFor' = 0
    /\ UNCHANGED <<now, bootAt, runs, open, passAt, passed, notice, early, faults>>

\* Boot registers every job; due times that passed meanwhile are forgotten.  It takes longer
\* than the second the stamps resolve.
Restart ==
    /\ ~up /\ \A r \in runs : r.started < now
    /\ up' = TRUE /\ alive' = TRUE /\ bootAt' = now
    /\ pending' = [j \in AllJobs |-> IF j = Watchdog THEN now ELSE Never]
    /\ UNCHANGED <<now, working, runs, open, passVars, history>>

(***************************************************************************)
(* check: every job's recent due times against its last recorded run.      *)
(***************************************************************************)
Largest(S) == CHOOSE x \in S : \A y \in S : y =< x
Least(S) == CHOOSE x \in S : \A y \in S : x =< y

\* The latest n of a set of times.
LatestOf(S, n) == {t \in S : Cardinality({u \in S : u > t}) < n}

\* last_due_times widens its window until it holds enough; the widest holds the same last ones.
LastDue(j, limit) == LatestOf({t \in Due[j] : limit - Lookback =< t /\ t =< limit}, FrequentStrikes)

Frequent(due) == \E s, t \in due : s < t /\ t - s =< FrequentCadence

\* Mutant of Required: every job is given the strikes of a frequent one.
RequiredLenient(due) == due

\* The due times a job must have missed, or failed, in a row to be reported.
Required(due) == IF Frequent(due) THEN due ELSE {Largest(due)}

WatchSince == Least({r.started : r \in runs})

FailureStreak(j) ==
    LET mine == {r \in runs : r.job = j}
        other == {r.started : r \in {q \in mine : q.status # "failed"}}
    IN Cardinality({r \in mine : r.status = "failed" /\ \A t \in other : t < r.started})

\* The problems of one job at time t.
Judged(j, t) ==
    LET due == LastDue(j, t - MissGrace)
        threshold == Least(Required(due))
        judgeable == due # {} /\ runs # {} /\ threshold >= WatchSince
        ran == Started(j) # {}
    IN CASE ~judgeable -> {}
         [] judgeable /\ ~ran -> IF threshold < bootAt THEN {} ELSE {"missed"}
         [] judgeable /\ ran /\ Newest(j).status = "running" ->
              IF t - Newest(j).started > MaxRuntime[j] THEN {"stuck"} ELSE {}
         [] OTHER ->
              CASE Newest(j).started < threshold - StartSlack -> {"missed"}
                [] Newest(j).started >= threshold - StartSlack /\ Newest(j).status = "failed"
                   /\ FailureStreak(j) >= (IF Frequent(due) THEN FrequentStrikes ELSE 1) -> {"failed"}
                [] OTHER -> {}

\* check_now prints the same without touching anything.
Problems(t) == {k \in Keys : k[2] \in Judged(k[1], t)}

(***************************************************************************)
(* run_check: close orphans, scan, tell, write.                            *)
(***************************************************************************)
\* Mutant of Orphaned: only rows of earlier than the process's first tick but one.
OrphanedOld(r) == r.status = "running" /\ r.started < bootAt - 1

\* A row still running from before this process belongs to one that is gone.
Orphaned(r) == r.status = "running" /\ r.started < bootAt

CloseOrphans ==
    /\ pc = "orphans"
    /\ runs' = {IF Orphaned(r) THEN [r EXCEPT !.status = "failed"] ELSE r : r \in runs}
    /\ pc' = "scan"
    /\ UNCHANGED <<world, pending, working, open, passAt, found, told, todo, history>>

OpenKeys == {k \in Keys : open[k] # Never}
New == found \ OpenKeys
Cleared == OpenKeys \ found
Repeated == {k \in found \cap OpenKeys : passAt - open[k] >= RepeatAfter}

\* Latest rows, first row and failure streaks are separate SELECTs of one scan; a run that
\* ends between them is judged by the next pass.
Scan ==
    /\ pc = "scan"
    /\ found' = Problems(passAt)
    /\ pc' = "send"
    /\ UNCHANGED <<world, pending, working, runs, open, passAt, told, todo, history>>

\* send_ops_alert: one channel that accepts the message is enough.
Send ==
    /\ pc = "send"
    /\ LET said == New \cup Cleared \cup Repeated
           again == {k \in New \cup Repeated : notice[k] # Never /\ passAt - notice[k] < RepeatAfter}
       IN \E ok \in BOOLEAN :
            /\ ok => said # {}
            /\ ~ok /\ said # {} => faults < MaxFaults
            /\ faults' = IF said # {} /\ ~ok THEN faults + 1 ELSE faults
            /\ told' = ok
            /\ notice' = IF ok THEN [k \in Keys |-> IF k \in New \cup Repeated THEN passAt ELSE notice[k]] ELSE notice
            /\ early' = IF ok THEN early + Cardinality(again) ELSE early
    /\ todo' = New \cup Cleared \cup Repeated
    /\ pc' = "save"
    /\ UNCHANGED <<world, pending, working, runs, open, passAt, found, passed, deadFor, crashes>>

\* Mutant of Stamp: every problem is due for a repeat at the next pass.
StampDue == passAt - RepeatAfter

\* A message that did not arrive is stamped as due for a repeat.
Stamp == IF told THEN passAt ELSE passAt - RepeatAfter

\* One row of job_problems is inserted, touched or deleted; a cleared one goes in any case.
Save ==
    /\ pc = "save"
    /\ \E k \in todo :
          /\ open' = [open EXCEPT ![k] = IF k \in found THEN Stamp ELSE Never]
          /\ notice' = [notice EXCEPT ![k] = IF k \in found THEN @ ELSE Never]
          /\ todo' = todo \ {k}
    /\ UNCHANGED <<world, pending, working, runs, pc, passAt, found, told, passed, early, deadFor, crashes, faults>>

\* Rows past the retention go, and the pass's own row is finished.
EndPass ==
    /\ pc = "save" /\ todo = {}
    /\ runs' = {r \in Finished(Watchdog, "ok") : r.started >= passAt - Retention}
    /\ working' = working \ {Watchdog}
    /\ pc' = "idle" /\ found' = {} /\ told' = FALSE
    /\ passed' = passAt
    /\ UNCHANGED <<world, pending, open, passAt, todo, notice, early, deadFor, crashes, faults>>

JobNext ==
    \/ Tick
    \/ \E j \in AllJobs : Fire(j)
    \/ \E j \in Jobs : Skip(j)
    \/ \E j \in Jobs : Finish(j)
    \/ SchedulerDies \/ ProcessDies \/ Restart
    \/ CloseOrphans \/ Scan \/ Send \/ Save \/ EndPass

JobSpec == JobInit /\ [][JobNext]_jobVars

(***************************************************************************)
(* The `jobs` block of /health.                                            *)
(***************************************************************************)
Beat == Started(Watchdog)

\* Mutant of Health: a young database is given the benefit of the doubt, an old process too.
HealthForgiving ==
    IF OpenKeys # {} THEN "degraded"
    ELSE IF now - bootAt > StaleAfter /\ Beat = {} THEN "stale" ELSE "ok"

Health ==
    IF OpenKeys # {} THEN "degraded"
    ELSE IF now - bootAt > StaleAfter /\ (Beat = {} \/ now - Largest(Beat) > StaleAfter) THEN "stale"
    ELSE "ok"

(***************************************************************************)
(* Properties                                                              *)
(***************************************************************************)
\* Once the first pass of a process has closed the orphans, a row that says running is the
\* row of a run in progress: no interrupted run hides its job from the watchdog for ever.
RunningIsAlive ==
    up /\ passed # Never /\ passed >= bootAt => \A r \in runs : r.status = "running" => r.job \in working

LastDueTime(j) == Largest({t \in Due[j] : t =< passAt - MissGrace})
Unserved(j) == \A t \in Started(j) : t < LastDueTime(j) - StartSlack
Rare(j) == \A s, t \in Due[j] : s < t => t - s > FrequentCadence
Tracked(j) ==
    /\ \E r \in runs : r.started =< LastDueTime(j)
    /\ Started(j) # {} \/ bootAt =< LastDueTime(j)

\* A scan reports as missed only a job whose last due time went by without a run, and every
\* such job that is due once in a while, unless an older run of it goes on, or tracking or,
\* for a job that never ran, the process began after that time.
MissedIsReported ==
    [][pc = "scan" /\ pc' = "send" =>
         \A j \in {x \in Jobs : \E t \in Due[x] : passAt - MissGrace - Lookback =< t /\ t =< passAt - MissGrace} :
            /\ <<j, "missed">> \in found' => Unserved(j)
            /\ Rare(j) /\ Tracked(j) /\ Unserved(j) /\ ~(\E r \in runs : r.job = j /\ r.status = "running")
                 => <<j, "missed">> \in found']_jobVars

\* While a problem lasts the operator hears of it at most once per repeat interval, but for
\* passes that stopped after the message and before its rows.
NoticesSpaced == early =< crashes * Cardinality(Keys)

\* A process that goes on without its scheduler for longer than the stale limit cannot look
\* healthy to the uptime monitor.
DeadSchedulerShows == deadFor > StaleAfter => Health # "ok"

=============================================================================
