----------------------------- MODULE MCJobWatch -----------------------------
(***************************************************************************)
(* A frequent job and one that is due once in a while.  Each behaviour     *)
(* runs one of them, or is one of Timetable; the others are never started. *)
(***************************************************************************)
EXTENDS JobWatch, Timetable

CONSTANTS deliver, brief, watchdog, timetable

VARIABLE live

MCDue == [j \in AllJobs |-> CASE j = deliver -> 1..Horizon
                              [] j = brief -> {1, 4}
                              [] OTHER -> {t \in Times : t % 2 = 1}]
MCMisfire == [j \in AllJobs |-> IF j = brief THEN 2 ELSE 0]
MCMaxRuntime == [j \in Jobs |-> IF j = brief THEN 2 ELSE 1]

\* A Friday after the close, and a Sunday between the weekly jobs.
MCStops == {(4 * 1440) + (14 * 60) + 45, (6 * 1440) + (4 * 60) + 15}

MCInit ==
    /\ live \in Jobs \cup {timetable}
    /\ JobInit
    /\ IF live = timetable THEN TimetableInit
       ELSE tmJob = "brief_daily" /\ tmLast = 0 /\ tmNow = 0 /\ tmTold = FALSE

OfJobs == live # timetable /\ UNCHANGED <<live, tmVars>>

MCNext ==
    \/ OfJobs /\ Tick
    \/ OfJobs /\ Fire(live)
    \/ OfJobs /\ Skip(live)
    \/ OfJobs /\ Finish(live)
    \/ OfJobs /\ Fire(Watchdog)
    \/ OfJobs /\ SchedulerDies
    \/ OfJobs /\ ProcessDies
    \/ OfJobs /\ Restart
    \/ OfJobs /\ CloseOrphans
    \/ OfJobs /\ Scan
    \/ OfJobs /\ Send
    \/ OfJobs /\ Save
    \/ OfJobs /\ EndPass
    \/ live = timetable /\ UNCHANGED <<live, jobVars>> /\ WatchdogPass

MCSpec == MCInit /\ [][MCNext]_<<jobVars, tmVars, live>>

=============================================================================
