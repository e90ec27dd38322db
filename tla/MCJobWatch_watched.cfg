CONSTANTS
    deliver = deliver
    brief = brief
    watchdog = watchdog
    Jobs = {deliver, brief}
    Watchdog = watchdog
    Due <- MCDue
    Misfire <- MCMisfire
    MaxRuntime <- MCMaxRuntime
    MissGrace = 1
    StartSlack = 0
    FrequentCadence = 1
    FrequentStrikes = 3
    Lookback = 6
    RepeatAfter = 3
    StaleAfter = 2
    Retention = 4
    Horizon = 5
    MaxCrashes = 1
    MaxFaults = 1
    Never = never
    timetable = timetable
    Stops <- MCStops
SPECIFICATION MCSpec
INVARIANTS
    RunningIsAlive
    NoticesSpaced
    DeadSchedulerShows
PROPERTIES
    MissedIsReported
    MissedInTime
CHECK_DEADLOCK FALSE
