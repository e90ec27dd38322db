--------------------------- MODULE JobWatchProofs ---------------------------
(***************************************************************************)
(* Theorems about JobWatch, for every set of jobs and due times, every     *)
(* grace and interval, and any number of crashes and of lost messages.     *)
(***************************************************************************)
EXTENDS JobWatch, FiniteSetTheorems, WellFoundedInduction, TLAPS

LEMMA Constants ==
  /\ Watchdog \notin Jobs /\ AllJobs = Jobs \cup {Watchdog} /\ Never \notin Int
  /\ MissGrace \in Nat /\ Horizon \in Nat /\ MaxCrashes \in Nat /\ MaxFaults \in Nat
  /\ Retention \in Nat /\ StaleAfter \in Nat /\ RepeatAfter \in Nat /\ RepeatAfter > 0
  /\ \A j \in AllJobs : Due[j] \subseteq Times
  /\ 0 \in Times /\ 0 \in Stamps
  BY JobAssumption DEF AllJobs, Times, Stamps

LEMMA KeysCounted == IsFiniteSet(Keys) /\ Cardinality(Keys) \in Nat
<1>1. IsFiniteSet({"missed", "failed", "stuck"})
  <2>1. IsFiniteSet({"missed"}) /\ IsFiniteSet({"failed"}) /\ IsFiniteSet({"stuck"})
    BY FS_Singleton
  <2>2. {"missed", "failed", "stuck"} = ({"missed"} \cup {"failed"}) \cup {"stuck"}
    OBVIOUS
  <2>3. IsFiniteSet({"missed"} \cup {"failed"})
    BY <2>1, FS_Union
  <2>4. IsFiniteSet(({"missed"} \cup {"failed"}) \cup {"stuck"})
    BY <2>1, <2>3, FS_Union
  <2> QED BY <2>2, <2>4
<1>2. IsFiniteSet(Jobs)
  BY JobAssumption
<1>3. IsFiniteSet(Keys)
  BY <1>1, <1>2, FS_Product DEF Keys
<1> QED BY <1>3, FS_CardinalityType

(***************************************************************************)
(* Typing, with what it needs: a pass begins and ends at one tick, and     *)
(* there was no scheduler since the last run at the latest.                *)
(***************************************************************************)
\* A pass is of this tick, in a process that is up.
PassIsNow == pc # "idle" => passAt = now /\ up

\* Without its scheduler the process starts nothing: its boot and every run are from before.
DeadSince ==
    /\ deadFor > 0 => up /\ ~alive
    /\ bootAt =< now - deadFor
    /\ \A r \in runs : r.started =< now - deadFor

Timely == JobTypeOK /\ PassIsNow /\ DeadSince

LEMMA TimelyInit == JobInit => Timely
<1> SUFFICES ASSUME JobInit
             PROVE  Timely
  OBVIOUS
<1>1. Never \in Times \cup {Never} /\ Never \in Stamps \cup {Never} /\ 0 \in Times
  BY Constants
<1>2. WorldTyped
  BY <1>1 DEF JobInit, WorldTyped
<1>3. RunsTyped /\ PassTyped
  BY <1>1 DEF JobInit, RunsTyped, PassTyped
<1>4. NoticesTyped
  BY <1>1, Constants DEF JobInit, NoticesTyped
<1>5. PassIsNow /\ DeadSince
  BY Constants DEF JobInit, PassIsNow, DeadSince
<1> QED BY <1>2, <1>3, <1>4, <1>5 DEF Timely, JobTypeOK

Rows == [job : AllJobs, started : Times, status : Statuses]

\* Rows that are finished, closed as orphans or pruned keep their jobs and their starts.
LEMMA RowsKept ==
  ASSUME RunsTyped, NEW f, \A r \in runs : f[r] \in Rows /\ f[r].job = r.job /\ f[r].started = r.started,
         runs' \subseteq {f[r] : r \in runs}
  PROVE  RunsTyped' /\ \A r \in runs' : \E q \in runs : r.job = q.job /\ r.started = q.started
  BY DEF RunsTyped, Rows

\* The rows after a finish, and after the orphans are closed.
LEMMA FinishKeeps ==
  ASSUME RunsTyped, NEW j \in AllJobs, NEW status \in Statuses, runs' \subseteq Finished(j, status)
  PROVE  RunsTyped' /\ \A r \in runs' : \E q \in runs : r.job = q.job /\ r.started = q.started
<1> DEFINE f == [r \in runs |-> IF r.job = j /\ IsNewest(r) THEN [r EXCEPT !.status = status] ELSE r]
<1>1. \A r \in runs : r \in Rows
  BY DEF RunsTyped, Rows
<1>2. \A r \in runs : f[r] \in Rows /\ f[r].job = r.job /\ f[r].started = r.started
  BY <1>1 DEF Rows
<1>3. Finished(j, status) = {f[r] : r \in runs}
  BY DEF Finished
<1> HIDE DEF f
<1> QED BY <1>2, <1>3, RowsKept

LEMMA CloseKeeps ==
  ASSUME RunsTyped, CloseOrphans
  PROVE  RunsTyped' /\ \A r \in runs' : \E q \in runs : r.job = q.job /\ r.started = q.started
<1> DEFINE f == [r \in runs |-> IF Orphaned(r) THEN [r EXCEPT !.status = "failed"] ELSE r]
<1>1. \A r \in runs : r \in Rows
  BY DEF RunsTyped, Rows
<1>2. \A r \in runs : f[r] \in Rows /\ f[r].job = r.job /\ f[r].started = r.started
  BY <1>1 DEF Rows, Statuses
<1>3. runs' = {f[r] : r \in runs}
  BY DEF CloseOrphans
<1> HIDE DEF f
<1> QED BY <1>2, <1>3, RowsKept

LEMMA TimelyStep ==
  ASSUME Timely, [JobNext]_jobVars
  PROVE  Timely'
<1> USE DEF Timely, JobTypeOK
<1>1. CASE UNCHANGED jobVars
  BY <1>1 DEF jobVars, world, passVars, history, WorldTyped, RunsTyped, PassTyped, NoticesTyped, PassIsNow, DeadSince
<1>2. CASE Tick
  <2>1. /\ now < Horizon /\ now' = now + 1 /\ pc = "idle"
        /\ pending' = IF alive THEN [j \in AllJobs |-> Pend(j, now + 1)] ELSE pending
        /\ deadFor' = IF up /\ ~alive THEN deadFor + 1 ELSE 0
        /\ UNCHANGED <<up, alive, bootAt, working, runs, open, passVars, passed, notice, early, crashes, faults>>
    BY <1>2 DEF Tick
  <2>2. UNCHANGED <<pc, passAt, found, told, todo>>
    BY <2>1 DEF passVars
  <2>3. now' \in Times
    BY <2>1, Constants DEF WorldTyped, Times
  <2>4. \A j \in AllJobs : Pend(j, now + 1) \in Times \cup {Never}
    BY <2>1, <2>3 DEF Pend, WorldTyped
  <2>5. WorldTyped'
    BY <2>1, <2>3, <2>4 DEF WorldTyped
  <2>6. RunsTyped' /\ PassTyped' /\ PassIsNow'
    BY <2>1, <2>2 DEF RunsTyped, PassTyped, PassIsNow
  <2>7. DeadSince'
    BY <2>1, Constants DEF DeadSince, WorldTyped, RunsTyped, NoticesTyped, Times
  <2>8. deadFor' \in Times
    BY <2>1, <2>3, Constants DEF DeadSince, WorldTyped, NoticesTyped, Times
  <2>9. NoticesTyped'
    BY <2>1, <2>8 DEF NoticesTyped
  <2> QED BY <2>5, <2>6, <2>7, <2>9
<1>3. ASSUME NEW j \in AllJobs, Fire(j)
      PROVE  Timely'
  <2>1. /\ alive /\ up /\ now \notin Started(j)
        /\ pending' = [pending EXCEPT ![j] = Never] /\ working' = working \cup {j}
        /\ runs' = runs \cup {[job |-> j, started |-> now, status |-> "running"]}
        /\ IF j = Watchdog THEN pc' = "orphans" /\ passAt' = now ELSE UNCHANGED <<pc, passAt>>
        /\ UNCHANGED <<now, up, alive, bootAt, open, found, told, todo, passed, notice, early, deadFor, crashes, faults>>
    BY <1>3 DEF Fire, world, history, WorldTyped
  <2>2. WorldTyped'
    BY <2>1 DEF WorldTyped
  <2>3. PICK n : n = [job |-> j, started |-> now, status |-> "running"]
    OBVIOUS
  <2>4. n \in Rows /\ n.job = j /\ n.started = now /\ runs' = runs \cup {n}
    BY <2>1, <2>3 DEF Rows, Statuses, WorldTyped
  <2>5. \A r \in runs : r.job = j => r.started # now
    BY <2>1 DEF Started
  <2>6. RunsTyped'
    BY <2>4, <2>5 DEF RunsTyped, Rows
  <2>7. PassTyped' /\ PassIsNow'
    BY <2>1 DEF PassTyped, PassIsNow, WorldTyped
  <2>8. NoticesTyped'
    BY <2>1 DEF NoticesTyped
  <2>9. ~(deadFor > 0) /\ deadFor \in Nat
    BY <2>1 DEF DeadSince, NoticesTyped, Times
  <2>10. DeadSince'
    BY <2>1, <2>4, <2>9 DEF DeadSince, WorldTyped, Times
  <2> QED BY <2>2, <2>6, <2>7, <2>8, <2>10
<1>4. ASSUME NEW j \in Jobs, Skip(j)
      PROVE  Timely'
  <2>1. /\ pending' = [pending EXCEPT ![j] = Never]
        /\ UNCHANGED <<world, working, runs, open, passVars, history>>
    BY <1>4 DEF Skip
  <2>2. WorldTyped'
    BY <2>1, Constants DEF WorldTyped, world
  <2> QED BY <2>1, <2>2 DEF world, passVars, history, RunsTyped, PassTyped, NoticesTyped, PassIsNow, DeadSince
<1>5. ASSUME NEW j \in Jobs, Finish(j)
      PROVE  Timely'
  <2>1. PICK status \in {"ok", "failed"} : runs' = Finished(j, status)
    BY <1>5 DEF Finish
  <2>2. /\ working' = working \ {j} /\ UNCHANGED <<world, pending, open, passVars, history>>
    BY <1>5 DEF Finish
  <2>3. RunsTyped' /\ \A r \in runs' : \E q \in runs : r.job = q.job /\ r.started = q.started
    BY <2>1, Constants, FinishKeeps DEF Statuses
  <2>4. WorldTyped' /\ PassTyped'
    BY <2>2, Constants DEF WorldTyped, PassTyped, world, passVars
  <2> QED BY <2>2, <2>3, <2>4 DEF world, passVars, history, NoticesTyped, PassIsNow, DeadSince
<1>6. CASE SchedulerDies
  <2>1. /\ alive /\ crashes < MaxCrashes /\ alive' = FALSE /\ crashes' = crashes + 1
        /\ UNCHANGED <<now, up, bootAt, pending, working, runs, open, passVars, passed, notice, early, deadFor, faults>>
    BY <1>6 DEF SchedulerDies
  <2>2. crashes' \in 0..MaxCrashes
    BY <2>1, Constants DEF NoticesTyped
  <2>3. WorldTyped' /\ RunsTyped' /\ PassTyped' /\ PassIsNow' /\ DeadSince'
    BY <2>1 DEF WorldTyped, RunsTyped, PassTyped, PassIsNow, DeadSince, passVars
  <2>4. NoticesTyped'
    BY <2>1, <2>2 DEF NoticesTyped
  <2> QED BY <2>3, <2>4
<1>7. CASE ProcessDies
  <2>1. /\ up /\ crashes < MaxCrashes /\ up' = FALSE /\ alive' = FALSE /\ crashes' = crashes + 1
        /\ pending' = [j \in AllJobs |-> Never] /\ working' = {}
        /\ pc' = "idle" /\ found' = {} /\ told' = FALSE /\ todo' = {} /\ deadFor' = 0
        /\ UNCHANGED <<now, bootAt, runs, open, passAt, passed, notice, early, faults>>
    BY <1>7 DEF ProcessDies
  <2>2. WorldTyped' /\ RunsTyped' /\ PassTyped' /\ PassIsNow'
    BY <2>1 DEF WorldTyped, RunsTyped, PassTyped, PassIsNow
  <2>3. NoticesTyped'
    BY <2>1, Constants DEF NoticesTyped
  <2>4. DeadSince'
    BY <2>1 DEF DeadSince, WorldTyped, NoticesTyped, RunsTyped, Times
  <2> QED BY <2>2, <2>3, <2>4
<1>8. CASE Restart
  <2>1. /\ ~up /\ \A r \in runs : r.started < now
        /\ up' = TRUE /\ alive' = TRUE /\ bootAt' = now
        /\ pending' = [j \in AllJobs |-> IF j = Watchdog THEN now ELSE Never]
        /\ UNCHANGED <<now, working, runs, open, passVars, history>>
    BY <1>8 DEF Restart
  <2>2. WorldTyped' /\ RunsTyped' /\ PassTyped' /\ NoticesTyped'
    BY <2>1 DEF WorldTyped, RunsTyped, PassTyped, NoticesTyped, passVars, history
  <2>3. pc = "idle" /\ deadFor = 0
    BY <2>1 DEF PassIsNow, DeadSince, NoticesTyped, Times
  <2>4. PassIsNow' /\ DeadSince'
    BY <2>1, <2>3 DEF PassIsNow, DeadSince, passVars, history, WorldTyped, RunsTyped, Times
  <2> QED BY <2>2, <2>4
<1>9. CASE CloseOrphans
  <2>1. RunsTyped' /\ \A r \in runs' : \E q \in runs : r.job = q.job /\ r.started = q.started
    BY <1>9, CloseKeeps
  <2> QED BY <1>9, <2>1
          DEF CloseOrphans, world, history, WorldTyped, PassTyped, NoticesTyped, PassIsNow, DeadSince
<1>10. CASE Scan
  <2>1. Problems(passAt) \subseteq Keys
    BY DEF Problems
  <2> QED BY <1>10, <2>1
          DEF Scan, world, history, WorldTyped, RunsTyped, PassTyped, NoticesTyped, PassIsNow, DeadSince
<1>11. CASE Send
  <2> DEFINE said == New \cup Cleared \cup Repeated
             again == {k \in New \cup Repeated : notice[k] # Never /\ passAt - notice[k] < RepeatAfter}
  <2>1. /\ pc = "send" /\ pc' = "save" /\ todo' = said /\ told' \in BOOLEAN
        /\ early' = early \/ early' = early + Cardinality(again)
        /\ notice' = notice \/ notice' = [k \in Keys |-> IF k \in New \cup Repeated THEN passAt ELSE notice[k]]
        /\ faults' = faults \/ (faults < MaxFaults /\ faults' = faults + 1)
        /\ UNCHANGED <<world, pending, working, runs, open, passAt, found, passed, deadFor, crashes>>
    BY <1>11 DEF Send
  <2>2. again \subseteq Keys /\ said \subseteq Keys
    BY DEF New, Cleared, Repeated, OpenKeys, PassTyped
  <2>3. Cardinality(again) \in Nat
    BY <2>2, KeysCounted, FS_Subset, FS_CardinalityType
  <2> HIDE DEF again, said
  <2>4. WorldTyped' /\ RunsTyped' /\ PassTyped' /\ PassIsNow' /\ DeadSince'
    BY <2>1, <2>2 DEF world, WorldTyped, RunsTyped, PassTyped, PassIsNow, DeadSince
  <2>5. NoticesTyped'
    <3>1. early' \in Nat /\ faults' \in 0..MaxFaults
      BY <2>1, <2>3, Constants DEF NoticesTyped
    <3>2. notice' \in [Keys -> Times \cup {Never}]
      BY <2>1 DEF NoticesTyped, PassTyped
    <3> QED BY <2>1, <3>1, <3>2 DEF NoticesTyped
  <2> QED BY <2>4, <2>5
<1>12. CASE Save
  <2>1. PICK k \in todo : /\ open' = [open EXCEPT ![k] = IF k \in found THEN Stamp ELSE Never]
                          /\ notice' = [notice EXCEPT ![k] = IF k \in found THEN @ ELSE Never]
                          /\ todo' = todo \ {k}
    BY <1>12 DEF Save
  <2>2. UNCHANGED <<world, pending, working, runs, pc, passAt, found, told, passed, early, deadFor, crashes, faults>>
    BY <1>12 DEF Save
  <2>3. Stamp \in Stamps
    BY Constants DEF Stamp, Stamps, PassTyped, Times
  <2>4. NoticesTyped'
    BY <2>1, <2>2, <2>3 DEF NoticesTyped
  <2>5. PassTyped'
    BY <2>1, <2>2 DEF PassTyped
  <2> QED BY <2>2, <2>4, <2>5 DEF world, WorldTyped, RunsTyped, PassIsNow, DeadSince
<1>13. CASE EndPass
  <2>1. /\ runs' = {r \in Finished(Watchdog, "ok") : r.started >= passAt - Retention}
        /\ working' = working \ {Watchdog} /\ pc' = "idle" /\ found' = {} /\ told' = FALSE /\ passed' = passAt
        /\ UNCHANGED <<world, pending, open, passAt, todo, notice, early, deadFor, crashes, faults>>
    BY <1>13 DEF EndPass
  <2>2. RunsTyped' /\ \A r \in runs' : \E q \in runs : r.job = q.job /\ r.started = q.started
    <3>1. runs' \subseteq Finished(Watchdog, "ok")
      BY <2>1
    <3> QED BY <3>1, Constants, FinishKeeps DEF Statuses
  <2> QED BY <2>1, <2>2 DEF world, WorldTyped, PassTyped, NoticesTyped, PassIsNow, DeadSince
<1> QED BY <1>1, <1>2, <1>3, <1>4, <1>5, <1>6, <1>7, <1>8, <1>9, <1>10, <1>11, <1>12, <1>13 DEF JobNext

\* jobs/scheduler.py, store/job_runs.py, services/watchdog.py: every reachable
\* state is well typed; a job has one row for each start.
THEOREM JobTypeCorrect == JobSpec => []JobTypeOK
<1>1. JobInit => Timely
  BY TimelyInit
<1>2. Timely /\ [JobNext]_jobVars => Timely'
  BY TimelyStep
<1>3. Timely => JobTypeOK
  BY DEF Timely
<1> QED BY <1>1, <1>2, <1>3, PTL DEF JobSpec

(***************************************************************************)
(* No interrupted run hides its job.                                       *)
(***************************************************************************)
\* A row that says running and is of this process is of a run in progress, its job's last.
OwnRunning ==
    up => \A r \in runs : r.status = "running" /\ r.started >= bootAt => r.job \in working /\ IsNewest(r)

\* The orphans are closed from the middle of a process's first pass on.
Closed == pc \in {"scan", "send", "save"} \/ (passed # Never /\ passed >= bootAt)
OrphansClosed == up /\ Closed => \A r \in runs : r.status = "running" => r.started >= bootAt

\* A pass leaves the row of its start, from which a later process tells its own time.
PassLeavesRow ==
    /\ pc # "idle" => \E r \in runs : r.job = Watchdog /\ r.started = passAt
    /\ passed # Never => passed =< now /\ (passed = now => \E r \in runs : r.started = now)

RunInv == Timely /\ OwnRunning /\ OrphansClosed /\ PassLeavesRow

\* Rows that are finished, closed or pruned are no more running than they were.
LEMMA FewerRunning ==
  ASSUME RunInv, UNCHANGED <<up, bootAt, working>>,
         \A r \in runs' : r.status = "running" => r \in runs,
         \A r \in runs' : \E q \in runs : r.job = q.job /\ r.started = q.started
  PROVE  OwnRunning'
<1> SUFFICES ASSUME up', NEW r \in runs', r.status = "running", r.started >= bootAt'
             PROVE  r.job \in working' /\ IsNewest(r)'
  BY DEF OwnRunning
<1>1. r \in runs /\ r.job \in working /\ IsNewest(r)
  BY DEF RunInv, OwnRunning
<1> QED BY <1>1 DEF IsNewest

\* Finishing a job of this process leaves none of its rows running.
LEMMA FinishEnds ==
  ASSUME RunInv, up, NEW j \in AllJobs, NEW status \in {"ok", "failed"}, runs' \subseteq Finished(j, status)
  PROVE  /\ \A r \in runs' : r.status = "running" => r \in runs
         /\ \A r \in runs' : r.status = "running" /\ r.started >= bootAt => r.job # j
         /\ \A r \in runs : \E q \in Finished(j, status) : q.job = r.job /\ q.started = r.started
<1>1. \A r \in runs : r \in Rows
  BY DEF RunInv, Timely, JobTypeOK, RunsTyped, Rows
<1>2. ASSUME NEW r \in runs', r.status = "running"
      PROVE  r \in runs /\ (r.started >= bootAt => r.job # j)
  <2>1. PICK q \in runs : r = IF q.job = j /\ IsNewest(q) THEN [q EXCEPT !.status = status] ELSE q
    BY DEF Finished
  <2>2. r = q /\ ~(q.job = j /\ IsNewest(q))
    BY <1>1, <1>2, <2>1 DEF Rows
  <2> QED BY <1>2, <2>2 DEF RunInv, OwnRunning
<1>3. ASSUME NEW r \in runs
      PROVE  \E q \in Finished(j, status) : q.job = r.job /\ q.started = r.started
  <2>1. PICK q : q = IF r.job = j /\ IsNewest(r) THEN [r EXCEPT !.status = status] ELSE r
    OBVIOUS
  <2>2. q \in Finished(j, status) /\ q.job = r.job /\ q.started = r.started
    BY <1>1, <2>1 DEF Finished, Rows
  <2> QED BY <2>2
<1> QED BY <1>2, <1>3

LEMMA RunInit == JobInit => RunInv
  BY TimelyInit, Constants DEF JobInit, RunInv, OwnRunning, OrphansClosed, Closed, PassLeavesRow

LEMMA RunStep ==
  ASSUME RunInv, [JobNext]_jobVars
  PROVE  RunInv'
<1>0. Timely /\ Timely'
  BY TimelyStep DEF RunInv
<1>00. /\ \A r \in runs : r \in Rows
       /\ now \in Int /\ bootAt \in Int /\ bootAt =< now /\ passAt \in Int /\ passed \in Int \cup {Never}
       /\ \A r \in runs : r.started \in Int /\ r.started =< now
  BY <1>0 DEF Timely, JobTypeOK, WorldTyped, RunsTyped, PassTyped, NoticesTyped, DeadSince, Rows, Times
<1> USE DEF RunInv
<1>1. ASSUME UNCHANGED <<now, up, bootAt, working, runs, pc, passAt, passed>>
      PROVE  RunInv'
  BY <1>0, <1>1 DEF OwnRunning, OrphansClosed, Closed, PassLeavesRow, IsNewest
<1>2. CASE Tick
  <2>1. now' = now + 1 /\ pc = "idle" /\ UNCHANGED <<up, bootAt, working, runs, pc, passAt, passed>>
    BY <1>2 DEF Tick, passVars
  <2>2. OwnRunning' /\ OrphansClosed'
    BY <2>1 DEF OwnRunning, OrphansClosed, Closed, IsNewest
  <2>3. PassLeavesRow'
    BY <1>00, <2>1, Constants DEF PassLeavesRow
  <2> QED BY <1>0, <2>2, <2>3
<1>3. ASSUME NEW j \in AllJobs, Fire(j)
      PROVE  RunInv'
  <2>1. PICK n : n = [job |-> j, started |-> now, status |-> "running"]
    OBVIOUS
  <2>2. /\ n.job = j /\ n.started = now /\ runs' = runs \cup {n} /\ n \in runs' /\ up
        /\ j \notin working /\ working' = working \cup {j}
        /\ IF j = Watchdog THEN pc' = "orphans" /\ passAt' = now ELSE UNCHANGED <<pc, passAt>>
        /\ UNCHANGED <<now, up, bootAt, passed>>
    BY <1>3, <2>1, <1>0 DEF Fire, world, history, Timely, JobTypeOK, WorldTyped
  <2>3. OwnRunning'
    <3> SUFFICES ASSUME NEW r \in runs', r.status = "running", r.started >= bootAt
                 PROVE  r.job \in working' /\ IsNewest(r)'
      BY <2>2 DEF OwnRunning
    <3>1. CASE r = n
      BY <1>00, <2>2, <3>1 DEF IsNewest
    <3>2. CASE r # n
      <4>1. r \in runs /\ r.job \in working /\ IsNewest(r)
        BY <2>2, <3>2 DEF OwnRunning
      <4>2. r.job # j
        BY <2>2, <4>1
      <4> QED BY <2>2, <4>1, <4>2 DEF IsNewest
    <3> QED BY <3>1, <3>2
  <2>4. OrphansClosed'
    BY <1>00, <2>2 DEF OrphansClosed, Closed
  <2>5. PassLeavesRow'
    BY <2>2 DEF PassLeavesRow
  <2> QED BY <1>0, <2>3, <2>4, <2>5
<1>4. ASSUME NEW j \in Jobs, Skip(j)
      PROVE  RunInv'
  BY <1>1, <1>4 DEF Skip, world, passVars, history
<1>5. ASSUME NEW j \in Jobs, Finish(j)
      PROVE  RunInv'
  <2>1. PICK status \in {"ok", "failed"} : runs' = Finished(j, status)
    BY <1>5 DEF Finish
  <2>2. /\ j \in working /\ working' = working \ {j} /\ j \in AllJobs /\ up
        /\ UNCHANGED <<now, up, bootAt, pc, passAt, passed>>
    BY <1>0, <1>5, Constants DEF Finish, world, passVars, history, Timely, JobTypeOK, WorldTyped
  <2>3. /\ \A r \in runs' : r.status = "running" => r \in runs
        /\ \A r \in runs' : r.status = "running" /\ r.started >= bootAt => r.job # j
        /\ \A r \in runs : \E q \in runs' : q.job = r.job /\ q.started = r.started
    BY <2>1, <2>2, FinishEnds
  <2>4. \A r \in runs' : \E q \in runs : r.job = q.job /\ r.started = q.started
    BY <1>0, <2>1, <2>2, FinishKeeps DEF Timely, JobTypeOK, Statuses
  <2>5. OwnRunning'
    BY <2>2, <2>3, <2>4 DEF OwnRunning, IsNewest
  <2>6. OrphansClosed' /\ PassLeavesRow'
    BY <2>2, <2>3 DEF OrphansClosed, Closed, PassLeavesRow
  <2> QED BY <1>0, <2>5, <2>6
<1>6. CASE SchedulerDies
  BY <1>1, <1>6 DEF SchedulerDies, passVars
<1>7. CASE ProcessDies
  <2>1. up' = FALSE /\ pc' = "idle" /\ UNCHANGED <<now, runs, passed>>
    BY <1>7 DEF ProcessDies
  <2> QED BY <1>0, <2>1 DEF OwnRunning, OrphansClosed, PassLeavesRow
<1>8. CASE Restart
  <2>1. /\ ~up /\ \A r \in runs : r.started < now
        /\ bootAt' = now /\ UNCHANGED <<now, working, runs, pc, passAt, passed>>
    BY <1>8 DEF Restart, passVars, history
  <2>2. pc = "idle" /\ ~(passed # Never /\ passed >= now)
    BY <1>0, <1>00, <2>1 DEF Timely, PassIsNow, PassLeavesRow
  <2>3. OwnRunning'
    BY <1>00, <2>1 DEF OwnRunning
  <2>4. OrphansClosed' /\ PassLeavesRow'
    BY <2>1, <2>2 DEF OrphansClosed, Closed, PassLeavesRow
  <2> QED BY <1>0, <2>3, <2>4
<1>9. CASE CloseOrphans
  <2>1. /\ runs' = {IF Orphaned(r) THEN [r EXCEPT !.status = "failed"] ELSE r : r \in runs}
        /\ pc = "orphans" /\ pc' = "scan" /\ UNCHANGED <<now, up, bootAt, working, passAt, passed>>
    BY <1>9 DEF CloseOrphans, world, history
  <2>2. \A r \in runs' : \E q \in runs : r.job = q.job /\ r.started = q.started
    BY <1>0, <1>9, CloseKeeps DEF Timely, JobTypeOK
  <2>3. ASSUME NEW r \in runs', r.status = "running"
        PROVE  r \in runs /\ r.started >= bootAt
    <3>1. PICK q \in runs : r = IF Orphaned(q) THEN [q EXCEPT !.status = "failed"] ELSE q
      BY <2>1
    <3>2. r = q /\ ~Orphaned(q)
      BY <1>00, <2>3, <3>1 DEF Rows
    <3> QED BY <1>00, <2>3, <3>2 DEF Orphaned
  <2>4. ASSUME NEW r \in runs
        PROVE  \E q \in runs' : q.job = r.job /\ q.started = r.started
    <3>1. PICK q : q = IF Orphaned(r) THEN [r EXCEPT !.status = "failed"] ELSE r
      OBVIOUS
    <3>2. q \in runs' /\ q.job = r.job /\ q.started = r.started
      BY <1>00, <2>1, <3>1 DEF Rows
    <3> QED BY <3>2
  <2>5. OwnRunning'
    BY <2>1, <2>2, <2>3, FewerRunning
  <2>6. OrphansClosed'
    BY <2>1, <2>3 DEF OrphansClosed
  <2>7. \E r \in runs' : r.job = Watchdog /\ r.started = passAt
    BY <2>1, <2>4 DEF PassLeavesRow
  <2>8. passed # Never => passed =< now /\ (passed = now => \E r \in runs' : r.started = now)
    BY <2>4 DEF PassLeavesRow
  <2>9. PassLeavesRow'
    BY <2>1, <2>7, <2>8 DEF PassLeavesRow
  <2> QED BY <1>0, <2>5, <2>6, <2>9
<1>10. CASE Scan \/ Send \/ Save
  <2>1. pc \in {"scan", "send", "save"} /\ pc' \in {"send", "save"}
        /\ UNCHANGED <<now, up, bootAt, working, runs, passAt, passed>>
    BY <1>10 DEF Scan, Send, Save, world, history
  <2> QED BY <1>0, <2>1 DEF OwnRunning, OrphansClosed, Closed, PassLeavesRow, IsNewest
<1>11. CASE EndPass
  <2>1. /\ runs' = {r \in Finished(Watchdog, "ok") : r.started >= passAt - Retention}
        /\ working' = working \ {Watchdog} /\ pc = "save" /\ pc' = "idle" /\ passed' = passAt
        /\ UNCHANGED <<now, up, bootAt, passAt>>
    BY <1>11 DEF EndPass, world
  <2>2. up /\ passAt = now
    BY <1>0, <2>1 DEF Timely, PassIsNow
  <2>3. Watchdog \in AllJobs /\ runs' \subseteq Finished(Watchdog, "ok")
    BY <2>1, Constants
  <2>4. /\ \A r \in runs' : r.status = "running" => r \in runs
        /\ \A r \in runs' : r.status = "running" /\ r.started >= bootAt => r.job # Watchdog
        /\ \A r \in runs : \E q \in Finished(Watchdog, "ok") : q.job = r.job /\ q.started = r.started
    BY <2>2, <2>3, FinishEnds
  <2>5. \A r \in runs' : \E q \in runs : r.job = q.job /\ r.started = q.started
    BY <1>0, <2>3, FinishKeeps DEF Timely, JobTypeOK, Statuses
  <2>6. OwnRunning'
    BY <2>1, <2>2, <2>4, <2>5 DEF OwnRunning, IsNewest
  <2>7. OrphansClosed'
    BY <2>1, <2>2, <2>4 DEF OrphansClosed, Closed
  <2>8. \E r \in runs' : r.started = now
    <3>1. PICK q \in Finished(Watchdog, "ok") : q.started = now
      BY <2>1, <2>2, <2>4 DEF PassLeavesRow
    <3>2. now >= passAt - Retention
      BY <1>00, <2>2, Constants
    <3> QED BY <2>1, <3>1, <3>2
  <2>9. PassLeavesRow'
    BY <1>00, <2>1, <2>2, <2>8 DEF PassLeavesRow
  <2> QED BY <1>0, <2>6, <2>7, <2>9
<1>12. CASE UNCHANGED jobVars
  BY <1>1, <1>12 DEF jobVars, world, passVars, history
<1> QED BY <1>2, <1>3, <1>4, <1>5, <1>6, <1>7, <1>8, <1>9, <1>10, <1>11, <1>12 DEF JobNext

\* store/job_runs.py, fail_orphans: from a process's first pass on, a row that
\* says running is the row of a run in progress, whatever crashed before.
THEOREM RunningRunsAreAlive == JobSpec => []RunningIsAlive
<1>1. JobInit => RunInv
  BY RunInit
<1>2. RunInv /\ [JobNext]_jobVars => RunInv'
  BY RunStep
<1>3. RunInv => RunningIsAlive
  BY DEF RunInv, OwnRunning, OrphansClosed, Closed, RunningIsAlive
<1> QED BY <1>1, <1>2, <1>3, PTL DEF JobSpec

(***************************************************************************)
(* A scheduler that dies alone shows.                                      *)
(***************************************************************************)
\* A bounded set of times that is not empty has a largest one.
LEMMA LargestIs ==
  ASSUME NEW S \in SUBSET Times, S # {}
  PROVE  Largest(S) \in S /\ \A y \in S : y =< Largest(S)
<1> DEFINE T == {Horizon - x : x \in S}
<1>1. \A x \in S : x \in Int /\ 0 =< x /\ x =< Horizon
  BY DEF Times
<1>2. T \in SUBSET Nat /\ T # {}
  BY <1>1, Constants
<1>3. PICK m \in T : \A n \in T : m =< n
  <2>1. IsWellFoundedOn(OpToRel(<, Nat), Nat)
    BY NatLessThanWellFounded
  <2> HIDE DEF T
  <2>2. PICK m \in T : \A n \in T : <<n, m>> \notin OpToRel(<, Nat)
    BY <1>2, <2>1, WFMin, Zenon
  <2>3. \A n \in T : ~(n < m)
    BY <1>2, <2>2 DEF OpToRel
  <2> QED BY <1>2, <2>3
<1>4. PICK x \in S : m = Horizon - x
  OBVIOUS
<1>5. \A y \in S : y =< x
  <2> SUFFICES ASSUME NEW y \in S
               PROVE  y =< x
    OBVIOUS
  <2>1. m =< Horizon - y
    BY <1>3
  <2> QED BY <1>1, <1>4, <2>1, Constants
<1> QED BY <1>5 DEF Largest

\* services/watchdog.py, health_summary: a process that goes on without its scheduler for
\* longer than the stale limit is not reported as healthy, since neither its boot
\* nor any run of the watchdog is more recent.
THEOREM DeathOfTheSchedulerShows == JobSpec => []DeadSchedulerShows
<1>1. JobInit => Timely
  BY TimelyInit
<1>2. Timely /\ [JobNext]_jobVars => Timely'
  BY TimelyStep
<1>3. ASSUME Timely, deadFor > StaleAfter, OpenKeys = {}
      PROVE  Health = "stale"
  <2>1. now \in Int /\ bootAt \in Int /\ deadFor \in Nat /\ StaleAfter \in Nat
    BY <1>3, Constants DEF Timely, JobTypeOK, WorldTyped, NoticesTyped, Times
  <2>2. now - bootAt > StaleAfter
    BY <1>3, <2>1 DEF Timely, DeadSince
  <2>3. Beat \subseteq Times /\ \A t \in Beat : t =< now - deadFor
    BY <1>3 DEF Timely, DeadSince, JobTypeOK, RunsTyped, Beat, Started
  <2>4. ASSUME Beat # {}
        PROVE  now - Largest(Beat) > StaleAfter
    <3>1. PICK t : t = Largest(Beat)
      OBVIOUS
    <3>2. t \in Times /\ t =< now - deadFor
      BY <2>3, <2>4, <3>1, LargestIs
    <3> QED BY <1>3, <2>1, <3>1, <3>2 DEF Times
  <2> QED BY <1>3, <2>2, <2>4 DEF Health
<1>4. Timely => DeadSchedulerShows
  BY <1>3 DEF DeadSchedulerShows, Health
<1> QED BY <1>1, <1>2, <1>4, PTL DEF JobSpec

(***************************************************************************)
(* What a scan says of a job.                                              *)
(***************************************************************************)
\* And a smallest one.
LEMMA LeastIs ==
  ASSUME NEW S \in SUBSET Times, S # {}
  PROVE  Least(S) \in S /\ \A y \in S : Least(S) =< y
<1>1. S \in SUBSET Nat /\ \A y \in S : y \in Int
  BY DEF Times
<1>2. IsWellFoundedOn(OpToRel(<, Nat), Nat)
  BY NatLessThanWellFounded
<1>3. PICK m \in S : \A n \in S : <<n, m>> \notin OpToRel(<, Nat)
  BY <1>1, <1>2, WFMin, Zenon
<1>4. \A n \in S : m =< n
  <2>1. \A n \in S : ~(n < m)
    BY <1>1, <1>3 DEF OpToRel
  <2> QED BY <1>1, <2>1
<1> QED BY <1>4 DEF Least

LEMMA LargestOnly ==
  ASSUME NEW S \in SUBSET Times, NEW x \in S, \A y \in S : y =< x
  PROVE  Largest(S) = x
<1>1. Largest(S) \in S /\ x =< Largest(S) /\ Largest(S) =< x
  BY LargestIs
<1>2. \A y \in S : y \in Int
  BY DEF Times
<1>3. Largest(S) \in Int /\ x \in Int
  BY <1>1, <1>2
<1> QED BY <1>1, <1>3

\* The latest of a set of times are some of them, and the last of all is one.
LEMMA LatestHasLast ==
  ASSUME NEW D \in SUBSET Times, NEW x \in D, \A y \in D : y =< x, NEW n \in Nat \ {0}
  PROVE  /\ LatestOf(D, n) \in SUBSET Times /\ x \in LatestOf(D, n) /\ \A y \in LatestOf(D, n) : y =< x
         /\ Largest(LatestOf(D, n)) = x
<1>0. \A y \in D : y \in Int
  BY DEF Times
<1>1. {u \in D : u > x} = {}
  <2> SUFFICES ASSUME NEW u \in D, u > x PROVE FALSE
    OBVIOUS
  <2>1. u \in Int /\ x \in Int /\ u =< x
    BY <1>0
  <2> QED BY <2>1
<1>2. Cardinality({u \in D : u > x}) = 0
  BY <1>1, FS_EmptySet
<1>3. LatestOf(D, n) \in SUBSET Times /\ x \in LatestOf(D, n) /\ \A y \in LatestOf(D, n) : y =< x
  BY <1>2 DEF LatestOf
<1> QED BY <1>3, LargestOnly

WasDue(j) == \E t \in Due[j] : passAt - MissGrace - Lookback =< t /\ t =< passAt - MissGrace

\* What a scan holds a job to: its last due time, or for a job due more often one no later.
LEMMA DueTimes ==
  ASSUME JobTypeOK, NEW j \in Jobs, WasDue(j), NEW due, due = LastDue(j, passAt - MissGrace)
  PROVE  /\ due # {} /\ Least(Required(due)) \in Times /\ LastDueTime(j) \in Times
         /\ Least(Required(due)) =< LastDueTime(j)
         /\ Rare(j) => Least(Required(due)) = LastDueTime(j)
<1> DEFINE limit == passAt - MissGrace
           All == {t \in Due[j] : t =< limit}
           D == {t \in Due[j] : limit - Lookback =< t /\ t =< limit}
           last == LastDueTime(j)
<1>1. /\ limit \in Int /\ Lookback \in Nat /\ FrequentStrikes \in Nat \ {0} /\ FrequentCadence \in Nat
      /\ All \in SUBSET Times /\ D \in SUBSET Times /\ D \in SUBSET All /\ \A t \in Times : t \in Int
  BY JobAssumption, Constants DEF JobTypeOK, PassTyped, Times, AllJobs
<1>2. PICK t0 \in D : TRUE
  BY DEF WasDue
<1>3. last = Largest(All)
  BY DEF LastDueTime
<1> HIDE DEF last
<1>4. last \in All /\ \A y \in All : y =< last
  BY <1>1, <1>2, <1>3, LargestIs
<1>5. last \in D /\ \A y \in D : y =< last
  <2>1. t0 =< last /\ last \in Due[j] /\ last =< limit /\ limit - Lookback =< t0
    BY <1>1, <1>2, <1>4
  <2>2. last \in Int /\ t0 \in Int
    BY <1>1, <1>2, <1>4
  <2>3. limit - Lookback =< last
    BY <1>1, <2>1, <2>2
  <2> QED BY <1>1, <1>4, <2>1, <2>3
<1>6. due = LatestOf(D, FrequentStrikes)
  BY DEF LastDue
<1>7. /\ due \in SUBSET Times /\ due \in SUBSET D /\ last \in due /\ \A y \in due : y =< last
      /\ Largest(due) = last
  <2>1. due \in SUBSET D
    BY <1>6 DEF LatestOf
  <2> HIDE DEF D
  <2> QED BY <1>1, <1>5, <1>6, <2>1, LatestHasLast
<1>8. Required(due) \in SUBSET due /\ Required(due) # {}
  BY <1>7 DEF Required
<1>9. Least(Required(due)) \in Required(due)
  BY <1>7, <1>8, LeastIs
<1>10. ASSUME Rare(j) PROVE Least(Required(due)) = last
  <2>1. ~Frequent(due)
    <3> SUFFICES ASSUME NEW s \in due, NEW t \in due, s < t, t - s =< FrequentCadence PROVE FALSE
      BY DEF Frequent
    <3>1. s \in Due[j] /\ t \in Due[j] /\ s \in Int /\ t \in Int
      BY <1>1, <1>7
    <3>2. t - s > FrequentCadence
      BY <1>10, <3>1 DEF Rare
    <3> QED BY <1>1, <3>1, <3>2
  <2>2. Required(due) = {last}
    BY <1>7, <2>1 DEF Required
  <2> QED BY <1>9, <2>2
<1> QED BY <1>7, <1>8, <1>9, <1>10 DEF last

LEMMA NewestIs ==
  ASSUME JobTypeOK, NEW j, Started(j) # {}
  PROVE  Newest(j) \in runs /\ Newest(j).job = j /\ \A t \in Started(j) : t =< Newest(j).started
<1>1. Started(j) \in SUBSET Times
  BY DEF JobTypeOK, RunsTyped, Started
<1>2. Largest(Started(j)) \in Started(j) /\ \A t \in Started(j) : t =< Largest(Started(j))
  BY <1>1, LargestIs
<1>3. PICK r \in runs : r.job = j /\ r.started = Largest(Started(j))
  BY <1>2 DEF Started
<1>4. IsNewest(r)
  BY <1>2, <1>3 DEF IsNewest, Started
<1>5. Newest(j) \in runs /\ Newest(j).job = j /\ IsNewest(Newest(j))
  BY <1>3, <1>4 DEF Newest
<1> QED BY <1>5 DEF IsNewest, Started

MissedRight(j) ==
    /\ <<j, "missed">> \in found' => Unserved(j)
    /\ Rare(j) /\ Tracked(j) /\ Unserved(j) /\ ~(\E r \in runs : r.job = j /\ r.status = "running")
         => <<j, "missed">> \in found'

LEMMA ScanIsRight ==
  ASSUME JobTypeOK, Scan, NEW j \in Jobs, WasDue(j)
  PROVE  MissedRight(j)
<1> DEFINE last == LastDueTime(j)
<1>1. PICK due : due = LastDue(j, passAt - MissGrace)
  OBVIOUS
<1>2. PICK threshold : threshold = Least(Required(due))
  OBVIOUS
<1>3. due # {} /\ threshold \in Times /\ last \in Times /\ threshold =< last /\ (Rare(j) => threshold = last)
  BY <1>1, <1>2, DueTimes
<1>4. <<j, "missed">> \in found' <=> "missed" \in Judged(j, passAt)
  BY DEF Scan, Problems, Keys
<1>5. StartSlack \in Nat /\ \A t \in Started(j) : t \in Times
  BY JobAssumption DEF JobTypeOK, RunsTyped, Started
<1> HIDE DEF last
<1>6. ASSUME "missed" \in Judged(j, passAt) PROVE Unserved(j)
  <2>1. CASE Started(j) = {}
    BY <2>1 DEF Unserved
  <2>2. CASE Started(j) # {}
    <3>1. Newest(j).started < threshold - StartSlack
      BY <1>1, <1>2, <1>6, <2>2 DEF Judged
    <3>2. \A t \in Started(j) : t =< Newest(j).started /\ Newest(j).started \in Started(j)
      BY <2>2, NewestIs DEF Started
    <3> QED BY <1>3, <1>5, <3>1, <3>2 DEF Unserved, last, Times
  <2> QED BY <2>1, <2>2
<1>7. ASSUME Rare(j), Tracked(j), Unserved(j), ~(\E r \in runs : r.job = j /\ r.status = "running")
      PROVE  "missed" \in Judged(j, passAt)
  <2>1. threshold = last
    BY <1>3, <1>7
  <2>2. runs # {} /\ threshold >= WatchSince
    <3>1. PICK r \in runs : r.started =< last
      BY <1>7 DEF Tracked, last
    <3> DEFINE S == {q.started : q \in runs}
    <3>2. S \in SUBSET Times /\ r.started \in S
      BY DEF JobTypeOK, RunsTyped
    <3>3. WatchSince = Least(S)
      BY DEF WatchSince
    <3> HIDE DEF S
    <3>4. WatchSince \in Times /\ WatchSince =< r.started
      BY <3>2, <3>3, LeastIs
    <3>5. r.started \in Int /\ WatchSince \in Int /\ last \in Int
      <4>1. r.started \in Times
        BY <3>2
      <4>2. \A t \in Times : t \in Int
        BY DEF Times
      <4> QED BY <1>3, <3>4, <4>1, <4>2
    <3> QED BY <2>1, <3>1, <3>4, <3>5
  <2>3. CASE Started(j) = {}
    <3>1. bootAt =< last /\ bootAt \in Times
      BY <1>7, <2>3 DEF Tracked, last, JobTypeOK, WorldTyped
    <3>2. ~(threshold < bootAt)
      BY <1>3, <2>1, <3>1 DEF Times
    <3> QED BY <1>1, <1>2, <1>3, <2>2, <2>3, <3>2 DEF Judged
  <2>4. CASE Started(j) # {}
    <3>1. Newest(j) \in runs /\ Newest(j).job = j /\ Newest(j).started \in Started(j) /\ Newest(j).status # "running"
      BY <1>7, <2>4, NewestIs DEF Started
    <3>2. Newest(j).started < threshold - StartSlack
      BY <1>7, <2>1, <3>1 DEF Unserved, last
    <3>3. Newest(j).started \in Int /\ threshold - StartSlack \in Int
      BY <1>3, <1>5, <3>1, Constants DEF Times
    <3> QED BY <1>1, <1>2, <1>3, <2>2, <2>4, <3>1, <3>2, <3>3 DEF Judged
  <2> QED BY <2>3, <2>4
<1> QED BY <1>4, <1>6, <1>7 DEF MissedRight

\* services/watchdog.py, check: a scan reports no job that was served on time, and misses none that is due
\* once in a while, was tracked then, and has no run in progress: for every timetable.
THEOREM MissedJobsAreReported == JobSpec => MissedIsReported
<1> DEFINE Says == pc = "scan" /\ pc' = "send" => \A j \in {x \in Jobs : WasDue(x)} : MissedRight(j)
<1>1. Timely /\ [JobNext]_jobVars => Says
  <2> SUFFICES ASSUME Timely, [JobNext]_jobVars, pc = "scan", pc' = "send"
               PROVE  Scan
    BY ScanIsRight DEF Timely
  <2> QED BY DEF JobNext, Tick, Fire, Skip, Finish, SchedulerDies, ProcessDies, Restart, CloseOrphans, Scan, Send, Save,
                 EndPass, jobVars, passVars
<1>2. JobInit => Timely
  BY TimelyInit
<1>3. Timely /\ [JobNext]_jobVars => Timely'
  BY TimelyStep
<1>4. JobSpec => [][Says]_jobVars
  BY <1>1, <1>2, <1>3, PTL DEF JobSpec
<1>5. Says <=> (pc = "scan" /\ pc' = "send" =>
         \A j \in {x \in Jobs : \E t \in Due[x] : passAt - MissGrace - Lookback =< t /\ t =< passAt - MissGrace} :
            /\ <<j, "missed">> \in found' => Unserved(j)
            /\ Rare(j) /\ Tracked(j) /\ Unserved(j) /\ ~(\E r \in runs : r.job = j /\ r.status = "running")
                 => <<j, "missed">> \in found')
  BY DEF MissedRight, WasDue
<1> QED BY <1>4, <1>5, PTL DEF MissedIsReported

(***************************************************************************)
(* Notices of a problem that lasts are spaced.                             *)
(***************************************************************************)
\* Problems the operator was told of since their row was last written: the pass
\* that said so has yet to write the row, or stopped before it did.
Astray == {k \in Keys : notice[k] # Never /\ (open[k] = Never \/ open[k] < notice[k])}

\* Those the pass in hand is about to write.
InHand == IF pc = "save" /\ told THEN todo ELSE {}

\* What a pass is about to write was new, cleared or due for a repeat when it said so.
SaidInTime ==
    pc = "save" =>
        \A k \in todo \cap found :
            /\ told => notice[k] = passAt
            /\ open[k] = Never \/ passAt - open[k] >= RepeatAfter

EarlyCounted == early + Cardinality(Astray \ InHand) =< crashes * Cardinality(Keys)

NoticeInv == Timely /\ SaidInTime /\ EarlyCounted

LEMMA Strays ==
  /\ \A S \in SUBSET Keys : IsFiniteSet(S) /\ Cardinality(S) \in Nat /\ Cardinality(S) =< Cardinality(Keys)
  /\ \A S, T \in SUBSET Keys : S \subseteq T => Cardinality(S) =< Cardinality(T)
<1>1. ASSUME NEW S \in SUBSET Keys
      PROVE  IsFiniteSet(S) /\ Cardinality(S) \in Nat /\ Cardinality(S) =< Cardinality(Keys)
  BY KeysCounted, FS_Subset, FS_CardinalityType
<1>2. ASSUME NEW S \in SUBSET Keys, NEW T \in SUBSET Keys, S \subseteq T
      PROVE  Cardinality(S) =< Cardinality(T)
  BY <1>1, <1>2, FS_Subset
<1> QED BY <1>1, <1>2

\* No problem goes astray that was not before.
LEMMA NoneStrays ==
  ASSUME NoticeInv, early' = early, crashes' = crashes \/ crashes' = crashes + 1,
         (Astray \ InHand)' \subseteq Astray \ InHand
  PROVE  EarlyCounted'
<1>1. PICK S, T : S = (Astray \ InHand)' /\ T = Astray \ InHand
  OBVIOUS
<1>2. S \subseteq T /\ S \in SUBSET Keys /\ T \in SUBSET Keys
  BY <1>1 DEF Astray
<1>3. /\ Cardinality(S) =< Cardinality(T) /\ Cardinality(S) \in Nat /\ Cardinality(T) \in Nat
      /\ Cardinality(Keys) \in Nat
  BY <1>2, Strays, KeysCounted
<1>4. early \in Nat /\ crashes \in Nat
  BY DEF NoticeInv, Timely, JobTypeOK, NoticesTyped
<1>5. early + Cardinality(T) =< crashes * Cardinality(Keys)
  BY <1>1 DEF NoticeInv, EarlyCounted
<1>6. crashes * Cardinality(Keys) =< crashes' * Cardinality(Keys)
  <2>1. (crashes + 1) * Cardinality(Keys) = crashes * Cardinality(Keys) + Cardinality(Keys)
        /\ crashes * Cardinality(Keys) \in Nat
    BY <1>3, <1>4
  <2> QED BY <1>3, <2>1
<1>7. crashes * Cardinality(Keys) \in Int /\ crashes' * Cardinality(Keys) \in Int
  BY <1>3, <1>4
<1>8. early + Cardinality(S) =< crashes' * Cardinality(Keys)
  BY <1>3, <1>4, <1>5, <1>6, <1>7
<1> QED BY <1>1, <1>8 DEF EarlyCounted

LEMMA NoticeInit == JobInit => NoticeInv
<1> SUFFICES ASSUME JobInit
             PROVE  NoticeInv
  OBVIOUS
<1>1. Timely /\ SaidInTime
  BY TimelyInit DEF JobInit, SaidInTime
<1>2. Astray \ InHand = {} /\ early = 0 /\ crashes = 0
  BY DEF JobInit, Astray
<1>3. EarlyCounted
  BY <1>2, FS_EmptySet, KeysCounted DEF EarlyCounted
<1> QED BY <1>1, <1>3 DEF NoticeInv

\* A message that arrives too soon is about problems that had gone astray; it
\* takes them in hand.
LEMMA SendCounts ==
  ASSUME NoticeInv, Send
  PROVE  SaidInTime' /\ EarlyCounted'
<1> DEFINE news == New \cup Repeated
           again == {k \in news : notice[k] # Never /\ passAt - notice[k] < RepeatAfter}
<1>0. Timely
  BY DEF NoticeInv
<1>1. /\ pc = "send" /\ pc' = "save" /\ todo' = news \cup Cleared /\ told' \in BOOLEAN
      /\ notice' = IF told' THEN [k \in Keys |-> IF k \in news THEN passAt ELSE notice[k]] ELSE notice
      /\ early' = IF told' THEN early + Cardinality(again) ELSE early
      /\ UNCHANGED <<open, found, passAt, crashes>>
  BY DEF Send
<1>2. /\ news \subseteq Keys /\ again \subseteq news /\ Cleared \subseteq Keys
      /\ \A k \in Keys : notice[k] = Never \/ notice[k] \in Int
      /\ \A k \in Keys : open[k] = Never \/ open[k] \in Int
      /\ passAt \in Int
  BY <1>0 DEF Timely, JobTypeOK, PassTyped, NoticesTyped, New, Repeated, Cleared, OpenKeys, Times, Stamps
<1>3. \A k \in news : open[k] = Never \/ passAt - open[k] >= RepeatAfter
  BY <1>2 DEF New, Repeated, OpenKeys
<1>4. SaidInTime'
  <2> SUFFICES ASSUME NEW k \in (news \cup Cleared) \cap found
               PROVE  (told' => notice'[k] = passAt) /\ (open[k] = Never \/ passAt - open[k] >= RepeatAfter)
    BY <1>1 DEF SaidInTime
  <2>1. k \in news
    BY DEF Cleared
  <2> QED BY <1>1, <1>2, <1>3, <2>1
<1>5. ASSUME told' = TRUE PROVE EarlyCounted'
  <2>1. PICK S, T, A : S = (Astray \ InHand)' /\ T = Astray \ InHand /\ A = again
    OBVIOUS
  <2>2. InHand = {} /\ InHand' = news \cup Cleared
    BY <1>1, <1>5 DEF InHand
  <2>3. A \subseteq T
    <3> SUFFICES ASSUME NEW k \in again
                 PROVE  k \in Astray
      BY <2>1, <2>2
    <3>1. k \in Keys /\ notice[k] # Never /\ passAt - notice[k] < RepeatAfter
      BY <1>2
    <3>2. open[k] = Never \/ open[k] < notice[k]
      BY <1>2, <1>3, <3>1, Constants
    <3> QED BY <3>1, <3>2 DEF Astray
  <2>4. S \subseteq T \ A
    <3> SUFFICES ASSUME NEW k \in S
                 PROVE  k \in Astray /\ k \notin again
      BY <2>1, <2>2
    <3>1. k \in Keys /\ k \notin news /\ notice'[k] # Never /\ (open'[k] = Never \/ open'[k] < notice'[k])
      BY <2>1, <2>2 DEF Astray
    <3>2. notice'[k] = notice[k]
      BY <1>1, <1>5, <3>1
    <3> QED BY <1>1, <1>2, <3>1, <3>2 DEF Astray
  <2>5. S \in SUBSET Keys /\ T \in SUBSET Keys /\ A \in SUBSET Keys /\ T \ A \in SUBSET Keys
    BY <1>2, <2>1 DEF Astray
  <2>6. /\ IsFiniteSet(T) /\ IsFiniteSet(T \ A)
        /\ Cardinality(S) =< Cardinality(T \ A)
        /\ Cardinality(S) \in Nat /\ Cardinality(T) \in Nat /\ Cardinality(A) \in Nat /\ Cardinality(T \ A) \in Nat
    BY <2>4, <2>5, Strays
  <2>7. Cardinality(T \ A) = Cardinality(T) - Cardinality(A)
    <3>1. T \cap A = A
      BY <2>3
    <3>2. Cardinality(T \ A) = Cardinality(T) - Cardinality(T \cap A)
      BY <2>6, FS_Difference
    <3> QED BY <3>1, <3>2
  <2>8. early \in Nat /\ crashes \in Nat /\ crashes * Cardinality(Keys) \in Int
    BY <1>0, KeysCounted DEF Timely, JobTypeOK, NoticesTyped
  <2>9. early + Cardinality(T) =< crashes * Cardinality(Keys)
    BY <2>1 DEF NoticeInv, EarlyCounted
  <2>10. early' = early + Cardinality(A) /\ crashes' = crashes
    BY <1>1, <1>5, <2>1
  <2>11. early' + Cardinality(S) =< crashes' * Cardinality(Keys)
    BY <2>6, <2>7, <2>8, <2>9, <2>10
  <2> HIDE DEF again
  <2> QED BY <2>1, <2>11 DEF EarlyCounted
<1>6. ASSUME told' = FALSE PROVE EarlyCounted'
  <2>1. InHand = {} /\ InHand' = {} /\ UNCHANGED <<open, notice, early, crashes>>
    BY <1>1, <1>6 DEF InHand
  <2>2. (Astray \ InHand)' \subseteq Astray \ InHand
    BY <2>1 DEF Astray
  <2>3. early' = early /\ crashes' = crashes
    BY <2>1
  <2> QED BY <2>2, <2>3, NoneStrays
<1> QED BY <1>1, <1>4, <1>5, <1>6

\* A row that is written no longer strays.
LEMMA SaveCounts ==
  ASSUME NoticeInv, Save
  PROVE  SaidInTime' /\ EarlyCounted'
<1>0. Timely /\ SaidInTime
  BY DEF NoticeInv
<1>1. PICK k \in todo : /\ open' = [open EXCEPT ![k] = IF k \in found THEN Stamp ELSE Never]
                        /\ notice' = [notice EXCEPT ![k] = IF k \in found THEN @ ELSE Never]
                        /\ todo' = todo \ {k}
  BY DEF Save
<1>2. pc = "save" /\ UNCHANGED <<pc, passAt, found, told, early, crashes>>
  BY DEF Save
<1>3. /\ k \in Keys /\ DOMAIN open = Keys /\ DOMAIN notice = Keys
      /\ \A q \in Keys : notice[q] = Never \/ notice[q] \in Int
      /\ \A q \in Keys : open[q] = Never \/ open[q] \in Int
      /\ passAt \in Int /\ told \in BOOLEAN
  BY <1>0, <1>1 DEF Timely, JobTypeOK, PassTyped, NoticesTyped, Times, Stamps
<1>4. SaidInTime'
  BY <1>0, <1>1, <1>2, <1>3 DEF SaidInTime
<1>5. \A q \in Keys \ {k} : open'[q] = open[q] /\ notice'[q] = notice[q]
  BY <1>1, <1>3
<1>6. k \notin Astray' \/ k \in Astray \ InHand
  <2>1. CASE k \notin found
    BY <1>1, <1>3, <2>1 DEF Astray
  <2>2. CASE k \in found /\ told
    <3>1. open'[k] = passAt /\ notice'[k] = passAt
      BY <1>0, <1>1, <1>2, <1>3, <2>2 DEF SaidInTime, Stamp
    <3> QED BY <1>3, <3>1, Constants DEF Astray
  <2>3. CASE k \in found /\ ~told
    <3>1. open'[k] = passAt - RepeatAfter /\ notice'[k] = notice[k]
      BY <1>1, <1>3, <2>3 DEF Stamp
    <3>2. open[k] = Never \/ passAt - open[k] >= RepeatAfter
      BY <1>0, <1>1, <1>2, <2>3 DEF SaidInTime
    <3>3. InHand = {}
      BY <2>3 DEF InHand
    <3>4. ASSUME notice[k] # Never, passAt - RepeatAfter < notice[k], open[k] # Never
          PROVE  open[k] < notice[k]
      BY <1>3, <3>2, <3>4, Constants
    <3>5. passAt - RepeatAfter # Never
      BY <1>3, Constants
    <3> QED BY <1>3, <3>1, <3>3, <3>4, <3>5 DEF Astray
  <2> QED BY <1>3, <2>1, <2>2, <2>3
<1>7. (Astray \ InHand)' \subseteq Astray \ InHand
  <2> SUFFICES ASSUME NEW q \in Keys, q \in Astray', q \notin InHand'
               PROVE  q \in Astray \ InHand
    BY DEF Astray
  <2>1. CASE q = k
    BY <1>6, <2>1
  <2>2. CASE q # k
    <3>1. q \in Astray
      BY <1>5, <2>2 DEF Astray
    <3>2. q \notin InHand
      BY <1>1, <1>2, <2>2 DEF InHand
    <3> QED BY <3>1, <3>2
  <2> QED BY <2>1, <2>2
<1> QED BY <1>2, <1>4, <1>7, NoneStrays

\* A process that dies after the message and before its rows leaves at most all of them astray.
LEMMA DeathCounts ==
  ASSUME NoticeInv, ProcessDies
  PROVE  SaidInTime' /\ EarlyCounted'
<1>0. Timely
  BY DEF NoticeInv
<1>1. pc' = "idle" /\ crashes' = crashes + 1 /\ UNCHANGED <<open, notice, early>>
  BY DEF ProcessDies
<1>2. SaidInTime'
  BY <1>1 DEF SaidInTime
<1>3. PICK S, T : S = (Astray \ InHand)' /\ T = Astray \ InHand
  OBVIOUS
<1>4. S \in SUBSET Keys /\ T \in SUBSET Keys
  BY <1>3 DEF Astray
<1>5. /\ Cardinality(S) \in Nat /\ Cardinality(S) =< Cardinality(Keys) /\ Cardinality(Keys) \in Nat
      /\ Cardinality(T) \in Nat
  BY <1>4, Strays, KeysCounted
<1>6. early \in Nat /\ crashes \in Nat
  BY <1>0 DEF Timely, JobTypeOK, NoticesTyped
<1>7. early + Cardinality(T) =< crashes * Cardinality(Keys)
  BY <1>3 DEF NoticeInv, EarlyCounted
<1>8. /\ (crashes + 1) * Cardinality(Keys) = crashes * Cardinality(Keys) + Cardinality(Keys)
      /\ crashes * Cardinality(Keys) \in Nat
  BY <1>5, <1>6
<1>9. early' + Cardinality(S) =< crashes' * Cardinality(Keys)
  BY <1>1, <1>5, <1>6, <1>7, <1>8
<1> QED BY <1>2, <1>3, <1>9 DEF EarlyCounted

LEMMA NoticeStep ==
  ASSUME NoticeInv, [JobNext]_jobVars
  PROVE  NoticeInv'
<1>0. Timely /\ Timely'
  BY TimelyStep DEF NoticeInv
\* A step that says nothing, writes no row and leaves the pass where a message has no consequence.
<1>1. ASSUME UNCHANGED <<open, notice, early>>, crashes' = crashes \/ crashes' = crashes + 1,
             \/ UNCHANGED <<pc, passAt, found, told, todo>>
             \/ pc' # "save" /\ (pc # "save" \/ todo = {})
      PROVE  NoticeInv'
  <2>1. SaidInTime'
    BY <1>1 DEF NoticeInv, SaidInTime
  <2>2. InHand' = InHand
    BY <1>1 DEF InHand
  <2>3. (Astray \ InHand)' \subseteq Astray \ InHand
    BY <1>1, <2>2 DEF Astray
  <2> QED BY <1>0, <1>1, <2>1, <2>3, NoneStrays DEF NoticeInv
<1>2. CASE UNCHANGED jobVars
  BY <1>1, <1>2 DEF jobVars, passVars, history
<1>3. CASE Tick
  BY <1>1, <1>3 DEF Tick, passVars
<1>4. ASSUME NEW j \in AllJobs, Fire(j)
      PROVE  NoticeInv'
  <2>1. UNCHANGED <<open, found, told, todo, notice, early, crashes>>
    BY <1>4 DEF Fire, history
  <2>2. UNCHANGED <<pc, passAt>> \/ (pc' = "orphans" /\ pc = "idle")
    BY <1>0, <1>4 DEF Fire, Timely, JobTypeOK, PassTyped
  <2> QED BY <1>1, <2>1, <2>2
<1>5. ASSUME NEW j \in Jobs, Skip(j) \/ Finish(j)
      PROVE  NoticeInv'
  BY <1>1, <1>5 DEF Skip, Finish, passVars, history
<1>6. CASE SchedulerDies
  BY <1>1, <1>6 DEF SchedulerDies, passVars
<1>7. CASE Restart
  BY <1>1, <1>7 DEF Restart, passVars, history
<1>8. CASE CloseOrphans \/ Scan
  BY <1>1, <1>8 DEF CloseOrphans, Scan, history
<1>9. CASE EndPass
  BY <1>1, <1>9 DEF EndPass
<1>10. CASE ProcessDies \/ Send \/ Save
  BY <1>0, <1>10, DeathCounts, SendCounts, SaveCounts DEF NoticeInv
<1> QED BY <1>2, <1>3, <1>4, <1>5, <1>6, <1>7, <1>8, <1>9, <1>10 DEF JobNext

\* services/watchdog.py, run_check: while a problem lasts, the operator is told of
\* it again before the repeat interval is over only when a pass stopped between
\* its message and its rows, and then once for each problem at most.
THEOREM NoticesAreSpaced == JobSpec => []NoticesSpaced
<1>1. JobInit => NoticeInv
  BY NoticeInit
<1>2. NoticeInv /\ [JobNext]_jobVars => NoticeInv'
  BY NoticeStep
<1>3. NoticeInv => NoticesSpaced
  <2> SUFFICES ASSUME NoticeInv
               PROVE  NoticesSpaced
    OBVIOUS
  <2>1. PICK T : T = Astray \ InHand
    OBVIOUS
  <2>2. T \in SUBSET Keys
    BY <2>1 DEF Astray
  <2>3. Cardinality(T) \in Nat
    BY <2>2, Strays
  <2>4. early \in Nat /\ crashes * Cardinality(Keys) \in Int
    BY KeysCounted DEF NoticeInv, Timely, JobTypeOK, NoticesTyped
  <2> QED BY <2>1, <2>3, <2>4 DEF NoticeInv, EarlyCounted, NoticesSpaced
<1> QED BY <1>1, <1>2, <1>3, PTL DEF JobSpec
=============================================================================
