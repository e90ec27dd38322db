------------------------------- MODULE Schema -------------------------------
(***************************************************************************)
(* The schema of the database: scripts/migrate.py, which may be stopped    *)
(* between two statements and may run twice at once, and the check of      *)
(* db.py that the web server, the terminal and `migrate.py --check` make   *)
(* against the files a deploy brings.                                      *)
(*                                                                         *)
(* A migration is the sequence of its statements.  A "guarded" one does    *)
(* nothing the second time (CREATE ... IF NOT EXISTS, INSERT ... WHERE NOT *)
(* EXISTS); a "once" one raises (ALTER TABLE ... ADD COLUMN, CREATE TABLE).*)
(***************************************************************************)
EXTENDS Integers, Sequences

CONSTANTS
    Migrations,        \* by file name, in the order of their ids
    Runs,              \* runs of the script at the same time
    NoTable, Unasked, Refused

ASSUME MigrationsAssumption == Migrations \in Seq(Seq({"guarded", "once"}))

\* What stands for a table or an answer that is not there is no set of ids.
ASSUME MarksAssumption == \A S \in SUBSET DOMAIN Migrations : S \notin {NoTable, Unasked, Refused}

VARIABLES
    scDisk,            \* the ids of the files on disk; none are shipped in a wheel
    scTracker,         \* _schema_migrations; NoTable: nor is there a file, maybe
    scApplied,         \* per migration, how many of its statements took effect
    scRun,             \* each run of the script
    scSaid             \* what each program was told when it started

scVars == <<scDisk, scTracker, scApplied, scRun, scSaid>>

Ids == DOMAIN Migrations
Programs == {"web", "tui", "check"}
NoRun == [at |-> "off", todo |-> {}, next |-> 1, listed |-> {}]

\* available_migration_ids is sorted; applied_migration_ids; pending_migrations.
First(todo) == CHOOSE i \in todo : \A j \in todo : i =< j
AppliedIds == IF scTracker = NoTable THEN {} ELSE scTracker

\* Mutant of Pending: only what is newer than the newest applied one.
NewerOnly == {i \in scDisk : \A j \in AppliedIds : i > j}

Pending == scDisk \ AppliedIds

SchemaInit ==
    /\ scDisk = {} /\ scTracker = NoTable /\ scApplied = [i \in Ids |-> 0]
    /\ scRun = [r \in Runs |-> NoRun] /\ scSaid = [p \in Programs |-> Unasked]

\* A deploy: the files of one branch or of several, in any order of their ids.
Deploy(S) ==
    /\ S # {} /\ scDisk \cap S = {} /\ scDisk' = scDisk \cup S
    /\ UNCHANGED <<scTracker, scApplied, scRun, scSaid>>

-----------------------------------------------------------------------------
(* apply_all.                                                              *)

\* ensure_migrations_table; the ids it has, and the files, are read once.
ApplyAll(r) ==
    /\ scRun[r].at # "on"
    /\ scTracker' = AppliedIds
    /\ LET todo == scDisk \ AppliedIds
       IN  scRun' = [scRun EXCEPT ![r] = [at |-> IF todo = {} THEN "done" ELSE "on", todo |-> todo, next |-> 1, listed |-> scDisk]]
    /\ UNCHANGED <<scDisk, scApplied, scSaid>>

\* Every statement of executescript commits by itself; one that raises ends
\* the run.
Statement(r) ==
    /\ scRun[r].at = "on"
    /\ LET i == First(scRun[r].todo)
           k == scRun[r].next
       IN  /\ k =< Len(Migrations[i])
           /\ IF Migrations[i][k] = "once" /\ k =< scApplied[i]
              THEN scRun' = [scRun EXCEPT ![r] = NoRun] /\ UNCHANGED scApplied
              ELSE /\ scRun' = [scRun EXCEPT ![r].next = k + 1]
                   /\ scApplied' = [scApplied EXCEPT ![i] = IF k > @ THEN k ELSE @]
    /\ UNCHANGED <<scDisk, scTracker, scSaid>>

\* Mutant of Recordable: an id is recorded before the last statement.
RecordedEarly(r) == scRun[r].at = "on" /\ scRun[r].next >= Len(Migrations[First(scRun[r].todo)])

\* The id is inserted when the script has run to its end.
Recordable(r) == scRun[r].at = "on" /\ scRun[r].next > Len(Migrations[First(scRun[r].todo)])

\* A second row of one id raises.
RecordId(r) ==
    /\ Recordable(r)
    /\ LET i == First(scRun[r].todo)
           rest == scRun[r].todo \ {i}
       IN  IF i \in scTracker
           THEN scRun' = [scRun EXCEPT ![r] = NoRun] /\ UNCHANGED scTracker
           ELSE /\ scTracker' = scTracker \cup {i}
                /\ scRun' = [scRun EXCEPT ![r].todo = rest, ![r].next = 1,
                                          ![r].at = IF rest = {} THEN "done" ELSE "on"]
    /\ UNCHANGED <<scDisk, scApplied, scSaid>>

Killed(r) ==
    /\ scRun[r].at = "on" /\ scRun' = [scRun EXCEPT ![r] = NoRun]
    /\ UNCHANGED <<scDisk, scTracker, scApplied, scSaid>>

-----------------------------------------------------------------------------
(* The check.                                                              *)

\* Mutant of AssertSchemaCurrent: one applied file is enough.
AnyApplied == Pending = {} \/ AppliedIds # {}

\* assert_schema_current passes when nothing is pending.
AssertSchemaCurrent == Pending = {}

\* The server's lifespan, the terminal's main and --check ask before they do
\* anything with the database, and go on, or refuse.
Ask(p) ==
    /\ scSaid[p] = Unasked
    /\ scSaid' = [scSaid EXCEPT ![p] = IF AssertSchemaCurrent THEN scDisk ELSE Refused]
    /\ UNCHANGED <<scDisk, scTracker, scApplied, scRun>>
Lifespan == Ask("web")
TuiMain == Ask("tui")
Check == Ask("check")

Ends(p) ==
    /\ scSaid[p] # Unasked /\ scSaid' = [scSaid EXCEPT ![p] = Unasked]
    /\ UNCHANGED <<scDisk, scTracker, scApplied, scRun>>

SchemaNext ==
    \/ \E S \in SUBSET Ids : Deploy(S)
    \/ \E r \in Runs : ApplyAll(r)
    \/ \E r \in Runs : Statement(r)
    \/ \E r \in Runs : RecordId(r)
    \/ \E r \in Runs : Killed(r)
    \/ Lifespan
    \/ TuiMain
    \/ Check
    \/ \E p \in Programs : Ends(p)

SchemaSpec == SchemaInit /\ [][SchemaNext]_scVars

-----------------------------------------------------------------------------
Whole(S) == \A i \in S : scApplied[i] = Len(Migrations[i])

\* A program that was let through has, in the database, every statement of
\* every migration it was shipped with, whichever runs of the script were
\* killed between two statements or met another run, and whatever a deploy
\* added later; and a run that reports it is done leaves nothing it listed
\* half applied, although another run may have applied part of it.
ServedWhole ==
    /\ \A p \in Programs : scSaid[p] \notin {Unasked, Refused} => Whole(scSaid[p])
    /\ \A r \in Runs : scRun[r].at = "done" => Whole(scRun[r].listed) /\ scRun[r].listed \subseteq scTracker
=============================================================================
