------------------------------ MODULE Writers ------------------------------
(***************************************************************************)
(* What the model writes: the daily brief (services/brief.py), the weekly  *)
(* analyst notes (services/analyst_notes.py), the French of both           *)
(* (services/translation.py) and the script that fills in missing French   *)
(* (scripts/backfill_translations.py), over the rows of store/briefs.py    *)
(* and store/analyst_notes.py and the counters brief_spend and note_spend  *)
(* (store/spend.py).                                                       *)
(*                                                                         *)
(* A writer is a process: the scheduled job or a command next to it.  It   *)
(* may stop between any two commits and while it waits for the model.  A   *)
(* text is known by its number, its French by the number of the English it *)
(* was made from; every reply of the model costs one unit.                 *)
(***************************************************************************)
EXTENDS Integers, FiniteSetsExt, SequencesExt

CONSTANTS
    BriefDays,      \* the days a brief is asked for, past ones with --date
    Tickers, Weeks, \* the equities, in the order of their names, and the Mondays notes are asked for
    Writers, Fillers,
    Budget,         \* BRIEF_DAILY_CAP_CENTS, NOTES_DAILY_CAP_CENTS
    MaxDay, MaxTexts, MaxNews, MaxStops, MaxFills,    \* bounds
    None

ASSUME WritersAssumption ==
    /\ BriefDays \subseteq Int /\ Tickers \in Seq(STRING) /\ Weeks \subseteq Int
    /\ \A S \in {BriefDays, Weeks, Writers, Fillers} : IsFiniteSet(S)
    /\ Budget \in Nat \ {0} /\ {MaxDay, MaxTexts, MaxNews, MaxStops, MaxFills} \subseteq Nat
    /\ None \notin Int

VARIABLES
    rows,       \* briefs and analyst_notes: the English, the French, what the context held
    material,   \* the news, corporate actions and financial periods of each ticker, as a version
    utcDay,     \* the current UTC day
    spend,      \* brief_spend and note_spend, by day
    writer, filler,
    texts,      \* English texts written so far
    charged,    \* history: what the provider charged writers on each day, by counter
    due,        \* history: what writer w was charged and is not on a counter, save what a stop lost
    unbilled,   \* history: translations of the script that are on no counter
    fills, stops

writeVars == <<rows, material, utcDay, spend, writer, filler, texts, charged, due, unbilled, fills, stops>>

Desks == {"brief", "note"}
Brief(day) == <<"brief", day>>
Note(ticker, week) == <<"note", ticker, week>>
Pieces == {Brief(d) : d \in BriefDays} \cup {Note(t, w) : t \in ToSet(Tickers), w \in Weeks}
Desk(piece) == piece[1]
NoRow == [en |-> None, fr |-> None, seen |-> None]
Off == [at |-> "off", todo |-> <<>>, day |-> 0, seen |-> None, en |-> None, fr |-> None, cost |-> 0]

Texts == 1..MaxTexts \cup {None}
Seen == 0..MaxNews \cup {None}

Job(steps) ==
    [at : steps, todo : Seq(Pieces), day : 0..MaxDay, seen : Seen, en : Texts, fr : Texts, cost : 0..2]

WriterSteps == {"off", "next", "gathered", "allowed", "empty", "written", "noFrench", "ready", "saved", "counted"}
FillerSteps == {"off", "next", "read", "empty", "translated"}

WriteTypeOK ==
    /\ rows \in [Pieces -> [en : Texts, fr : Texts, seen : Seen]]
    /\ material \in [ToSet(Tickers) -> 0..MaxNews] /\ utcDay \in 0..MaxDay
    /\ spend \in [Desks \X (BriefDays \cup 0..MaxDay) -> Nat] /\ charged \in [Desks \X (0..MaxDay) -> Nat]
    /\ writer \in [Writers -> Job(WriterSteps)] /\ filler \in [Fillers -> Job(FillerSteps)]
    /\ texts \in 0..MaxTexts /\ stops \in 0..MaxStops /\ fills \in 0..MaxFills
    /\ due \in [Writers -> Int] /\ unbilled \in Nat

WriteInit ==
    /\ rows = [p \in Pieces |-> NoRow]
    /\ material = [t \in ToSet(Tickers) |-> 0] /\ utcDay = 0
    /\ spend = [k \in Desks \X (BriefDays \cup 0..MaxDay) |-> 0] /\ charged = [k \in Desks \X (0..MaxDay) |-> 0]
    /\ writer = [w \in Writers |-> Off] /\ filler = [b \in Fillers |-> Off]
    /\ texts = 0 /\ due = [w \in Writers |-> 0] /\ unbilled = 0 /\ fills = 0 /\ stops = 0

BudgetLeft(desk, day) == IF spend[<<desk, day>>] >= Budget THEN 0 ELSE Budget - spend[<<desk, day>>]

\* Mutant of AddUsage: a second call of a day is not added.
AddUsageOnce(desk, day, cost) == spend' = [spend EXCEPT ![<<desk, day>>] = IF @ = 0 THEN cost ELSE @]

\* add_usage: one commit.
AddUsage(desk, day, cost) == spend' = [spend EXCEPT ![<<desk, day>>] = @ + cost]

Put(w, record) == writer' = [writer EXCEPT ![w] = record]
Piece(w) == Head(writer[w].todo)
Done(w) == [Off EXCEPT !.at = "next", !.todo = Tail(writer[w].todo)]

\* The provider charges a reply the moment it is made.
Charge(w, cost) ==
    /\ charged' = [charged EXCEPT ![<<Desk(Piece(w)), utcDay>>] = @ + cost]
    /\ due' = [due EXCEPT ![w] = @ + cost]

Settle(w, cost) ==
    /\ AddUsage(Desk(Piece(w)), writer[w].day, cost)
    /\ LET counter == <<Desk(Piece(w)), writer[w].day>>
       IN  due' = [due EXCEPT ![w] = @ - (spend'[counter] - spend[counter])]

(***************************************************************************)
(* The world.                                                              *)
(***************************************************************************)
NextDay ==
    /\ utcDay < MaxDay
    /\ utcDay' = utcDay + 1
    /\ UNCHANGED <<rows, material, spend, writer, filler, texts, charged, due, unbilled, fills, stops>>

\* News is tagged, an action is announced, a period is extracted; or an old item leaves the window.
NewMaterial(t) ==
    /\ \E m \in 0..MaxNews : m # material[t] /\ material' = [material EXCEPT ![t] = m]
    /\ UNCHANGED <<rows, utcDay, spend, writer, filler, texts, charged, due, unbilled, fills, stops>>

StopWriter(w) ==
    /\ writer[w].at # "off" /\ stops < MaxStops
    /\ stops' = stops + 1
    /\ due' = [due EXCEPT ![w] = @ - writer[w].cost]
    /\ Put(w, Off)
    /\ UNCHANGED <<rows, material, utcDay, spend, filler, texts, charged, unbilled, fills>>

(***************************************************************************)
(* generate_for of the brief, generate_for_all and generate_for_ticker of  *)
(* the notes.                                                              *)
(***************************************************************************)
\* Mutant of BriefSpendDay: the day covered.
BriefSpendDayCovered(covered) == covered

\* The counter of a brief is that of the day the job runs on, whatever day it covers (F-19).
BriefSpendDay(covered) == utcDay

StartBrief(w, day) ==
    /\ writer[w].at = "off" /\ day <= utcDay
    /\ Put(w, [Off EXCEPT !.at = "gathered", !.todo = <<Brief(day)>>, !.day = BriefSpendDay(day)])
    /\ UNCHANGED <<rows, material, utcDay, spend, filler, texts, charged, due, unbilled, fills, stops>>

\* The weekly job walks every equity; the command takes one.
StartNotes(w, week) ==
    /\ writer[w].at = "off"
    /\ \E some \in {Tickers} \cup {<<Tickers[k]>> : k \in DOMAIN Tickers} :
        Put(w, [Off EXCEPT !.at = "next", !.todo = [k \in DOMAIN some |-> Note(some[k], week)]])
    /\ UNCHANGED <<rows, material, utcDay, spend, filler, texts, charged, due, unbilled, fills, stops>>

\* gather_context, as far as the fingerprint of a context tells two contexts apart.
GatherNote(w) ==
    /\ writer[w].at = "next"
    /\ Put(w, IF writer[w].todo = <<>> THEN Off ELSE [writer[w] EXCEPT !.at = "gathered", !.seen = material[Piece(w)[2]]])
    /\ UNCHANGED <<rows, material, utcDay, spend, filler, texts, charged, due, unbilled, fills, stops>>

\* latest_for_ticker
NotesOf(t) == {p \in Pieces : Desk(p) = "note" /\ p[2] = t /\ rows[p] # NoRow}
LatestNote(t) == CHOOSE p \in NotesOf(t) : \A q \in NotesOf(t) : q[3] <= p[3]

\* Nothing changed since the last note, if that is of another week.
Unchanged(piece, seen) ==
    /\ Desk(piece) = "note" /\ NotesOf(piece[2]) # {}
    /\ LatestNote(piece[2])[3] # piece[3]
    /\ rows[LatestNote(piece[2])].seen = seen

SkipNote(w) ==
    /\ writer[w].at = "gathered" /\ Unchanged(Piece(w), writer[w].seen)
    /\ Put(w, Done(w))
    /\ UNCHANGED <<rows, material, utcDay, spend, filler, texts, charged, due, unbilled, fills, stops>>

\* The counter of a note is that of the day it is about to be written.
SpendDay(w) == IF Desk(Piece(w)) = "brief" THEN writer[w].day ELSE utcDay

\* The budget is read once before the text is written; its translation is not asked about again.
CheckCap(w) ==
    /\ writer[w].at = "gathered" /\ ~Unchanged(Piece(w), writer[w].seen)
    /\ Put(w, IF BudgetLeft(Desk(Piece(w)), SpendDay(w)) > 0 THEN [writer[w] EXCEPT !.at = "allowed", !.day = SpendDay(w)] ELSE Done(w))
    /\ UNCHANGED <<rows, material, utcDay, spend, filler, texts, charged, due, unbilled, fills, stops>>

\* _call_model: a text, an empty reply that is charged, or an error that is not.
WriteEnglish(w) ==
    /\ writer[w].at = "allowed"
    /\ \/ /\ texts < MaxTexts
          /\ texts' = texts + 1
          /\ Put(w, [writer[w] EXCEPT !.at = "written", !.en = texts', !.cost = 1])
          /\ Charge(w, 1)
       \/ /\ Put(w, [writer[w] EXCEPT !.at = "empty", !.cost = 1])
          /\ Charge(w, 1)
          /\ UNCHANGED texts
       \/ /\ Put(w, Done(w))
          /\ UNCHANGED <<texts, charged, due>>
    /\ UNCHANGED <<rows, material, utcDay, spend, filler, unbilled, fills, stops>>

RecordEmpty(w) ==
    /\ writer[w].at = "empty"
    /\ Settle(w, 1)
    /\ Put(w, Done(w))
    /\ UNCHANGED <<rows, material, utcDay, filler, texts, charged, unbilled, fills, stops>>

\* translate_or_none: French, an empty reply that is charged, or an error that is not.
WriteFrench(w) ==
    /\ writer[w].at = "written"
    /\ \/ /\ Put(w, [writer[w] EXCEPT !.at = "ready", !.fr = writer[w].en, !.cost = 2])
          /\ Charge(w, 1)
       \/ /\ Put(w, [writer[w] EXCEPT !.at = "noFrench", !.cost = 2])
          /\ Charge(w, 1)
       \/ /\ Put(w, [writer[w] EXCEPT !.at = "ready"])
          /\ UNCHANGED <<charged, due>>
    /\ UNCHANGED <<rows, material, utcDay, spend, filler, texts, unbilled, fills, stops>>

\* An empty translation is recorded before the text it was of.
RecordNoFrench(w) ==
    /\ writer[w].at = "noFrench"
    /\ Settle(w, 1)
    /\ Put(w, [writer[w] EXCEPT !.at = "ready", !.cost = 1])
    /\ UNCHANGED <<rows, material, utcDay, filler, texts, charged, unbilled, fills, stops>>

\* Mutant of Row: an upsert that coalesces the French.
RowKeepsFrench(w) ==
    [en |-> writer[w].en, seen |-> writer[w].seen,
     fr |-> IF writer[w].fr = None THEN rows[Piece(w)].fr ELSE writer[w].fr]

\* INSERT OR REPLACE: the French of the replaced row goes with it.
Row(w) == [en |-> writer[w].en, fr |-> writer[w].fr, seen |-> writer[w].seen]

Upsert(w) ==
    /\ writer[w].at = "ready"
    /\ rows' = [rows EXCEPT ![Piece(w)] = Row(w)]
    /\ Put(w, [writer[w] EXCEPT !.at = "saved"])
    /\ UNCHANGED <<material, utcDay, spend, filler, texts, charged, due, unbilled, fills, stops>>

\* add_usage of the text, then of its French, each with a commit of its own.
RecordEnglish(w) ==
    /\ writer[w].at = "saved"
    /\ Settle(w, 1)
    /\ Put(w, IF writer[w].fr = None THEN Done(w) ELSE [writer[w] EXCEPT !.at = "counted", !.cost = 1])
    /\ UNCHANGED <<rows, material, utcDay, filler, texts, charged, unbilled, fills, stops>>

RecordFrench(w) ==
    /\ writer[w].at = "counted"
    /\ Settle(w, 1)
    /\ Put(w, Done(w))
    /\ UNCHANGED <<rows, material, utcDay, filler, texts, charged, unbilled, fills, stops>>

(***************************************************************************)
(* scripts/backfill_translations.py                                        *)
(***************************************************************************)
Pending(desk) == {p \in Pieces : Desk(p) = desk /\ rows[p].en # None /\ rows[p].fr = None}

Fill(b, record) == filler' = [filler EXCEPT ![b] = record]
Filling(b) == Head(filler[b].todo)
Filled(b) == [filler[b] EXCEPT !.at = "next", !.todo = Tail(@), !.en = None]

\* The rows are listed once, briefs first; the day is that of the start.
StartBackfill(b) ==
    /\ filler[b].at = "off" /\ fills < MaxFills
    /\ fills' = fills + 1
    /\ \E briefs \in SetToSeqs(Pending("brief")), notes \in SetToSeqs(Pending("note")) :
        Fill(b, [Off EXCEPT !.at = "next", !.todo = briefs \o notes, !.day = utcDay])
    /\ UNCHANGED <<rows, material, utcDay, spend, writer, texts, charged, due, unbilled, stops>>

ReadPending(b) ==
    /\ filler[b].at = "next"
    /\ Fill(b, IF filler[b].todo = <<>> THEN Off ELSE [filler[b] EXCEPT !.at = "read", !.en = rows[Filling(b)].en])
    /\ UNCHANGED <<rows, material, utcDay, spend, writer, texts, charged, due, unbilled, fills, stops>>

\* translate_or_none records an empty reply itself; a translation it returns is for its caller to record.
Translate(b) ==
    /\ filler[b].at = "read"
    /\ \/ Fill(b, [filler[b] EXCEPT !.at = "translated"])
       \/ Fill(b, [filler[b] EXCEPT !.at = "empty"])
       \/ Fill(b, Filled(b))
    /\ UNCHANGED <<rows, material, utcDay, spend, writer, texts, charged, due, unbilled, fills, stops>>

RecordUntranslated(b) ==
    /\ filler[b].at = "empty"
    /\ AddUsage(Desk(Filling(b)), filler[b].day, 1)
    /\ Fill(b, Filled(b))
    /\ UNCHANGED <<rows, material, utcDay, writer, texts, charged, due, unbilled, fills, stops>>

\* The row may have been written again since it was read.
SetTranslation(b) ==
    /\ filler[b].at = "translated"
    /\ rows' = [rows EXCEPT ![Filling(b)].fr = filler[b].en]
    /\ unbilled' = unbilled + 1
    /\ Fill(b, Filled(b))
    /\ UNCHANGED <<material, utcDay, spend, writer, texts, charged, due, fills, stops>>

\* The script is stopped; a translation it waited for or held is lost with it.
StopFiller(b) ==
    /\ filler[b].at # "off" /\ stops < MaxStops
    /\ stops' = stops + 1
    /\ Fill(b, Off)
    /\ UNCHANGED <<rows, material, utcDay, spend, writer, texts, charged, due, unbilled, fills>>

\* What a brief and a note have in common once the cap is in the way.
WriteAndRecord(w) ==
    \/ CheckCap(w) \/ WriteEnglish(w) \/ RecordEmpty(w) \/ WriteFrench(w)
    \/ RecordNoFrench(w) \/ Upsert(w) \/ RecordEnglish(w) \/ RecordFrench(w)

GenerateFor(w) == writer[w].todo # <<>> /\ Desk(Piece(w)) = "brief" /\ WriteAndRecord(w)
GenerateForTicker(w) == writer[w].todo # <<>> /\ Desk(Piece(w)) = "note" /\ (SkipNote(w) \/ WriteAndRecord(w))

WriterNext(w) ==
    \/ \E d \in BriefDays : StartBrief(w, d)
    \/ \E k \in Weeks : StartNotes(w, k)
    \/ GatherNote(w) \/ GenerateFor(w) \/ GenerateForTicker(w) \/ StopWriter(w)

FillerNext(b) ==
    \/ StartBackfill(b) \/ ReadPending(b) \/ Translate(b) \/ RecordUntranslated(b) \/ SetTranslation(b)
    \/ StopFiller(b)

WriteNext ==
    \/ NextDay
    \/ \E t \in ToSet(Tickers) : NewMaterial(t)
    \/ \E w \in Writers : WriterNext(w)
    \/ \E b \in Fillers : FillerNext(b)

WriteSpec == WriteInit /\ [][WriteNext]_writeVars

-----------------------------------------------------------------------------

\* Every reply a writer is charged for is on the counter of its product, or in the hands of the writer that
\* is about to record it, on every path: text, empty reply, French, empty French.
EveryTextIsCounted == \A w \in Writers : due[w] = writer[w].cost

\* What writers cost on one real day stays within the cap, one text and its French of each writer beyond it,
\* as much again of writers that asked before midnight, and what stops kept off the counter: however many
\* past days or weeks are asked for on that day.
DayBillBounded ==
    \A desk \in Desks, d \in 0..MaxDay :
        charged[<<desk, d>>] <= Budget - 1 + 2 * Cardinality(Writers) * (IF d > 0 THEN 2 ELSE 1) + 2 * stops

\* No writer leaves a row whose French is of an English it replaced: a text written again is either
\* translated again or pending again.
FrenchIsOfItsEnglish ==
    [][\A p \in Pieces : rows'[p].en # rows[p].en => rows'[p].fr \in {None, rows'[p].en}]_writeVars

=============================================================================
