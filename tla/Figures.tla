------------------------------ MODULE Figures ------------------------------
(***************************************************************************)
(* What the extracted filings of one issuer add up to: the upsert of       *)
(* store/financials.py, the recovery passes and the readers behind the     *)
(* ticker page of services/fundamentals.py.  FilingPipeline has the jobs,  *)
(* the budget and the crashes; here a filing in turn is extracted, or not, *)
(* and what is followed is the content of the rows.                        *)
(***************************************************************************)
EXTENDS Listings, SequencesExt

CONSTANTS
    Papers,      \* the issuer's filings, a sequence: oldest publication first
    Extracts,    \* what the model may read in a filing
    Years, NoYear, NoKind, NoRow

Lines == {"profit", "cashflow"}      \* the seven figures read together, and the three of cash flow
Kinds == {"annual", "H1", "Q1", "Q3", "other"}
Periods == Years \X Kinds
Indices == DOMAIN Papers
FigureRow == [figures : [Lines -> Int], paper : Indices]

\* A filing has the year, kind and document type its file name tells.
ASSUME PapersAssumption ==
    /\ Years \subseteq Int /\ IsFiniteSet(Years) /\ NoYear \notin Years
    /\ NoKind \notin Kinds /\ NoRow \notin FigureRow
    /\ Papers \in Seq([year : Years \cup {NoYear}, kind : Kinds \cup {NoKind}, rank : 1..7])
    /\ \A x \in Extracts :
        x.year \in Years \cup {NoYear} /\ x.kind \in Kinds \cup {NoKind} /\ x.figures \in [Lines -> Int]

VARIABLES
    fgRows,      \* financials: a row per period, its figures and the filing it is stamped with
    fgSegments, fgOwners,         \* financial_segments and ownership, per period
    fgExtracted, fgTried,         \* filings.extracted_utc and cashflow_recovery_attempted_utc
    fgQueue,     \* the rows the extraction pass under way still has to do
    fgGiven      \* history: the figures and lists some extract gave, per period

fgVars == <<fgRows, fgSegments, fgOwners, fgExtracted, fgTried, fgQueue, fgGiven>>

Extractable == {p \in Indices : Papers[p].rank =< 3}

FiguresInit ==
    /\ fgRows = [q \in Periods |-> NoRow]
    /\ fgSegments = [q \in Periods |-> <<>>] /\ fgOwners = [q \in Periods |-> <<>>]
    /\ fgExtracted = {} /\ fgTried = {} /\ fgQueue = <<>>
    /\ fgGiven = [q \in Periods |-> {}]

\* The named rows of a list, the first of each name.
Distinct(list) ==
    FoldLeft(LAMBDA kept, n : IF n = "" \/ Contains(kept, n) THEN kept ELSE Append(kept, n), <<>>, list)

\* Mutant of Merged: an upsert that overwrites every column.
Overwrite(new, old) == new

\* The new value of a column: the one read, and the one kept when none was.
Merged(new, old) == [l \in Lines |-> IF new[l] # 0 THEN new[l] ELSE old[l]]

\* store/financials.py replace_period: one transaction.
ReplacePeriod(q, p, x) ==
    LET segments == Distinct(x.segments)
        owners == Distinct(x.owners)
        old == IF fgRows[q] = NoRow THEN [l \in Lines |-> 0] ELSE fgRows[q].figures
    IN  /\ fgRows' = [fgRows EXCEPT ![q] = [figures |-> Merged(x.figures, old), paper |-> p]]
        /\ fgSegments' = IF segments = <<>> THEN fgSegments ELSE [fgSegments EXCEPT ![q] = segments]
        /\ fgOwners' = IF owners = <<>> THEN fgOwners ELSE [fgOwners EXCEPT ![q] = owners]
        /\ fgGiven' = [fgGiven EXCEPT ![q] = @ \cup {l \in Lines : x.figures[l] # 0}
                              \cup {n \in {"segments", "owners"} :
                                        IF n = "segments" THEN segments # <<>> ELSE owners # <<>>}]

\* Mutant of KindOf: the kind the model read goes first.
KindByModel(p, x) ==
    IF x.kind # NoKind THEN x.kind ELSE IF Papers[p].kind # NoKind THEN Papers[p].kind ELSE "annual"

\* The period a filing's extract is stored under: the year the model read, the
\* kind the file name tells.
KindOf(p, x) ==
    IF Papers[p].kind # NoKind THEN Papers[p].kind ELSE IF x.kind # NoKind THEN x.kind ELSE "annual"
PeriodOf(p, x) == <<IF x.year # NoYear THEN x.year ELSE Papers[p].year, KindOf(p, x)>>

\* An extract without a period, or without anything in it, stores nothing.
Usable(p, x) ==
    /\ PeriodOf(p, x)[1] # NoYear
    /\ (\E l \in Lines : x.figures[l] # 0) \/ x.segments # <<>> \/ x.owners # <<>>

Older == {o \in Indices \X Indices : o[1] < o[2]}

\* extract_pending: the extractable rows not stamped yet, oldest first.
Pass ==
    /\ fgQueue = <<>>
    /\ fgQueue' = Listing(Extractable \ fgExtracted, Older)
    /\ fgQueue' # <<>>
    /\ UNCHANGED <<fgRows, fgSegments, fgOwners, fgExtracted, fgTried, fgGiven>>

\* A filing answered with an extract.
ExtractPaper(x) ==
    /\ fgQueue # <<>> /\ Usable(Head(fgQueue), x)
    /\ ReplacePeriod(PeriodOf(Head(fgQueue), x), Head(fgQueue), x)
    /\ fgExtracted' = fgExtracted \cup {Head(fgQueue)} /\ fgQueue' = Tail(fgQueue)
    /\ UNCHANGED fgTried

\* A filing that failed or gave nothing usable: stamped, nothing stored.
ExtractNothing ==
    /\ fgQueue # <<>>
    /\ fgExtracted' = fgExtracted \cup {Head(fgQueue)} /\ fgQueue' = Tail(fgQueue)
    /\ UNCHANGED <<fgRows, fgSegments, fgOwners, fgTried, fgGiven>>

\* Filings of a stored period whose document type is richer than that of the
\* filing the row is stamped with.
Shadowed ==
    {p \in fgExtracted : \E q \in Periods :
        /\ fgRows[q] # NoRow /\ q = <<Papers[p].year, Papers[p].kind>>
        /\ fgRows[q].paper # p /\ Papers[p].rank < Papers[fgRows[q].paper].rank}

\* reset_shadowed_extractions
RecoverShadowed ==
    /\ fgQueue = <<>> /\ Shadowed # {}
    /\ fgExtracted' = fgExtracted \ Shadowed
    /\ UNCHANGED <<fgRows, fgSegments, fgOwners, fgTried, fgQueue, fgGiven>>

Cashless ==
    {p \in fgExtracted \ fgTried : \E y \in Years :
        LET r == fgRows[<<y, "annual">>] IN r # NoRow /\ r.paper = p /\ r.figures["cashflow"] = 0}

\* reset_missing_cashflow
RecoverCashflow ==
    /\ fgQueue = <<>> /\ Cashless # {}
    /\ fgExtracted' = fgExtracted \ Cashless /\ fgTried' = fgTried \cup Cashless
    /\ UNCHANGED <<fgRows, fgSegments, fgOwners, fgQueue, fgGiven>>

FiguresNext ==
    \/ Pass
    \/ \E x \in Extracts : ExtractPaper(x)
    \/ ExtractNothing
    \/ RecoverShadowed
    \/ RecoverCashflow

FiguresSpec == FiguresInit /\ [][FiguresNext]_fgVars

-----------------------------------------------------------------------------
(* The readers of the ticker page.                                         *)

Newest(S) == CHOOSE y \in S : \A z \in S : z =< y
AnnualYears == {y \in Years : fgRows[<<y, "annual">>] # NoRow}

\* get_financials_series: the annual rows, newest first.
Series == Listing(AnnualYears, {o \in Years \X Years : o[1] > o[2]})

\* get_latest_interim: the last interim period, and only while no annual row
\* covers its year.
KindRank == [annual |-> 5, Q3 |-> 4, H1 |-> 3, Q1 |-> 2, other |-> 1]
Later(q, r) == q[1] > r[1] \/ (q[1] = r[1] /\ KindRank[q[2]] > KindRank[r[2]])
Interims == {q \in Periods : q[2] # "annual" /\ fgRows[q] # NoRow}
LatestInterim ==
    LET last == CHOOSE q \in Interims : \A r \in Interims \ {q} : Later(q, r)
    IN  IF Interims = {} THEN {}
        ELSE IF \E y \in AnnualYears : y >= last[1] THEN {} ELSE {last}

\* Mutant of OwnersShown: those of the latest annual period, if it has any.
LatestOwners ==
    IF AnnualYears = {} THEN <<>> ELSE fgOwners[<<Newest(AnnualYears), "annual">>]

\* get_segments and get_ownership: the latest annual period that has rows.
SegmentsShown ==
    LET S == {y \in AnnualYears : fgSegments[<<y, "annual">>] # <<>>}
    IN  IF S = {} THEN <<>> ELSE fgSegments[<<Newest(S), "annual">>]
OwnersShown ==
    LET S == {y \in AnnualYears : fgOwners[<<y, "annual">>] # <<>>}
    IN  IF S = {} THEN <<>> ELSE fgOwners[<<Newest(S), "annual">>]

\* get_financials_source_filings: one reference per stored period.
References == Listing({q \in Periods : fgRows[q] # NoRow}, {o \in Periods \X Periods : Later(o[1], o[2])})

-----------------------------------------------------------------------------
FiguresCompose ==
    /\ \A q \in Periods : fgRows[q] # NoRow =>
        fgGiven[q] = {l \in Lines : fgRows[q].figures[l] # 0}
            \cup (IF fgSegments[q] # <<>> THEN {"segments"} ELSE {})
            \cup (IF fgOwners[q] # <<>> THEN {"owners"} ELSE {})
    /\ \A i \in DOMAIN Series : Contains(References, <<Series[i], "annual">>)
    /\ \A q \in LatestInterim : \A i \in DOMAIN References : References[i] = q \/ Later(q, References[i])

TabsKeepData == (OwnersShown # <<>> => OwnersShown' # <<>>) /\ (SegmentsShown # <<>> => SegmentsShown' # <<>>)

InterimKeepsAnnual ==
    \A y \in Years : fgRows'[<<y, "annual">>] # fgRows[<<y, "annual">>]
        => Papers[fgRows'[<<y, "annual">>].paper].kind \in {"annual", NoKind}

\* Whatever order the filings of a period are extracted in, and however often
\* a recovery pass has one extracted again, the period shows exactly the
\* figures and the lists some extract of it gave (replace_period: "now the two
\* compose"), and the page gives each stored period one reference.  A later
\* filing without a shareholder register or segments never empties the
\* Ownership and Segments tabs (F-07), and one its file name tells to be an
\* interim report never touches an annual row, whatever the model takes it for.
FiguresStand == [][FiguresCompose' /\ TabsKeepData /\ InterimKeepsAnnual]_fgVars
=============================================================================
