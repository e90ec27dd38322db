--------------------------- MODULE FilingPipeline ---------------------------
(***************************************************************************)
(* From a published PDF to fundamentals: the pull, OCR and extraction jobs *)
(* (services/filings.py, services/ocr.py, services/fundamentals.py) over   *)
(* the rows of store/filings.py, the files under data/filings and the      *)
(* daily ledger of store/spend.py.                                         *)
(*                                                                         *)
(* The three jobs run nightly an hour apart, may take hours, and have      *)
(* command-line twins, so they interleave.  Each lists its rows once;      *)
(* every file, row and ledger update is a step of its own, and a pass may  *)
(* stop between any two.                                                   *)
(***************************************************************************)
EXTENDS Integers, FiniteSets

CONSTANTS
    Filings,     \* the PDF URLs the source lists
    Name,        \* Name[f]: the file name built from date, type and period
    Scanned,     \* filings published without a text layer
    Unreadable,  \* filings pypdf fails on
    Pullers, Extractors,    \* passes of these jobs that may run at the same time
    Estimate, Cost, Cap,    \* preflight's estimate of a call, what one reply costs, the daily cap
    NoFiling, NoPath,
    MaxFaults, MaxAborts    \* bounds on provider failures and on stopped passes

ASSUME FilingAssumption ==
    /\ Scanned \subseteq Filings
    /\ Unreadable \subseteq Filings \ Scanned /\ NoFiling \notin Filings
ASSUME BudgetAssumption == Estimate \in 1..Cap /\ Cost \in Nat \ {0} /\ Cap \in Nat /\ Estimate =< 2 * Cost
ASSUME BoundAssumption == MaxFaults \in Nat /\ MaxAborts \in Nat

Paths == {Name[f] : f \in Filings} \X (Filings \cup {NoFiling})

ASSUME PathAssumption == NoPath \notin Paths

VARIABLES
    disk,        \* what each path holds: a filing's PDF, as published or OCR'd (to no text, "blank")
    filePath, digest, scanned, extracted, ocrTried,   \* filings rows; no row while filePath is NoPath
    day, ledger, \* the UTC day (modulo two, see NewDay) and filings_spend
    puPc, puHand, puPath,      \* each pull pass
    ocPc, ocRows, ocHand,      \* the OCR pass
    exPc, exRows, exHand, exDay, exBill, exUsable,    \* each extraction pass
    billed, paid,              \* history: billed calls per filing, cost per day
    faults, aborts             \* history

rowVars == <<filePath, digest, scanned, extracted, ocrTried>>
spendVars == <<day, ledger>>
pullVars == <<puPc, puHand, puPath>>
ocrVars == <<ocPc, ocRows, ocHand>>
extractVars == <<exPc, exRows, exHand, exDay, exBill, exUsable>>
billVars == <<billed, paid>>
vars == <<disk, rowVars, spendVars, pullVars, ocrVars, extractVars, billVars, faults, aborts>>

Days == {0, 1}
NoFile == <<NoFiling, "raw">>
Files == Filings \X {"raw", "ocr", "blank"} \cup {NoFile}
HasRow(f) == filePath[f] # NoPath

RowsTyped ==
    /\ disk \in [Paths -> Files] /\ digest \in [Filings -> Files]
    /\ filePath \in [Filings -> Paths \cup {NoPath}]
    /\ scanned \in [Filings -> BOOLEAN] /\ extracted \in [Filings -> BOOLEAN] /\ ocrTried \in [Filings -> BOOLEAN]

SpendTyped ==
    /\ billed \in [Filings -> Nat]
    /\ day \in Days /\ ledger \in [Days -> Nat] /\ paid \in [Days -> Nat]

PullsTyped ==
    /\ puPc \in [Pullers -> {"idle", "get", "insert"}]
    /\ puHand \in [Pullers -> Filings \cup {NoFiling}] /\ puPath \in [Pullers -> Paths \cup {NoPath}]
    /\ \A u \in Pullers : puPc[u] = "idle" <=> puHand[u] = NoFiling

OcrTyped ==
    /\ ocPc \in {"idle", "next", "ok", "already", "failed"}
    /\ ocRows \subseteq Filings /\ ocHand \in Filings \cup {NoFiling}
    /\ ocPc \in {"idle", "next"} <=> ocHand = NoFiling

ExtractsTyped ==
    /\ exPc \in [Extractors -> {"idle", "next", "scan", "budget", "call", "record", "persist", "stamp"}]
    /\ exRows \in [Extractors -> SUBSET Filings] /\ exHand \in [Extractors -> Filings \cup {NoFiling}]
    /\ exDay \in [Extractors -> Days] /\ exBill \in [Extractors -> Nat] /\ exUsable \in [Extractors -> BOOLEAN]
    /\ \A x \in Extractors :
          /\ exPc[x] \in {"idle", "next"} <=> exHand[x] = NoFiling
          /\ exBill[x] # 0 => exPc[x] \in {"record", "persist", "stamp"}

TypeOK ==
    /\ RowsTyped /\ SpendTyped /\ PullsTyped /\ OcrTyped /\ ExtractsTyped
    /\ faults \in 0..MaxFaults /\ aborts \in 0..MaxAborts

Init ==
    /\ disk = [p \in Paths |-> NoFile] /\ digest = [f \in Filings |-> NoFile]
    /\ filePath = [f \in Filings |-> NoPath]
    /\ scanned = [f \in Filings |-> FALSE] /\ extracted = [f \in Filings |-> FALSE] /\ ocrTried = [f \in Filings |-> FALSE]
    /\ billed = [f \in Filings |-> 0]
    /\ day = 0 /\ ledger = [d \in Days |-> 0] /\ paid = [d \in Days |-> 0]
    /\ puPc = [u \in Pullers |-> "idle"] /\ puHand = [u \in Pullers |-> NoFiling] /\ puPath = [u \in Pullers |-> NoPath]
    /\ ocPc = "idle" /\ ocRows = {} /\ ocHand = NoFiling
    /\ exPc = [x \in Extractors |-> "idle"] /\ exRows = [x \in Extractors |-> {}]
    /\ exHand = [x \in Extractors |-> NoFiling] /\ exDay = [x \in Extractors |-> 0]
    /\ exBill = [x \in Extractors |-> 0] /\ exUsable = [x \in Extractors |-> FALSE]
    /\ faults = 0 /\ aborts = 0

Fault == faults < MaxFaults /\ faults' = faults + 1

(***************************************************************************)
(* pull_all: one filing of the listing at a time.                          *)
(***************************************************************************)
\* Mutant of Destination: no look at the disk.
DestinationPlain(f) == <<Name[f], NoFiling>>

\* A name already taken gets the URL's hash as a suffix.
Destination(f) ==
    IF disk[<<Name[f], NoFiling>>] # NoFile THEN <<Name[f], f>> ELSE <<Name[f], NoFiling>>

PullEnd(u) ==
    /\ puPc' = [puPc EXCEPT ![u] = "idle"]
    /\ puHand' = [puHand EXCEPT ![u] = NoFiling]
    /\ puPath' = [puPath EXCEPT ![u] = NoPath]

PullCheck(u) ==
    /\ puPc[u] = "idle"
    /\ \E f \in Filings :
          /\ ~HasRow(f)
          /\ puHand' = [puHand EXCEPT ![u] = f]
          /\ puPath' = [puPath EXCEPT ![u] = Destination(f)]
    /\ puPc' = [puPc EXCEPT ![u] = "get"]
    /\ UNCHANGED <<disk, rowVars, spendVars, ocrVars, extractVars, billVars, faults, aborts>>

\* The finished download replaces whatever the path holds.
PullDownload(u) ==
    /\ puPc[u] = "get"
    /\ disk' = [disk EXCEPT ![puPath[u]] = <<puHand[u], "raw">>]
    /\ puPc' = [puPc EXCEPT ![u] = "insert"]
    /\ UNCHANGED <<rowVars, spendVars, puHand, puPath, ocrVars, extractVars, billVars, faults, aborts>>

PullFails(u) ==
    /\ puPc[u] = "get"
    /\ Fault /\ PullEnd(u)
    /\ UNCHANGED <<disk, rowVars, spendVars, ocrVars, extractVars, billVars, aborts>>

\* What came down was no PDF: the file goes again.
PullRejects(u) ==
    /\ puPc[u] = "insert"
    /\ disk' = [disk EXCEPT ![puPath[u]] = NoFile]
    /\ Fault /\ PullEnd(u)
    /\ UNCHANGED <<rowVars, spendVars, ocrVars, extractVars, billVars, aborts>>

\* INSERT ... ON CONFLICT(url_hash) DO NOTHING
PullInsert(u) ==
    LET f == puHand[u]
    IN /\ puPc[u] = "insert"
       /\ IF HasRow(f)
            THEN UNCHANGED <<filePath, digest>>
            ELSE /\ filePath' = [filePath EXCEPT ![f] = puPath[u]]
                 /\ digest' = [digest EXCEPT ![f] = <<f, "raw">>]
       /\ PullEnd(u)
       /\ UNCHANGED <<disk, scanned, extracted, ocrTried, spendVars, ocrVars, extractVars, billVars, faults, aborts>>

(***************************************************************************)
(* ocr_pending                                                             *)
(***************************************************************************)
OcrPending == {f \in Filings : HasRow(f) /\ scanned[f] /\ ~ocrTried[f]}

OcrStart ==
    /\ ocPc = "idle" /\ OcrPending # {}
    /\ ocRows' = OcrPending /\ ocPc' = "next"
    /\ UNCHANGED <<disk, rowVars, spendVars, pullVars, ocHand, extractVars, billVars, faults, aborts>>

OcrFinish ==
    /\ ocPc = "next" /\ ocRows = {}
    /\ ocPc' = "idle"
    /\ UNCHANGED <<disk, rowVars, spendVars, pullVars, ocRows, ocHand, extractVars, billVars, faults, aborts>>

\* The tool writes a copy that replaces the file, with or without text, finds text already there, or
\* fails on the file (a timeout, a bad exit, a missing file).
OcrFile ==
    /\ ocPc = "next"
    /\ \E f \in ocRows :
          LET pdf == disk[filePath[f]]
          IN /\ ocRows' = ocRows \ {f} /\ ocHand' = f
             /\ \/ ocPc' = "failed" /\ UNCHANGED disk
                \/ /\ pdf # NoFile
                   /\ \E form \in {"ocr", "blank"} : disk' = [disk EXCEPT ![filePath[f]] = <<pdf[1], form>>]
                   /\ ocPc' = "ok"
                \/ pdf[2] # "raw" /\ ocPc' = "already" /\ UNCHANGED disk
    /\ UNCHANGED <<rowVars, spendVars, pullVars, extractVars, billVars, faults, aborts>>

OcrUnavailable ==
    /\ ocPc = "next" /\ ocRows # {} /\ Fault
    /\ ocPc' = "idle" /\ ocRows' = {}
    /\ UNCHANGED <<disk, rowVars, spendVars, pullVars, ocHand, extractVars, billVars, aborts>>

\* apply_ocr_success: back to the extractor's queue, with the new digest or,
\* for a file that had text, the one the row carried.
OcrSuccess ==
    /\ ocPc \in {"ok", "already"}
    /\ scanned' = [scanned EXCEPT ![ocHand] = FALSE]
    /\ extracted' = [extracted EXCEPT ![ocHand] = FALSE]
    /\ ocrTried' = [ocrTried EXCEPT ![ocHand] = TRUE]
    /\ digest' = [digest EXCEPT ![ocHand] = IF ocPc = "ok" THEN disk[filePath[ocHand]] ELSE @]
    /\ ocPc' = "next" /\ ocHand' = NoFiling
    /\ UNCHANGED <<disk, filePath, spendVars, pullVars, ocRows, extractVars, billVars, faults, aborts>>

\* Mutant of OcrFailure: the attempt is not stamped.
OcrFailureUntried ==
    /\ ocPc = "failed"
    /\ ocPc' = "next" /\ ocHand' = NoFiling
    /\ UNCHANGED <<disk, rowVars, spendVars, pullVars, ocRows, extractVars, billVars, faults, aborts>>

\* apply_ocr_failure
OcrFailure ==
    /\ ocPc = "failed"
    /\ ocrTried' = [ocrTried EXCEPT ![ocHand] = TRUE]
    /\ ocPc' = "next" /\ ocHand' = NoFiling
    /\ UNCHANGED <<disk, filePath, digest, scanned, extracted, spendVars, pullVars, ocRows, extractVars, billVars, faults, aborts>>

(***************************************************************************)
(* extract_pending                                                         *)
(***************************************************************************)
ExtractPending == {f \in Filings : HasRow(f) /\ ~extracted[f] /\ ~scanned[f]}

Textless(pdf) == pdf[1] \in Scanned /\ pdf[2] # "ocr"

\* The filing in hand is done with.
Drop(x) ==
    /\ exHand' = [exHand EXCEPT ![x] = NoFiling]
    /\ exBill' = [exBill EXCEPT ![x] = 0]
    /\ exUsable' = [exUsable EXCEPT ![x] = FALSE]

To(x, step) == exPc' = [exPc EXCEPT ![x] = step]

ExtractStart(x) ==
    /\ exPc[x] = "idle" /\ ExtractPending # {}
    /\ exRows' = [exRows EXCEPT ![x] = ExtractPending]
    /\ exDay' = [exDay EXCEPT ![x] = day]
    /\ To(x, "next")
    /\ UNCHANGED <<disk, rowVars, spendVars, pullVars, ocrVars, exHand, exBill, exUsable, billVars, faults, aborts>>

ExtractFinish(x) ==
    /\ exPc[x] = "next" /\ exRows[x] = {}
    /\ To(x, "idle")
    /\ exDay' = [exDay EXCEPT ![x] = 0]
    /\ UNCHANGED <<disk, rowVars, spendVars, pullVars, ocrVars, exRows, exHand, exBill, exUsable, billVars, faults, aborts>>

\* Read the next PDF.  A missing file is skipped, one pypdf fails on is
\* stamped, one without text is marked scanned.
ExtractOpen(x) ==
    /\ exPc[x] = "next"
    /\ \E f \in exRows[x] :
          LET pdf == disk[filePath[f]]
          IN /\ exRows' = [exRows EXCEPT ![x] = @ \ {f}]
             /\ IF pdf = NoFile
                  THEN UNCHANGED <<exPc, exHand>>
                  ELSE /\ exHand' = [exHand EXCEPT ![x] = f]
                       /\ To(x, IF pdf[1] \in Unreadable THEN "stamp"
                                ELSE IF Textless(pdf) THEN "scan" ELSE "budget")
    /\ UNCHANGED <<disk, rowVars, spendVars, pullVars, ocrVars, exDay, exBill, exUsable, billVars, faults, aborts>>

ExtractScanned(x) ==
    /\ exPc[x] = "scan"
    /\ extracted' = [extracted EXCEPT ![exHand[x]] = TRUE]
    /\ scanned' = [scanned EXCEPT ![exHand[x]] = TRUE]
    /\ To(x, "next") /\ Drop(x)
    /\ UNCHANGED <<disk, filePath, digest, ocrTried, spendVars, pullVars, ocrVars, exRows, exDay, billVars, faults, aborts>>

\* Mutant of Affordable: any budget left will do.
AffordableAny(d) == ledger[d] < Cap

Affordable(d) == ledger[d] + Estimate =< Cap

ExtractBudget(x) ==
    /\ exPc[x] = "budget"
    /\ IF Affordable(exDay[x])
         THEN To(x, "call") /\ UNCHANGED <<exHand, exBill, exUsable>>
         ELSE To(x, "next") /\ Drop(x)
    /\ UNCHANGED <<disk, rowVars, spendVars, pullVars, ocrVars, exRows, exDay, billVars, faults, aborts>>

\* extract_filing asks once, and once more after an unusable reply.  Every
\* reply is billed.  A transport error before any reply is an
\* LLMResponseError with nothing billed.
ExtractCall(x) ==
    LET f == exHand[x]
    IN /\ exPc[x] = "call"
       /\ \E replies \in 0..2, usable \in BOOLEAN :
             /\ IF replies = 0 THEN ~usable /\ Fault ELSE UNCHANGED faults
             /\ exBill' = [exBill EXCEPT ![x] = replies * Cost]
             /\ exUsable' = [exUsable EXCEPT ![x] = usable]
             /\ paid' = [paid EXCEPT ![exDay[x]] = @ + replies * Cost]
             /\ billed' = [billed EXCEPT ![f] = IF replies > 0 THEN @ + 1 ELSE @]
       /\ To(x, "record")
       /\ UNCHANGED <<disk, rowVars, spendVars, pullVars, ocrVars, exRows, exHand, exDay, aborts>>

\* Mutant of ExtractRecord: a failed call is not stamped.
ExtractRecordRetries(x) ==
    /\ exPc[x] = "record"
    /\ ledger' = [ledger EXCEPT ![exDay[x]] = @ + exBill[x]]
    /\ IF exUsable[x]
         THEN To(x, "persist") /\ UNCHANGED <<exHand, exBill, exUsable>>
         ELSE To(x, "next") /\ Drop(x)
    /\ UNCHANGED <<disk, rowVars, day, pullVars, ocrVars, exRows, exDay, billVars, faults, aborts>>

ExtractRecord(x) ==
    /\ exPc[x] = "record"
    /\ ledger' = [ledger EXCEPT ![exDay[x]] = @ + exBill[x]]
    /\ To(x, IF exUsable[x] THEN "persist" ELSE "stamp")
    /\ UNCHANGED <<disk, rowVars, day, pullVars, ocrVars, exRows, exHand, exDay, exBill, exUsable, billVars, faults, aborts>>

\* The figures go to tables no job here reads; an extract without a period or
\* without figures writes nothing and is stamped all the same.
ExtractPersist(x) ==
    /\ exPc[x] = "persist"
    /\ To(x, "stamp")
    /\ UNCHANGED <<disk, rowVars, spendVars, pullVars, ocrVars, exRows, exHand, exDay, exBill, exUsable, billVars, faults, aborts>>

\* mark_extracted
ExtractStamp(x) ==
    /\ exPc[x] = "stamp"
    /\ extracted' = [extracted EXCEPT ![exHand[x]] = TRUE]
    /\ To(x, "next") /\ Drop(x)
    /\ UNCHANGED <<disk, filePath, digest, scanned, ocrTried, spendVars, pullVars, ocrVars, exRows, exDay, billVars, faults, aborts>>

(***************************************************************************)
(* A pass stops: the process exits, or a statement raises.                 *)
(***************************************************************************)
Stop == aborts < MaxAborts /\ aborts' = aborts + 1

PullAbort(u) ==
    /\ puPc[u] # "idle" /\ Stop /\ PullEnd(u)
    /\ UNCHANGED <<disk, rowVars, spendVars, ocrVars, extractVars, billVars, faults>>

OcrAbort ==
    /\ ocPc # "idle" /\ Stop
    /\ ocPc' = "idle" /\ ocRows' = {} /\ ocHand' = NoFiling
    /\ UNCHANGED <<disk, rowVars, spendVars, pullVars, extractVars, billVars, faults>>

ExtractAbort(x) ==
    /\ exPc[x] # "idle" /\ Stop
    /\ To(x, "idle") /\ Drop(x)
    /\ exRows' = [exRows EXCEPT ![x] = {}] /\ exDay' = [exDay EXCEPT ![x] = 0]
    /\ UNCHANGED <<disk, rowVars, spendVars, pullVars, ocrVars, billVars, faults>>

\* Midnight UTC.  A pass is over before the midnight after next, so two days
\* are told apart and the row of the day before is never read again.
NewDay ==
    /\ \A x \in Extractors : exPc[x] # "idle" => exDay[x] = day
    /\ day' = 1 - day
    /\ ledger' = [ledger EXCEPT ![1 - day] = 0]
    /\ paid' = [paid EXCEPT ![1 - day] = 0]
    /\ UNCHANGED <<disk, rowVars, pullVars, ocrVars, extractVars, billed, faults, aborts>>

(***************************************************************************)
(* The specification.                                                      *)
(***************************************************************************)
Pull(u) == PullCheck(u) \/ PullDownload(u) \/ PullFails(u) \/ PullRejects(u) \/ PullInsert(u)
Ocr == OcrStart \/ OcrFile \/ OcrUnavailable \/ OcrSuccess \/ OcrFailure \/ OcrFinish
Extract(x) ==
    \/ ExtractStart(x) \/ ExtractOpen(x) \/ ExtractScanned(x) \/ ExtractBudget(x) \/ ExtractCall(x)
    \/ ExtractRecord(x) \/ ExtractPersist(x) \/ ExtractStamp(x) \/ ExtractFinish(x)

Next ==
    \/ \E u \in Pullers : Pull(u) \/ PullAbort(u)
    \/ Ocr \/ OcrAbort
    \/ \E x \in Extractors : Extract(x) \/ ExtractAbort(x)
    \/ NewDay

Spec == Init /\ [][Next]_vars

\* The scheduler runs the three jobs every night.
FairSpec ==
    /\ Spec
    /\ \A u \in Pullers : WF_vars(Pull(u))
    /\ WF_vars(Ocr)
    /\ \A x \in Extractors : WF_vars(Extract(x))
    /\ WF_vars(NewDay)

(***************************************************************************)
(* Properties.                                                             *)
(***************************************************************************)

FileIsOwn == \A f \in Filings : HasRow(f) => disk[filePath[f]][1] = f

DigestIsCurrent ==
    aborts = 0 =>
        \A f \in Filings : HasRow(f) /\ ocHand # f => digest[f] = disk[filePath[f]]

\* Each row's path holds that filing's own PDF, although file names collide
\* and a stopped pass leaves files without rows: "Different URLs with the same
\* filename get a hash suffix so the second one doesn't overwrite the first".
\* The digest in the row is that of the file, except while OCR has the filing
\* in hand or after a pass stopped between the file and the row.
RowsMatchFiles == FileIsOwn /\ DigestIsCurrent

\* "the 4b worker never bills the same PDF twice": with one worker, OCR sending
\* rows back to its queue and calls failing, a PDF is billed again only after
\* a pass was stopped.
BilledOnce == \A f \in Filings : billed[f] =< 1 + aborts

\* What a day really cost stays under the cap, but for what the last call cost
\* over its estimate (longer or second replies) and the calls a stopped pass
\* did not record.
CapHeld == \A d \in Days : paid[d] =< Cap + (2 * Cost - Estimate) + 2 * Cost * aborts

\* Both queues drain: every listed filing is pulled, read or given up, and
\* neither queue sees it again.  OCR and extraction hand a row to and fro at
\* most once.
Settled(f) == HasRow(f) /\ extracted[f] /\ (scanned[f] => ocrTried[f])
EveryFilingSettles == \A f \in Filings : <>[]Settled(f)

=============================================================================
