---------------------------- MODULE FilingProofs ----------------------------
(***************************************************************************)
(* Theorems about FilingPipeline, for every set of filings, whatever their *)
(* names, and every number of faults and of stopped passes.  Each states   *)
(* how many passes of a job it allows at the same time.                    *)
(***************************************************************************)
EXTENDS FilingPipeline, TLAPS

(***************************************************************************)
(* Typing.                                                                 *)
(***************************************************************************)
\* A pull past its listing has a path to write to, and the OCR pass works on rows.
Handed ==
    /\ \A u \in Pullers : puPc[u] # "idle" => puPath[u] \in Paths
    /\ \A f \in ocRows : HasRow(f)
    /\ ocHand # NoFiling => HasRow(ocHand)

Typed == TypeOK /\ Handed

LEMMA TypingInit == Init => Typed
  BY FilingAssumption, BoundAssumption
     DEF Init, Typed, Handed, TypeOK, RowsTyped, SpendTyped, PullsTyped, OcrTyped, ExtractsTyped, Days, Files, NoFile

\* The path a filing is pulled to is one of the paths.
LEMMA DestinationIsPath ==
  ASSUME NEW f \in Filings
  PROVE  Destination(f) \in Paths
  BY DEF Destination, Paths

LEMMA FilesMade == NoFile \in Files /\ \A f \in Filings : <<f, "raw">> \in Files
  BY DEF Files

LEMMA PullTyping ==
  ASSUME Typed, NEW u \in Pullers, Pull(u) \/ PullAbort(u)
  PROVE  Typed'
<1> USE FilingAssumption, BoundAssumption, PathAssumption
    DEF Typed, TypeOK, rowVars, spendVars, ocrVars, extractVars, billVars
<1>1. CASE PullCheck(u)
  <2>1. PICK f \in Filings : ~HasRow(f) /\ puHand' = [puHand EXCEPT ![u] = f] /\ puPath' = [puPath EXCEPT ![u] = Destination(f)]
    BY <1>1 DEF PullCheck
  <2>2. PullsTyped' /\ \A v \in Pullers : puPc'[v] # "idle" => puPath'[v] \in Paths
    BY <1>1, <2>1, DestinationIsPath DEF PullCheck, PullsTyped, Handed
  <2> QED BY <1>1, <2>2 DEF PullCheck, RowsTyped, SpendTyped, OcrTyped, ExtractsTyped, Handed, HasRow
<1>2. CASE PullDownload(u)
  <2>1. puHand[u] \in Filings /\ puPath[u] \in Paths
    BY <1>2 DEF PullDownload, PullsTyped, Handed
  <2>2. RowsTyped'
    BY <1>2, <2>1 DEF PullDownload, RowsTyped, Files
  <2> QED BY <1>2, <2>1, <2>2 DEF PullDownload, PullsTyped, SpendTyped, OcrTyped, ExtractsTyped, Handed, HasRow
<1>3. CASE PullFails(u) \/ PullAbort(u)
  <2>1. PullsTyped' /\ \A v \in Pullers : puPc'[v] # "idle" => puPath'[v] \in Paths
    BY <1>3 DEF PullFails, PullAbort, PullEnd, PullsTyped, Handed
  <2>2. faults' \in 0..MaxFaults /\ aborts' \in 0..MaxAborts
    BY <1>3 DEF PullFails, PullAbort, Fault, Stop
  <2> QED BY <1>3, <2>1, <2>2 DEF PullFails, PullAbort, RowsTyped, SpendTyped, OcrTyped, ExtractsTyped, Handed, HasRow
<1>4. CASE PullRejects(u)
  <2>1. PullsTyped' /\ \A v \in Pullers : puPc'[v] # "idle" => puPath'[v] \in Paths
    BY <1>4 DEF PullRejects, PullEnd, PullsTyped, Handed
  <2>2. RowsTyped'
    BY <1>4, FilesMade DEF PullRejects, RowsTyped
  <2>3. faults' \in 0..MaxFaults
    BY <1>4 DEF PullRejects, Fault
  <2> QED BY <1>4, <2>1, <2>2, <2>3 DEF PullRejects, SpendTyped, OcrTyped, ExtractsTyped, Handed, HasRow
<1>5. CASE PullInsert(u)
  <2>1. puHand[u] \in Filings /\ puPath[u] \in Paths
    BY <1>5 DEF PullInsert, PullsTyped, Handed
  <2>2. PullsTyped' /\ \A v \in Pullers : puPc'[v] # "idle" => puPath'[v] \in Paths
    BY <1>5 DEF PullInsert, PullEnd, PullsTyped, Handed
  <2>3. RowsTyped'
    BY <1>5, <2>1, FilesMade DEF PullInsert, RowsTyped
  <2>4. \A f \in Filings : HasRow(f) => HasRow(f)'
    BY <1>5, <2>1 DEF PullInsert, RowsTyped, HasRow
  <2> QED BY <1>5, <2>2, <2>3, <2>4 DEF PullInsert, SpendTyped, OcrTyped, ExtractsTyped, Handed
<1> QED BY <1>1, <1>2, <1>3, <1>4, <1>5 DEF Pull

LEMMA OcrTyping ==
  ASSUME Typed, Ocr \/ OcrAbort
  PROVE  Typed'
<1> USE FilingAssumption, BoundAssumption, PathAssumption
    DEF Typed, TypeOK, rowVars, spendVars, pullVars, extractVars, billVars
<1>1. CASE OcrStart \/ OcrFinish \/ OcrUnavailable \/ OcrAbort
  <2>1. OcrTyped' /\ faults' \in 0..MaxFaults /\ aborts' \in 0..MaxAborts
    BY <1>1 DEF OcrStart, OcrFinish, OcrUnavailable, OcrAbort, OcrPending, Fault, Stop, OcrTyped
  <2>2. Handed'
    BY <1>1 DEF OcrStart, OcrFinish, OcrUnavailable, OcrAbort, OcrPending, Handed, HasRow, OcrTyped
  <2> QED BY <1>1, <2>1, <2>2
          DEF OcrStart, OcrFinish, OcrUnavailable, OcrAbort, RowsTyped, SpendTyped, PullsTyped, ExtractsTyped
<1>2. CASE OcrFile
  <2>1. PICK f \in ocRows :
          /\ ocRows' = ocRows \ {f} /\ ocHand' = f
          /\ \/ ocPc' = "failed" /\ UNCHANGED disk
             \/ /\ disk[filePath[f]] # NoFile
                /\ \E form \in {"ocr", "blank"} : disk' = [disk EXCEPT ![filePath[f]] = <<disk[filePath[f]][1], form>>]
                /\ ocPc' = "ok"
             \/ ocPc' = "already" /\ UNCHANGED disk
    BY <1>2 DEF OcrFile
  <2>2. f \in Filings /\ HasRow(f) /\ filePath[f] \in Paths
    BY <2>1 DEF OcrTyped, Handed, RowsTyped, HasRow
  <2>3. disk' \in [Paths -> Files]
    <3>1. CASE UNCHANGED disk
      BY <3>1 DEF RowsTyped
    <3>2. ASSUME disk[filePath[f]] # NoFile, NEW form \in {"ocr", "blank"},
                 disk' = [disk EXCEPT ![filePath[f]] = <<disk[filePath[f]][1], form>>]
          PROVE  disk' \in [Paths -> Files]
      <4>1. disk[filePath[f]] \in Filings \X {"raw", "ocr", "blank"}
        BY <2>2, <3>2 DEF RowsTyped, Files
      <4>2. <<disk[filePath[f]][1], form>> \in Files
        BY <4>1 DEF Files
      <4> QED BY <3>2, <4>2 DEF RowsTyped
    <3> QED BY <2>1, <3>1, <3>2
  <2>4. RowsTyped'
    BY <1>2, <2>3 DEF OcrFile, RowsTyped
  <2>5. OcrTyped' /\ Handed'
    BY <1>2, <2>1, <2>2 DEF OcrFile, OcrTyped, Handed, HasRow
  <2> QED BY <1>2, <2>4, <2>5 DEF OcrFile, SpendTyped, PullsTyped, ExtractsTyped
<1>3. CASE OcrSuccess
  <2>1. ocHand \in Filings /\ HasRow(ocHand) /\ disk[filePath[ocHand]] \in Files
    BY <1>3 DEF OcrSuccess, OcrTyped, Handed, HasRow, RowsTyped
  <2>2. RowsTyped'
    BY <1>3, <2>1 DEF OcrSuccess, RowsTyped
  <2>3. OcrTyped' /\ Handed'
    BY <1>3 DEF OcrSuccess, OcrTyped, Handed, HasRow
  <2> QED BY <1>3, <2>2, <2>3 DEF OcrSuccess, SpendTyped, PullsTyped, ExtractsTyped
<1>4. CASE OcrFailure
  <2>1. OcrTyped' /\ Handed' /\ RowsTyped'
    BY <1>4 DEF OcrFailure, OcrTyped, Handed, HasRow, RowsTyped
  <2> QED BY <1>4, <2>1 DEF OcrFailure, SpendTyped, PullsTyped, ExtractsTyped
<1> QED BY <1>1, <1>2, <1>3, <1>4 DEF Ocr

LEMMA ExtractTyping ==
  ASSUME Typed, NEW x \in Extractors, Extract(x) \/ ExtractAbort(x)
  PROVE  Typed'
<1> USE FilingAssumption, BudgetAssumption, BoundAssumption, PathAssumption
    DEF Typed, TypeOK, rowVars, spendVars, pullVars, ocrVars, billVars, To, Drop
<1>0. /\ UNCHANGED <<disk, filePath, digest, ocrTried, pullVars, ocrVars>>
      /\ Handed'
  <2>1. UNCHANGED <<disk, filePath, digest, ocrTried, pullVars, ocrVars>>
    BY DEF Extract, ExtractAbort, ExtractStart, ExtractOpen, ExtractScanned, ExtractBudget, ExtractCall,
           ExtractRecord, ExtractPersist, ExtractStamp, ExtractFinish
  <2> QED BY <2>1 DEF Handed, HasRow
<1>1. CASE ExtractStart(x) \/ ExtractFinish(x) \/ ExtractAbort(x)
  <2>1. ExtractsTyped'
    <3>1. CASE ExtractStart(x)
      BY <3>1 DEF ExtractStart, ExtractPending, ExtractsTyped, SpendTyped
    <3>2. CASE ExtractFinish(x)
      BY <3>2 DEF ExtractFinish, ExtractsTyped, Days
    <3>3. CASE ExtractAbort(x)
      BY <3>3 DEF ExtractAbort, ExtractsTyped, Days
    <3> QED BY <1>1, <3>1, <3>2, <3>3
  <2>2. aborts' \in 0..MaxAborts
    BY <1>1 DEF ExtractStart, ExtractFinish, ExtractAbort, Stop
  <2> QED BY <1>0, <1>1, <2>1, <2>2 DEF ExtractStart, ExtractFinish, ExtractAbort, RowsTyped, SpendTyped, PullsTyped, OcrTyped
<1>2. CASE ExtractOpen(x)
  <2>1. ExtractsTyped'
    BY <1>2 DEF ExtractOpen, ExtractsTyped
  <2> QED BY <1>0, <1>2, <2>1 DEF ExtractOpen, RowsTyped, SpendTyped, PullsTyped, OcrTyped
<1>3. CASE ExtractScanned(x) \/ ExtractStamp(x)
  <2>1. ExtractsTyped'
    <3>1. exHand[x] \in Filings
      BY <1>3 DEF ExtractScanned, ExtractStamp, ExtractsTyped
    <3>2. /\ exPc' = [exPc EXCEPT ![x] = "next"] /\ UNCHANGED <<exRows, exDay>>
          /\ exHand' = [exHand EXCEPT ![x] = NoFiling] /\ exBill' = [exBill EXCEPT ![x] = 0]
          /\ exUsable' = [exUsable EXCEPT ![x] = FALSE]
      BY <1>3 DEF ExtractScanned, ExtractStamp
    <3> QED BY <3>2 DEF ExtractsTyped
  <2>2. RowsTyped'
    BY <1>3 DEF ExtractScanned, ExtractStamp, RowsTyped
  <2> QED BY <1>0, <1>3, <2>1, <2>2 DEF ExtractScanned, ExtractStamp, SpendTyped, PullsTyped, OcrTyped
<1>4. CASE ExtractBudget(x) \/ ExtractPersist(x)
  <2>1. ExtractsTyped'
    BY <1>4 DEF ExtractBudget, ExtractPersist, ExtractsTyped
  <2> QED BY <1>0, <1>4, <2>1 DEF ExtractBudget, ExtractPersist, RowsTyped, SpendTyped, PullsTyped, OcrTyped
<1>5. CASE ExtractCall(x)
  <2>1. PICK replies \in 0..2, usable \in BOOLEAN :
          /\ IF replies = 0 THEN ~usable /\ Fault ELSE UNCHANGED faults
          /\ exBill' = [exBill EXCEPT ![x] = replies * Cost]
          /\ exUsable' = [exUsable EXCEPT ![x] = usable]
          /\ paid' = [paid EXCEPT ![exDay[x]] = @ + replies * Cost]
          /\ billed' = [billed EXCEPT ![exHand[x]] = IF replies > 0 THEN @ + 1 ELSE @]
    BY <1>5 DEF ExtractCall
  <2>2. replies * Cost \in Nat /\ exHand[x] \in Filings /\ exDay[x] \in Days
    BY <1>5 DEF ExtractCall, ExtractsTyped
  <2> DEFINE c == replies * Cost
  <2>3. /\ c \in Nat /\ exBill' = [exBill EXCEPT ![x] = c] /\ paid' = [paid EXCEPT ![exDay[x]] = @ + c]
    BY <2>1, <2>2
  <2> HIDE DEF c
  <2>4. ExtractsTyped'
    BY <1>5, <2>1, <2>2, <2>3 DEF ExtractCall, ExtractsTyped
  <2>5. SpendTyped' /\ faults' \in 0..MaxFaults
    BY <1>5, <2>1, <2>2, <2>3 DEF ExtractCall, SpendTyped, Fault
  <2> QED BY <1>0, <1>5, <2>4, <2>5 DEF ExtractCall, RowsTyped, PullsTyped, OcrTyped
<1>6. CASE ExtractRecord(x)
  <2>1. ExtractsTyped'
    BY <1>6 DEF ExtractRecord, ExtractsTyped
  <2>2. SpendTyped'
    BY <1>6 DEF ExtractRecord, SpendTyped, ExtractsTyped
  <2> QED BY <1>0, <1>6, <2>1, <2>2 DEF ExtractRecord, RowsTyped, PullsTyped, OcrTyped
<1> QED BY <1>1, <1>2, <1>3, <1>4, <1>5, <1>6 DEF Extract

LEMMA TypingStep ==
  ASSUME Typed, [Next]_vars
  PROVE  Typed'
<1> USE DEF rowVars, spendVars, pullVars, ocrVars, extractVars, billVars
<1>1. CASE NewDay
  <2>1. SpendTyped'
    BY <1>1 DEF NewDay, Typed, TypeOK, SpendTyped, Days
  <2> QED BY <1>1, <2>1 DEF NewDay, Typed, TypeOK, RowsTyped, PullsTyped, OcrTyped, ExtractsTyped, Handed, HasRow
<1>2. CASE UNCHANGED vars
  BY <1>2 DEF vars, Typed, TypeOK, RowsTyped, SpendTyped, PullsTyped, OcrTyped, ExtractsTyped, Handed, HasRow
<1> QED BY <1>1, <1>2, PullTyping, OcrTyping, ExtractTyping DEF Next

LEMMA AlwaysTyped == Spec => []Typed
<1>1. Init => Typed
  BY TypingInit
<1>2. Typed /\ [Next]_vars => Typed'
  BY TypingStep
<1> QED BY <1>1, <1>2, PTL DEF Spec

\* Every reachable state is well typed, whatever the number of passes: a pass holds a filing
\* exactly while it works on one, and a cost exactly while it has one to account for.
THEOREM FilingTypeCorrect == Spec => []TypeOK
<1>1. Typed => TypeOK
  BY DEF Typed
<1> QED BY <1>1, AlwaysTyped, PTL

(***************************************************************************)
(* Rows and files.                                                         *)
(***************************************************************************)
\* The scheduler runs one pass of a job at a time.
OnePuller == \A u, v \in Pullers : u = v
OneExtractor == \A x, y \in Extractors : x = y

PathsFor(f) == {<<Name[f], NoFiling>>, <<Name[f], f>>}

\* The filing being pulled has no row, and no row has the path it is being pulled to: either
\* nothing was there, or the path bears the filing's own hash.
PullIsClear(u) ==
    /\ ~HasRow(puHand[u]) /\ puPath[u] \in PathsFor(puHand[u])
    /\ \A f \in Filings : HasRow(f) => filePath[f] # puPath[u]
    /\ puPc[u] = "insert" => disk[puPath[u]] = <<puHand[u], "raw">>

\* The digest lags behind the file only between the copy OCR put in place and the row.
DigestKept ==
    aborts = 0 =>
        \A f \in Filings : HasRow(f) /\ ~(ocHand = f /\ ocPc = "ok") => digest[f] = disk[filePath[f]]

Placed ==
    /\ FileIsOwn
    /\ \A f \in Filings : HasRow(f) => filePath[f] \in PathsFor(f)
    /\ \A u \in Pullers : puPc[u] # "idle" => PullIsClear(u)
    /\ DigestKept

LEMMA PlacedInit == Init => Placed
  BY DEF Init, Placed, FileIsOwn, DigestKept, HasRow

\* No two rows have one path.
LEMMA PathsDiffer ==
  ASSUME Placed, NEW f \in Filings, NEW g \in Filings, HasRow(f), HasRow(g), filePath[f] = filePath[g]
  PROVE  f = g
  BY DEF Placed, FileIsOwn

\* A freshly chosen destination is nobody's.
LEMMA DestinationIsClear ==
  ASSUME Typed, Placed, NEW f \in Filings, ~HasRow(f)
  PROVE  /\ Destination(f) \in PathsFor(f)
         /\ \A g \in Filings : HasRow(g) => filePath[g] # Destination(f)
<1>1. ASSUME NEW g \in Filings, HasRow(g), filePath[g] = Destination(f)
      PROVE  FALSE
  <2>1. CASE disk[<<Name[f], NoFiling>>] # NoFile
    <3>1. <<Name[f], f>> \in PathsFor(g) /\ f # g
      BY <1>1, <2>1 DEF Destination, Placed
    <3> QED BY <3>1, FilingAssumption DEF PathsFor
  <2>2. CASE disk[<<Name[f], NoFiling>>] = NoFile
    <3>1. disk[filePath[g]] = NoFile /\ disk[filePath[g]][1] = g
      BY <1>1, <2>2 DEF Destination, Placed, FileIsOwn
    <3> QED BY <3>1, FilingAssumption DEF NoFile
  <2> QED BY <2>1, <2>2
<1> QED BY <1>1 DEF Destination, PathsFor

LEMMA PlacedElsewhere ==
  ASSUME Typed, Placed, UNCHANGED <<disk, filePath, digest, pullVars>>, aborts' = 0 => aborts = 0,
         \A f \in Filings : ocHand = f /\ ocPc = "ok" =>
             (ocHand = f /\ ocPc = "ok")' \/ aborts' # 0 \/ digest[f] = disk[filePath[f]]
  PROVE  Placed'
<1>1. FileIsOwn' /\ \A f \in Filings : HasRow(f)' => filePath'[f] \in PathsFor(f)
  BY DEF Placed, FileIsOwn, HasRow
<1>2. \A u \in Pullers : puPc'[u] # "idle" => PullIsClear(u)'
  BY DEF Placed, PullIsClear, HasRow, pullVars
<1>3. DigestKept'
  BY DEF Placed, DigestKept, HasRow
<1> QED BY <1>1, <1>2, <1>3 DEF Placed

LEMMA PlacedByPull ==
  ASSUME Typed, Placed, OnePuller, NEW u \in Pullers, Pull(u) \/ PullAbort(u)
  PROVE  Placed'
<1> USE DEF rowVars, spendVars, ocrVars, extractVars, billVars
<1>0. \A v \in Pullers : v = u
  BY DEF OnePuller
<1>t. /\ disk \in [Paths -> Files] /\ filePath \in [Filings -> Paths \cup {NoPath}] /\ digest \in [Filings -> Files]
      /\ puPc \in [Pullers -> {"idle", "get", "insert"}] /\ puHand \in [Pullers -> Filings \cup {NoFiling}]
      /\ puPath \in [Pullers -> Paths \cup {NoPath}]
      /\ puPc[u] # "idle" => puHand[u] \in Filings /\ puPath[u] \in Paths
  BY FilingAssumption DEF Typed, TypeOK, RowsTyped, PullsTyped, Handed
<1>1. CASE PullCheck(u)
  <2>1. PICK f \in Filings : ~HasRow(f) /\ puHand' = [puHand EXCEPT ![u] = f] /\ puPath' = [puPath EXCEPT ![u] = Destination(f)]
    BY <1>1 DEF PullCheck
  <2>2. UNCHANGED <<disk, filePath, digest, ocHand, ocPc, aborts>>
    BY <1>1 DEF PullCheck
  <2>3. puHand'[u] = f /\ puPath'[u] = Destination(f) /\ puPc'[u] = "get"
    BY <1>1, <1>t, <2>1 DEF PullCheck
  <2>4. PullIsClear(u)'
    BY <2>1, <2>2, <2>3, DestinationIsClear DEF PullIsClear, HasRow
  <2> QED BY <1>0, <2>2, <2>4 DEF Placed, FileIsOwn, DigestKept, HasRow
<1>2. CASE PullDownload(u)
  <2>1. PullIsClear(u) /\ puHand[u] \in Filings /\ puPath[u] \in Paths
    BY <1>2, <1>t DEF PullDownload, Placed
  <2>2. /\ disk' = [disk EXCEPT ![puPath[u]] = <<puHand[u], "raw">>]
        /\ UNCHANGED <<filePath, digest, puHand, puPath, ocHand, ocPc, aborts>>
    BY <1>2 DEF PullDownload
  <2>3. \A f \in Filings : HasRow(f) => disk'[filePath[f]] = disk[filePath[f]]
    BY <1>t, <2>1, <2>2 DEF PullIsClear, HasRow
  <2>4. PullIsClear(u)'
    BY <1>t, <2>1, <2>2 DEF PullIsClear, HasRow
  <2> QED BY <1>0, <2>2, <2>3, <2>4 DEF Placed, FileIsOwn, DigestKept, HasRow
<1>3. CASE PullFails(u) \/ PullAbort(u)
  <2>1. UNCHANGED <<disk, filePath, digest, ocHand, ocPc>> /\ puPc'[u] = "idle"
    BY <1>3, <1>t DEF PullFails, PullAbort, PullEnd
  <2>2. aborts' = 0 => aborts = 0
    BY <1>3, BoundAssumption DEF PullFails, PullAbort, Stop, Typed, TypeOK
  <2> QED BY <1>0, <2>1, <2>2 DEF Placed, FileIsOwn, DigestKept, HasRow
<1>4. CASE PullRejects(u)
  <2>1. PullIsClear(u) /\ puPath[u] \in Paths
    BY <1>4, <1>t DEF PullRejects, Placed
  <2>2. /\ disk' = [disk EXCEPT ![puPath[u]] = NoFile] /\ puPc'[u] = "idle"
        /\ UNCHANGED <<filePath, digest, ocHand, ocPc, aborts>>
    BY <1>4, <1>t DEF PullRejects, PullEnd
  <2>3. \A f \in Filings : HasRow(f) => disk'[filePath[f]] = disk[filePath[f]]
    BY <1>t, <2>1, <2>2 DEF PullIsClear, HasRow
  <2> QED BY <1>0, <2>2, <2>3 DEF Placed, FileIsOwn, DigestKept, HasRow
<1>5. CASE PullInsert(u)
  <2> DEFINE f == puHand[u]
  <2>1. PullIsClear(u) /\ f \in Filings /\ puPath[u] \in Paths /\ disk[puPath[u]] = <<f, "raw">>
    BY <1>5, <1>t DEF PullInsert, Placed, PullIsClear
  <2>2. /\ filePath' = [filePath EXCEPT ![f] = puPath[u]] /\ digest' = [digest EXCEPT ![f] = <<f, "raw">>]
        /\ puPc'[u] = "idle" /\ UNCHANGED <<disk, ocHand, ocPc, aborts>>
    BY <1>5, <1>t, <2>1 DEF PullInsert, PullEnd, PullIsClear
  <2>3. filePath'[f] = puPath[u] /\ digest'[f] = <<f, "raw">>
    BY <1>t, <2>1, <2>2
  <2>4. \A g \in Filings \ {f} : filePath'[g] = filePath[g] /\ digest'[g] = digest[g]
    BY <1>t, <2>2
  <2>5. FileIsOwn' /\ DigestKept' /\ \A g \in Filings : HasRow(g)' => filePath'[g] \in PathsFor(g)
    BY <2>1, <2>2, <2>3, <2>4 DEF Placed, FileIsOwn, DigestKept, HasRow, PullIsClear
  <2> QED BY <1>0, <2>2, <2>5 DEF Placed
<1> QED BY <1>1, <1>2, <1>3, <1>4, <1>5 DEF Pull

LEMMA PlacedByOcr ==
  ASSUME Typed, Placed, Ocr \/ OcrAbort
  PROVE  Placed'
<1> USE DEF rowVars, spendVars, extractVars, billVars
<1>t. /\ disk \in [Paths -> Files] /\ filePath \in [Filings -> Paths \cup {NoPath}] /\ digest \in [Filings -> Files]
      /\ ocRows \subseteq Filings /\ aborts \in Nat
  BY BoundAssumption DEF Typed, TypeOK, RowsTyped, OcrTyped
<1>1. CASE OcrStart \/ OcrFinish \/ OcrUnavailable \/ OcrAbort \/ OcrFailure
  <2>1. UNCHANGED <<disk, filePath, digest, pullVars>> /\ (aborts' = 0 => aborts = 0)
    BY <1>1, <1>t DEF OcrStart, OcrFinish, OcrUnavailable, OcrAbort, OcrFailure, Stop
  <2>2. ocPc = "ok" => aborts' # 0
    BY <1>1, <1>t DEF OcrStart, OcrFinish, OcrUnavailable, OcrAbort, OcrFailure, Stop
  <2> QED BY <2>1, <2>2, PlacedElsewhere
<1>2. CASE OcrFile
  <2>1. PICK f \in ocRows :
          /\ ocHand' = f
          /\ \/ ocPc' = "failed" /\ UNCHANGED disk
             \/ /\ disk[filePath[f]] # NoFile
                /\ \E form \in {"ocr", "blank"} : disk' = [disk EXCEPT ![filePath[f]] = <<disk[filePath[f]][1], form>>]
                /\ ocPc' = "ok"
             \/ ocPc' = "already" /\ UNCHANGED disk
    BY <1>2 DEF OcrFile
  <2>2. UNCHANGED <<filePath, digest, pullVars, aborts>> /\ ocPc = "next"
    BY <1>2 DEF OcrFile
  <2>3. CASE UNCHANGED disk
    BY <2>2, <2>3, PlacedElsewhere
  <2>4. ASSUME NEW form \in {"ocr", "blank"}, ocPc' = "ok",
               disk' = [disk EXCEPT ![filePath[f]] = <<disk[filePath[f]][1], form>>]
        PROVE  Placed'
    <3>1. f \in Filings /\ HasRow(f) /\ filePath[f] \in Paths
      BY <1>t DEF Typed, Handed, HasRow
    <3>2. disk'[filePath[f]][1] = f
      BY <1>t, <2>4, <3>1 DEF Placed, FileIsOwn
    <3>3. \A g \in Filings \ {f} : HasRow(g) => filePath[g] \in Paths /\ disk'[filePath[g]] = disk[filePath[g]]
      BY <1>t, <2>4, <3>1, PathsDiffer DEF HasRow
    <3>4. \A u \in Pullers : puPc[u] # "idle" => PullIsClear(u)'
      <4> SUFFICES ASSUME NEW u \in Pullers, puPc[u] # "idle" PROVE PullIsClear(u)'
        OBVIOUS
      <4>1. PullIsClear(u) /\ puPath[u] \in Paths /\ filePath[f] # puPath[u]
        BY <3>1 DEF Typed, Handed, Placed, PullIsClear
      <4>2. disk'[puPath[u]] = disk[puPath[u]]
        BY <1>t, <2>4, <3>1, <4>1
      <4> QED BY <2>2, <4>1, <4>2 DEF PullIsClear, HasRow, pullVars
    <3>5. FileIsOwn' /\ \A g \in Filings : HasRow(g)' => filePath'[g] \in PathsFor(g)
      BY <2>2, <3>1, <3>2, <3>3 DEF Placed, FileIsOwn, HasRow
    <3>6. DigestKept'
      BY <2>1, <2>2, <2>4, <3>3 DEF Placed, DigestKept, HasRow
    <3> QED BY <2>2, <3>4, <3>5, <3>6 DEF Placed, pullVars
  <2> QED BY <2>1, <2>3, <2>4
<1>3. CASE OcrSuccess
  <2>1. ocHand \in Filings
    BY <1>3 DEF OcrSuccess, Typed, TypeOK, OcrTyped
  <2>2. /\ digest' = [digest EXCEPT ![ocHand] = IF ocPc = "ok" THEN disk[filePath[ocHand]] ELSE @]
        /\ ocPc' = "next" /\ UNCHANGED <<disk, filePath, pullVars, aborts>>
    BY <1>3 DEF OcrSuccess
  <2>3. DigestKept'
    BY <1>t, <2>1, <2>2 DEF Placed, DigestKept, HasRow
  <2>4. \A u \in Pullers : puPc'[u] # "idle" => PullIsClear(u)'
    BY <2>2 DEF Placed, PullIsClear, HasRow, pullVars
  <2> QED BY <2>2, <2>3, <2>4 DEF Placed, FileIsOwn, HasRow
<1> QED BY <1>1, <1>2, <1>3 DEF Ocr

LEMMA PlacedStep ==
  ASSUME Typed, Placed, OnePuller, [Next]_vars
  PROVE  Placed'
<1>1. CASE (\E x \in Extractors : Extract(x) \/ ExtractAbort(x)) \/ NewDay \/ UNCHANGED vars
  <2>1. UNCHANGED <<disk, filePath, digest, pullVars, ocHand, ocPc>>
    BY <1>1 DEF Extract, ExtractStart, ExtractOpen, ExtractScanned, ExtractBudget, ExtractCall, ExtractRecord,
                ExtractPersist, ExtractStamp, ExtractFinish, ExtractAbort, NewDay, vars, rowVars, ocrVars
  <2>2. aborts' = aborts \/ aborts' = aborts + 1
    BY <1>1 DEF Extract, ExtractStart, ExtractOpen, ExtractScanned, ExtractBudget, ExtractCall, ExtractRecord,
                ExtractPersist, ExtractStamp, ExtractFinish, ExtractAbort, NewDay, vars, Stop
  <2>3. aborts' = 0 => aborts = 0
    BY <2>2, BoundAssumption DEF Typed, TypeOK
  <2> QED BY <2>1, <2>3, PlacedElsewhere
<1> QED BY <1>1, PlacedByPull, PlacedByOcr DEF Next

\* With one pull at a time, each row's path holds that filing's own PDF, however names collide
\* and wherever passes stop, and until a pass stops the row's digest is that of its file,
\* except while OCR has the filing in hand.
THEOREM RowsAndFilesMatch ==
  ASSUME OnePuller
  PROVE  Spec => []RowsMatchFiles
<1>1. Init => Placed
  BY PlacedInit
<1>2. Typed /\ Placed /\ [Next]_vars => Placed'
  BY PlacedStep, OnePuller
<1>3. Typed /\ Placed => RowsMatchFiles
  <2> SUFFICES ASSUME Typed, Placed PROVE RowsMatchFiles
    OBVIOUS
  <2> QED BY DEF Placed, DigestKept, DigestIsCurrent, RowsMatchFiles
<1> QED BY <1>1, <1>2, <1>3, AlwaysTyped, PTL DEF Spec

(***************************************************************************)
(* Billing.                                                                *)
(***************************************************************************)
Extracting(x, f) == f \in exRows[x] \/ exHand[x] = f

\* What keeps the two queues apart: a filing the extractor listed is neither scanned nor
\* extracted, one the OCR pass listed is scanned and was not tried.
QueuesApart ==
    /\ \A x \in Extractors : exHand[x] \notin exRows[x]
    /\ \A x \in Extractors, f \in Filings : Extracting(x, f) => ~scanned[f] /\ ~extracted[f]
    /\ ocHand \notin ocRows
    /\ \A f \in ocRows \cup ({ocHand} \ {NoFiling}) : scanned[f] /\ ~ocrTried[f]
    /\ \A x \in Extractors : exPc[x] = "idle" => exRows[x] = {}

\* A filing whose reply is in hand, and one that may still be sent to the model.
Answered(f) == \E x \in Extractors : exHand[x] = f /\ exPc[x] \in {"record", "persist", "stamp"}
Callable(f) == (~extracted[f] \/ (scanned[f] /\ ~ocrTried[f])) /\ ~Answered(f)

\* A filing that may still be sent was billed only by passes that stopped before the stamp.
Unbilled == \A f \in Filings : Callable(f) => billed[f] =< aborts

Once == QueuesApart /\ Unbilled /\ BilledOnce

LEMMA OnceInit == Init => Once
  BY FilingAssumption DEF Init, Once, QueuesApart, Extracting, Unbilled, BilledOnce

\* The extractor's tables are not touched and no filing becomes callable.
LEMMA OnceElsewhere ==
  ASSUME Typed, Once, UNCHANGED <<scanned, extracted, ocrTried, billed, ocRows, ocHand, extractVars>>,
         aborts' \in {aborts, aborts + 1}
  PROVE  Once'
<1>1. QueuesApart'
  BY DEF Once, QueuesApart, Extracting, extractVars
<1>2. \A f \in Filings : Callable(f)' = Callable(f)
  BY DEF Callable, Answered, extractVars
<1>3. aborts \in Nat /\ \A f \in Filings : billed[f] \in Nat
  BY BoundAssumption DEF Typed, TypeOK, SpendTyped
<1> QED BY <1>1, <1>2, <1>3 DEF Once, Unbilled, BilledOnce

LEMMA OnceByOcr ==
  ASSUME Typed, Once, Ocr \/ OcrAbort
  PROVE  Once'
<1> USE DEF rowVars, spendVars, pullVars, extractVars, billVars
<1>t. /\ aborts \in Nat /\ billed \in [Filings -> Nat]
      /\ scanned \in [Filings -> BOOLEAN] /\ extracted \in [Filings -> BOOLEAN] /\ ocrTried \in [Filings -> BOOLEAN]
      /\ ocRows \subseteq Filings /\ (ocPc \in {"ok", "already", "failed"} => ocHand \in Filings)
      /\ ocPc = "next" => ocHand = NoFiling
  BY BoundAssumption DEF Typed, TypeOK, RowsTyped, SpendTyped, OcrTyped
<1>1. CASE OcrStart \/ OcrFinish \/ OcrUnavailable \/ OcrAbort \/ OcrFile
  <2>1. UNCHANGED <<scanned, extracted, ocrTried, billed, extractVars>> /\ aborts' \in {aborts, aborts + 1}
    BY <1>1 DEF OcrStart, OcrFinish, OcrUnavailable, OcrAbort, OcrFile, Stop
  <2>2. QueuesApart'
    <3>1. ocHand' \notin ocRows' /\ \A f \in ocRows' \cup ({ocHand'} \ {NoFiling}) : scanned[f] /\ ~ocrTried[f]
      <4>1. CASE OcrStart
        BY <4>1, <1>t, FilingAssumption DEF OcrStart, OcrPending, Typed, TypeOK, OcrTyped
      <4>2. CASE OcrFinish \/ OcrUnavailable \/ OcrAbort
        BY <4>2, <1>t DEF OcrFinish, OcrUnavailable, OcrAbort, Once, QueuesApart
      <4>3. CASE OcrFile
        BY <4>3, <1>t DEF OcrFile, Once, QueuesApart
      <4> QED BY <1>1, <4>1, <4>2, <4>3
    <3> QED BY <2>1, <3>1 DEF Once, QueuesApart, Extracting
  <2>3. \A f \in Filings : Callable(f)' = Callable(f)
    BY <2>1 DEF Callable, Answered
  <2> QED BY <1>t, <2>1, <2>2, <2>3 DEF Once, Unbilled, BilledOnce
<1>2. CASE OcrSuccess
  <2> DEFINE h == ocHand
  <2>1. /\ scanned' = [scanned EXCEPT ![h] = FALSE] /\ extracted' = [extracted EXCEPT ![h] = FALSE]
        /\ ocrTried' = [ocrTried EXCEPT ![h] = TRUE] /\ ocHand' = NoFiling
        /\ UNCHANGED <<billed, ocRows, extractVars, aborts>> /\ h \in Filings
    BY <1>2, <1>t DEF OcrSuccess
  <2>2. scanned[h] /\ ~ocrTried[h] /\ h \notin ocRows
    BY <2>1, FilingAssumption DEF Once, QueuesApart
  <2>3. ~Answered(h)
    BY <2>1, <2>2 DEF Answered, Once, QueuesApart, Extracting
  <2>4. billed[h] =< aborts
    BY <2>1, <2>2, <2>3 DEF Callable, Once, Unbilled
  <2>5. QueuesApart'
    <3>1. \A x \in Extractors, f \in Filings : Extracting(x, f)' => ~scanned'[f] /\ ~extracted'[f]
      BY <1>t, <2>1 DEF Once, QueuesApart, Extracting
    <3>2. \A f \in ocRows : scanned'[f] /\ ~ocrTried'[f]
      BY <1>t, <2>1, <2>2 DEF Once, QueuesApart
    <3> QED BY <1>t, <2>1, <3>1, <3>2, FilingAssumption DEF Once, QueuesApart
  <2>6. \A f \in Filings \ {h} : Callable(f)' = Callable(f)
    BY <1>t, <2>1 DEF Callable, Answered
  <2> QED BY <1>t, <2>1, <2>4, <2>5, <2>6 DEF Once, Unbilled, BilledOnce
<1>3. CASE OcrFailure
  <2> DEFINE h == ocHand
  <2>1. /\ ocrTried' = [ocrTried EXCEPT ![h] = TRUE] /\ ocHand' = NoFiling /\ h \in Filings
        /\ UNCHANGED <<scanned, extracted, billed, ocRows, extractVars, aborts>>
    BY <1>3, <1>t DEF OcrFailure
  <2>2. QueuesApart'
    BY <1>t, <2>1, FilingAssumption DEF Once, QueuesApart, Extracting
  <2>3. \A f \in Filings : Callable(f)' => Callable(f)
    BY <1>t, <2>1 DEF Callable, Answered
  <2> QED BY <1>t, <2>1, <2>2, <2>3 DEF Once, Unbilled, BilledOnce
<1> QED BY <1>1, <1>2, <1>3 DEF Ocr

LEMMA OnceByExtract ==
  ASSUME Typed, Once, OneExtractor, NEW x \in Extractors, Extract(x) \/ ExtractAbort(x)
  PROVE  Once'
<1> USE DEF rowVars, spendVars, pullVars, ocrVars, billVars, To, Drop
<1>0. \A y \in Extractors : y = x
  BY DEF OneExtractor
<1>t. /\ aborts \in Nat /\ billed \in [Filings -> Nat] /\ NoFiling \notin Filings
      /\ scanned \in [Filings -> BOOLEAN] /\ extracted \in [Filings -> BOOLEAN]
      /\ exPc \in [Extractors -> {"idle", "next", "scan", "budget", "call", "record", "persist", "stamp"}]
      /\ exRows \in [Extractors -> SUBSET Filings] /\ exHand \in [Extractors -> Filings \cup {NoFiling}]
      /\ exPc[x] \in {"idle", "next"} <=> exHand[x] = NoFiling
  BY BoundAssumption, FilingAssumption DEF Typed, TypeOK, RowsTyped, SpendTyped, ExtractsTyped
<1>a. UNCHANGED <<ocrTried, ocRows, ocHand>>
  BY DEF Extract, ExtractAbort, ExtractStart, ExtractOpen, ExtractScanned, ExtractBudget, ExtractCall,
         ExtractRecord, ExtractPersist, ExtractStamp, ExtractFinish
<1>1. CASE ExtractStart(x) \/ ExtractFinish(x) \/ ExtractOpen(x) \/ ExtractBudget(x)
  <2>1. UNCHANGED <<scanned, extracted, billed, aborts>>
    BY <1>1 DEF ExtractStart, ExtractFinish, ExtractOpen, ExtractBudget
  <2>2. /\ exHand'[x] \notin exRows'[x]
        /\ \A f \in Filings : Extracting(x, f)' => Extracting(x, f) \/ (~scanned[f] /\ ~extracted[f])
        /\ exPc'[x] = "idle" => exRows'[x] = {}
    <3>1. CASE ExtractStart(x)
      BY <1>t, <3>1 DEF ExtractStart, ExtractPending, Extracting
    <3>2. CASE ExtractFinish(x)
      BY <1>t, <3>2 DEF ExtractFinish, Extracting
    <3>3. CASE ExtractOpen(x)
      <4>1. PICK f \in exRows[x] : exRows' = [exRows EXCEPT ![x] = @ \ {f}] /\ (UNCHANGED exHand \/ exHand' = [exHand EXCEPT ![x] = f])
        BY <3>3 DEF ExtractOpen
      <4>2. exPc'[x] # "idle" /\ exHand[x] = NoFiling
        BY <1>t, <3>3 DEF ExtractOpen
      <4> QED BY <1>t, <4>1, <4>2 DEF Extracting
    <3>4. CASE ExtractBudget(x)
      BY <1>t, <3>4 DEF ExtractBudget, Extracting, Once, QueuesApart
    <3> QED BY <1>1, <3>1, <3>2, <3>3, <3>4
  <2>3. QueuesApart'
    BY <1>0, <1>a, <2>1, <2>2 DEF Once, QueuesApart
  <2>4. exPc[x] \in {"idle", "next", "budget"} /\ \A f \in Filings : Callable(f)' => Callable(f)
    BY <1>0, <1>1, <1>a, <2>1 DEF Callable, Answered, ExtractStart, ExtractFinish, ExtractOpen, ExtractBudget
  <2> QED BY <1>t, <2>1, <2>3, <2>4 DEF Once, Unbilled, BilledOnce
<1>2. CASE ExtractCall(x)
  <2> DEFINE f == exHand[x]
  <2>1. f \in Filings /\ exPc[x] = "call" /\ exPc' = [exPc EXCEPT ![x] = "record"]
        /\ UNCHANGED <<scanned, extracted, exRows, exHand, aborts>>
    BY <1>2, <1>t DEF ExtractCall
  <2>2. billed'[f] \in {billed[f], billed[f] + 1} /\ \A g \in Filings \ {f} : billed'[g] = billed[g]
    <3>1. PICK replies \in 0..2 : billed' = [billed EXCEPT ![f] = IF replies > 0 THEN @ + 1 ELSE @]
      BY <1>2 DEF ExtractCall
    <3> QED BY <1>t, <2>1, <3>1
  <2>3. ~extracted[f] /\ ~Answered(f)
    BY <1>0, <2>1 DEF Once, QueuesApart, Extracting, Answered
  <2>4. billed[f] =< aborts
    BY <2>1, <2>3 DEF Callable, Once, Unbilled
  <2>5. billed'[f] =< aborts + 1 /\ \A g \in Filings \ {f} : billed'[g] = billed[g]
    BY <1>t, <2>1, <2>2, <2>4
  <2>6. QueuesApart'
    BY <1>0, <1>a, <1>t, <2>1 DEF Once, QueuesApart, Extracting
  <2>7. ~Callable(f)' /\ \A g \in Filings \ {f} : Callable(g)' => Callable(g)
    BY <1>0, <1>a, <1>t, <2>1 DEF Callable, Answered
  <2> QED BY <1>t, <2>1, <2>5, <2>6, <2>7 DEF Once, Unbilled, BilledOnce
<1>3. CASE ExtractRecord(x) \/ ExtractPersist(x)
  <2>1. /\ UNCHANGED <<scanned, extracted, billed, exRows, exHand, aborts>>
        /\ exPc[x] \in {"record", "persist"} /\ exPc'[x] \in {"persist", "stamp"}
    BY <1>3, <1>t DEF ExtractRecord, ExtractPersist
  <2>2. QueuesApart'
    BY <1>0, <1>a, <1>t, <2>1 DEF Once, QueuesApart, Extracting
  <2>3. \A f \in Filings : Callable(f)' => Callable(f)
    BY <1>0, <1>a, <2>1 DEF Callable, Answered
  <2> QED BY <1>t, <2>1, <2>2, <2>3 DEF Once, Unbilled, BilledOnce
<1>4. CASE ExtractScanned(x)
  <2> DEFINE f == exHand[x]
  <2>1. /\ f \in Filings /\ exPc[x] = "scan" /\ exPc'[x] = "next" /\ exHand'[x] = NoFiling
        /\ extracted' = [extracted EXCEPT ![f] = TRUE] /\ scanned' = [scanned EXCEPT ![f] = TRUE]
        /\ UNCHANGED <<billed, exRows, aborts>>
    BY <1>4, <1>t DEF ExtractScanned
  <2>2. f \notin exRows[x] /\ ~scanned[f] /\ ~extracted[f]
    BY <2>1 DEF Once, QueuesApart, Extracting
  <2>3. billed[f] =< aborts
    BY <1>0, <2>1, <2>2 DEF Callable, Answered, Once, Unbilled
  <2>4. QueuesApart'
    <3>1. \A g \in Filings : Extracting(x, g)' => ~scanned'[g] /\ ~extracted'[g]
      BY <1>t, <2>1, <2>2 DEF Once, QueuesApart, Extracting
    <3>2. \A g \in ocRows \cup ({ocHand} \ {NoFiling}) : scanned'[g]
      BY <1>t, <2>1 DEF Once, QueuesApart
    <3> QED BY <1>0, <1>a, <1>t, <2>1, <3>1, <3>2 DEF Once, QueuesApart
  <2>5. \A g \in Filings \ {f} : Callable(g)' => Callable(g)
    BY <1>0, <1>a, <1>t, <2>1 DEF Callable, Answered
  <2> QED BY <1>t, <2>1, <2>3, <2>4, <2>5 DEF Once, Unbilled, BilledOnce
<1>5. CASE ExtractStamp(x)
  <2>0. PICK f \in Filings : f = exHand[x]
    BY <1>5, <1>t DEF ExtractStamp
  <2>1. /\ exHand[x] = f /\ exPc[x] = "stamp" /\ exPc'[x] = "next" /\ exHand'[x] = NoFiling
        /\ extracted' = [extracted EXCEPT ![f] = TRUE]
        /\ UNCHANGED <<billed, scanned, exRows, aborts>>
    BY <1>5, <1>t, <2>0 DEF ExtractStamp
  <2>2. f \notin exRows[x] /\ ~scanned[f]
    BY <2>1 DEF Once, QueuesApart, Extracting
  <2>3. QueuesApart'
    <3>1. \A g \in Filings : Extracting(x, g)' => ~scanned'[g] /\ ~extracted'[g]
      BY <1>t, <2>1, <2>2 DEF Once, QueuesApart, Extracting
    <3> QED BY <1>0, <1>a, <1>t, <2>1, <3>1 DEF Once, QueuesApart
  <2>4. ~Callable(f)' /\ \A g \in Filings \ {f} : Callable(g)' => Callable(g)
    BY <1>0, <1>a, <1>t, <2>1, <2>2 DEF Callable, Answered
  <2> QED BY <1>t, <2>1, <2>3, <2>4 DEF Once, Unbilled, BilledOnce
<1>6. CASE ExtractAbort(x)
  <2>1. /\ UNCHANGED <<scanned, extracted, billed>> /\ aborts' = aborts + 1
        /\ exPc'[x] = "idle" /\ exHand'[x] = NoFiling /\ exRows'[x] = {}
    BY <1>6, <1>t DEF ExtractAbort, Stop
  <2>2. QueuesApart'
    BY <1>0, <1>a, <1>t, <2>1 DEF Once, QueuesApart, Extracting
  <2> QED BY <1>t, <2>1, <2>2 DEF Once, Unbilled, BilledOnce
<1> QED BY <1>1, <1>2, <1>3, <1>4, <1>5, <1>6 DEF Extract

LEMMA OnceStep ==
  ASSUME Typed, Once, OneExtractor, [Next]_vars
  PROVE  Once'
<1> USE DEF rowVars, spendVars, ocrVars, extractVars, billVars
<1>1. CASE (\E u \in Pullers : Pull(u) \/ PullAbort(u)) \/ NewDay \/ UNCHANGED vars
  <2>1. /\ UNCHANGED <<scanned, extracted, ocrTried, billed, ocRows, ocHand, extractVars>>
        /\ aborts' \in {aborts, aborts + 1}
    BY <1>1 DEF Pull, PullCheck, PullDownload, PullFails, PullRejects, PullInsert, PullAbort, NewDay, vars, Stop
  <2> QED BY <2>1, OnceElsewhere
<1> QED BY <1>1, OnceByOcr, OnceByExtract DEF Next

\* With one extraction pass at a time, and any number of pulls beside it and the OCR pass, no
\* filing is billed more often than once and once more for each pass that stopped.
THEOREM FilingsBilledOnce ==
  ASSUME OneExtractor
  PROVE  Spec => []BilledOnce
<1>1. Init => Once
  BY OnceInit
<1>2. Typed /\ Once /\ [Next]_vars => Once'
  BY OnceStep, OneExtractor
<1>3. Once => BilledOnce
  BY DEF Once
<1> QED BY <1>1, <1>2, <1>3, AlwaysTyped, PTL DEF Spec

(***************************************************************************)
(* The daily cap.                                                          *)
(***************************************************************************)
\* What the passes that stopped may have left out of the ledger.
Lost == 2 * Cost * aborts

Unrecorded(x, d) == exPc[x] = "record" /\ exDay[x] = d

\* What a day cost is in the ledger, or with the one call not recorded yet, or lost; and that
\* call was made when the ledger had room for its estimate.
Balanced ==
    /\ \A d \in Days : ledger[d] =< Cap + 2 * Cost - Estimate
    /\ \A x \in Extractors :
          /\ exBill[x] =< 2 * Cost
          /\ exPc[x] \in {"call", "record"} => ledger[exDay[x]] + Estimate =< Cap
    /\ \A d \in Days :
          \/ (\A x \in Extractors : ~Unrecorded(x, d)) /\ paid[d] =< ledger[d] + Lost
          \/ \E x \in Extractors : Unrecorded(x, d) /\ paid[d] =< ledger[d] + exBill[x] + Lost

LEMMA CostsAreNumbers ==
  /\ Cost \in Nat /\ Cap \in Nat /\ Estimate \in Nat /\ Estimate =< Cap /\ 2 * Cost \in Nat
  /\ \A n \in Nat : 2 * Cost * n \in Nat /\ 2 * Cost * (n + 1) = 2 * Cost * n + 2 * Cost
<1>1. Cost \in Nat /\ Cap \in Nat /\ Estimate \in Nat /\ Estimate =< Cap
  BY BudgetAssumption
<1>2. \A n \in Nat : 2 * Cost * n \in Nat /\ 2 * Cost * (n + 1) = 2 * Cost * n + 2 * Cost
  BY <1>1
<1> QED BY <1>1, <1>2

LEMMA LostGrows ==
  ASSUME aborts \in Nat
  PROVE  /\ Lost \in Nat /\ (aborts' = aborts => Lost' = Lost)
         /\ aborts' = aborts + 1 => Lost' = Lost + 2 * Cost
<1>1. Lost \in Nat
  BY CostsAreNumbers DEF Lost
<1>2. ASSUME aborts' = aborts + 1 PROVE Lost' = Lost + 2 * Cost
  <2>1. Lost' = 2 * Cost * (aborts + 1)
    BY <1>2 DEF Lost
  <2> QED BY <2>1, CostsAreNumbers DEF Lost
<1> QED BY <1>1, <1>2 DEF Lost

LEMMA BalancedInit == Init => Balanced
<1> SUFFICES ASSUME Init PROVE Balanced
  OBVIOUS
<1>1. Lost \in Nat
  BY LostGrows DEF Init
<1> QED BY <1>1, CostsAreNumbers DEF Init, Balanced, Unrecorded, Days

\* Nothing is spent or recorded, and a pass that stopped may be forgotten.
LEMMA BalancedElsewhere ==
  ASSUME Typed, Balanced, UNCHANGED <<ledger, paid, exPc, exDay, exBill>>, aborts' \in {aborts, aborts + 1}
  PROVE  Balanced'
<1>1. aborts \in Nat /\ \A d \in Days : ledger[d] \in Nat /\ paid[d] \in Nat
  BY BoundAssumption DEF Typed, TypeOK, SpendTyped
<1>2. Lost \in Nat /\ Lost' \in {Lost, Lost + 2 * Cost}
  BY <1>1, LostGrows
<1>3. \A x \in Extractors : exBill[x] \in Nat
  BY DEF Typed, TypeOK, ExtractsTyped
<1> QED BY <1>1, <1>2, <1>3, CostsAreNumbers DEF Balanced, Unrecorded

LEMMA BalancedByExtract ==
  ASSUME Typed, Balanced, OneExtractor, NEW x \in Extractors, Extract(x) \/ ExtractAbort(x)
  PROVE  Balanced'
<1> USE DEF rowVars, spendVars, pullVars, ocrVars, billVars, To, Drop
<1>0. \A y \in Extractors : y = x
  BY DEF OneExtractor
<1>t. /\ aborts \in Nat /\ ledger \in [Days -> Nat] /\ paid \in [Days -> Nat]
      /\ exPc \in [Extractors -> {"idle", "next", "scan", "budget", "call", "record", "persist", "stamp"}]
      /\ exDay \in [Extractors -> Days] /\ exBill \in [Extractors -> Nat] /\ Lost \in Nat
  BY BoundAssumption, LostGrows DEF Typed, TypeOK, SpendTyped, ExtractsTyped
<1>1. CASE ExtractStart(x) \/ ExtractFinish(x) \/ ExtractOpen(x) \/ ExtractScanned(x) \/ ExtractPersist(x) \/ ExtractStamp(x)
  <2>1. /\ UNCHANGED <<ledger, paid, aborts>> /\ exPc[x] \notin {"call", "record"} /\ exPc'[x] \notin {"call", "record"}
        /\ exBill'[x] \in {0, exBill[x]}
    BY <1>1, <1>t DEF ExtractStart, ExtractFinish, ExtractOpen, ExtractScanned, ExtractPersist, ExtractStamp
  <2>2. \A d \in Days : ~Unrecorded(x, d) /\ ~Unrecorded(x, d)'
    BY <2>1 DEF Unrecorded
  <2> QED BY <1>0, <1>t, <2>1, <2>2, LostGrows, CostsAreNumbers DEF Balanced
<1>2. CASE ExtractBudget(x)
  <2>1. /\ UNCHANGED <<ledger, paid, aborts, exDay>> /\ exPc[x] # "record" /\ exPc'[x] # "record"
        /\ exBill'[x] \in {0, exBill[x]} /\ (exPc'[x] = "call" => ledger[exDay[x]] + Estimate =< Cap)
    BY <1>2, <1>t DEF ExtractBudget, Affordable
  <2>2. \A d \in Days : ~Unrecorded(x, d) /\ ~Unrecorded(x, d)'
    BY <2>1 DEF Unrecorded
  <2> QED BY <1>0, <1>t, <2>1, <2>2, LostGrows, CostsAreNumbers DEF Balanced
<1>3. CASE ExtractCall(x)
  <2>1. PICK replies \in 0..2 :
          /\ exBill' = [exBill EXCEPT ![x] = replies * Cost]
          /\ paid' = [paid EXCEPT ![exDay[x]] = @ + replies * Cost]
    BY <1>3 DEF ExtractCall
  <2>2. PICK c \in Nat : c = replies * Cost /\ c =< 2 * Cost
    <3>1. replies = 0 \/ replies = 1 \/ replies = 2
      OBVIOUS
    <3> QED BY <3>1, CostsAreNumbers
  <2>3. /\ UNCHANGED <<ledger, aborts, exDay>> /\ exPc[x] = "call" /\ exPc'[x] = "record"
        /\ exBill'[x] = c /\ paid' = [paid EXCEPT ![exDay[x]] = @ + c]
    BY <1>3, <1>t, <2>1, <2>2 DEF ExtractCall
  <2>4. \A d \in Days : ~Unrecorded(x, d) /\ (Unrecorded(x, d)' <=> d = exDay[x])
    BY <2>3 DEF Unrecorded
  <2>5. \A d \in Days : paid[d] =< ledger[d] + Lost
    BY <1>0, <2>4 DEF Balanced
  <2>6. \A d \in Days : IF d = exDay[x] THEN paid'[d] = paid[d] + c ELSE paid'[d] = paid[d]
    BY <1>t, <2>3
  <2>7. Lost' = Lost
    BY <1>t, <2>3, LostGrows
  <2>8. \A d \in Days :
          \/ (\A y \in Extractors : ~Unrecorded(y, d)') /\ paid'[d] =< ledger'[d] + Lost'
          \/ \E y \in Extractors : Unrecorded(y, d)' /\ paid'[d] =< ledger'[d] + exBill'[y] + Lost'
    <3> TAKE d \in Days
    <3>1. CASE d = exDay[x]
      BY <1>t, <2>3, <2>4, <2>5, <2>6, <2>7, <3>1
    <3>2. CASE d # exDay[x]
      BY <1>0, <1>t, <2>3, <2>4, <2>5, <2>6, <2>7, <3>2
    <3> QED BY <3>1, <3>2
  <2> QED BY <1>0, <1>t, <2>2, <2>3, <2>8 DEF Balanced
<1>4. CASE ExtractRecord(x)
  <2> DEFINE e == exDay[x]
  <2>1. /\ ledger' = [ledger EXCEPT ![e] = @ + exBill[x]] /\ UNCHANGED <<paid, aborts, exDay, exBill>>
        /\ exPc[x] = "record" /\ exPc'[x] \in {"persist", "stamp"} /\ e \in Days
    BY <1>4, <1>t DEF ExtractRecord
  <2>2. \A d \in Days : (Unrecorded(x, d) <=> d = e) /\ ~Unrecorded(x, d)'
    BY <2>1 DEF Unrecorded
  <2>3. \A d \in Days : IF d = e THEN ledger'[d] = ledger[d] + exBill[x] ELSE ledger'[d] = ledger[d]
    BY <1>t, <2>1
  <2>4. ledger[e] + Estimate =< Cap /\ exBill[x] =< 2 * Cost
    BY <2>1 DEF Balanced
  <2>5. \A d \in Days : ledger'[d] =< Cap + 2 * Cost - Estimate
    BY <1>t, <2>1, <2>3, <2>4, CostsAreNumbers DEF Balanced
  <2>6. \A d \in Days : paid'[d] =< ledger'[d] + Lost'
    BY <1>0, <1>t, <2>1, <2>2, <2>3, LostGrows DEF Balanced
  <2> QED BY <1>0, <2>1, <2>2, <2>5, <2>6 DEF Balanced
<1>5. CASE ExtractAbort(x)
  <2>1. /\ UNCHANGED <<ledger, paid>> /\ aborts' = aborts + 1 /\ exPc'[x] = "idle" /\ exBill'[x] = 0
    BY <1>5, <1>t DEF ExtractAbort, Stop
  <2>2. Lost' = Lost + 2 * Cost /\ exBill[x] =< 2 * Cost
    BY <1>t, <2>1, LostGrows DEF Balanced
  <2>3. \A d \in Days : paid[d] =< ledger[d] + Lost'
    BY <1>0, <1>t, <2>2, CostsAreNumbers DEF Balanced
  <2> QED BY <1>0, <2>1, <2>3, CostsAreNumbers DEF Balanced, Unrecorded
<1> QED BY <1>1, <1>2, <1>3, <1>4, <1>5 DEF Extract

LEMMA BalancedStep ==
  ASSUME Typed, Balanced, OneExtractor, [Next]_vars
  PROVE  Balanced'
<1> USE DEF rowVars, spendVars, pullVars, ocrVars, extractVars, billVars
<1>1. CASE (\E u \in Pullers : Pull(u) \/ PullAbort(u)) \/ Ocr \/ OcrAbort \/ UNCHANGED vars
  <2>1. UNCHANGED <<ledger, paid, exPc, exDay, exBill>> /\ aborts' \in {aborts, aborts + 1}
    BY <1>1 DEF Pull, PullCheck, PullDownload, PullFails, PullRejects, PullInsert, PullAbort, Ocr, OcrStart, OcrFile,
                OcrUnavailable, OcrSuccess, OcrFailure, OcrFinish, OcrAbort, vars, Stop
  <2> QED BY <2>1, BalancedElsewhere
<1>2. CASE NewDay
  <2>1. /\ ledger' = [ledger EXCEPT ![1 - day] = 0] /\ paid' = [paid EXCEPT ![1 - day] = 0]
        /\ UNCHANGED <<exPc, exDay, exBill, aborts>>
        /\ \A x \in Extractors : exPc[x] # "idle" => exDay[x] = day
    BY <1>2 DEF NewDay
  <2>2. /\ ledger \in [Days -> Nat] /\ paid \in [Days -> Nat] /\ aborts \in Nat /\ day \in Days /\ 1 - day \in Days
        /\ 1 - day # day /\ Lost \in Nat /\ Lost' = Lost
    BY <2>1, BoundAssumption, LostGrows DEF Typed, TypeOK, SpendTyped, Days
  <2>3. /\ ledger'[1 - day] = 0 /\ paid'[1 - day] = 0
        /\ \A d \in Days : d # 1 - day => ledger'[d] = ledger[d] /\ paid'[d] = paid[d]
    BY <2>1, <2>2
  <2>4. \A x \in Extractors, d \in Days : Unrecorded(x, d) => d # 1 - day
    BY <2>1, <2>2 DEF Unrecorded
  <2>5. \A x \in Extractors, d \in Days : Unrecorded(x, d)' <=> Unrecorded(x, d)
    BY <2>1 DEF Unrecorded
  <2>6. \A d \in Days :
          \/ (\A x \in Extractors : ~Unrecorded(x, d)') /\ paid'[d] =< ledger'[d] + Lost'
          \/ \E x \in Extractors : Unrecorded(x, d)' /\ paid'[d] =< ledger'[d] + exBill'[x] + Lost'
    <3> TAKE d \in Days
    <3>1. CASE d = 1 - day
      BY <2>2, <2>3, <2>4, <2>5, <3>1
    <3>2. CASE d # 1 - day
      BY <2>1, <2>2, <2>3, <2>5, <3>2 DEF Balanced
    <3> QED BY <3>1, <3>2
  <2>7. \A d \in Days : ledger'[d] =< Cap + 2 * Cost - Estimate
    BY <2>2, <2>3, CostsAreNumbers DEF Balanced
  <2>8. \A x \in Extractors : exPc[x] \in {"call", "record"} => ledger'[exDay[x]] + Estimate =< Cap
    BY <2>1, <2>2, <2>3 DEF Balanced
  <2> QED BY <2>1, <2>6, <2>7, <2>8 DEF Balanced
<1> QED BY <1>1, <1>2, BalancedByExtract DEF Next

\* With one extraction pass at a time a day never costs more than its cap, but for what one
\* call costs over its estimate and two replies for each pass that stopped.
THEOREM DailyCapHolds ==
  ASSUME OneExtractor
  PROVE  Spec => []CapHeld
<1>1. Init => Balanced
  BY BalancedInit
<1>2. Typed /\ Balanced /\ [Next]_vars => Balanced'
  BY BalancedStep, OneExtractor
<1>3. Typed /\ Balanced => CapHeld
  <2> SUFFICES ASSUME Typed, Balanced, NEW d \in Days
               PROVE  paid[d] =< Cap + (2 * Cost - Estimate) + 2 * Cost * aborts
    BY DEF CapHeld
  <2>1. /\ aborts \in Nat /\ ledger[d] \in Nat /\ paid[d] \in Nat
        /\ \A x \in Extractors : exBill[x] \in Nat
    BY BoundAssumption DEF Typed, TypeOK, SpendTyped, ExtractsTyped
  <2>2. Lost \in Nat
    BY <2>1, LostGrows
  <2>3. CASE \A x \in Extractors : ~Unrecorded(x, d)
    <3>1. paid[d] =< ledger[d] + Lost /\ ledger[d] =< Cap + 2 * Cost - Estimate
      BY <2>3 DEF Balanced
    <3>2. paid[d] =< Cap + (2 * Cost - Estimate) + Lost
      BY <2>1, <2>2, <3>1, CostsAreNumbers
    <3> QED BY <3>2 DEF Lost
  <2>4. ASSUME NEW x \in Extractors, Unrecorded(x, d), paid[d] =< ledger[d] + exBill[x] + Lost
        PROVE  paid[d] =< Cap + (2 * Cost - Estimate) + 2 * Cost * aborts
    <3>1. exBill[x] =< 2 * Cost /\ ledger[d] + Estimate =< Cap
      BY <2>4 DEF Balanced, Unrecorded
    <3>2. paid[d] =< Cap + (2 * Cost - Estimate) + Lost
      BY <2>1, <2>2, <2>4, <3>1, CostsAreNumbers
    <3> QED BY <3>2 DEF Lost
  <2> QED BY <2>3, <2>4 DEF Balanced
<1> QED BY <1>1, <1>2, <1>3, AlwaysTyped, PTL DEF Spec

=============================================================================
