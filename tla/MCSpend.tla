------------------------------ MODULE MCSpend ------------------------------
(***************************************************************************)
(* The tagger and the writers share no table, so each behaviour runs one   *)
(* part: two taggers over three items; two writers of briefs; one writer   *)
(* of the notes of two weeks; one writer next to the backfill script.      *)
(***************************************************************************)
EXTENDS Spend

CONSTANTS one, two

VARIABLE part

spendVars == <<tagVars, writeVars, part>>

MCLength == [i \in Items |-> 1]
MCBriefDays == {-1, 0}
MCTickers == <<"BOAC", "SNTS">>

In(parts) == part \in parts /\ UNCHANGED part
TagOnly == In({"tagging"}) /\ UNCHANGED writeVars
WriteOnly(parts) == In(parts) /\ UNCHANGED tagVars

MCInit ==
    /\ TagInit /\ WriteInit
    /\ part \in {"tagging", "briefs", "notes", "fill"}

\* Items 1 and 2 are polled first: the third overtakes them while they are being tagged.
MCUpsert(i) == (i > 1 => i - 1 \in polled) /\ UpsertNews(i)

MCNext ==
    \/ \E i \in Items : TagOnly /\ MCUpsert(i)
    \/ TagOnly /\ Midnight
    \/ \E t \in Taggers : TagOnly /\ StopTagger(t)
    \/ \E t \in Taggers : TagOnly /\ polled # {1} /\ StartPass(t)
    \/ \E t \in Taggers : TagOnly /\ CheckBudget(t)
    \/ \E t \in Taggers : TagOnly /\ CallModel(t)
    \/ \E t \in Taggers : TagOnly /\ Unavailable(t)
    \/ \E t \in Taggers : TagOnly /\ RecordFailure(t)
    \/ \E t \in Taggers : TagOnly /\ RecordReply(t)
    \/ \E t \in Taggers : TagOnly /\ ApplyTags(t)
    \/ WriteOnly({"briefs", "notes"}) /\ NextDay
    \/ WriteOnly({"notes"}) /\ NewMaterial("BOAC")
    \/ \E w \in Writers, d \in BriefDays : WriteOnly({"briefs"}) /\ StartBrief(w, d)
    \/ WriteOnly({"fill"}) /\ StartBrief(one, 0)
    \/ \E k \in Weeks : WriteOnly({"notes"}) /\ StartNotes(one, k)
    \/ WriteOnly({"fill"}) /\ StartNotes(one, 0)
    \/ \E w \in Writers : WriteOnly({"briefs", "notes", "fill"}) /\ GatherNote(w)
    \/ \E w \in Writers : WriteOnly({"briefs", "fill"}) /\ GenerateFor(w)
    \/ \E w \in Writers : WriteOnly({"notes", "fill"}) /\ GenerateForTicker(w)
    \/ \E w \in Writers : WriteOnly({"briefs", "notes"}) /\ StopWriter(w)
    \/ \E b \in Fillers : WriteOnly({"fill"}) /\ StartBackfill(b)
    \/ \E b \in Fillers : WriteOnly({"fill"}) /\ ReadPending(b)
    \/ \E b \in Fillers : WriteOnly({"fill"}) /\ Translate(b)
    \/ \E b \in Fillers : WriteOnly({"fill"}) /\ RecordUntranslated(b)
    \/ \E b \in Fillers : WriteOnly({"fill"}) /\ SetTranslation(b)
    \/ \E b \in Fillers : WriteOnly({"fill"}) /\ StopFiller(b)

MCSpec == MCInit /\ [][MCNext]_spendVars

Interchangeable == Permutations(Taggers)

=============================================================================
