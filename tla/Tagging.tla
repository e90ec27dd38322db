------------------------------ MODULE Tagging ------------------------------
(***************************************************************************)
(* The news tagger (services/tagging.py, services/llm.py) over news_items  *)
(* (store/news.py) and the daily counter llm_spend (store/spend.py).       *)
(*                                                                         *)
(* A pass lists the untagged items once, sends them batch by batch to the  *)
(* model, records what each batch cost, then stamps its items.  The        *)
(* scheduled job and `just news-tag` are two taggers on one database; the  *)
(* process may stop between any two of their commits.  Money is counted    *)
(* in replies: every reply of the model costs one unit.                    *)
(***************************************************************************)
EXTENDS Integers, FiniteSetsExt, SequencesExt

CONSTANTS
    Items,              \* ids of news items, the newest the largest
    Length,             \* Length[i]: what the model has to write about i
    Taggers,
    Limit, BatchSize,   \* rows of one pass, items of one call
    Fit,                \* llm_max_output_tokens, in units of Length
    MaxFailures,        \* llm_max_consecutive_failures
    MaxAttempts,        \* of tag_batch
    Cap,                \* llm_daily_cap_cents
    MaxCrashes          \* bound

ASSUME TaggingAssumption ==
    /\ Items \subseteq Nat /\ IsFiniteSet(Items) /\ IsFiniteSet(Taggers)
    /\ Length \in [Items -> Nat]
    /\ {Limit, BatchSize, MaxFailures, MaxAttempts, Cap} \subseteq Nat \ {0}
    /\ {Fit, MaxCrashes} \subseteq Nat

VARIABLES
    polled,      \* ids in news_items
    tags,        \* tags[i]: "untagged", "empty" (stamped without a tag) or "tagged"
    today,       \* parity of the UTC day
    ledger,      \* llm_spend: what each of the two last days has cost
    pass,        \* pass[t]: the state of tagger t
    replies,     \* history: usable replies in which item i was paid for
    owed,        \* history: what the provider charged tagger t and is not on the ledger yet, save what a crash lost
    tagCrashes

tagVars == <<polled, tags, today, ledger, pass, replies, owed, tagCrashes>>

Days == {0, 1}
NoReply == [cost |-> 0, answered |-> {}]
Rest == [at |-> "idle", day |-> 0, batches |-> <<>>, failures |-> 0, reply |-> NoReply]

Pass ==
    [at : {"idle", "check", "call", "failed", "answered", "apply"}, day : Days, batches : Seq(SUBSET polled),
     failures : 0..(MaxFailures - 1), reply : [cost : 0..MaxAttempts, answered : SUBSET polled]]

TagTypeOK ==
    /\ polled \subseteq Items /\ tags \in [Items -> {"untagged", "empty", "tagged"}]
    /\ today \in Days /\ ledger \in [Days -> Nat] /\ owed \in [Taggers -> Int]
    /\ pass \in [Taggers -> Pass]
    /\ replies \in [Items -> Nat] /\ tagCrashes \in 0..MaxCrashes

TagInit ==
    /\ polled = {} /\ tags = [i \in Items |-> "untagged"]
    /\ today = 0 /\ ledger = [d \in Days |-> 0]
    /\ pass = [t \in Taggers |-> Rest]
    /\ replies = [i \in Items |-> 0] /\ owed = [t \in Taggers |-> 0] /\ tagCrashes = 0

\* Mutant of Remaining: one call past the cap.
RemainingLoose(day) == IF ledger[day] > Cap THEN 0 ELSE Cap - ledger[day] + 1

\* remaining_micros
Remaining(day) == IF ledger[day] >= Cap THEN 0 ELSE Cap - ledger[day]

\* Mutant of Record: a failed attempt that was charged for is not counted.
RecordCalls(day, cost) == ledger' = [ledger EXCEPT ![day] = @ + (IF cost = 0 THEN 0 ELSE 1)]

\* _record: a failed call that got no reply writes nothing.
Record(day, cost) == ledger' = [ledger EXCEPT ![day] = @ + cost]

Untagged == {i \in polled : tags[i] = "untagged"}

\* The newest item has place 1.
Place(i, items) == Cardinality({j \in items : j >= i})

ListUntagged == {i \in Untagged : Place(i, Untagged) <= Limit}

\* A batch is a set: only its items count, the order of the batches being that of their places.
Chunks(items) ==
    [k \in 1..((Cardinality(items) + BatchSize - 1) \div BatchSize) |->
        {i \in items : (Place(i, items) + BatchSize - 1) \div BatchSize = k}]

Step(t, record) == pass' = [pass EXCEPT ![t] = record]

(***************************************************************************)
(* The world: items are polled, days end, processes stop.                  *)
(***************************************************************************)
\* An address that is already there is left alone, its tags with it.
UpsertNews(i) ==
    /\ i \notin polled
    /\ polled' = polled \cup {i}
    /\ UNCHANGED <<tags, today, ledger, pass, replies, owed, tagCrashes>>

\* The counter of the new day has no row yet.  A pass does not last from one midnight to the next but one.
Midnight ==
    /\ \A t \in Taggers : pass[t].at # "idle" => pass[t].day = today
    /\ today' = 1 - today
    /\ ledger' = [ledger EXCEPT ![1 - today] = 0]
    /\ UNCHANGED <<polled, tags, pass, replies, owed, tagCrashes>>

\* What was charged and not yet recorded is never recorded; what was answered and not yet stamped is asked again.
StopTagger(t) ==
    /\ pass[t].at # "idle" /\ tagCrashes < MaxCrashes
    /\ tagCrashes' = tagCrashes + 1
    /\ owed' = [owed EXCEPT ![t] = @ - pass[t].reply.cost]
    /\ Step(t, Rest)
    /\ UNCHANGED <<polled, tags, today, ledger, replies>>

(***************************************************************************)
(* tag_pending, one step per commit and per call of the model.             *)
(***************************************************************************)
\* Nothing to do, no key and --dry-run return here and change nothing.
StartPass(t) ==
    /\ pass[t].at = "idle" /\ Untagged # {}
    /\ Step(t, [Rest EXCEPT !.at = "check", !.day = today, !.batches = Chunks(ListUntagged)])
    /\ UNCHANGED <<polled, tags, today, ledger, replies, owed, tagCrashes>>

\* The budget is read before every batch; a batch there is no budget for is skipped.
CheckBudget(t) ==
    /\ pass[t].at = "check"
    /\ Step(t, IF pass[t].batches = <<>> THEN Rest
               ELSE IF Remaining(pass[t].day) > 0 THEN [pass[t] EXCEPT !.at = "call"]
               ELSE [pass[t] EXCEPT !.batches = Tail(@)])
    /\ UNCHANGED <<polled, tags, today, ledger, replies, owed, tagCrashes>>

Work(batch) == MapThenSumSet(LAMBDA i : Length[i], batch)

\* What _validate lets through of a usable reply: at least one item of the batch.
Usable(batch) == (SUBSET batch) \ {{}}

\* The outcomes of one call of the model for a batch, with the replies that were charged: a reply cut at
\* max_tokens, a refusal, a transport error and an unusable reply to the last attempt fail the batch; an
\* unusable one before is asked again.
TagBatch(batch) ==
    [at : {"failed"}, cost : 0..MaxAttempts, answered : {{}}]
    \cup IF Work(batch) > Fit THEN {}
         ELSE [at : {"answered"}, cost : 1..MaxAttempts, answered : Usable(batch)]

\* The process waits for the model; what it answers is charged whatever becomes of it.
CallModel(t) ==
    /\ pass[t].at = "call"
    /\ \E r \in TagBatch(Head(pass[t].batches)) :
        /\ Step(t, [pass[t] EXCEPT !.at = r.at, !.reply = [cost |-> r.cost, answered |-> r.answered]])
        /\ owed' = [owed EXCEPT ![t] = @ + r.cost]
        /\ replies' = IF r.at = "answered" THEN [i \in Items |-> replies[i] + IF i \in Head(pass[t].batches) THEN 1 ELSE 0]
                      ELSE replies
    /\ UNCHANGED <<polled, tags, today, ledger, tagCrashes>>

\* The SDK is not installed: the pass ends.
Unavailable(t) ==
    /\ pass[t].at = "call"
    /\ Step(t, Rest)
    /\ UNCHANGED <<polled, tags, today, ledger, replies, owed, tagCrashes>>

\* A failed batch is recorded and left untagged; too many in a row end the pass.
RecordFailure(t) ==
    /\ pass[t].at = "failed"
    /\ Record(pass[t].day, pass[t].reply.cost)
    /\ owed' = [owed EXCEPT ![t] = @ - (ledger'[pass[t].day] - ledger[pass[t].day])]
    /\ Step(t, IF pass[t].failures + 1 >= MaxFailures THEN Rest
               ELSE [pass[t] EXCEPT !.at = "check", !.batches = Tail(@), !.failures = @ + 1, !.reply = NoReply])
    /\ UNCHANGED <<polled, tags, today, replies, tagCrashes>>

RecordReply(t) ==
    /\ pass[t].at = "answered"
    /\ Record(pass[t].day, pass[t].reply.cost)
    /\ owed' = [owed EXCEPT ![t] = @ - (ledger'[pass[t].day] - ledger[pass[t].day])]
    /\ Step(t, [pass[t] EXCEPT !.at = "apply", !.failures = 0, !.reply.cost = 0])
    /\ UNCHANGED <<polled, tags, today, replies, tagCrashes>>

\* Mutant of Stamped: items without an answer stay untagged.
StampedAnswered(batch, answered) == [i \in Items |-> IF i \in answered THEN "tagged" ELSE tags[i]]

\* _apply stamps the whole batch in one commit, the items the model left out too.
Stamped(batch, answered) ==
    [i \in Items |-> IF i \notin batch THEN tags[i] ELSE IF i \in answered THEN "tagged" ELSE "empty"]

ApplyTags(t) ==
    /\ pass[t].at = "apply"
    /\ tags' = Stamped(Head(pass[t].batches), pass[t].reply.answered)
    /\ Step(t, [pass[t] EXCEPT !.at = "check", !.batches = Tail(@), !.reply = NoReply])
    /\ UNCHANGED <<polled, today, ledger, replies, owed, tagCrashes>>

TagNext ==
    \/ \E i \in Items : UpsertNews(i)
    \/ Midnight
    \/ \E t \in Taggers :
        \/ StopTagger(t) \/ StartPass(t) \/ CheckBudget(t) \/ CallModel(t) \/ Unavailable(t)
        \/ RecordFailure(t) \/ RecordReply(t) \/ ApplyTags(t)

TagSpec == TagInit /\ [][TagNext]_tagVars

-----------------------------------------------------------------------------

\* Every reply the provider charges is on llm_spend, is in the hands of the pass that is about to record it,
\* or was lost when that pass was stopped: no outcome of a call hides what it cost.
EveryReplyIsCounted == \A t \in Taggers : owed[t] = pass[t].reply.cost

\* llm_daily_cap_cents is checked before every call, so a day's counter passes it by at most one call of
\* each tagger, crash or not.
TagCapHeld == \A d \in Days : ledger[d] <= Cap - 1 + Cardinality(Taggers) * MaxAttempts

\* An item is paid for again only by a tagger that listed it before another one stamped it, or after a crash
\* between the reply and the stamp: once per tagger and once more per crash.
PaidOncePerTagger == \A i \in Items : replies[i] <= Cardinality(Taggers) + tagCrashes

=============================================================================
