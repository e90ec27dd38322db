---------------------------- MODULE SpendProofs ----------------------------
(***************************************************************************)
(* What the program pays a model for: every reply is counted, the caps     *)
(* hold, no item is paid for without end.  For every set of items, taggers *)
(* and writers, every size of a batch and of a budget, and any number of   *)
(* stops.                                                                  *)
(***************************************************************************)
EXTENDS Spend, SequenceTheorems, FiniteSetTheorems, TLAPS

(***************************************************************************)
(* Sequences: what Head and Tail of a list that is worked off are.         *)
(***************************************************************************)
LEMMA HeadTail ==
  ASSUME NEW S, NEW s \in Seq(S), s # <<>>
  PROVE  /\ 1 \in DOMAIN s /\ Head(s) = s[1] /\ s[1] \in S
         /\ Tail(s) \in Seq(S)
         /\ \A k \in DOMAIN Tail(s) : k \in Nat \ {0} /\ k + 1 \in DOMAIN s /\ Tail(s)[k] = s[k + 1]
<1>1. Len(s) \in Nat /\ Len(s) # 0 /\ DOMAIN s = 1..Len(s)
  BY EmptySeq, LenProperties
<1>2. Tail(s) \in Seq(S) /\ Len(Tail(s)) = Len(s) - 1 /\ \A k \in 1..Len(Tail(s)) : Tail(s)[k] = s[k + 1]
  BY HeadTailProperties
<1>3. DOMAIN Tail(s) = 1..Len(Tail(s))
  BY <1>2, LenProperties
<1>4. Head(s) = s[1]
  OBVIOUS
<1>5. 1 \in DOMAIN s /\ s[1] \in S
  BY <1>1, ElementOfSeq
<1> QED BY <1>1, <1>2, <1>3, <1>4, <1>5

(***************************************************************************)
(* The tagger: typing, and what a pass is at each of its steps.            *)
(***************************************************************************)
Charged == {"failed", "answered"}

\* A pass that is past the check has a batch, only a reply in hand costs something, and no item is in two
\* batches.
PassFits(p) ==
    /\ p.at \in {"call", "failed", "answered", "apply"} => p.batches # <<>>
    /\ p.at \notin Charged => p.reply.cost = 0
    /\ \A k, l \in DOMAIN p.batches : k # l => p.batches[k] \cap p.batches[l] = {}

Passes == TagTypeOK /\ \A t \in Taggers : PassFits(pass[t])

LEMMA StepOnly ==
  ASSUME pass \in [Taggers -> Pass], NEW t \in Taggers, NEW record, Step(t, record)
  PROVE  /\ pass'[t] = record
         /\ \A x \in Taggers \ {t} : pass'[x] = pass[x]
         /\ record \in Pass => pass' \in [Taggers -> Pass]
  BY DEF Step

LEMMA RestFits == Rest \in Pass /\ PassFits(Rest)
<1>1. <<>> \in Seq(SUBSET polled) /\ DOMAIN <<>> = {}
  BY EmptySeq
<1>2. 0 \in 0..(MaxFailures - 1) /\ 0 \in 0..MaxAttempts
  BY TaggingAssumption
<1> QED BY <1>1, <1>2 DEF Rest, NoReply, Pass, Days, PassFits, Charged

LEMMA ChunksFit ==
  ASSUME NEW items, IsFiniteSet(items), items \subseteq polled
  PROVE  /\ Chunks(items) \in Seq(SUBSET polled)
         /\ \A k, l \in DOMAIN Chunks(items) : k # l => Chunks(items)[k] \cap Chunks(items)[l] = {}
         /\ \A k \in DOMAIN Chunks(items) : Chunks(items)[k] \subseteq items
<1>1. (Cardinality(items) + BatchSize - 1) \div BatchSize \in Nat
  <2>1. Cardinality(items) \in Nat /\ BatchSize \in Nat \ {0}
    BY FS_CardinalityType, TaggingAssumption
  <2> QED BY <2>1
<1>2. PICK n \in Nat : n = (Cardinality(items) + BatchSize - 1) \div BatchSize
  BY <1>1
<1>3. DOMAIN Chunks(items) = 1..n /\ \A k \in 1..n : Chunks(items)[k] = {i \in items : (Place(i, items) + BatchSize - 1) \div BatchSize = k}
  BY <1>2 DEF Chunks
<1>4. Chunks(items) \in [1..n -> SUBSET polled]
  BY <1>2 DEF Chunks
<1>5. Chunks(items) \in Seq(SUBSET polled)
  BY <1>4, SeqDef
<1> QED BY <1>3, <1>5

LEMMA ListedPolled ==
  ASSUME TagTypeOK
  PROVE  IsFiniteSet(ListUntagged) /\ ListUntagged \subseteq polled /\ \A i \in ListUntagged : tags[i] = "untagged"
<1>1. ListUntagged \subseteq polled /\ \A i \in ListUntagged : tags[i] = "untagged"
  BY DEF ListUntagged, Untagged
<1>2. IsFiniteSet(ListUntagged)
  BY <1>1, FS_Subset, TaggingAssumption DEF TagTypeOK
<1> QED BY <1>1, <1>2

LEMMA NextBatchFits ==
  ASSUME NEW p \in Pass, PassFits(p), p.batches # <<>>, NEW record \in Pass,
         record.batches = Tail(p.batches), record.at = "check", record.reply.cost = 0
  PROVE  PassFits(record)
<1>1. \A k \in DOMAIN Tail(p.batches) : k \in Nat /\ k + 1 \in DOMAIN p.batches /\ Tail(p.batches)[k] = p.batches[k + 1]
  BY HeadTail DEF Pass
<1>2. ASSUME NEW k \in DOMAIN record.batches, NEW l \in DOMAIN record.batches, k # l
      PROVE  record.batches[k] \cap record.batches[l] = {}
  <2>1. k + 1 # l + 1
    BY <1>1, <1>2
  <2> QED BY <1>1, <1>2, <2>1 DEF PassFits
<1> QED BY <1>2 DEF PassFits, Charged

LEMMA AnswersPolled ==
  ASSUME NEW batch, batch \subseteq polled, NEW r \in TagBatch(batch)
  PROVE  r.at \in {"failed", "answered"} /\ r.cost \in 0..MaxAttempts /\ r.answered \subseteq polled
  BY TaggingAssumption DEF TagBatch, Usable

LEMMA PassesInit == TagInit => Passes
  BY RestFits, TaggingAssumption DEF TagInit, Passes, TagTypeOK, Days

\* A step of one tagger leaves the passes well formed when its own record is.
LEMMA OnePass ==
  ASSUME Passes, NEW t \in Taggers, NEW record \in Pass, PassFits(record), Step(t, record), UNCHANGED polled
  PROVE  pass' \in [Taggers -> Pass]' /\ \A x \in Taggers : PassFits(pass'[x])
<1>1. pass' \in [Taggers -> Pass]
  BY StepOnly DEF Passes, TagTypeOK
<1>2. Pass' = Pass
  BY DEF Pass, Days
<1> QED BY <1>1, <1>2, StepOnly DEF Passes, TagTypeOK

LEMMA PassesWorld ==
  ASSUME Passes, \/ \E i \in Items : UpsertNews(i)
                 \/ Midnight
                 \/ UNCHANGED tagVars
  PROVE  Passes'
<1>1. \A x \in Taggers : PassFits(pass[x])' <=> PassFits(pass'[x])
  BY DEF PassFits, Charged
<1>2. ASSUME NEW i \in Items, UpsertNews(i) PROVE Passes'
  <2>1. ASSUME NEW p \in Pass PROVE p \in Pass'
    <3>1. polled \subseteq polled'
      BY <1>2 DEF UpsertNews
    <3>2. p.batches \in Seq(SUBSET polled')
      <4>1. p.batches \in Seq(SUBSET polled)
        BY DEF Pass
      <4>2. Len(p.batches) \in Nat /\ p.batches \in [1..Len(p.batches) -> SUBSET polled']
        BY <3>1, <4>1, LenProperties
      <4> QED BY <4>2, SeqDef
    <3> QED BY <3>1, <3>2 DEF Pass, Days
  <2>2. pass' \in [Taggers -> Pass']
    BY <1>2, <2>1 DEF UpsertNews, Passes, TagTypeOK
  <2> QED BY <1>2, <2>2 DEF UpsertNews, Passes, TagTypeOK
<1>3. ASSUME Midnight PROVE Passes'
  <2>1. Pass' = Pass
    BY <1>3 DEF Pass, Days, Midnight
  <2>2. today' \in Days /\ ledger' \in [Days -> Nat]
    BY <1>3 DEF Midnight, Passes, TagTypeOK, Days
  <2> QED BY <1>3, <2>1, <2>2 DEF Midnight, Passes, TagTypeOK
<1>4. ASSUME UNCHANGED tagVars PROVE Passes'
  <2>1. Pass' = Pass
    BY <1>4 DEF Pass, Days, tagVars
  <2> QED BY <1>4, <2>1 DEF tagVars, Passes, TagTypeOK
<1> QED BY <1>2, <1>3, <1>4

\* Stopped, started, or past a step: the record a tagger's own step leaves is always well formed.
LEMMA PassesStep ==
  ASSUME Passes, NEW t \in Taggers,
         StopTagger(t) \/ StartPass(t) \/ CheckBudget(t) \/ CallModel(t) \/ Unavailable(t)
           \/ RecordFailure(t) \/ RecordReply(t) \/ ApplyTags(t)
  PROVE  Passes'
<1> DEFINE p == pass[t]
<1>p. p \in Pass /\ PassFits(p) /\ polled \subseteq Items /\ ledger \in [Days -> Nat] /\ p.day \in Days
  BY DEF Passes, TagTypeOK, Pass
<1>n. p.reply.cost \in 0..MaxAttempts /\ p.failures \in 0..(MaxFailures - 1) /\ p.batches \in Seq(SUBSET polled)
  BY <1>p DEF Pass
<1>k. MaxCrashes \in Nat /\ MaxAttempts \in Nat \ {0} /\ MaxFailures \in Nat \ {0} /\ p.reply.cost \in Nat
  BY <1>n, TaggingAssumption
<1>c. \A cost \in Nat, day \in Days : Record(day, cost) => ledger' \in [Days -> Nat]
  BY <1>p DEF Record
<1>r. ASSUME NEW record \in Pass, PassFits(record), Step(t, record), UNCHANGED polled,
             tags' \in [Items -> {"untagged", "empty", "tagged"}], today' \in Days, ledger' \in [Days -> Nat],
             owed' \in [Taggers -> Int], replies' \in [Items -> Nat], tagCrashes' \in 0..MaxCrashes
      PROVE  Passes'
  <2>1. pass' \in [Taggers -> Pass]' /\ \A x \in Taggers : PassFits(pass'[x])
    BY <1>r, OnePass
  <2> QED BY <1>p, <1>r, <2>1 DEF Passes, TagTypeOK, Days
<1>1. CASE StopTagger(t)
  <2>1. owed' \in [Taggers -> Int]
    BY <1>1, <1>k DEF StopTagger, Passes, TagTypeOK
  <2>2. tagCrashes' \in 0..MaxCrashes
    BY <1>1, <1>k DEF StopTagger, Passes, TagTypeOK
  <2> QED BY <1>1, <1>r, <2>1, <2>2, RestFits DEF StopTagger, Passes, TagTypeOK
<1>2. CASE StartPass(t)
  <2> DEFINE record == [Rest EXCEPT !.at = "check", !.day = today, !.batches = Chunks(ListUntagged)]
  <2>1. record \in Pass
    BY RestFits, ListedPolled, ChunksFit DEF Passes, TagTypeOK, Pass
  <2>2. PassFits(record)
    BY ListedPolled, ChunksFit DEF Passes, PassFits, Rest, NoReply, Charged
  <2> HIDE DEF record
  <2> QED BY <1>2, <1>r, <2>1, <2>2 DEF record, StartPass, Passes, TagTypeOK
<1>3. CASE CheckBudget(t)
  <2>1. ASSUME NEW record \in Pass, PassFits(record), Step(t, record) PROVE Passes'
    BY <1>3, <1>r, <2>1 DEF CheckBudget, Passes, TagTypeOK
  <2>2. CASE p.batches = <<>>
    BY <1>3, <2>1, <2>2, RestFits DEF CheckBudget
  <2>3. CASE p.batches # <<>> /\ Remaining(p.day) > 0
    <3> DEFINE record == [p EXCEPT !.at = "call"]
    <3>1. record \in Pass /\ PassFits(record)
      BY <1>3, <1>p, <2>3 DEF CheckBudget, Pass, PassFits, Charged
    <3>2. Step(t, record)
      BY <1>3, <2>3 DEF CheckBudget
    <3> QED BY <2>1, <3>1, <3>2
  <2>4. CASE p.batches # <<>> /\ ~(Remaining(p.day) > 0)
    <3> DEFINE record == [p EXCEPT !.batches = Tail(@)]
    <3>1. record \in Pass /\ record.batches = Tail(p.batches) /\ record.at = "check" /\ record.reply.cost = 0
      BY <1>3, <1>p, <1>n, <2>4, HeadTail DEF CheckBudget, Pass, PassFits, Charged
    <3>2. Step(t, record)
      BY <1>3, <2>4 DEF CheckBudget
    <3> HIDE DEF record
    <3>3. PassFits(record)
      BY <1>p, <2>4, <3>1, NextBatchFits
    <3> QED BY <2>1, <3>1, <3>2, <3>3
  <2> QED BY <2>2, <2>3, <2>4
<1>4. CASE CallModel(t)
  <2>1. PICK r \in TagBatch(Head(pass[t].batches)) :
           /\ Step(t, [pass[t] EXCEPT !.at = r.at, !.reply = [cost |-> r.cost, answered |-> r.answered]])
           /\ owed' = [owed EXCEPT ![t] = @ + r.cost]
           /\ replies' = IF r.at = "answered" THEN [i \in Items |-> replies[i] + IF i \in Head(pass[t].batches) THEN 1 ELSE 0]
                         ELSE replies
    BY <1>4 DEF CallModel
  <2>2. p.batches # <<>> /\ Head(p.batches) \subseteq polled
    <3>1. p.batches # <<>>
      BY <1>4, <1>p DEF CallModel, PassFits
    <3> HIDE DEF p
    <3> QED BY <1>n, <3>1, HeadTail
  <2>3. r.at \in Charged /\ r.cost \in 0..MaxAttempts /\ r.answered \subseteq polled
    BY <2>2, AnswersPolled DEF Charged
  <2> DEFINE record == [p EXCEPT !.at = r.at, !.reply = [cost |-> r.cost, answered |-> r.answered]]
  <2>4. record \in Pass /\ PassFits(record)
    BY <1>p, <2>2, <2>3 DEF Pass, PassFits, Charged
  <2>5. owed' \in [Taggers -> Int] /\ replies' \in [Items -> Nat]
    BY <2>1, <2>3, TaggingAssumption DEF Passes, TagTypeOK
  <2> HIDE DEF record
  <2> QED BY <1>4, <1>r, <2>1, <2>4, <2>5 DEF record, CallModel, Passes, TagTypeOK
<1>5. CASE Unavailable(t)
  BY <1>5, <1>r, RestFits DEF Unavailable, Passes, TagTypeOK
<1>6. CASE RecordFailure(t)
  <2>1. ledger' \in [Days -> Nat] /\ owed' \in [Taggers -> Int]
    <3>1. ledger' \in [Days -> Nat]
      BY <1>6, <1>c, <1>n, <1>p, TaggingAssumption DEF RecordFailure
    <3> QED BY <1>6, <1>p, <3>1 DEF RecordFailure, Passes, TagTypeOK
  <2>2. ASSUME NEW record \in Pass, PassFits(record), Step(t, record) PROVE Passes'
    BY <1>6, <1>r, <2>1, <2>2 DEF RecordFailure, Passes, TagTypeOK
  <2>3. CASE p.failures + 1 >= MaxFailures
    BY <1>6, <2>2, <2>3, RestFits DEF RecordFailure
  <2>4. CASE ~(p.failures + 1 >= MaxFailures)
    <3> DEFINE record == [p EXCEPT !.at = "check", !.batches = Tail(@), !.failures = @ + 1, !.reply = NoReply]
    <3>0. p.batches # <<>>
      BY <1>6, <1>p DEF RecordFailure, PassFits
    <3>1. p.failures + 1 \in 0..(MaxFailures - 1) /\ NoReply \in [cost : 0..MaxAttempts, answered : SUBSET polled] /\ NoReply.cost = 0
      BY <1>n, <2>4, TaggingAssumption DEF NoReply
    <3>2. record \in Pass /\ record.batches = Tail(p.batches) /\ record.at = "check" /\ record.reply.cost = 0
      BY <1>p, <1>n, <3>0, <3>1, HeadTail DEF Pass
    <3>3. Step(t, record)
      BY <1>6, <2>4 DEF RecordFailure
    <3> HIDE DEF record
    <3>4. PassFits(record)
      BY <1>p, <3>0, <3>2, NextBatchFits
    <3> QED BY <2>2, <3>2, <3>3, <3>4
  <2> QED BY <2>3, <2>4
<1>7. CASE RecordReply(t)
  <2>1. ledger' \in [Days -> Nat] /\ owed' \in [Taggers -> Int]
    <3>1. ledger' \in [Days -> Nat]
      BY <1>7, <1>c, <1>n, <1>p, TaggingAssumption DEF RecordReply
    <3> QED BY <1>7, <1>p, <3>1 DEF RecordReply, Passes, TagTypeOK
  <2> DEFINE record == [p EXCEPT !.at = "apply", !.failures = 0, !.reply.cost = 0]
  <2>2. record \in Pass /\ PassFits(record)
    <3>1. [p.reply EXCEPT !.cost = 0] \in [cost : 0..MaxAttempts, answered : SUBSET polled] /\ [p.reply EXCEPT !.cost = 0].cost = 0
      BY <1>p, <1>k DEF Pass
    <3>2. 0 \in 0..(MaxFailures - 1)
      BY <1>k
    <3>3. record.at = "apply" /\ record.batches = p.batches /\ record.reply = [p.reply EXCEPT !.cost = 0] /\ record \in Pass
      BY <1>p, <3>1, <3>2 DEF Pass
    <3>4. p.at = "answered"
      BY <1>7 DEF RecordReply
    <3> HIDE DEF record
    <3> QED BY <1>p, <3>1, <3>3, <3>4 DEF PassFits, Charged
  <2> HIDE DEF record
  <2> QED BY <1>7, <1>r, <2>1, <2>2 DEF record, RecordReply, Passes, TagTypeOK
<1>8. CASE ApplyTags(t)
  <2>1. tags' \in [Items -> {"untagged", "empty", "tagged"}]
    BY <1>8 DEF ApplyTags, Stamped, Passes, TagTypeOK
  <2> DEFINE record == [p EXCEPT !.at = "check", !.batches = Tail(@), !.reply = NoReply]
  <2>2. p.batches # <<>>
    BY <1>8, <1>p DEF ApplyTags, PassFits
  <2>3. NoReply \in [cost : 0..MaxAttempts, answered : SUBSET polled] /\ NoReply.cost = 0
    BY TaggingAssumption DEF NoReply
  <2>4. record \in Pass /\ record.batches = Tail(p.batches) /\ record.at = "check" /\ record.reply.cost = 0
    BY <1>p, <1>n, <2>2, <2>3, HeadTail DEF Pass
  <2> HIDE DEF record
  <2>5. PassFits(record)
    BY <1>p, <2>2, <2>4, NextBatchFits
  <2> QED BY <1>8, <1>r, <2>1, <2>4, <2>5 DEF record, ApplyTags, Passes, TagTypeOK
<1> QED BY <1>1, <1>2, <1>3, <1>4, <1>5, <1>6, <1>7, <1>8

LEMMA PassesNext ==
  ASSUME Passes, [TagNext]_tagVars
  PROVE  Passes'
  BY PassesWorld, PassesStep DEF TagNext

LEMMA PassesAlways == TagSpec => []Passes
<1>1. TagInit => Passes
  BY PassesInit
<1>2. Passes /\ [TagNext]_tagVars => Passes'
  BY PassesNext
<1> QED BY <1>1, <1>2, PTL DEF TagSpec

\* Every reachable state of the tagger is well typed: no pass holds an item that was never polled.
THEOREM TaggingTyped == TagSpec => []TagTypeOK
<1>1. Passes => TagTypeOK
  BY DEF Passes
<1> QED BY <1>1, PassesAlways, PTL

(***************************************************************************)
(* The counter.  What a record of a reply adds to it is what that reply    *)
(* cost, so what is owed is always the cost of the reply in hand.          *)
(***************************************************************************)
LEMMA CountedStep ==
  ASSUME Passes, EveryReplyIsCounted, [TagNext]_tagVars
  PROVE  EveryReplyIsCounted'
<1> SUFFICES ASSUME NEW x \in Taggers PROVE owed'[x] = pass'[x].reply.cost
  BY DEF EveryReplyIsCounted
<1>x. owed[x] = pass[x].reply.cost /\ pass \in [Taggers -> Pass] /\ owed \in [Taggers -> Int]
  BY DEF EveryReplyIsCounted, Passes, TagTypeOK
<1>z. Rest.reply.cost = 0 /\ NoReply.cost = 0
  BY DEF Rest, NoReply
<1>1. CASE UNCHANGED <<owed, pass>>
  BY <1>1, <1>x
<1>2. ASSUME NEW t \in Taggers, NEW record, Step(t, record), owed' = [owed EXCEPT ![t] = record.reply.cost]
      PROVE  owed'[x] = pass'[x].reply.cost
  BY <1>2, <1>x, StepOnly
<1>3. ASSUME NEW t \in Taggers,
             StopTagger(t) \/ StartPass(t) \/ CheckBudget(t) \/ CallModel(t) \/ Unavailable(t)
               \/ RecordFailure(t) \/ RecordReply(t) \/ ApplyTags(t)
      PROVE  owed'[x] = pass'[x].reply.cost
  <2> DEFINE p == pass[t]
  <2>p. p \in Pass /\ PassFits(p) /\ ledger \in [Days -> Nat] /\ p.day \in Days /\ owed[t] = p.reply.cost
    BY DEF Passes, TagTypeOK, Pass, EveryReplyIsCounted
  <2>n. p.reply.cost \in Nat
    BY <2>p, TaggingAssumption DEF Pass
  <2>0. ASSUME owed' = owed, NEW record, Step(t, record), record.reply.cost = p.reply.cost
        PROVE  owed'[x] = pass'[x].reply.cost
    BY <1>x, <2>p, <2>0, StepOnly
  <2>c. ASSUME Record(p.day, p.reply.cost) PROVE p.reply.cost - (ledger'[p.day] - ledger[p.day]) = 0
    <3>1. ledger[p.day] \in Nat /\ ledger'[p.day] = ledger[p.day] + p.reply.cost
      BY <2>p, <2>c DEF Record
    <3> QED BY <2>n, <3>1
  <2>1. CASE StopTagger(t)
    <3>1. owed[t] - p.reply.cost = 0
      BY <2>p, <2>n
    <3> QED BY <1>2, <1>z, <2>1, <3>1 DEF StopTagger
  <2>2. CASE StartPass(t)
    <3>1. p.reply.cost = 0
      BY <2>2, <2>p DEF StartPass, PassFits, Charged
    <3> QED BY <2>0, <2>2, <3>1 DEF StartPass, Rest, NoReply
  <2>3. CASE CheckBudget(t)
    <3>1. p.reply.cost = 0
      BY <2>3, <2>p DEF CheckBudget, PassFits, Charged
    <3>2. \E record : Step(t, record) /\ record.reply.cost = 0
      <4>1. [p EXCEPT !.at = "call"].reply.cost = 0 /\ [p EXCEPT !.batches = Tail(@)].reply.cost = 0
        BY <2>p, <3>1 DEF Pass
      <4> QED BY <1>z, <2>3, <4>1 DEF CheckBudget
    <3> QED BY <2>0, <2>3, <3>1, <3>2 DEF CheckBudget
  <2>4. CASE CallModel(t)
    <3>1. PICK r \in TagBatch(Head(pass[t].batches)) :
             /\ Step(t, [pass[t] EXCEPT !.at = r.at, !.reply = [cost |-> r.cost, answered |-> r.answered]])
             /\ owed' = [owed EXCEPT ![t] = @ + r.cost]
      BY <2>4 DEF CallModel
    <3>2. r.cost \in Nat
      BY TaggingAssumption DEF TagBatch
    <3>3. owed[t] = 0
      BY <2>4, <2>p DEF CallModel, PassFits, Charged
    <3>4. [pass[t] EXCEPT !.at = r.at, !.reply = [cost |-> r.cost, answered |-> r.answered]].reply.cost = r.cost
      BY <2>p DEF Pass
    <3>5. owed[t] + r.cost = r.cost
      BY <3>2, <3>3
    <3> QED BY <1>2, <3>1, <3>4, <3>5
  <2>5. CASE Unavailable(t)
    <3>1. p.reply.cost = 0
      BY <2>5, <2>p DEF Unavailable, PassFits, Charged
    <3> QED BY <1>z, <2>0, <2>5, <3>1 DEF Unavailable
  <2>6. CASE RecordFailure(t)
    <3>1. owed' = [owed EXCEPT ![t] = 0]
      BY <2>6, <2>c, <2>p DEF RecordFailure
    <3>2. \E record : Step(t, record) /\ record.reply.cost = 0
      <4>1. [p EXCEPT !.at = "check", !.batches = Tail(@), !.failures = @ + 1, !.reply = NoReply].reply.cost = 0
        BY <1>z, <2>p DEF Pass
      <4> QED BY <1>z, <2>6, <4>1 DEF RecordFailure
    <3> QED BY <1>2, <3>1, <3>2
  <2>7. CASE RecordReply(t)
    <3>1. owed' = [owed EXCEPT ![t] = 0]
      BY <2>7, <2>c, <2>p DEF RecordReply
    <3>2. [p EXCEPT !.at = "apply", !.failures = 0, !.reply.cost = 0].reply.cost = 0
      BY <2>p DEF Pass
    <3> QED BY <1>2, <2>7, <3>1, <3>2 DEF RecordReply
  <2>8. CASE ApplyTags(t)
    <3>1. p.reply.cost = 0
      BY <2>8, <2>p DEF ApplyTags, PassFits, Charged
    <3>2. [p EXCEPT !.at = "check", !.batches = Tail(@), !.reply = NoReply].reply.cost = 0
      BY <1>z, <2>p DEF Pass
    <3> QED BY <2>0, <2>8, <3>1, <3>2 DEF ApplyTags
  <2> QED BY <1>3, <2>1, <2>2, <2>3, <2>4, <2>5, <2>6, <2>7, <2>8
<1> QED BY <1>1, <1>3 DEF TagNext, tagVars, UpsertNews, Midnight

(***************************************************************************)
(* The cap.  A tagger past the check may still bring MaxAttempts units,    *)
(* and the check lets it pass only while the counter is below the cap: so  *)
(* the counter stays below the cap by what the callers under way may bring.*)
(***************************************************************************)
Calling(day) == {t \in Taggers : pass[t].at \in {"call", "failed", "answered"} /\ pass[t].day = day}

\* Room for the taggers that are not calling yet.
CapRoom == \A d \in Days : ledger[d] <= Cap - 1 + MaxAttempts * (Cardinality(Taggers) - Cardinality(Calling(d)))

\* More callers, less room.
LEMMA RoomShrinks ==
  ASSUME NEW m \in Nat, NEW n \in Nat, m <= n
  PROVE  MaxAttempts * (Cardinality(Taggers) - n) <= MaxAttempts * (Cardinality(Taggers) - m)
<1>1. Cardinality(Taggers) \in Nat /\ MaxAttempts \in Nat
  BY FS_CardinalityType, TaggingAssumption
<1>2. \A a, b, k \in Int : k >= 0 /\ a <= b => k * a <= k * b
  OBVIOUS
<1> QED BY <1>1, <1>2

LEMMA SomeCalling ==
  ASSUME NEW C \in SUBSET Taggers
  PROVE  /\ IsFiniteSet(C) /\ Cardinality(C) \in Nat /\ Cardinality(Taggers) \in Nat
         /\ Cardinality(C) <= Cardinality(Taggers)
  BY FS_Subset, FS_CardinalityType, TaggingAssumption

\* Nobody else passed the check, and the counter stood still or was reset.
LEMMA RoomKept ==
  ASSUME Passes, CapRoom, NEW d \in Days, Calling(d)' \subseteq Calling(d), ledger'[d] \in {0, ledger[d]}
  PROVE  ledger'[d] <= Cap - 1 + MaxAttempts * (Cardinality(Taggers) - Cardinality(Calling(d)'))
<1> DEFINE C == Calling(d)  D == Calling(d)'
<1>1. C \in SUBSET Taggers /\ D \in SUBSET C
  BY DEF Calling
<1> HIDE DEF C, D
<1>2. Cardinality(D) \in Nat /\ Cardinality(C) \in Nat /\ Cardinality(Taggers) \in Nat /\ Cardinality(D) <= Cardinality(C)
  BY <1>1, FS_Subset, SomeCalling
<1>3. MaxAttempts * (Cardinality(Taggers) - Cardinality(C)) <= MaxAttempts * (Cardinality(Taggers) - Cardinality(D))
  BY <1>2, RoomShrinks
<1>4. ledger[d] \in Nat /\ ledger[d] <= Cap - 1 + MaxAttempts * (Cardinality(Taggers) - Cardinality(C))
  BY DEF C, CapRoom, Passes, TagTypeOK
<1>5. Cap \in Nat /\ MaxAttempts \in Nat
  BY TaggingAssumption
<1>6. MaxAttempts * (Cardinality(Taggers) - Cardinality(C)) \in Int /\ MaxAttempts * (Cardinality(Taggers) - Cardinality(D)) \in Int
  BY <1>2, <1>5
<1>7. ledger'[d] <= ledger[d]
  BY <1>4
<1> QED BY <1>3, <1>4, <1>5, <1>6, <1>7 DEF D

\* A caller records its reply and is a caller no more.
LEMMA RoomRecorded ==
  ASSUME Passes, CapRoom, NEW t \in Taggers, t \in Calling(pass[t].day), Record(pass[t].day, pass[t].reply.cost),
         \A d \in Days : Calling(d)' = Calling(d) \ {t}
  PROVE  CapRoom'
<1> DEFINE cost == pass[t].reply.cost
<1>0. pass[t].day \in Days /\ cost \in 0..MaxAttempts /\ ledger \in [Days -> Nat]
  BY DEF Passes, TagTypeOK, Pass
<1>d. PICK day \in Days : day = pass[t].day
  BY <1>0
<1> DEFINE C == Calling(day)
<1>1. ASSUME NEW d \in Days, d # day
      PROVE  ledger'[d] <= Cap - 1 + MaxAttempts * (Cardinality(Taggers) - Cardinality(Calling(d)'))
  BY <1>0, <1>1, <1>d, RoomKept DEF Record
<1>2. ledger'[day] <= Cap - 1 + MaxAttempts * (Cardinality(Taggers) - Cardinality(Calling(day)'))
  <2>1. IsFiniteSet(C) /\ Cardinality(C) \in Nat /\ Cardinality(Taggers) \in Nat
    BY SomeCalling DEF Calling
  <2>2. Cardinality(C \ {t}) = Cardinality(C) - 1
    BY <1>d, <2>1, FS_RemoveElement
  <2>3. ledger'[day] = ledger[day] + cost /\ ledger[day] \in Nat /\ Cap \in Nat /\ MaxAttempts \in Nat /\ cost \in Nat /\ cost <= MaxAttempts
    BY <1>0, <1>d, TaggingAssumption DEF Record
  <2>4. ledger[day] <= Cap - 1 + MaxAttempts * (Cardinality(Taggers) - Cardinality(C))
    BY DEF CapRoom
  <2>5. Calling(day)' = C \ {t}
    OBVIOUS
  <2>6. \A k, a, b \in Int : k * (a - (b - 1)) = k * (a - b) + k
    OBVIOUS
  <2>7. MaxAttempts * (Cardinality(Taggers) - Cardinality(C \ {t})) = MaxAttempts * (Cardinality(Taggers) - Cardinality(C)) + MaxAttempts
    BY <2>1, <2>2, <2>3, <2>6
  <2>8. MaxAttempts * (Cardinality(Taggers) - Cardinality(C)) \in Int
    BY <2>1, <2>3
  <2> HIDE DEF C
  <2>9. ledger'[day] <= Cap - 1 + MaxAttempts * (Cardinality(Taggers) - Cardinality(C \ {t}))
    BY <2>3, <2>4, <2>7, <2>8
  <2> QED BY <2>5, <2>9
<1>3. ASSUME NEW d \in Days PROVE ledger'[d] <= Cap - 1 + MaxAttempts * (Cardinality(Taggers) - Cardinality(Calling(d)'))
  BY <1>1, <1>2
<1> QED BY <1>3 DEF CapRoom, Days

\* A tagger passes the check: the counter is below the cap, and no more than all the taggers are calling.
LEMMA RoomChecked ==
  ASSUME Passes, CapRoom, NEW t \in Taggers, Remaining(pass[t].day) > 0, UNCHANGED ledger,
         \A d \in Days : d # pass[t].day => Calling(d)' = Calling(d)
  PROVE  CapRoom'
<1>d. PICK day \in Days : day = pass[t].day
  BY DEF Passes, TagTypeOK, Pass
<1> DEFINE D == Calling(day)'
<1>0. ledger[day] \in Nat /\ Cap \in Nat /\ MaxAttempts \in Nat
  BY TaggingAssumption DEF Passes, TagTypeOK
<1>1. ASSUME NEW d \in Days, d # day
      PROVE  ledger'[d] <= Cap - 1 + MaxAttempts * (Cardinality(Taggers) - Cardinality(Calling(d)'))
  BY <1>1, <1>d, RoomKept
<1>2. ledger[day] <= Cap - 1
  BY <1>0, <1>d DEF Remaining
<1>3. D \in SUBSET Taggers
  BY DEF Calling
<1> HIDE DEF D
<1>4. Cardinality(D) \in Nat /\ Cardinality(Taggers) \in Nat /\ Cardinality(D) <= Cardinality(Taggers)
  BY <1>3, SomeCalling
<1>5. MaxAttempts * (Cardinality(Taggers) - Cardinality(D)) \in Nat
  BY <1>0, <1>4
<1>6. ledger'[day] <= Cap - 1 + MaxAttempts * (Cardinality(Taggers) - Cardinality(D))
  BY <1>0, <1>2, <1>5
<1>7. ASSUME NEW d \in Days PROVE ledger'[d] <= Cap - 1 + MaxAttempts * (Cardinality(Taggers) - Cardinality(Calling(d)'))
  BY <1>1, <1>6 DEF D
<1> QED BY <1>7 DEF CapRoom, Days

LEMMA CapInit == TagInit => CapRoom
<1> SUFFICES ASSUME TagInit, NEW d \in Days
             PROVE  ledger[d] <= Cap - 1 + MaxAttempts * (Cardinality(Taggers) - Cardinality(Calling(d)))
  BY DEF CapRoom
<1>1. Calling(d) = {}
  BY DEF TagInit, Calling, Rest
<1>2. Cardinality(Calling(d)) = 0 /\ Cardinality(Taggers) \in Nat
  BY <1>1, FS_EmptySet, FS_CardinalityType, TaggingAssumption
<1>3. MaxAttempts * (Cardinality(Taggers) - Cardinality(Calling(d))) \in Nat /\ Cap \in Nat \ {0}
  BY <1>2, TaggingAssumption
<1> QED BY <1>3 DEF TagInit

LEMMA CapStep ==
  ASSUME Passes, CapRoom, [TagNext]_tagVars
  PROVE  CapRoom'
<1>0. pass \in [Taggers -> Pass] /\ ledger \in [Days -> Nat]
  BY DEF Passes, TagTypeOK
<1>k. ASSUME \A d \in Days : Calling(d)' \subseteq Calling(d), \A d \in Days : ledger'[d] \in {0, ledger[d]}
      PROVE  CapRoom'
  BY <1>k, RoomKept DEF CapRoom, Days
<1>1. ASSUME UNCHANGED pass, Midnight \/ UNCHANGED ledger PROVE CapRoom'
  <2>1. \A d \in Days : Calling(d)' \subseteq Calling(d)
    BY <1>1 DEF Calling
  <2>2. \A d \in Days : ledger'[d] \in {0, ledger[d]}
    BY <1>0, <1>1 DEF Midnight
  <2> QED BY <1>k, <2>1, <2>2
<1>2. ASSUME NEW t \in Taggers, NEW record, Step(t, record), UNCHANGED ledger,
             record.at \in {"call", "failed", "answered"} => pass[t].at \in {"call", "failed", "answered"} /\ record.day = pass[t].day
      PROVE  CapRoom'
  <2>1. \A d \in Days : Calling(d)' \subseteq Calling(d)
    BY <1>0, <1>2, StepOnly DEF Calling
  <2> QED BY <1>2, <1>k, <2>1
<1>3. ASSUME NEW t \in Taggers, NEW record, Step(t, record), record.at \notin {"call", "failed", "answered"},
             pass[t].at \in {"failed", "answered"}, Record(pass[t].day, pass[t].reply.cost)
      PROVE  CapRoom'
  <2>1. \A d \in Days : Calling(d)' = Calling(d) \ {t}
    BY <1>0, <1>3, StepOnly DEF Calling
  <2>2. t \in Calling(pass[t].day)
    BY <1>3 DEF Calling
  <2> QED BY <1>3, <2>1, <2>2, RoomRecorded
<1>4. ASSUME NEW t \in Taggers,
             StopTagger(t) \/ StartPass(t) \/ CheckBudget(t) \/ CallModel(t) \/ Unavailable(t)
               \/ RecordFailure(t) \/ RecordReply(t) \/ ApplyTags(t)
      PROVE  CapRoom'
  <2> DEFINE p == pass[t]
  <2>p. p \in Pass /\ Rest.at = "idle"
    BY <1>0 DEF Rest
  <2>1. CASE StopTagger(t)
    BY <1>2, <2>1, <2>p DEF StopTagger
  <2>2. CASE StartPass(t)
    BY <1>2, <2>2 DEF StartPass, Rest
  <2>3. CASE CheckBudget(t)
    <3>1. CASE p.batches = <<>>
      BY <1>2, <2>3, <2>p, <3>1 DEF CheckBudget
    <3>2. CASE p.batches # <<>> /\ Remaining(p.day) > 0
      <4>1. Step(t, [p EXCEPT !.at = "call"]) /\ [p EXCEPT !.at = "call"].day = p.day
        BY <2>3, <2>p, <3>2 DEF CheckBudget, Pass
      <4>2. \A d \in Days : d # p.day => Calling(d)' = Calling(d)
        BY <1>0, <4>1, StepOnly DEF Calling
      <4> QED BY <2>3, <3>2, <4>2, RoomChecked DEF CheckBudget
    <3>3. CASE p.batches # <<>> /\ ~(Remaining(p.day) > 0)
      <4>1. Step(t, [p EXCEPT !.batches = Tail(@)]) /\ [p EXCEPT !.batches = Tail(@)].at = "check"
        BY <2>3, <2>p, <3>3 DEF CheckBudget, Pass
      <4> QED BY <1>2, <2>3, <4>1 DEF CheckBudget
    <3> QED BY <3>1, <3>2, <3>3
  <2>4. CASE CallModel(t)
    <3>1. PICK r \in TagBatch(Head(pass[t].batches)) :
             Step(t, [pass[t] EXCEPT !.at = r.at, !.reply = [cost |-> r.cost, answered |-> r.answered]])
      BY <2>4 DEF CallModel
    <3>2. [pass[t] EXCEPT !.at = r.at, !.reply = [cost |-> r.cost, answered |-> r.answered]].day = pass[t].day
      BY <2>p DEF Pass
    <3> QED BY <1>2, <2>4, <3>1, <3>2 DEF CallModel
  <2>5. CASE Unavailable(t)
    BY <1>2, <2>5, <2>p DEF Unavailable
  <2>6. CASE RecordFailure(t)
    <3>1. [p EXCEPT !.at = "check", !.batches = Tail(@), !.failures = @ + 1, !.reply = NoReply].at = "check"
      BY <2>p DEF Pass
    <3> QED BY <1>3, <2>6, <2>p, <3>1 DEF RecordFailure
  <2>7. CASE RecordReply(t)
    <3>1. [p EXCEPT !.at = "apply", !.failures = 0, !.reply.cost = 0].at = "apply"
      BY <2>p DEF Pass
    <3> QED BY <1>3, <2>7, <3>1 DEF RecordReply
  <2>8. CASE ApplyTags(t)
    <3>1. [p EXCEPT !.at = "check", !.batches = Tail(@), !.reply = NoReply].at = "check"
      BY <2>p DEF Pass
    <3> QED BY <1>2, <2>8, <3>1 DEF ApplyTags
  <2> QED BY <1>4, <2>1, <2>2, <2>3, <2>4, <2>5, <2>6, <2>7, <2>8
<1> QED BY <1>1, <1>4 DEF TagNext, tagVars, UpsertNews, Midnight

LEMMA RoomIsCap ==
  ASSUME Passes, CapRoom
  PROVE  TagCapHeld
<1> SUFFICES ASSUME NEW d \in Days PROVE ledger[d] <= Cap - 1 + Cardinality(Taggers) * MaxAttempts
  BY DEF TagCapHeld
<1>1. Calling(d) \in SUBSET Taggers
  BY DEF Calling
<1>2. Cardinality(Calling(d)) \in Nat /\ Cardinality(Taggers) \in Nat /\ MaxAttempts \in Nat /\ Cap \in Nat
  BY <1>1, SomeCalling, TaggingAssumption
<1>3. MaxAttempts * (Cardinality(Taggers) - Cardinality(Calling(d))) <= MaxAttempts * (Cardinality(Taggers) - 0)
  BY <1>2, RoomShrinks
<1>4. ledger[d] <= Cap - 1 + MaxAttempts * (Cardinality(Taggers) - Cardinality(Calling(d))) /\ ledger[d] \in Nat
  BY DEF CapRoom, Passes, TagTypeOK
<1>5. MaxAttempts * (Cardinality(Taggers) - 0) = Cardinality(Taggers) * MaxAttempts
      /\ MaxAttempts * (Cardinality(Taggers) - Cardinality(Calling(d))) \in Int /\ Cardinality(Taggers) * MaxAttempts \in Int
  BY <1>2
<1> QED BY <1>2, <1>3, <1>4, <1>5

(***************************************************************************)
(* Items.  Until an item is stamped, every reply that was paid for it is   *)
(* in the hands of a tagger or was lost with one.  Once it is stamped no   *)
(* pass lists it again, and those that listed it before pay at most once   *)
(* each: the taggers that paid and those that still will are apart.        *)
(***************************************************************************)
HasPaid(p, i) == p.at \in {"answered", "apply"} /\ p.batches # <<>> /\ i \in p.batches[1]
WillPay(p, i) == \E k \in DOMAIN p.batches : i \in p.batches[k] /\ (k = 1 => p.at \notin {"answered", "apply"})

Payers(i) == {t \in Taggers : HasPaid(pass[t], i)}
Holders(i) == {t \in Taggers : WillPay(pass[t], i)}

PaidFor(i) ==
    IF tags[i] = "untagged" THEN replies[i] <= tagCrashes + Cardinality(Payers(i))
    ELSE replies[i] + Cardinality(Holders(i)) <= tagCrashes + Cardinality(Taggers)

LEMMA PaidApart ==
  ASSUME NEW p, PassFits(p), NEW i, HasPaid(p, i), 1 \in DOMAIN p.batches
  PROVE  ~WillPay(p, i)
  BY DEF PassFits, HasPaid, WillPay

\* What is left of a list after its first batch was in the list before, and is not in that batch.
LEMMA NextBatchPays ==
  ASSUME NEW p \in Pass, PassFits(p), p.batches # <<>>, NEW record,
         record.at = "check", record.batches = Tail(p.batches), NEW i
  PROVE  /\ ~HasPaid(record, i)
         /\ WillPay(record, i) => WillPay(p, i) /\ i \notin p.batches[1]
<1>1. /\ 1 \in DOMAIN p.batches
      /\ \A k \in DOMAIN Tail(p.batches) : k \in Nat \ {0} /\ k + 1 \in DOMAIN p.batches /\ Tail(p.batches)[k] = p.batches[k + 1]
  BY HeadTail DEF Pass
<1>2. ~HasPaid(record, i)
  BY DEF HasPaid
<1>3. ASSUME WillPay(record, i) PROVE WillPay(p, i) /\ i \notin p.batches[1]
  <2>1. PICK k \in DOMAIN Tail(p.batches) : i \in Tail(p.batches)[k]
    BY <1>3 DEF WillPay
  <2>2. k + 1 \in DOMAIN p.batches /\ k + 1 # 1 /\ i \in p.batches[k + 1]
    BY <1>1, <2>1
  <2> QED BY <1>1, <2>2 DEF WillPay, PassFits
<1> QED BY <1>2, <1>3

\* The same payers at least, no new holder of an item that is stamped.
LEMMA PaidKept ==
  ASSUME Passes, NEW i \in Items, PaidFor(i), tags'[i] = tags[i], replies'[i] = replies[i], tagCrashes' = tagCrashes,
         Payers(i) \subseteq Payers(i)', tags[i] # "untagged" => Holders(i)' \subseteq Holders(i)
  PROVE  PaidFor(i)'
<1> DEFINE P == Payers(i)  PP == Payers(i)'  H == Holders(i)  HH == Holders(i)'
<1>1. P \in SUBSET Taggers /\ PP \in SUBSET Taggers /\ H \in SUBSET Taggers /\ HH \in SUBSET Taggers
  BY DEF Payers, Holders
<1>2. replies[i] \in Nat /\ tagCrashes \in Nat
  BY TaggingAssumption DEF Passes, TagTypeOK
<1> HIDE DEF P, PP, H, HH
<1>3. /\ Cardinality(P) \in Nat /\ Cardinality(PP) \in Nat /\ Cardinality(H) \in Nat /\ Cardinality(HH) \in Nat
      /\ Cardinality(Taggers) \in Nat
  BY <1>1, SomeCalling
<1>4. CASE tags[i] = "untagged"
  <2>1. Cardinality(P) <= Cardinality(PP)
    BY <1>1, FS_Subset, SomeCalling DEF P, PP
  <2>2. replies[i] <= tagCrashes + Cardinality(P)
    BY <1>4 DEF PaidFor, P
  <2>3. replies'[i] <= tagCrashes' + Cardinality(PP)
    BY <1>2, <1>3, <2>1, <2>2
  <2> QED BY <1>4, <2>3 DEF PaidFor, PP
<1>5. CASE tags[i] # "untagged"
  <2>1. Cardinality(HH) <= Cardinality(H)
    BY <1>1, <1>5, FS_Subset, SomeCalling DEF H, HH
  <2>2. replies[i] + Cardinality(H) <= tagCrashes + Cardinality(Taggers)
    BY <1>5 DEF PaidFor, H
  <2>3. replies'[i] + Cardinality(HH) <= tagCrashes' + Cardinality(Taggers)
    BY <1>2, <1>3, <2>1, <2>2
  <2> QED BY <1>5, <2>3 DEF PaidFor, HH
<1> QED BY <1>4, <1>5

\* A stop takes at most one payer away, and is counted.
LEMMA PaidStopped ==
  ASSUME Passes, NEW i \in Items, PaidFor(i), UNCHANGED <<tags, replies>>, tagCrashes' = tagCrashes + 1,
         NEW t \in Taggers, Payers(i) \subseteq Payers(i)' \cup {t}, Holders(i)' \subseteq Holders(i)
  PROVE  PaidFor(i)'
<1> DEFINE P == Payers(i)  PP == Payers(i)'  H == Holders(i)  HH == Holders(i)'
<1>1. P \in SUBSET Taggers /\ PP \in SUBSET Taggers /\ H \in SUBSET Taggers /\ HH \in SUBSET Taggers
  BY DEF Payers, Holders
<1>2. replies[i] \in Nat /\ tagCrashes \in Nat
  BY TaggingAssumption DEF Passes, TagTypeOK
<1> HIDE DEF P, PP, H, HH
<1>3. /\ Cardinality(P) \in Nat /\ Cardinality(PP) \in Nat /\ Cardinality(H) \in Nat /\ Cardinality(HH) \in Nat
      /\ Cardinality(Taggers) \in Nat /\ IsFiniteSet(PP) /\ IsFiniteSet(H)
  BY <1>1, SomeCalling
<1>4. CASE tags[i] = "untagged"
  <2>1. IsFiniteSet(PP \cup {t}) /\ Cardinality(PP \cup {t}) \in Nat /\ Cardinality(PP \cup {t}) <= Cardinality(PP) + 1
    <3>1. IsFiniteSet(PP \cup {t}) /\ (Cardinality(PP \cup {t}) = Cardinality(PP) \/ Cardinality(PP \cup {t}) = Cardinality(PP) + 1)
      BY <1>3, FS_AddElement
    <3> QED BY <1>3, <3>1
  <2>2. Cardinality(P) <= Cardinality(PP \cup {t})
    BY <2>1, FS_Subset DEF P, PP
  <2>3. replies[i] <= tagCrashes + Cardinality(P)
    BY <1>4 DEF PaidFor, P
  <2>4. replies'[i] <= tagCrashes' + Cardinality(PP)
    BY <1>2, <1>3, <2>1, <2>2, <2>3
  <2> QED BY <1>4, <2>4 DEF PaidFor, PP
<1>5. CASE tags[i] # "untagged"
  <2>1. Cardinality(HH) <= Cardinality(H)
    BY <1>3, FS_Subset DEF H, HH
  <2>2. replies[i] + Cardinality(H) <= tagCrashes + Cardinality(Taggers)
    BY <1>5 DEF PaidFor, H
  <2>3. replies'[i] + Cardinality(HH) <= tagCrashes' + Cardinality(Taggers)
    BY <1>2, <1>3, <2>1, <2>2
  <2> QED BY <1>5, <2>3 DEF PaidFor, HH
<1> QED BY <1>4, <1>5

\* A holder pays: one payer more, one holder less.
LEMMA PaidOnceMore ==
  ASSUME Passes, NEW i \in Items, PaidFor(i), UNCHANGED <<tags, tagCrashes>>, replies'[i] = replies[i] + 1,
         NEW t \in Taggers, t \notin Payers(i), t \in Holders(i),
         Payers(i)' = Payers(i) \cup {t}, Holders(i)' = Holders(i) \ {t}
  PROVE  PaidFor(i)'
<1> DEFINE P == Payers(i)  PP == Payers(i)'  H == Holders(i)  HH == Holders(i)'
<1>1. P \in SUBSET Taggers /\ H \in SUBSET Taggers
  BY DEF Payers, Holders
<1>2. replies[i] \in Nat /\ tagCrashes \in Nat
  BY TaggingAssumption DEF Passes, TagTypeOK
<1> HIDE DEF P, PP, H, HH
<1>3. IsFiniteSet(P) /\ IsFiniteSet(H) /\ Cardinality(P) \in Nat /\ Cardinality(H) \in Nat /\ Cardinality(Taggers) \in Nat
  BY <1>1, SomeCalling
<1>4. Cardinality(PP) = Cardinality(P) + 1 /\ Cardinality(HH) = Cardinality(H) - 1
  <2>1. t \notin P /\ t \in H /\ PP = P \cup {t} /\ HH = H \ {t}
    BY DEF P, PP, H, HH
  <2>2. Cardinality(P \cup {t}) = Cardinality(P) + 1
    BY <1>3, <2>1, FS_AddElement
  <2>3. Cardinality(H \ {t}) = Cardinality(H) - 1
    BY <1>3, <2>1, FS_RemoveElement
  <2> QED BY <2>1, <2>2, <2>3
<1>5. CASE tags[i] = "untagged"
  <2>1. replies[i] <= tagCrashes + Cardinality(P)
    BY <1>5 DEF PaidFor, P
  <2>2. replies'[i] <= tagCrashes' + Cardinality(PP)
    BY <1>2, <1>3, <1>4, <2>1
  <2> QED BY <1>5, <2>2 DEF PaidFor, PP
<1>6. CASE tags[i] # "untagged"
  <2>1. replies[i] + Cardinality(H) <= tagCrashes + Cardinality(Taggers)
    BY <1>6 DEF PaidFor, H
  <2>2. replies'[i] + Cardinality(HH) <= tagCrashes' + Cardinality(Taggers)
    BY <1>2, <1>3, <1>4, <2>1
  <2> QED BY <1>6, <2>2 DEF PaidFor, HH
<1> QED BY <1>5, <1>6

\* The item is stamped: those that paid are at most the taggers that hold it no more.
LEMMA PaidStamped ==
  ASSUME Passes, NEW i \in Items, PaidFor(i), UNCHANGED <<replies, tagCrashes>>, tags'[i] # "untagged",
         Holders(i)' \subseteq Holders(i), Holders(i)' \cap Payers(i) = {}
  PROVE  PaidFor(i)'
<1> DEFINE P == Payers(i)  H == Holders(i)  HH == Holders(i)'
<1>1. P \in SUBSET Taggers /\ H \in SUBSET Taggers /\ HH \in SUBSET Taggers /\ P \cup HH \in SUBSET Taggers
  BY DEF Payers, Holders
<1>2. replies[i] \in Nat /\ tagCrashes \in Nat
  BY TaggingAssumption DEF Passes, TagTypeOK
<1> HIDE DEF P, H, HH
<1>3. /\ IsFiniteSet(P) /\ IsFiniteSet(H) /\ IsFiniteSet(HH) /\ Cardinality(P) \in Nat /\ Cardinality(H) \in Nat
      /\ Cardinality(HH) \in Nat /\ Cardinality(Taggers) \in Nat /\ Cardinality(P \cup HH) <= Cardinality(Taggers)
  BY <1>1, SomeCalling
<1>4. CASE tags[i] = "untagged"
  <2>1. P \cap HH = {}
    BY DEF P, HH
  <2>2. Cardinality(P \cup HH) = Cardinality(P) + Cardinality(HH) - Cardinality(P \cap HH)
    BY <1>3, FS_Union
  <2>3. Cardinality(P \cap HH) = 0
    BY <2>1, FS_EmptySet
  <2>4. replies[i] <= tagCrashes + Cardinality(P)
    BY <1>4 DEF PaidFor, P
  <2>5. replies'[i] + Cardinality(HH) <= tagCrashes' + Cardinality(Taggers)
    BY <1>2, <1>3, <2>2, <2>3, <2>4
  <2> QED BY <2>5 DEF PaidFor, HH
<1>5. CASE tags[i] # "untagged"
  <2>1. Cardinality(HH) <= Cardinality(H)
    BY <1>3, FS_Subset DEF H, HH
  <2>2. replies[i] + Cardinality(H) <= tagCrashes + Cardinality(Taggers)
    BY <1>5 DEF PaidFor, H
  <2>3. replies'[i] + Cardinality(HH) <= tagCrashes' + Cardinality(Taggers)
    BY <1>2, <1>3, <2>1, <2>2
  <2> QED BY <2>3 DEF PaidFor, HH
<1> QED BY <1>4, <1>5

\* What a step of tagger t does to the payers and the holders of an item is what it does to t.
LEMMA StepPays ==
  ASSUME Passes, NEW t \in Taggers, NEW record, Step(t, record), NEW i
  PROVE  /\ Payers(i) \subseteq Payers(i)' \cup {t}
         /\ (HasPaid(pass[t], i) => HasPaid(record, i)) => Payers(i) \subseteq Payers(i)'
         /\ (WillPay(record, i) => WillPay(pass[t], i)) => Holders(i)' \subseteq Holders(i)
         /\ HasPaid(record, i) => Payers(i)' = Payers(i) \cup {t}
         /\ ~WillPay(record, i) => Holders(i)' = Holders(i) \ {t}
<1>1. pass'[t] = record /\ \A x \in Taggers \ {t} : pass'[x] = pass[x]
  BY StepOnly DEF Passes, TagTypeOK
<1>2. \A x \in Taggers \ {t} : (HasPaid(pass'[x], i) <=> HasPaid(pass[x], i)) /\ (WillPay(pass'[x], i) <=> WillPay(pass[x], i))
  BY <1>1
<1>3. (HasPaid(pass'[t], i) <=> HasPaid(record, i)) /\ (WillPay(pass'[t], i) <=> WillPay(record, i))
  BY <1>1
<1>4. Payers(i)' = {x \in Taggers : HasPaid(pass'[x], i)} /\ Holders(i)' = {x \in Taggers : WillPay(pass'[x], i)}
  BY DEF Payers, Holders, HasPaid, WillPay
<1> QED BY <1>2, <1>3, <1>4 DEF Payers, Holders

\* A step that neither stamps, nor is paid for, nor stops.
LEMMA QuietStep ==
  ASSUME Passes, NEW i \in Items, PaidFor(i), UNCHANGED <<tags, tagCrashes>>, replies'[i] = replies[i],
         NEW t \in Taggers, NEW record, Step(t, record),
         HasPaid(pass[t], i) => HasPaid(record, i), tags[i] # "untagged" /\ WillPay(record, i) => WillPay(pass[t], i)
  PROVE  PaidFor(i)'
  BY PaidKept, StepPays

LEMMA RestPays == \A i : ~HasPaid(Rest, i) /\ ~WillPay(Rest, i)
<1>1. Rest.at = "idle" /\ Rest.batches = <<>> /\ DOMAIN <<>> = {}
  BY EmptySeq DEF Rest
<1> QED BY <1>1 DEF HasPaid, WillPay

LEMMA PaidInit == TagInit => \A i \in Items : PaidFor(i)
<1> SUFFICES ASSUME TagInit, NEW i \in Items PROVE replies[i] <= tagCrashes + Cardinality(Payers(i))
  BY DEF PaidFor, TagInit
<1>1. Payers(i) \in SUBSET Taggers
  BY DEF Payers
<1> QED BY <1>1, SomeCalling DEF TagInit

LEMMA PaidStep ==
  ASSUME Passes, \A j \in Items : PaidFor(j), [TagNext]_tagVars, NEW i \in Items
  PROVE  PaidFor(i)'
<1>i. PaidFor(i)
  OBVIOUS
<1>1. ASSUME UNCHANGED <<pass, tags, replies, tagCrashes>> PROVE PaidFor(i)'
  <2>1. Payers(i)' = Payers(i) /\ Holders(i)' = Holders(i)
    BY <1>1 DEF Payers, Holders, HasPaid, WillPay
  <2> QED BY <1>1, <1>i, <2>1, PaidKept
<1>2. ASSUME NEW t \in Taggers,
             StopTagger(t) \/ StartPass(t) \/ CheckBudget(t) \/ CallModel(t) \/ Unavailable(t)
               \/ RecordFailure(t) \/ RecordReply(t) \/ ApplyTags(t)
      PROVE  PaidFor(i)'
  <2> DEFINE p == pass[t]
  <2>p. p \in Pass /\ PassFits(p) /\ p.batches \in Seq(SUBSET polled)
    BY DEF Passes, TagTypeOK, Pass
  <2>h. p.batches # <<>> => 1 \in DOMAIN p.batches /\ Head(p.batches) = p.batches[1]
    <3> HIDE DEF p
    <3> QED BY <2>p, HeadTail
  <2>q. ASSUME UNCHANGED <<tags, tagCrashes, replies>>, NEW record, Step(t, record),
               HasPaid(p, i) => HasPaid(record, i), tags[i] # "untagged" /\ WillPay(record, i) => WillPay(p, i)
        PROVE  PaidFor(i)'
    BY <1>i, <2>q, QuietStep
  <2>1. CASE StopTagger(t)
    <3>1. Step(t, Rest) /\ UNCHANGED <<tags, replies>> /\ tagCrashes' = tagCrashes + 1
      BY <2>1 DEF StopTagger
    <3>2. Payers(i) \subseteq Payers(i)' \cup {t} /\ Holders(i)' \subseteq Holders(i)
      BY <3>1, RestPays, StepPays
    <3> QED BY <1>i, <3>1, <3>2, PaidStopped
  <2>2. CASE StartPass(t)
    <3> DEFINE record == [Rest EXCEPT !.at = "check", !.day = today, !.batches = Chunks(ListUntagged)]
    <3>1. Step(t, record) /\ ~HasPaid(p, i) /\ UNCHANGED <<tags, tagCrashes, replies>>
      BY <2>2 DEF StartPass, HasPaid
    <3>2. WillPay(record, i) => i \in ListUntagged
      BY ListedPolled, ChunksFit DEF Passes, WillPay, Rest
    <3>3. i \in ListUntagged => tags[i] = "untagged"
      BY ListedPolled DEF Passes
    <3> HIDE DEF record, p
    <3> QED BY <2>q, <3>1, <3>2, <3>3
  <2>3. CASE CheckBudget(t)
    <3>0. ~HasPaid(p, i) /\ UNCHANGED <<tags, tagCrashes, replies>>
      BY <2>3 DEF CheckBudget, HasPaid
    <3>1. CASE p.batches = <<>>
      BY <2>3, <2>q, <3>0, <3>1, RestPays DEF CheckBudget
    <3>2. CASE p.batches # <<>> /\ Remaining(p.day) > 0
      <4> DEFINE record == [p EXCEPT !.at = "call"]
      <4>1. Step(t, record) /\ record.batches = p.batches /\ record.at = "call" /\ p.at = "check"
        BY <2>3, <2>p, <3>2 DEF CheckBudget, Pass
      <4>2. WillPay(record, i) => WillPay(p, i)
        <5> HIDE DEF record, p
        <5> QED BY <4>1 DEF WillPay
      <4> HIDE DEF record
      <4> QED BY <2>q, <3>0, <4>1, <4>2
    <3>3. CASE p.batches # <<>> /\ ~(Remaining(p.day) > 0)
      <4> DEFINE record == [p EXCEPT !.batches = Tail(@)]
      <4>1. Step(t, record) /\ record.batches = Tail(p.batches) /\ record.at = "check"
        BY <2>3, <2>p, <3>3 DEF CheckBudget, Pass
      <4> HIDE DEF record
      <4>2. WillPay(record, i) => WillPay(p, i)
        BY <2>p, <3>3, <4>1, NextBatchPays
      <4> QED BY <2>q, <3>0, <4>1, <4>2
    <3> QED BY <3>1, <3>2, <3>3
  <2>4. CASE CallModel(t)
    <3>1. PICK r \in TagBatch(Head(pass[t].batches)) :
             /\ Step(t, [pass[t] EXCEPT !.at = r.at, !.reply = [cost |-> r.cost, answered |-> r.answered]])
             /\ replies' = IF r.at = "answered" THEN [j \in Items |-> replies[j] + IF j \in Head(pass[t].batches) THEN 1 ELSE 0]
                           ELSE replies
      BY <2>4 DEF CallModel
    <3> DEFINE record == [p EXCEPT !.at = r.at, !.reply = [cost |-> r.cost, answered |-> r.answered]]
    <3>2. r.at \in {"failed", "answered"}
      BY DEF TagBatch
    <3>3. record.at = r.at /\ record.batches = p.batches /\ p.at = "call" /\ p.batches # <<>> /\ PassFits(p)
      BY <2>4, <2>p DEF CallModel, Pass, PassFits
    <3>4. UNCHANGED <<tags, tagCrashes>> /\ Step(t, record) /\ replies \in [Items -> Nat]
      BY <2>4, <3>1 DEF CallModel, Passes, TagTypeOK
    <3>5. ~HasPaid(p, i)
      BY <3>3 DEF HasPaid
    <3>6. CASE r.at = "answered" /\ i \in p.batches[1]
      <4>1. replies'[i] = replies[i] + 1
        BY <2>h, <3>1, <3>3, <3>4, <3>6
      <4> HIDE DEF record, p
      <4>2. HasPaid(record, i) /\ WillPay(p, i)
        BY <2>h, <3>3, <3>6 DEF HasPaid, WillPay
      <4>3. ~WillPay(record, i)
        BY <2>h, <3>3, <3>6 DEF WillPay, PassFits
      <4>4. t \notin Payers(i) /\ t \in Holders(i)
        BY <3>5, <4>2 DEF Payers, Holders, p
      <4>5. Payers(i)' = Payers(i) \cup {t} /\ Holders(i)' = Holders(i) \ {t}
        BY <3>4, <4>2, <4>3, StepPays
      <4> QED BY <1>i, <3>4, <4>1, <4>4, <4>5, PaidOnceMore
    <3>7. CASE ~(r.at = "answered" /\ i \in p.batches[1])
      <4>1. replies'[i] = replies[i]
        BY <2>h, <3>1, <3>3, <3>4, <3>7
      <4> HIDE DEF record
      <4>2. WillPay(record, i) => WillPay(p, i)
        <5> HIDE DEF p
        <5> QED BY <3>3 DEF WillPay
      <4> QED BY <1>i, <3>4, <3>5, <4>1, <4>2, QuietStep
    <3> QED BY <3>6, <3>7
  <2>5. CASE Unavailable(t)
    <3>1. ~HasPaid(p, i)
      BY <2>5 DEF Unavailable, HasPaid
    <3> QED BY <2>5, <2>q, <3>1, RestPays DEF Unavailable
  <2>6. CASE RecordFailure(t)
    <3>0. ~HasPaid(p, i) /\ UNCHANGED <<tags, tagCrashes, replies>> /\ p.batches # <<>>
      BY <2>6, <2>p DEF RecordFailure, HasPaid, PassFits
    <3>1. CASE p.failures + 1 >= MaxFailures
      BY <2>6, <2>q, <3>0, <3>1, RestPays DEF RecordFailure
    <3>2. CASE ~(p.failures + 1 >= MaxFailures)
      <4> DEFINE record == [p EXCEPT !.at = "check", !.batches = Tail(@), !.failures = @ + 1, !.reply = NoReply]
      <4>1. Step(t, record) /\ record.batches = Tail(p.batches) /\ record.at = "check"
        BY <2>6, <2>p, <3>2 DEF RecordFailure, Pass
      <4> HIDE DEF record
      <4>2. WillPay(record, i) => WillPay(p, i)
        BY <2>p, <3>0, <4>1, NextBatchPays
      <4> QED BY <2>q, <3>0, <4>1, <4>2
    <3> QED BY <3>1, <3>2
  <2>7. CASE RecordReply(t)
    <3> DEFINE record == [p EXCEPT !.at = "apply", !.failures = 0, !.reply.cost = 0]
    <3>1. Step(t, record) /\ record.batches = p.batches /\ record.at = "apply" /\ p.at = "answered" /\ UNCHANGED <<tags, tagCrashes, replies>>
      BY <2>7, <2>p DEF RecordReply, Pass
    <3> HIDE DEF record
    <3>2. (HasPaid(p, i) => HasPaid(record, i)) /\ (WillPay(record, i) => WillPay(p, i))
      <4> HIDE DEF p
      <4> QED BY <3>1 DEF HasPaid, WillPay
    <3> QED BY <2>q, <3>1, <3>2
  <2>8. CASE ApplyTags(t)
    <3> DEFINE record == [p EXCEPT !.at = "check", !.batches = Tail(@), !.reply = NoReply]
    <3>1. Step(t, record) /\ record.batches = Tail(p.batches) /\ record.at = "check" /\ p.at = "apply" /\ UNCHANGED <<tagCrashes, replies>>
      BY <2>8, <2>p DEF ApplyTags, Pass
    <3>2. p.batches # <<>> /\ PassFits(p)
      BY <2>8, <2>p DEF ApplyTags, PassFits
    <3> HIDE DEF record
    <3>3. ~HasPaid(record, i) /\ (WillPay(record, i) => WillPay(p, i) /\ i \notin p.batches[1])
      BY <2>p, <3>1, <3>2, NextBatchPays
    <3>4. CASE i \notin p.batches[1]
      <4>1. tags'[i] = tags[i]
        BY <2>8, <2>h, <3>2, <3>4 DEF ApplyTags, Stamped, Passes, TagTypeOK
      <4>2. ~HasPaid(p, i)
        BY <3>4 DEF HasPaid
      <4>3. Payers(i) \subseteq Payers(i)' /\ Holders(i)' \subseteq Holders(i)
        BY <3>1, <3>3, <4>2, StepPays
      <4> QED BY <1>i, <3>1, <4>1, <4>3, PaidKept
    <3>5. CASE i \in p.batches[1]
      <4>1. tags'[i] # "untagged"
        BY <2>8, <2>h, <3>2, <3>5 DEF ApplyTags, Stamped
      <4>2. Holders(i)' = Holders(i) \ {t}
        BY <3>1, <3>3, <3>5, StepPays
      <4>3. \A x \in Payers(i) : x = t \/ x \notin Holders(i)
        <5> SUFFICES ASSUME NEW x \in Payers(i) PROVE ~WillPay(pass[x], i)
          BY DEF Holders
        <5>1. x \in Taggers /\ HasPaid(pass[x], i)
          BY DEF Payers
        <5>2. pass[x] \in Pass /\ PassFits(pass[x])
          BY <5>1 DEF Passes, TagTypeOK
        <5>3. pass[x].batches \in Seq(SUBSET polled) /\ pass[x].batches # <<>>
          BY <5>1, <5>2 DEF Pass, HasPaid
        <5>4. 1 \in DOMAIN pass[x].batches
          BY <5>3, HeadTail
        <5> QED BY <5>1, <5>2, <5>4, PaidApart
      <4>4. Holders(i)' \subseteq Holders(i) /\ Holders(i)' \cap Payers(i) = {}
        BY <4>2, <4>3
      <4> QED BY <1>i, <3>1, <4>1, <4>4, PaidStamped
    <3> QED BY <3>4, <3>5
  <2> QED BY <1>2, <2>1, <2>2, <2>3, <2>4, <2>5, <2>6, <2>7, <2>8
<1> QED BY <1>1, <1>2 DEF TagNext, tagVars, UpsertNews, Midnight

LEMMA PaidForBounds ==
  ASSUME Passes, \A i \in Items : PaidFor(i)
  PROVE  PaidOncePerTagger
<1> SUFFICES ASSUME NEW i \in Items PROVE replies[i] <= Cardinality(Taggers) + tagCrashes
  BY DEF PaidOncePerTagger
<1>1. Payers(i) \in SUBSET Taggers /\ Holders(i) \in SUBSET Taggers
  BY DEF Payers, Holders
<1>2. replies[i] \in Nat /\ tagCrashes \in Nat /\ PaidFor(i)
  BY TaggingAssumption DEF Passes, TagTypeOK
<1>3. /\ Cardinality(Payers(i)) \in Nat /\ Cardinality(Payers(i)) <= Cardinality(Taggers)
      /\ Cardinality(Holders(i)) \in Nat /\ Cardinality(Taggers) \in Nat
  BY <1>1, SomeCalling
<1> QED BY <1>2, <1>3 DEF PaidFor

\* An item is paid for at most once by each tagger, and once more for each stop, however the batches of
\* several passes over one list are interleaved.
THEOREM ItemsArePaidOnce == TagSpec => []PaidOncePerTagger
<1> DEFINE Inv == Passes /\ \A i \in Items : PaidFor(i)
<1>1. TagInit => Inv
  BY PassesInit, PaidInit
<1>2. Inv /\ [TagNext]_tagVars => Inv'
  <2> SUFFICES ASSUME Inv, [TagNext]_tagVars PROVE Inv'
    OBVIOUS
  <2>1. Passes'
    BY PassesNext
  <2>2. ASSUME NEW i \in Items PROVE PaidFor(i)'
    BY PaidStep
  <2> QED BY <2>1, <2>2
<1>3. Inv => PaidOncePerTagger
  BY PaidForBounds
<1> QED BY <1>1, <1>2, <1>3, PTL DEF TagSpec

(***************************************************************************)
(* The writers: typing, and what a job is at each of its steps.            *)
(***************************************************************************)
CostOf(j) ==
    IF j.at \in {"written", "empty", "counted"} THEN 1
    ELSE IF j.at = "noFrench" THEN 2
    ELSE IF j.at \in {"ready", "saved"} THEN (IF j.fr = None THEN 1 ELSE 2)
    ELSE 0

\* A job past its start has a piece; what it holds unrecorded follows from its step; its French is of its
\* English; the pieces after the first, and those of a job between two pieces, are notes.
JobFits(j) ==
    /\ j.at \notin {"off", "next"} => j.todo # <<>>
    /\ j.cost = CostOf(j)
    /\ j.fr \in {None, j.en} /\ (j.fr # None => j.at \in {"ready", "saved", "counted"})
    /\ j.at = "written" => j.en # None
    /\ \A k \in DOMAIN j.todo : k # 1 \/ j.at = "next" => Desk(j.todo[k]) = "note"

FillFits(j) == j.at \notin {"off", "next"} => j.todo # <<>>

Jobs ==
    /\ WriteTypeOK
    /\ \A w \in Writers : JobFits(writer[w]) /\ writer[w].day <= utcDay
    /\ \A b \in Fillers : FillFits(filler[b])

LEMMA Numbers ==
  /\ Budget \in Nat \ {0} /\ MaxDay \in Nat /\ MaxTexts \in Nat /\ MaxNews \in Nat /\ MaxStops \in Nat /\ MaxFills \in Nat
  /\ None \notin Int /\ IsFiniteSet(Writers) /\ IsFiniteSet(Fillers)
  BY WritersAssumption

LEMMA PiecesOnDesks ==
  ASSUME NEW p \in Pieces
  PROVE  /\ Desk(p) \in Desks
         /\ Desk(p) = "note" => p[2] \in ToSet(Tickers)
  BY DEF Pieces, Brief, Note, Desk, Desks

LEMMA TickerList == /\ Len(Tickers) \in Nat /\ DOMAIN Tickers = 1..Len(Tickers)
                    /\ \A k \in DOMAIN Tickers : Tickers[k] \in ToSet(Tickers)
                    /\ ToSet(Tickers) = {Tickers[k] : k \in 1..Len(Tickers)}
  BY WritersAssumption, LenProperties DEF ToSet

\* A set is finite when a function from a finite set reaches all of it.
LEMMA FiniteImage ==
  ASSUME NEW S, IsFiniteSet(S), NEW T, NEW f \in [S -> T], \A y \in T : \E x \in S : f[x] = y
  PROVE  IsFiniteSet(T)
<1>1. f \in Surjection(S, T)
  BY DEF Surjection
<1> QED BY <1>1, FS_Surjection

LEMMA PiecesFinite == IsFiniteSet(Pieces)
<1> DEFINE Bs == {Brief(d) : d \in BriefDays}
           T == ToSet(Tickers)
           Ns == {Note(t, w) : t \in T, w \in Weeks}
<1>1. IsFiniteSet(Bs)
  <2>1. [d \in BriefDays |-> Brief(d)] \in [BriefDays -> Bs]
    OBVIOUS
  <2>2. \A y \in Bs : \E d \in BriefDays : [e \in BriefDays |-> Brief(e)][d] = y
    OBVIOUS
  <2>3. IsFiniteSet(BriefDays)
    BY WritersAssumption
  <2> HIDE DEF Bs
  <2> QED BY <2>1, <2>2, <2>3, FiniteImage
<1>2. IsFiniteSet(T)
  <2>1. IsFiniteSet(1..Len(Tickers))
    BY TickerList, FS_Interval
  <2>2. Tickers \in [1..Len(Tickers) -> T] /\ \A y \in T : \E k \in 1..Len(Tickers) : Tickers[k] = y
    BY TickerList, WritersAssumption, LenProperties
  <2> HIDE DEF T
  <2> QED BY <2>1, <2>2, FiniteImage
<1>3. IsFiniteSet(Ns)
  <2> DEFINE Q == T \X Weeks  F == [q \in Q |-> Note(q[1], q[2])]
  <2>1. IsFiniteSet(Q)
    BY <1>2, WritersAssumption, FS_Product
  <2>2. F \in [Q -> Ns]
    OBVIOUS
  <2>3. ASSUME NEW y \in Ns PROVE \E x \in Q : F[x] = y
    <3>1. PICK t \in T, w \in Weeks : y = Note(t, w)
      OBVIOUS
    <3>2. <<t, w>> \in Q /\ F[<<t, w>>] = Note(t, w)
      OBVIOUS
    <3> QED BY <3>1, <3>2
  <2> HIDE DEF Q, F, Ns
  <2> QED BY <2>1, <2>2, <2>3, FiniteImage
<1>4. Pieces = Bs \cup Ns
  BY DEF Pieces
<1> HIDE DEF Bs, Ns
<1> QED BY <1>1, <1>3, <1>4, FS_Union

LEMMA PendingLists ==
  ASSUME NEW desk, NEW s \in SetToSeqs(Pending(desk))
  PROVE  s \in Seq(Pieces)
<1>1. IsFiniteSet(Pending(desk)) /\ Pending(desk) \subseteq Pieces
  BY PiecesFinite, FS_Subset DEF Pending
<1>2. Cardinality(Pending(desk)) \in Nat
  BY <1>1, FS_CardinalityType
<1>3. s \in [1..Cardinality(Pending(desk)) -> Pieces]
  BY <1>1 DEF SetToSeqs
<1> QED BY <1>2, <1>3, SeqDef

LEMMA OffFits == Off \in Job(WriterSteps) /\ Off \in Job(FillerSteps) /\ JobFits(Off)
<1>1. <<>> \in Seq(Pieces) /\ DOMAIN <<>> = {}
  BY EmptySeq
<1>2. 0 \in 0..MaxDay /\ 0 \in 0..2
  BY Numbers
<1> QED BY <1>1, <1>2 DEF Off, Job, WriterSteps, FillerSteps, JobFits, CostOf, Texts, Seen

LEMMA JobsInit == WriteInit => Jobs
<1> SUFFICES ASSUME WriteInit PROVE Jobs
  OBVIOUS
<1>1. rows \in [Pieces -> [en : Texts, fr : Texts, seen : Seen]]
  BY DEF WriteInit, NoRow, Texts, Seen
<1>2. writer \in [Writers -> Job(WriterSteps)] /\ filler \in [Fillers -> Job(FillerSteps)]
  BY OffFits DEF WriteInit
<1>3. \A w \in Writers : JobFits(writer[w]) /\ writer[w].day <= utcDay
  BY OffFits DEF WriteInit, Off
<1>4. \A b \in Fillers : FillFits(filler[b])
  BY DEF WriteInit, Off, FillFits
<1> QED BY <1>1, <1>2, <1>3, <1>4, Numbers DEF WriteInit, Jobs, WriteTypeOK

(***************************************************************************)
(* Every step of a writer is one of five moves: it leaves the books alone, *)
(* passes the check, is charged a unit, settles a unit, or is stopped.     *)
(***************************************************************************)
\* The n-th unit of its piece may still be charged; and, before the check, that of a brief whose day is set.
MayCost(j, n) == j.at = "allowed" \/ (j.at = "written" /\ n = 2)
Begun(j, n) == MayCost(j, n) \/ (j.at = "gathered" /\ Desk(j.todo[1]) = "brief")

SamePiece(r, j) == r.todo = j.todo /\ r.day = j.day

QuietMove(w, r) ==
    /\ UNCHANGED <<spend, charged, due, stops>> /\ r.cost = writer[w].cost
    /\ r.cost > 0 => SamePiece(r, writer[w])
    /\ \A n \in {1, 2} : ~MayCost(r, n) /\ (Begun(r, n) => r.day = utcDay)

CheckMove(w, r) ==
    /\ UNCHANGED <<spend, charged, due, stops>> /\ writer[w].at = "gathered"
    /\ r = [writer[w] EXCEPT !.at = "allowed", !.day = SpendDay(w)]
    /\ BudgetLeft(Desk(Piece(w)), SpendDay(w)) > 0

ChargeMove(w, r) ==
    /\ Charge(w, 1) /\ UNCHANGED <<spend, stops>>
    /\ r.cost = writer[w].cost + 1 /\ MayCost(writer[w], r.cost) /\ SamePiece(r, writer[w])
    /\ \A n \in {1, 2} : Begun(r, n) => MayCost(writer[w], n) /\ n # r.cost

SettleMove(w, r) ==
    /\ Settle(w, 1) /\ UNCHANGED <<charged, stops>>
    /\ r.cost = writer[w].cost - 1 /\ (r.cost > 0 => SamePiece(r, writer[w]))
    /\ \A n \in {1, 2} : ~Begun(r, n)

StopMove(w, r) ==
    /\ r = Off /\ stops' = stops + 1 /\ stops' <= MaxStops
    /\ due' = [due EXCEPT ![w] = @ - writer[w].cost]
    /\ UNCHANGED <<spend, charged>>

Move(w, r) ==
    /\ Put(w, r) /\ r \in Job(WriterSteps) /\ JobFits(r) /\ r.day <= utcDay
    /\ UNCHANGED <<material, utcDay, filler, unbilled, fills>> /\ texts' \in 0..MaxTexts
    /\ rows' = rows \/ rows' = [rows EXCEPT ![Piece(w)] = Row(w)]
    /\ QuietMove(w, r) \/ CheckMove(w, r) \/ ChargeMove(w, r) \/ SettleMove(w, r) \/ StopMove(w, r)

LEMMA PieceAtHand ==
  ASSUME Jobs, NEW w \in Writers, writer[w].todo # <<>>
  PROVE  /\ Piece(w) = writer[w].todo[1] /\ 1 \in DOMAIN writer[w].todo /\ Piece(w) \in Pieces /\ Desk(Piece(w)) \in Desks
         /\ Tail(writer[w].todo) \in Seq(Pieces)
         /\ \A k \in DOMAIN Tail(writer[w].todo) : Desk(Tail(writer[w].todo)[k]) = "note"
<1> DEFINE todo == writer[w].todo
<1>1. todo \in Seq(Pieces) /\ JobFits(writer[w])
  BY DEF Jobs, WriteTypeOK, Job
<1>2. /\ 1 \in DOMAIN todo /\ Head(todo) = todo[1] /\ todo[1] \in Pieces /\ Tail(todo) \in Seq(Pieces)
      /\ \A k \in DOMAIN Tail(todo) : k \in Nat \ {0} /\ k + 1 \in DOMAIN todo /\ Tail(todo)[k] = todo[k + 1]
  <2> HIDE DEF todo
  <2> QED BY <1>1, HeadTail DEF todo
<1>3. ASSUME NEW k \in DOMAIN Tail(todo) PROVE Desk(Tail(todo)[k]) = "note"
  <2>1. k + 1 \in DOMAIN todo /\ k + 1 # 1 /\ Tail(todo)[k] = todo[k + 1]
    BY <1>2
  <2> QED BY <1>1, <2>1 DEF JobFits
<1> QED BY <1>2, <1>3, PiecesOnDesks DEF Piece

LEMMA DoneFits ==
  ASSUME Jobs, NEW w \in Writers, writer[w].todo # <<>>
  PROVE  /\ Done(w) \in Job(WriterSteps) /\ JobFits(Done(w)) /\ Done(w).cost = 0 /\ Done(w).day = 0
         /\ \A n : ~Begun(Done(w), n) /\ ~MayCost(Done(w), n)
<1>1. /\ Done(w).at = "next" /\ Done(w).todo = Tail(writer[w].todo) /\ Done(w).cost = 0 /\ Done(w).fr = None /\ Done(w).day = 0
      /\ Done(w) \in Job(WriterSteps)
  BY OffFits, PieceAtHand DEF Done, Off, Job, WriterSteps
<1>2. \A k \in DOMAIN Done(w).todo : Desk(Done(w).todo[k]) = "note"
  BY <1>1, PieceAtHand
<1>3. JobFits(Done(w))
  BY <1>1, <1>2 DEF JobFits, CostOf
<1> QED BY <1>1, <1>3 DEF Begun, MayCost

\* Where a writer goes on with its piece, it fits if what it holds follows from its step.
LEMMA GoesOn ==
  ASSUME NEW j, JobFits(j), NEW r, r.todo = j.todo, j.todo # <<>>, r.at # "next",
         r.cost = CostOf(r), r.fr \in {None, r.en}, r.fr # None => r.at \in {"ready", "saved", "counted"},
         r.at = "written" => r.en # None
  PROVE  JobFits(r)
  BY DEF JobFits

LEMMA StartMoves ==
  ASSUME Jobs, NEW w \in Writers, (\E d \in BriefDays : StartBrief(w, d)) \/ (\E k \in Weeks : StartNotes(w, k)) \/ GatherNote(w)
  PROVE  \E r : Move(w, r)
<1> DEFINE j == writer[w]
<1>j. j \in Job(WriterSteps) /\ JobFits(j) /\ utcDay \in 0..MaxDay /\ texts \in 0..MaxTexts
  BY DEF Jobs, WriteTypeOK
<1>q. ASSUME NEW r \in Job(WriterSteps), JobFits(r), r.day <= utcDay, Put(w, r), r.cost = 0, j.cost = 0,
             \A n \in {1, 2} : ~MayCost(r, n) /\ (Begun(r, n) => r.day = utcDay),
             UNCHANGED <<rows, material, utcDay, spend, filler, texts, charged, due, unbilled, fills, stops>>
      PROVE  \E x : Move(w, x)
  <2>1. QuietMove(w, r)
    BY <1>q DEF QuietMove
  <2>2. Move(w, r)
    BY <1>q, <1>j, <2>1 DEF Move
  <2> QED BY <2>2
<1>o. 0 <= utcDay /\ Off.day = 0 /\ Off.cost = 0 /\ Off.at = "off" /\ Off.fr = None
  BY <1>j, Numbers DEF Off
<1>1. ASSUME NEW d \in BriefDays, StartBrief(w, d) PROVE \E r : Move(w, r)
  <2> DEFINE r == [Off EXCEPT !.at = "gathered", !.todo = <<Brief(d)>>, !.day = BriefSpendDay(d)]
  <2>1. <<Brief(d)>> \in Seq(Pieces) /\ <<Brief(d)>> # <<>> /\ DOMAIN <<Brief(d)>> = {1}
    BY DEF Pieces
  <2>2. r \in Job(WriterSteps) /\ r.at = "gathered" /\ r.todo = <<Brief(d)>> /\ r.cost = 0 /\ r.fr = None /\ r.day = utcDay
    BY <1>j, <2>1, OffFits DEF Off, Job, WriterSteps, BriefSpendDay
  <2>3. Put(w, r) /\ j.cost = 0 /\ UNCHANGED <<rows, material, utcDay, spend, filler, texts, charged, due, unbilled, fills, stops>>
    BY <1>1, <1>j DEF StartBrief, JobFits, CostOf
  <2> HIDE DEF r
  <2>4. JobFits(r)
    BY <2>1, <2>2 DEF JobFits, CostOf
  <2> QED BY <1>j, <1>q, <2>2, <2>3, <2>4, Numbers DEF MayCost
<1>2. ASSUME NEW k \in Weeks, StartNotes(w, k) PROVE \E r : Move(w, r)
  <2>1. PICK some \in {Tickers} \cup {<<Tickers[n]>> : n \in DOMAIN Tickers} :
           Put(w, [Off EXCEPT !.at = "next", !.todo = [n \in DOMAIN some |-> Note(some[n], k)]])
    BY <1>2 DEF StartNotes
  <2> DEFINE todo == [n \in DOMAIN some |-> Note(some[n], k)]
             r == [Off EXCEPT !.at = "next", !.todo = todo]
  <2>2. \E m \in Nat : DOMAIN some = 1..m /\ \A n \in 1..m : some[n] \in ToSet(Tickers)
    <3>1. CASE some = Tickers
      BY <3>1, TickerList
    <3>2. CASE \E n \in DOMAIN Tickers : some = <<Tickers[n]>>
      <4>1. DOMAIN some = 1..1 /\ \A n \in 1..1 : some[n] \in ToSet(Tickers)
        BY <3>2, TickerList
      <4> QED BY <4>1
    <3> QED BY <3>1, <3>2
  <2>3. PICK m \in Nat : DOMAIN some = 1..m /\ \A n \in 1..m : some[n] \in ToSet(Tickers)
    BY <2>2
  <2>4. todo \in [1..m -> Pieces] /\ DOMAIN todo = 1..m /\ \A n \in DOMAIN todo : Desk(todo[n]) = "note"
    BY <2>3 DEF Pieces, Note, Desk
  <2>5. todo \in Seq(Pieces)
    BY <2>4, SeqDef
  <2> HIDE DEF todo
  <2>6. r \in Job(WriterSteps) /\ r.at = "next" /\ r.todo = todo /\ r.cost = 0 /\ r.fr = None /\ r.day = 0
    BY <1>j, <2>5, OffFits DEF Off, Job, WriterSteps
  <2>7. Put(w, r) /\ j.cost = 0 /\ UNCHANGED <<rows, material, utcDay, spend, filler, texts, charged, due, unbilled, fills, stops>>
    BY <1>2, <1>j, <2>1 DEF StartNotes, JobFits, CostOf, todo
  <2> HIDE DEF r
  <2>8. JobFits(r)
    BY <2>4, <2>6 DEF JobFits, CostOf
  <2> QED BY <1>j, <1>o, <1>q, <2>6, <2>7, <2>8 DEF MayCost, Begun
<1>3. CASE GatherNote(w)
  <2>1. j.cost = 0 /\ j.at = "next" /\ UNCHANGED <<rows, material, utcDay, spend, filler, texts, charged, due, unbilled, fills, stops>>
    BY <1>3, <1>j DEF GatherNote, JobFits, CostOf
  <2>2. CASE j.todo = <<>>
    <3>1. Put(w, Off)
      BY <1>3, <2>2 DEF GatherNote
    <3> QED BY <1>o, <1>q, <2>1, <3>1, OffFits DEF MayCost, Begun
  <2>3. CASE j.todo # <<>>
    <3> DEFINE r == [j EXCEPT !.at = "gathered", !.seen = material[Piece(w)[2]]]
    <3>1. Piece(w) = j.todo[1] /\ 1 \in DOMAIN j.todo /\ Piece(w) \in Pieces
      BY <2>3, PieceAtHand
    <3>2. Desk(Piece(w)) = "note"
      BY <1>j, <2>1, <3>1 DEF JobFits
    <3>3. material[Piece(w)[2]] \in Seen
      BY <3>1, <3>2, PiecesOnDesks DEF Jobs, WriteTypeOK, Seen
    <3>4. r \in Job(WriterSteps) /\ r.at = "gathered" /\ r.todo = j.todo /\ r.cost = 0 /\ r.fr = j.fr /\ r.en = j.en /\ r.day = j.day
      BY <1>j, <2>1, <3>3 DEF Job, WriterSteps
    <3>5. Put(w, r)
      BY <1>3, <2>3 DEF GatherNote
    <3>6. r.day <= utcDay
      BY <3>4 DEF Jobs
    <3> HIDE DEF r
    <3>7. JobFits(r)
      BY <1>j, <2>1, <2>3, <3>4, GoesOn DEF CostOf, JobFits
    <3>8. \A n \in {1, 2} : ~MayCost(r, n) /\ ~Begun(r, n)
      BY <3>1, <3>2, <3>4 DEF MayCost, Begun
    <3> QED BY <1>q, <2>1, <3>4, <3>5, <3>6, <3>7, <3>8
  <2> QED BY <2>2, <2>3
<1> QED BY <1>1, <1>2, <1>3

LEMMA WorkMoves ==
  ASSUME Jobs, NEW w \in Writers, GenerateFor(w) \/ GenerateForTicker(w)
  PROVE  \E r : Move(w, r)
<1> DEFINE j == writer[w]
<1>j. j \in Job(WriterSteps) /\ JobFits(j) /\ utcDay \in 0..MaxDay /\ texts \in 0..MaxTexts /\ j.day <= utcDay
  BY DEF Jobs, WriteTypeOK
<1>k. 0 <= utcDay /\ j.todo # <<>>
  BY <1>j, Numbers DEF GenerateFor, GenerateForTicker
<1>d. /\ Done(w) \in Job(WriterSteps) /\ JobFits(Done(w)) /\ Done(w).cost = 0 /\ Done(w).day <= utcDay
      /\ \A n : ~Begun(Done(w), n) /\ ~MayCost(Done(w), n)
  BY <1>k, DoneFits
<1>p. Piece(w) = j.todo[1] /\ Piece(w) \in Pieces
  BY <1>k, PieceAtHand
<1>m. ASSUME NEW r \in Job(WriterSteps), JobFits(r), r.day <= utcDay, Put(w, r),
             UNCHANGED <<material, utcDay, filler, unbilled, fills>>, texts' \in 0..MaxTexts,
             rows' = rows \/ rows' = [rows EXCEPT ![Piece(w)] = Row(w)],
             QuietMove(w, r) \/ CheckMove(w, r) \/ ChargeMove(w, r) \/ SettleMove(w, r)
      PROVE  \E x : Move(w, x)
  <2>1. Move(w, r)
    BY <1>m DEF Move
  <2> QED BY <2>1
<1>1. CASE SkipNote(w)
  <2>1. QuietMove(w, Done(w)) /\ Put(w, Done(w))
    BY <1>1, <1>d, <1>j DEF SkipNote, QuietMove, JobFits, CostOf
  <2> QED BY <1>1, <1>d, <1>j, <1>m, <2>1 DEF SkipNote
<1>2. CASE CheckCap(w)
  <2>1. CASE BudgetLeft(Desk(Piece(w)), SpendDay(w)) > 0
    <3> DEFINE r == [j EXCEPT !.at = "allowed", !.day = SpendDay(w)]
    <3>1. SpendDay(w) \in 0..MaxDay /\ SpendDay(w) <= utcDay
      BY <1>j DEF SpendDay, Job
    <3>2. r \in Job(WriterSteps) /\ r.at = "allowed" /\ r.todo = j.todo /\ r.cost = j.cost /\ r.fr = j.fr /\ r.en = j.en /\ r.day = SpendDay(w)
      BY <1>j, <3>1 DEF Job, WriterSteps
    <3>3. CheckMove(w, r) /\ Put(w, r) /\ j.at = "gathered"
      BY <1>2, <2>1 DEF CheckCap, CheckMove
    <3> HIDE DEF r
    <3>4. JobFits(r)
      BY <1>j, <1>k, <3>2, <3>3, GoesOn DEF JobFits, CostOf
    <3> QED BY <1>2, <1>j, <1>m, <3>1, <3>2, <3>3, <3>4 DEF CheckCap
  <2>2. CASE ~(BudgetLeft(Desk(Piece(w)), SpendDay(w)) > 0)
    <3>1. QuietMove(w, Done(w)) /\ Put(w, Done(w))
      BY <1>2, <1>d, <1>j, <2>2 DEF CheckCap, QuietMove, JobFits, CostOf
    <3> QED BY <1>2, <1>d, <1>j, <1>m, <3>1 DEF CheckCap
  <2> QED BY <2>1, <2>2
<1>3. CASE WriteEnglish(w)
  <2>0. j.at = "allowed" /\ j.cost = 0 /\ j.fr = None
    BY <1>3, <1>j DEF WriteEnglish, JobFits, CostOf
  <2>1. ASSUME texts < MaxTexts, texts' = texts + 1, Put(w, [j EXCEPT !.at = "written", !.en = texts', !.cost = 1]), Charge(w, 1)
        PROVE  \E r : Move(w, r)
    <3> DEFINE r == [j EXCEPT !.at = "written", !.en = texts', !.cost = 1]
    <3>1. texts' \in Texts /\ texts' # None /\ texts' \in 0..MaxTexts
      BY <1>j, <1>k, <2>1, Numbers DEF Texts
    <3>2. r \in Job(WriterSteps) /\ r.at = "written" /\ r.todo = j.todo /\ r.cost = 1 /\ r.fr = None /\ r.en = texts' /\ r.day = j.day
      <4>1. r.at = "written" /\ r.todo = j.todo /\ r.cost = 1 /\ r.fr = None /\ r.en = texts' /\ r.day = j.day
        BY <1>j, <2>0, <3>1 DEF Job, WriterSteps
      <4>2. 1 \in 0..2 /\ 2 \in 0..2
        OBVIOUS
      <4>3. r \in Job(WriterSteps)
        BY <4>2, <1>j, <2>0, <3>1 DEF Job, WriterSteps
      <4> QED BY <4>1, <4>3
    <3> HIDE DEF r
    <3>3. JobFits(r)
      BY <1>j, <1>k, <3>1, <3>2, GoesOn DEF CostOf
    <3>4. ChargeMove(w, r)
      BY <1>3, <2>0, <2>1, <3>2 DEF ChargeMove, WriteEnglish, MayCost, Begun, SamePiece
    <3>5. Put(w, r)
      BY <2>1 DEF r
    <3> QED BY <1>3, <1>j, <1>m, <3>1, <3>2, <3>3, <3>4, <3>5 DEF WriteEnglish
  <2>2. ASSUME Put(w, [j EXCEPT !.at = "empty", !.cost = 1]), Charge(w, 1), UNCHANGED texts
        PROVE  \E r : Move(w, r)
    <3> DEFINE r == [j EXCEPT !.at = "empty", !.cost = 1]
    <3>2. r \in Job(WriterSteps) /\ r.at = "empty" /\ r.todo = j.todo /\ r.cost = 1 /\ r.fr = None /\ r.en = j.en /\ r.day = j.day
      <4>1. r.at = "empty" /\ r.todo = j.todo /\ r.cost = 1 /\ r.fr = None /\ r.en = j.en /\ r.day = j.day
        BY <1>j, <2>0 DEF Job, WriterSteps
      <4>2. 1 \in 0..2 /\ 2 \in 0..2
        OBVIOUS
      <4>3. r \in Job(WriterSteps)
        BY <4>2, <1>j, <2>0 DEF Job, WriterSteps
      <4> QED BY <4>1, <4>3
    <3> HIDE DEF r
    <3>3. JobFits(r)
      BY <1>j, <1>k, <3>2, GoesOn DEF CostOf
    <3>4. ChargeMove(w, r)
      BY <1>3, <2>0, <2>2, <3>2 DEF ChargeMove, WriteEnglish, MayCost, Begun, SamePiece
    <3>5. Put(w, r)
      BY <2>2 DEF r
    <3> QED BY <1>3, <1>j, <1>m, <2>2, <3>2, <3>3, <3>4, <3>5 DEF WriteEnglish
  <2>3. ASSUME Put(w, Done(w)), UNCHANGED <<texts, charged, due>>
        PROVE  \E r : Move(w, r)
    <3>1. QuietMove(w, Done(w))
      BY <1>3, <1>d, <2>0, <2>3 DEF WriteEnglish, QuietMove
    <3> QED BY <1>3, <1>d, <1>j, <1>m, <2>3, <3>1 DEF WriteEnglish
  <2> QED BY <1>3, <2>1, <2>2, <2>3 DEF WriteEnglish
<1>4. CASE RecordEmpty(w)
  <2>1. j.at = "empty" /\ j.cost = 1
    BY <1>4, <1>j DEF RecordEmpty, JobFits, CostOf
  <2>2. SettleMove(w, Done(w)) /\ Put(w, Done(w))
    BY <1>4, <1>d, <2>1 DEF RecordEmpty, SettleMove
  <2> QED BY <1>4, <1>d, <1>j, <1>m, <2>2 DEF RecordEmpty
<1>5. CASE WriteFrench(w)
  <2>0. j.at = "written" /\ j.cost = 1 /\ j.fr = None /\ j.en # None /\ j.en \in Texts /\ UNCHANGED <<rows, material, utcDay, spend, filler, texts, unbilled, fills, stops>>
    BY <1>5, <1>j DEF WriteFrench, JobFits, CostOf, Job
  <2>1. ASSUME Put(w, [j EXCEPT !.at = "ready", !.fr = j.en, !.cost = 2]), Charge(w, 1)
        PROVE  \E r : Move(w, r)
    <3> DEFINE r == [j EXCEPT !.at = "ready", !.fr = j.en, !.cost = 2]
    <3>2. r \in Job(WriterSteps) /\ r.at = "ready" /\ r.todo = j.todo /\ r.cost = 2 /\ r.fr = j.en /\ r.en = j.en /\ r.day = j.day
      <4>1. r.at = "ready" /\ r.todo = j.todo /\ r.cost = 2 /\ r.fr = j.en /\ r.en = j.en /\ r.day = j.day
        BY <1>j, <2>0 DEF Job, WriterSteps
      <4>2. 1 \in 0..2 /\ 2 \in 0..2
        OBVIOUS
      <4>3. r \in Job(WriterSteps)
        BY <4>2, <1>j, <2>0 DEF Job, WriterSteps
      <4> QED BY <4>1, <4>3
    <3> HIDE DEF r
    <3>3. JobFits(r)
      BY <1>j, <1>k, <2>0, <3>2, GoesOn DEF CostOf
    <3>4. ChargeMove(w, r)
      BY <2>0, <2>1, <3>2 DEF ChargeMove, MayCost, Begun, SamePiece
    <3>5. Put(w, r)
      BY <2>1 DEF r
    <3> QED BY <1>j, <1>m, <2>0, <3>2, <3>3, <3>4, <3>5
  <2>2. ASSUME Put(w, [j EXCEPT !.at = "noFrench", !.cost = 2]), Charge(w, 1)
        PROVE  \E r : Move(w, r)
    <3> DEFINE r == [j EXCEPT !.at = "noFrench", !.cost = 2]
    <3>2. r \in Job(WriterSteps) /\ r.at = "noFrench" /\ r.todo = j.todo /\ r.cost = 2 /\ r.fr = None /\ r.en = j.en /\ r.day = j.day
      <4>1. r.at = "noFrench" /\ r.todo = j.todo /\ r.cost = 2 /\ r.fr = None /\ r.en = j.en /\ r.day = j.day
        BY <1>j, <2>0 DEF Job, WriterSteps
      <4>2. 1 \in 0..2 /\ 2 \in 0..2
        OBVIOUS
      <4>3. r \in Job(WriterSteps)
        BY <4>2, <1>j, <2>0 DEF Job, WriterSteps
      <4> QED BY <4>1, <4>3
    <3> HIDE DEF r
    <3>3. JobFits(r)
      BY <1>j, <1>k, <2>0, <3>2, GoesOn DEF CostOf
    <3>4. ChargeMove(w, r)
      BY <2>0, <2>2, <3>2 DEF ChargeMove, MayCost, Begun, SamePiece
    <3>5. Put(w, r)
      BY <2>2 DEF r
    <3> QED BY <1>j, <1>m, <2>0, <3>2, <3>3, <3>4, <3>5
  <2>3. ASSUME Put(w, [j EXCEPT !.at = "ready"]), UNCHANGED <<charged, due>>
        PROVE  \E r : Move(w, r)
    <3> DEFINE r == [j EXCEPT !.at = "ready"]
    <3>2. r \in Job(WriterSteps) /\ r.at = "ready" /\ r.todo = j.todo /\ r.cost = 1 /\ r.fr = None /\ r.en = j.en /\ r.day = j.day
      <4>1. r.at = "ready" /\ r.todo = j.todo /\ r.cost = 1 /\ r.fr = None /\ r.en = j.en /\ r.day = j.day
        BY <1>j, <2>0 DEF Job, WriterSteps
      <4>2. 1 \in 0..2 /\ 2 \in 0..2
        OBVIOUS
      <4>3. r \in Job(WriterSteps)
        BY <4>2, <1>j, <2>0 DEF Job, WriterSteps
      <4> QED BY <4>1, <4>3
    <3> HIDE DEF r
    <3>3. JobFits(r)
      BY <1>j, <1>k, <2>0, <3>2, GoesOn DEF CostOf
    <3>4. QuietMove(w, r)
      BY <2>0, <2>3, <3>2 DEF QuietMove, MayCost, Begun, SamePiece
    <3>5. Put(w, r)
      BY <2>3 DEF r
    <3> QED BY <1>j, <1>m, <2>0, <3>2, <3>3, <3>4, <3>5
  <2> QED BY <1>5, <2>1, <2>2, <2>3 DEF WriteFrench
<1>6. CASE RecordNoFrench(w)
  <2> DEFINE r == [j EXCEPT !.at = "ready", !.cost = 1]
  <2>1. j.at = "noFrench" /\ j.cost = 2 /\ j.fr = None
    BY <1>6, <1>j DEF RecordNoFrench, JobFits, CostOf
  <2>2. r \in Job(WriterSteps) /\ r.at = "ready" /\ r.todo = j.todo /\ r.cost = 1 /\ r.fr = None /\ r.en = j.en /\ r.day = j.day
    <3>1. r.at = "ready" /\ r.todo = j.todo /\ r.cost = 1 /\ r.fr = None /\ r.en = j.en /\ r.day = j.day
      BY <1>j, <2>1 DEF Job, WriterSteps
    <3>2. 1 \in 0..2 /\ 2 \in 0..2
      OBVIOUS
    <3>3. r \in Job(WriterSteps)
      BY <3>2, <1>j, <2>1 DEF Job, WriterSteps
    <3> QED BY <3>1, <3>3
  <2>3. Put(w, r)
    BY <1>6 DEF RecordNoFrench
  <2> HIDE DEF r
  <2>4. JobFits(r)
    BY <1>j, <1>k, <2>2, GoesOn DEF CostOf
  <2>5. SettleMove(w, r)
    BY <1>6, <2>1, <2>2 DEF RecordNoFrench, SettleMove, MayCost, Begun, SamePiece
  <2> QED BY <1>6, <1>j, <1>m, <2>2, <2>3, <2>4, <2>5 DEF RecordNoFrench
<1>7. CASE Upsert(w)
  <2> DEFINE r == [j EXCEPT !.at = "saved"]
  <2>1. j.at = "ready"
    BY <1>7 DEF Upsert
  <2>2. r \in Job(WriterSteps) /\ r.at = "saved" /\ r.todo = j.todo /\ r.cost = j.cost /\ r.fr = j.fr /\ r.en = j.en /\ r.day = j.day
    BY <1>j DEF Job, WriterSteps
  <2>3. Put(w, r)
    BY <1>7 DEF Upsert
  <2> HIDE DEF r
  <2>4. JobFits(r)
    BY <1>j, <1>k, <2>1, <2>2, GoesOn DEF JobFits, CostOf
  <2>5. QuietMove(w, r)
    BY <1>7, <2>2 DEF Upsert, QuietMove, MayCost, Begun, SamePiece
  <2> QED BY <1>7, <1>j, <1>m, <2>2, <2>3, <2>4, <2>5 DEF Upsert
<1>8. CASE RecordEnglish(w)
  <2>1. j.at = "saved" /\ j.cost = IF j.fr = None THEN 1 ELSE 2
    BY <1>8, <1>j DEF RecordEnglish, JobFits, CostOf
  <2>2. CASE j.fr = None
    <3>1. SettleMove(w, Done(w)) /\ Put(w, Done(w))
      BY <1>8, <1>d, <2>1, <2>2 DEF RecordEnglish, SettleMove
    <3> QED BY <1>8, <1>d, <1>j, <1>m, <3>1 DEF RecordEnglish
  <2>3. CASE j.fr # None
    <3> DEFINE r == [j EXCEPT !.at = "counted", !.cost = 1]
    <3>2. r \in Job(WriterSteps) /\ r.at = "counted" /\ r.todo = j.todo /\ r.cost = 1 /\ r.fr = j.fr /\ r.en = j.en /\ r.day = j.day
      <4>1. r.at = "counted" /\ r.todo = j.todo /\ r.cost = 1 /\ r.fr = j.fr /\ r.en = j.en /\ r.day = j.day
        BY <1>j DEF Job, WriterSteps
      <4>2. 1 \in 0..2 /\ 2 \in 0..2
        OBVIOUS
      <4>3. r \in Job(WriterSteps)
        BY <4>2, <1>j DEF Job, WriterSteps
      <4> QED BY <4>1, <4>3
    <3>3. Put(w, r)
      BY <1>8, <2>3 DEF RecordEnglish
    <3> HIDE DEF r
    <3>4. JobFits(r)
      BY <1>j, <1>k, <2>1, <3>2, GoesOn DEF JobFits, CostOf
    <3>5. SettleMove(w, r)
      BY <1>8, <2>1, <2>3, <3>2 DEF RecordEnglish, SettleMove, MayCost, Begun, SamePiece
    <3> QED BY <1>8, <1>j, <1>m, <3>2, <3>3, <3>4, <3>5 DEF RecordEnglish
  <2> QED BY <2>2, <2>3
<1>9. CASE RecordFrench(w)
  <2>1. j.at = "counted" /\ j.cost = 1
    BY <1>9, <1>j DEF RecordFrench, JobFits, CostOf
  <2>2. SettleMove(w, Done(w)) /\ Put(w, Done(w))
    BY <1>9, <1>d, <2>1 DEF RecordFrench, SettleMove
  <2> QED BY <1>9, <1>d, <1>j, <1>m, <2>2 DEF RecordFrench
<1> QED BY <1>1, <1>2, <1>3, <1>4, <1>5, <1>6, <1>7, <1>8, <1>9 DEF GenerateFor, GenerateForTicker, WriteAndRecord

LEMMA WriterMoves ==
  ASSUME Jobs, NEW w \in Writers, WriterNext(w)
  PROVE  \E r : Move(w, r)
<1>1. CASE StopWriter(w)
  <2>1. stops \in 0..MaxStops /\ texts \in 0..MaxTexts /\ utcDay \in 0..MaxDay
    BY DEF Jobs, WriteTypeOK
  <2>2. Off.day <= utcDay
    BY <2>1, Numbers DEF Off
  <2>3. stops + 1 <= MaxStops
    BY <1>1, <2>1, Numbers DEF StopWriter
  <2>4. StopMove(w, Off) /\ Put(w, Off)
    BY <1>1, <2>3 DEF StopWriter, StopMove
  <2>5. Move(w, Off)
    BY <1>1, <2>1, <2>2, <2>4, OffFits DEF StopWriter, Move
  <2> QED BY <2>5
<1> QED BY <1>1, StartMoves, WorkMoves DEF WriterNext

LEMMA AtWork ==
  ASSUME Jobs, NEW w \in Writers, writer[w].cost > 0 \/ (\E n : MayCost(writer[w], n)) \/ writer[w].at = "gathered"
  PROVE  /\ writer[w].todo # <<>> /\ Desk(Piece(w)) \in Desks /\ Piece(w) \in Pieces /\ Piece(w) = writer[w].todo[1]
         /\ <<Desk(Piece(w)), writer[w].day>> \in Desks \X (BriefDays \cup 0..MaxDay)
         /\ <<Desk(Piece(w)), utcDay>> \in Desks \X (0..MaxDay)
<1>1. writer[w] \in Job(WriterSteps) /\ JobFits(writer[w]) /\ utcDay \in 0..MaxDay
  BY DEF Jobs, WriteTypeOK
<1>2. writer[w].todo # <<>>
  BY <1>1 DEF JobFits, CostOf, MayCost
<1>3. writer[w].day \in 0..MaxDay
  BY <1>1 DEF Job
<1> QED BY <1>1, <1>2, <1>3, PieceAtHand

\* A counter that is added to stays a table of counters, and no counter falls.
LEMMA Added ==
  ASSUME NEW D, NEW f \in [D -> Nat], NEW c, NEW n \in Nat
  PROVE  /\ [f EXCEPT ![c] = @ + n] \in [D -> Nat]
         /\ \A x \in D : [f EXCEPT ![c] = @ + n][x] = (IF x = c THEN f[x] + n ELSE f[x])
<1> DEFINE g == [f EXCEPT ![c] = @ + n]
<1>1. DOMAIN g = D
  OBVIOUS
<1>2. \A x \in D : g[x] = (IF x = c THEN f[x] + n ELSE f[x])
  OBVIOUS
<1>3. \A x \in D : g[x] \in Nat
  BY <1>2
<1>4. g = [x \in D |-> g[x]]
  OBVIOUS
<1> HIDE DEF g
<1>5. g \in [D -> Nat]
  BY <1>3, <1>4
<1> QED BY <1>2, <1>5 DEF g

LEMMA MoveKeepsJobs ==
  ASSUME Jobs, NEW w \in Writers, NEW r, Move(w, r)
  PROVE  Jobs'
<1>0. WriteTypeOK /\ r \in Job(WriterSteps) /\ writer[w] \in Job(WriterSteps)
  BY DEF Jobs, Move, WriteTypeOK
<1>1. writer' \in [Writers -> Job(WriterSteps)] /\ \A x \in Writers : JobFits(writer'[x]) /\ writer'[x].day <= utcDay'
  BY <1>0 DEF Move, Put, Jobs, WriteTypeOK
<1>2. rows' \in [Pieces -> [en : Texts, fr : Texts, seen : Seen]]
  <2>1. Row(w) \in [en : Texts, fr : Texts, seen : Seen]
    BY <1>0 DEF Row, Job
  <2> QED BY <1>0, <2>1 DEF Move, WriteTypeOK
<1>3. /\ spend' \in [Desks \X (BriefDays \cup 0..MaxDay) -> Nat] /\ charged' \in [Desks \X (0..MaxDay) -> Nat]
      /\ due' \in [Writers -> Int] /\ stops' \in 0..MaxStops
  <2>1. CASE QuietMove(w, r) \/ CheckMove(w, r)
    BY <1>0, <2>1 DEF QuietMove, CheckMove, WriteTypeOK
  <2>2. CASE ChargeMove(w, r)
    <3>1. charged' \in [Desks \X (0..MaxDay) -> Nat]
      BY <1>0, <2>2, Added DEF ChargeMove, Charge, WriteTypeOK
    <3>2. due' \in [Writers -> Int]
      BY <1>0, <2>2 DEF ChargeMove, Charge, WriteTypeOK
    <3> QED BY <1>0, <2>2, <3>1, <3>2 DEF ChargeMove, WriteTypeOK
  <2>3. CASE SettleMove(w, r)
    <3>1. spend' \in [Desks \X (BriefDays \cup 0..MaxDay) -> Nat]
      BY <1>0, <2>3, Added DEF SettleMove, Settle, AddUsage, WriteTypeOK
    <3>2. writer[w].cost > 0
      BY <1>0, <2>3 DEF SettleMove, Job
    <3>3. PICK c \in Desks \X (BriefDays \cup 0..MaxDay) : c = <<Desk(Piece(w)), writer[w].day>>
      BY <3>2, AtWork
    <3>4. due' = [due EXCEPT ![w] = @ - (spend'[c] - spend[c])]
      BY <2>3, <3>3 DEF SettleMove, Settle
    <3>5. spend'[c] \in Nat /\ spend[c] \in Nat
      BY <1>0, <3>1 DEF WriteTypeOK
    <3>6. due' \in [Writers -> Int]
      BY <1>0, <3>4, <3>5 DEF WriteTypeOK
    <3> QED BY <1>0, <2>3, <3>1, <3>6 DEF SettleMove, WriteTypeOK
  <2>4. CASE StopMove(w, r)
    <3>1. writer[w].cost \in Int
      BY <1>0 DEF Job
    <3>2. due' \in [Writers -> Int]
      BY <1>0, <2>4, <3>1 DEF StopMove, WriteTypeOK
    <3>3. stops' \in 0..MaxStops
      BY <1>0, <2>4, Numbers DEF StopMove, WriteTypeOK
    <3> QED BY <1>0, <2>4, <3>2, <3>3 DEF StopMove, WriteTypeOK
  <2> QED BY <2>1, <2>2, <2>3, <2>4 DEF Move
<1> QED BY <1>0, <1>1, <1>2, <1>3 DEF Move, Jobs, WriteTypeOK, FillFits

LEMMA FillerKeepsJobs ==
  ASSUME Jobs, NEW b \in Fillers, FillerNext(b)
  PROVE  Jobs'
<1> DEFINE j == filler[b]
<1>0. WriteTypeOK /\ j \in Job(FillerSteps) /\ j.todo \in Seq(Pieces) /\ utcDay \in 0..MaxDay /\ j.en \in Texts
  BY DEF Jobs, WriteTypeOK, Job
<1>1. ASSUME NEW r \in Job(FillerSteps), FillFits(r), Fill(b, r), UNCHANGED <<material, utcDay, writer, texts, charged, due>>,
             rows' \in [Pieces -> [en : Texts, fr : Texts, seen : Seen]],
             spend' \in [Desks \X (BriefDays \cup 0..MaxDay) -> Nat],
             stops' \in 0..MaxStops, fills' \in 0..MaxFills, unbilled' \in Nat
      PROVE  Jobs'
  <2>1. filler' \in [Fillers -> Job(FillerSteps)] /\ \A c \in Fillers : FillFits(filler'[c])
    BY <1>0, <1>1 DEF Fill, WriteTypeOK, Jobs
  <2> QED BY <1>1, <2>1 DEF Jobs, WriteTypeOK, JobFits, FillFits, CostOf
<1>2. j.todo # <<>> => Filled(b) \in Job(FillerSteps) /\ FillFits(Filled(b)) /\ Filling(b) \in Pieces
  <2>1. j.todo # <<>> => Tail(j.todo) \in Seq(Pieces) /\ Head(j.todo) \in Pieces
    <3> HIDE DEF j
    <3> QED BY <1>0, HeadTail
  <2>2. j.todo # <<>> => Filled(b) \in Job(FillerSteps)
    BY <1>0, <2>1 DEF Filled, Job, FillerSteps, Texts
  <2>3. Filled(b).at = "next"
    BY <1>0 DEF Filled, Job
  <2> QED BY <2>1, <2>2, <2>3 DEF FillFits, Filling
<1>3. CASE StartBackfill(b)
  <2>1. PICK briefs \in SetToSeqs(Pending("brief")), notes \in SetToSeqs(Pending("note")) :
           Fill(b, [Off EXCEPT !.at = "next", !.todo = briefs \o notes, !.day = utcDay])
    BY <1>3 DEF StartBackfill
  <2>2. briefs \o notes \in Seq(Pieces)
    BY PendingLists, ConcatProperties
  <2>3. [Off EXCEPT !.at = "next", !.todo = briefs \o notes, !.day = utcDay] \in Job(FillerSteps)
    BY <1>0, <2>2, OffFits DEF Off, Job, FillerSteps
  <2>4. fills' \in 0..MaxFills
    BY <1>3, <1>0, Numbers DEF StartBackfill, WriteTypeOK
  <2>5. FillFits([Off EXCEPT !.at = "next", !.todo = briefs \o notes, !.day = utcDay])
    BY DEF Off, FillFits
  <2> QED BY <1>0, <1>1, <1>3, <2>1, <2>3, <2>4, <2>5 DEF StartBackfill, WriteTypeOK
<1>f. FillFits(j)
  BY DEF Jobs
<1>4. CASE ReadPending(b)
  <2>1. CASE j.todo = <<>>
    BY <1>0, <1>1, <1>4, <2>1, OffFits DEF ReadPending, WriteTypeOK, FillFits, Off
  <2>2. CASE j.todo # <<>>
    <3> DEFINE r == [j EXCEPT !.at = "read", !.en = rows[Filling(b)].en]
    <3>1. rows[Filling(b)].en \in Texts
      BY <1>0, <1>2, <2>2 DEF WriteTypeOK
    <3>2. r \in Job(FillerSteps) /\ FillFits(r)
      BY <1>0, <2>2, <3>1 DEF Job, FillerSteps, FillFits
    <3> HIDE DEF r
    <3> QED BY <1>0, <1>1, <1>4, <2>2, <3>2 DEF r, ReadPending, WriteTypeOK
  <2> QED BY <2>1, <2>2
<1>5. CASE Translate(b)
  <2>1. j.todo # <<>>
    BY <1>5, <1>f DEF Translate, FillFits
  <2>2. \A at \in {"translated", "empty"} : [j EXCEPT !.at = at] \in Job(FillerSteps) /\ FillFits([j EXCEPT !.at = at])
    BY <1>0, <2>1 DEF Job, FillerSteps, FillFits
  <2>3. PICK r : r \in Job(FillerSteps) /\ FillFits(r) /\ Fill(b, r)
    BY <1>2, <1>5, <2>1, <2>2 DEF Translate
  <2> QED BY <1>0, <1>1, <1>5, <2>3 DEF Translate, WriteTypeOK
<1>6. CASE RecordUntranslated(b)
  <2>1. j.todo # <<>>
    BY <1>6, <1>f DEF RecordUntranslated, FillFits
  <2>2. spend' \in [Desks \X (BriefDays \cup 0..MaxDay) -> Nat]
    BY <1>0, <1>6, Added DEF RecordUntranslated, AddUsage, WriteTypeOK
  <2> QED BY <1>0, <1>1, <1>2, <1>6, <2>1, <2>2 DEF RecordUntranslated, WriteTypeOK
<1>7. CASE SetTranslation(b)
  <2>1. j.todo # <<>>
    BY <1>7, <1>f DEF SetTranslation, FillFits
  <2>2. rows' \in [Pieces -> [en : Texts, fr : Texts, seen : Seen]]
    BY <1>0, <1>7 DEF SetTranslation, WriteTypeOK
  <2>3. Fill(b, Filled(b)) /\ UNCHANGED <<material, utcDay, spend, writer, texts, charged, due, fills, stops>> /\ unbilled' = unbilled + 1
    BY <1>7 DEF SetTranslation
  <2>4. unbilled' \in Nat
    BY <1>0, <2>3 DEF WriteTypeOK
  <2> QED BY <1>0, <1>1, <1>2, <2>1, <2>2, <2>3, <2>4 DEF WriteTypeOK
<1>8. CASE StopFiller(b)
  <2>1. stops' \in 0..MaxStops
    BY <1>0, <1>8, Numbers DEF StopFiller, WriteTypeOK
  <2> QED BY <1>0, <1>1, <1>8, <2>1, OffFits DEF StopFiller, WriteTypeOK, FillFits, Off
<1> QED BY <1>3, <1>4, <1>5, <1>6, <1>7, <1>8 DEF FillerNext

LEMMA JobsNext ==
  ASSUME Jobs, [WriteNext]_writeVars
  PROVE  Jobs'
<1>1. CASE NextDay
  <2>1. utcDay' \in 0..MaxDay /\ \A w \in Writers : writer[w].day <= utcDay'
    <3>1. \A w \in Writers : writer[w].day \in Int
      BY DEF Jobs, WriteTypeOK, Job
    <3> QED BY <1>1, <3>1, Numbers DEF NextDay, Jobs, WriteTypeOK
  <2> QED BY <1>1, <2>1 DEF NextDay, Jobs, WriteTypeOK, JobFits, FillFits, CostOf
<1>2. ASSUME NEW t \in ToSet(Tickers), NewMaterial(t) PROVE Jobs'
  <2>1. material' \in [ToSet(Tickers) -> 0..MaxNews]
    BY <1>2 DEF NewMaterial, Jobs, WriteTypeOK
  <2> QED BY <1>2, <2>1 DEF NewMaterial, Jobs, WriteTypeOK, JobFits, FillFits, CostOf
<1>3. CASE UNCHANGED writeVars
  BY <1>3 DEF writeVars, Jobs, WriteTypeOK, JobFits, FillFits, CostOf
<1> QED BY <1>1, <1>2, <1>3, WriterMoves, MoveKeepsJobs, FillerKeepsJobs DEF WriteNext

LEMMA JobsAlways == WriteSpec => []Jobs
<1>1. WriteInit => Jobs
  BY JobsInit
<1>2. Jobs /\ [WriteNext]_writeVars => Jobs'
  BY JobsNext
<1> QED BY <1>1, <1>2, PTL DEF WriteSpec

\* Every reachable state of the writers and of the backfill script is well typed.
THEOREM WritingTyped == WriteSpec => []WriteTypeOK
<1>1. Jobs => WriteTypeOK
  BY DEF Jobs
<1> QED BY <1>1, JobsAlways, PTL

(***************************************************************************)
(* Every reply a writer is charged for is counted.                         *)
(***************************************************************************)
LEMMA CountedMove ==
  ASSUME Jobs, EveryTextIsCounted, NEW w \in Writers, NEW r, Move(w, r)
  PROVE  EveryTextIsCounted'
<1>0. /\ writer \in [Writers -> Job(WriterSteps)] /\ due \in [Writers -> Int] /\ writer[w].cost \in 0..2
      /\ spend \in [Desks \X (BriefDays \cup 0..MaxDay) -> Nat]
      /\ \A x \in Writers : due[x] = writer[x].cost
  BY DEF Jobs, WriteTypeOK, EveryTextIsCounted, Job
<1>1. writer'[w] = r /\ \A x \in Writers \ {w} : writer'[x] = writer[x]
  BY <1>0 DEF Move, Put
<1>2. ASSUME due' = [due EXCEPT ![w] = r.cost]
      PROVE  EveryTextIsCounted'
  BY <1>0, <1>1, <1>2 DEF EveryTextIsCounted
<1>3. CASE QuietMove(w, r)
  BY <1>0, <1>1, <1>3 DEF QuietMove, EveryTextIsCounted
<1>4. CASE CheckMove(w, r)
  <2>1. r.cost = writer[w].cost
    BY <1>0, <1>4 DEF CheckMove, Job
  <2> QED BY <1>0, <1>1, <1>4, <2>1 DEF CheckMove, EveryTextIsCounted
<1>5. CASE ChargeMove(w, r)
  BY <1>0, <1>2, <1>5 DEF ChargeMove, Charge
<1>6. CASE SettleMove(w, r)
  <2>1. writer[w].cost > 0
    BY <1>0, <1>6 DEF SettleMove, Move, Job
  <2>2. PICK c \in Desks \X (BriefDays \cup 0..MaxDay) : c = <<Desk(Piece(w)), writer[w].day>>
    BY <2>1, AtWork
  <2>3. spend' = [spend EXCEPT ![c] = @ + 1] /\ due' = [due EXCEPT ![w] = @ - (spend'[c] - spend[c])]
    BY <1>6, <2>2 DEF SettleMove, Settle, AddUsage
  <2>4. spend'[c] = spend[c] + 1 /\ spend[c] \in Nat
    BY <1>0, <2>3
  <2>5. spend'[c] - spend[c] = 1 /\ due[w] - 1 = r.cost
    BY <1>0, <1>6, <2>4 DEF SettleMove
  <2> QED BY <1>2, <2>3, <2>5
<1>7. CASE StopMove(w, r)
  <2>1. due[w] - writer[w].cost = r.cost
    BY <1>0, <1>7 DEF StopMove, Off
  <2> QED BY <1>2, <1>7, <2>1 DEF StopMove
<1> QED BY <1>3, <1>4, <1>5, <1>6, <1>7 DEF Move

\* What the script, the clock and the news leave alone.
LEMMA OthersLeave ==
  ASSUME NextDay \/ (\E t \in ToSet(Tickers) : NewMaterial(t)) \/ (\E b \in Fillers : FillerNext(b)) \/ UNCHANGED writeVars
  PROVE  UNCHANGED <<writer, charged, due>> /\ (utcDay' = utcDay \/ NextDay)
  BY DEF NextDay, NewMaterial, FillerNext, StartBackfill, ReadPending, Translate, RecordUntranslated, SetTranslation,
         StopFiller, writeVars

LEMMA CountedNext ==
  ASSUME Jobs, EveryTextIsCounted, [WriteNext]_writeVars
  PROVE  EveryTextIsCounted'
<1>1. ASSUME UNCHANGED <<writer, due>> PROVE EveryTextIsCounted'
  BY <1>1 DEF EveryTextIsCounted
<1>2. ASSUME NEW w \in Writers, WriterNext(w) PROVE EveryTextIsCounted'
  BY <1>2, WriterMoves, CountedMove
<1> QED BY <1>1, <1>2, OthersLeave DEF WriteNext

\* Every reply of the model, whoever asked for it and whatever it held, is on a counter of its day, in the
\* hands of the process that is about to record it, or was lost with a stop.
THEOREM CallsAreCounted == SpendSpec => []EveryCallIsCounted
<1> DEFINE Inv == Passes /\ Jobs /\ EveryReplyIsCounted /\ EveryTextIsCounted
<1>1. TagInit /\ WriteInit => Inv
  <2>1. WriteInit => EveryTextIsCounted
    BY DEF WriteInit, EveryTextIsCounted, Off
  <2>2. TagInit => EveryReplyIsCounted
    BY DEF TagInit, EveryReplyIsCounted, Rest, NoReply
  <2> QED BY <2>1, <2>2, PassesInit, JobsInit
<1>2. Inv /\ [TagNext]_tagVars /\ [WriteNext]_writeVars => Inv'
  BY PassesNext, JobsNext, CountedNext, CountedStep
<1>3. Inv => EveryCallIsCounted
  BY DEF EveryCallIsCounted
<1> QED BY <1>1, <1>2, <1>3, PTL DEF SpendSpec, TagSpec, WriteSpec

(***************************************************************************)
(* French and English.                                                     *)
(***************************************************************************)
FrenchStep == \A p \in Pieces : rows'[p].en # rows[p].en => rows'[p].fr \in {None, rows'[p].en}

LEMMA FrenchNext ==
  ASSUME Jobs, [WriteNext]_writeVars
  PROVE  FrenchStep
<1>0. rows \in [Pieces -> [en : Texts, fr : Texts, seen : Seen]]
  BY DEF Jobs, WriteTypeOK
<1>1. ASSUME NEW w \in Writers, WriterNext(w) PROVE FrenchStep
  <2>1. PICK r : Move(w, r)
    BY <1>1, WriterMoves
  <2>2. writer[w].fr \in {None, writer[w].en}
    BY DEF Jobs, JobFits
  <2>3. Row(w).en = writer[w].en /\ Row(w).fr = writer[w].fr
    BY DEF Row
  <2>4. rows' = rows \/ rows' = [rows EXCEPT ![Piece(w)] = Row(w)]
    BY <2>1 DEF Move
  <2> QED BY <1>0, <2>2, <2>3, <2>4 DEF FrenchStep
<1>2. ASSUME NEW b \in Fillers, FillerNext(b) PROVE FrenchStep
  <2>1. CASE SetTranslation(b)
    <3>1. rows' = [rows EXCEPT ![Filling(b)].fr = filler[b].en]
      BY <2>1 DEF SetTranslation
    <3>2. \A p \in Pieces : rows'[p].en = rows[p].en
      BY <1>0, <3>1
    <3> QED BY <3>2 DEF FrenchStep
  <2>2. CASE ~SetTranslation(b)
    <3>1. rows' = rows
      BY <1>2, <2>2 DEF FillerNext, StartBackfill, ReadPending, Translate, RecordUntranslated, StopFiller
    <3> QED BY <3>1 DEF FrenchStep
  <2> QED BY <2>1, <2>2
<1>3. ASSUME UNCHANGED rows PROVE FrenchStep
  BY <1>3 DEF FrenchStep
<1> QED BY <1>1, <1>2, <1>3 DEF WriteNext, NextDay, NewMaterial, writeVars

\* A row that is written again keeps no French of the English it replaced: it has French of the new English
\* or none, and the script finds it.
THEOREM FrenchFollows == WriteSpec => FrenchIsOfItsEnglish
<1>1. Jobs /\ [WriteNext]_writeVars => FrenchStep
  BY FrenchNext
<1>2. WriteSpec => [][FrenchStep]_writeVars
  BY <1>1, JobsAlways, PTL DEF WriteSpec
<1> QED BY <1>2, PTL DEF FrenchIsOfItsEnglish, FrenchStep

(***************************************************************************)
(* The bill of a day.  A writer's piece has two units, its English and its *)
(* French.  What a desk was charged today exceeds its counter by the units *)
(* in hand, by those of older days that were charged today, and by what    *)
(* stops lost; and a writer passes the check only while the counter is     *)
(* below the budget.                                                       *)
(***************************************************************************)
Units == Writers \X {1, 2}

OnDesk(j, desk) == j.todo # <<>> /\ Desk(j.todo[1]) = desk

\* Unit n of a job of today is in hand; it may still be charged; it is of an older day and may still be charged.
InHand(j, desk, n) == OnDesk(j, desk) /\ j.day = utcDay /\ n <= j.cost
IsLeft(j, desk, n) == OnDesk(j, desk) /\ j.day = utcDay /\ MayCost(j, n)
IsOld(j, desk, n) == OnDesk(j, desk) /\ j.day < utcDay /\ Begun(j, n)

Hand(desk) == {u \in Units : InHand(writer[u[1]], desk, u[2])}
Left(desk) == {u \in Units : IsLeft(writer[u[1]], desk, u[2])}
Old(desk) == {u \in Units : IsOld(writer[u[1]], desk, u[2])}

\* All that writers of older days may be charged on a later one.
Late == IF utcDay > 0 THEN 2 * Cardinality(Writers) ELSE 0

Booked(desk) ==
    charged[<<desk, utcDay>>] + Cardinality(Old(desk))
      <= spend[<<desk, utcDay>>] + Cardinality(Hand(desk)) + 2 * stops + Late

Capped(desk) ==
    charged[<<desk, utcDay>>] + Cardinality(Old(desk)) + Cardinality(Left(desk))
      <= Budget - 1 + 2 * Cardinality(Writers) + 2 * stops + Late

DayBill(desk, d) ==
    charged[<<desk, d>>] <= Budget - 1 + 2 * Cardinality(Writers) * (IF d > 0 THEN 2 ELSE 1) + 2 * stops

Bills ==
    \A desk \in Desks :
        /\ Booked(desk) /\ Capped(desk)
        /\ \A d \in 0..MaxDay : (d < utcDay => DayBill(desk, d)) /\ (d > utcDay => charged[<<desk, d>>] = 0)

LEMMA UnitSets ==
  /\ IsFiniteSet(Units) /\ Cardinality(Writers) \in Nat
  /\ \A S \in SUBSET Units : IsFiniteSet(S) /\ Cardinality(S) \in Nat /\ Cardinality(S) <= 2 * Cardinality(Writers)
<1>1. IsFiniteSet(Writers) /\ Cardinality(Writers) \in Nat
  BY Numbers, FS_CardinalityType
<1>2. IsFiniteSet({1, 2}) /\ Cardinality({1, 2}) = 2
  <2>1. IsFiniteSet({1}) /\ Cardinality({1}) = 1
    BY FS_Singleton
  <2>2. 2 \notin {1} /\ {1} \cup {2} = {1, 2}
    OBVIOUS
  <2>3. IsFiniteSet({1} \cup {2}) /\ Cardinality({1} \cup {2}) = 1 + 1
    BY <2>1, <2>2, FS_AddElement
  <2> QED BY <2>2, <2>3
<1>3. IsFiniteSet(Units) /\ Cardinality(Units) = Cardinality(Writers) * 2
  BY <1>1, <1>2, FS_Product DEF Units
<1>4. ASSUME NEW S \in SUBSET Units
      PROVE  IsFiniteSet(S) /\ Cardinality(S) \in Nat /\ Cardinality(S) <= 2 * Cardinality(Writers)
  <2>1. IsFiniteSet(S) /\ Cardinality(S) <= Cardinality(Units)
    BY <1>3, FS_Subset
  <2> QED BY <1>1, <1>3, <2>1, FS_CardinalityType
<1> QED BY <1>1, <1>3, <1>4

LEMMA FewerUnits ==
  ASSUME NEW T \in SUBSET Units, NEW S \in SUBSET T
  PROVE  Cardinality(S) <= Cardinality(T)
  BY UnitSets, FS_Subset

LEMMA OneUnitFewer ==
  ASSUME NEW T \in SUBSET Units, NEW u \in T, NEW S \in SUBSET (T \ {u})
  PROVE  Cardinality(S) + 1 <= Cardinality(T)
<1>1. IsFiniteSet(T) /\ Cardinality(T) \in Nat /\ S \in SUBSET Units /\ Cardinality(S) \in Nat
  BY UnitSets
<1>2. IsFiniteSet(T \ {u}) /\ Cardinality(T \ {u}) = Cardinality(T) - 1
  BY <1>1, FS_RemoveElement
<1>3. Cardinality(S) <= Cardinality(T \ {u})
  BY <1>2, FS_Subset
<1> QED BY <1>1, <1>2, <1>3

LEMMA OneUnitLost ==
  ASSUME NEW T \in SUBSET Units, NEW u, NEW S \in SUBSET Units, T \ {u} \subseteq S
  PROVE  Cardinality(T) <= Cardinality(S) + 1
<1>1. IsFiniteSet(T) /\ Cardinality(T) \in Nat /\ Cardinality(S) \in Nat
  BY UnitSets
<1>2. Cardinality(T \ {u}) \in {Cardinality(T), Cardinality(T) - 1}
  BY <1>1, FS_RemoveElement
<1>3. Cardinality(T \ {u}) <= Cardinality(S)
  BY FewerUnits
<1> QED BY <1>1, <1>2, <1>3

LEMMA UnitsOfDay ==
  ASSUME NEW desk
  PROVE  /\ Hand(desk) \in SUBSET Units /\ Left(desk) \in SUBSET Units /\ Old(desk) \in SUBSET Units
         /\ Hand(desk)' \in SUBSET Units /\ Left(desk)' \in SUBSET Units /\ Old(desk)' \in SUBSET Units
  BY DEF Hand, Left, Old

\* What a step of writer w does to the units of a desk is what it does to the two of w.
LEMMA UnitsMove ==
  ASSUME Jobs, NEW w \in Writers, NEW r, Put(w, r), utcDay' = utcDay, NEW desk
  PROVE  /\ \A u \in Units : u[1] # w => /\ u \in Hand(desk)' <=> u \in Hand(desk)
                                         /\ u \in Left(desk)' <=> u \in Left(desk)
                                         /\ u \in Old(desk)' <=> u \in Old(desk)
         /\ \A u \in Units : u[1] = w => u[2] \in {1, 2} /\ u = <<w, u[2]>>
         /\ \A n \in {1, 2} : /\ <<w, n>> \in Units
                              /\ <<w, n>> \in Hand(desk) <=> InHand(writer[w], desk, n)
                              /\ <<w, n>> \in Left(desk) <=> IsLeft(writer[w], desk, n)
                              /\ <<w, n>> \in Old(desk) <=> IsOld(writer[w], desk, n)
                              /\ <<w, n>> \in Hand(desk)' <=> InHand(r, desk, n)
                              /\ <<w, n>> \in Left(desk)' <=> IsLeft(r, desk, n)
                              /\ <<w, n>> \in Old(desk)' <=> IsOld(r, desk, n)
<1>1. writer'[w] = r /\ \A x \in Writers \ {w} : writer'[x] = writer[x]
  BY DEF Jobs, WriteTypeOK, Put
<1>2. \A u \in Units : u[1] \in Writers /\ u[2] \in {1, 2} /\ u = <<u[1], u[2]>>
  BY DEF Units
<1>3. \A n \in {1, 2} : <<w, n>> \in Units /\ <<w, n>>[1] = w /\ <<w, n>>[2] = n
  BY DEF Units
<1>h. Hand(desk)' = {u \in Units : InHand(writer'[u[1]], desk, u[2])}
  BY DEF Hand, InHand
<1>l. Left(desk)' = {u \in Units : IsLeft(writer'[u[1]], desk, u[2])}
  BY DEF Left, IsLeft
<1>o. Old(desk)' = {u \in Units : IsOld(writer'[u[1]], desk, u[2])}
  BY DEF Old, IsOld
<1>4. ASSUME NEW u \in Units, u[1] # w
      PROVE  /\ u \in Hand(desk)' <=> u \in Hand(desk)
             /\ u \in Left(desk)' <=> u \in Left(desk)
             /\ u \in Old(desk)' <=> u \in Old(desk)
  <2>1. writer'[u[1]] = writer[u[1]]
    BY <1>1, <1>2, <1>4
  <2> QED BY <1>h, <1>l, <1>o, <2>1 DEF Hand, Left, Old
<1>5. ASSUME NEW n \in {1, 2}
      PROVE  /\ <<w, n>> \in Hand(desk) <=> InHand(writer[w], desk, n)
             /\ <<w, n>> \in Left(desk) <=> IsLeft(writer[w], desk, n)
             /\ <<w, n>> \in Old(desk) <=> IsOld(writer[w], desk, n)
             /\ <<w, n>> \in Hand(desk)' <=> InHand(r, desk, n)
             /\ <<w, n>> \in Left(desk)' <=> IsLeft(r, desk, n)
             /\ <<w, n>> \in Old(desk)' <=> IsOld(r, desk, n)
  <2> DEFINE u == <<w, n>>
  <2>1. u \in Units /\ u[1] = w /\ u[2] = n
    BY <1>3
  <2> HIDE DEF u
  <2>2. /\ u \in Hand(desk) <=> InHand(writer[w], desk, n)
        /\ u \in Left(desk) <=> IsLeft(writer[w], desk, n)
        /\ u \in Old(desk) <=> IsOld(writer[w], desk, n)
    BY <2>1 DEF Hand, Left, Old
  <2>3. /\ u \in Hand(desk)' <=> InHand(r, desk, n)
        /\ u \in Left(desk)' <=> IsLeft(r, desk, n)
        /\ u \in Old(desk)' <=> IsOld(r, desk, n)
    BY <1>1, <1>h, <1>l, <1>o, <2>1
  <2> QED BY <2>2, <2>3 DEF u
<1> QED BY <1>2, <1>3, <1>4, <1>5

\* A unit is not in hand and still to be charged at once.
LEMMA HandAndLeft ==
  ASSUME Jobs', NEW desk
  PROVE  Cardinality(Hand(desk)') + Cardinality(Left(desk)') <= 2 * Cardinality(Writers)
<1> DEFINE H == Hand(desk)'  L == Left(desk)'
<1>1. H \in SUBSET Units /\ L \in SUBSET Units
  BY UnitsOfDay
<1>2. H \cap L = {}
  <2> SUFFICES ASSUME NEW u \in Units, u \in Hand(desk)', u \in Left(desk)' PROVE FALSE
    BY <1>1
  <2>1. u[1] \in Writers /\ u[2] \in {1, 2}
    BY DEF Units
  <2>2. writer'[u[1]].cost = CostOf(writer'[u[1]])
    BY <2>1 DEF Jobs, JobFits
  <2>3. u[2] <= writer'[u[1]].cost /\ MayCost(writer'[u[1]], u[2])
    BY DEF Hand, Left, InHand, IsLeft
  <2> QED BY <2>1, <2>2, <2>3 DEF MayCost, CostOf
<1> HIDE DEF H, L
<1>3. /\ IsFiniteSet(H) /\ IsFiniteSet(L) /\ Cardinality(H) \in Nat /\ Cardinality(L) \in Nat
      /\ H \cup L \in SUBSET Units /\ Cardinality(H \cup L) <= 2 * Cardinality(Writers)
  BY <1>1, UnitSets
<1>4. Cardinality(H \cup L) = Cardinality(H) + Cardinality(L) - 0
  <2>1. Cardinality(H \cup L) = Cardinality(H) + Cardinality(L) - Cardinality(H \cap L)
    BY <1>3, FS_Union
  <2>2. Cardinality(H \cap L) = 0
    BY <1>2, FS_EmptySet
  <2> QED BY <2>1, <2>2
<1>5. Cardinality(H) + Cardinality(L) <= 2 * Cardinality(Writers)
  BY <1>3, <1>4
<1> QED BY <1>5 DEF H, L

\* A move that is neither charged nor settled nor stopped, or that is, but for another desk or counter.
LEMMA BillMove ==
  ASSUME Jobs, NEW desk \in Desks, Booked(desk), Capped(desk), NEW w \in Writers, NEW r, Move(w, r)
  PROVE  Booked(desk)' /\ Capped(desk)'
<1> DEFINE j == writer[w]
           T == utcDay
           c == charged[<<desk, T>>]  cc == charged'[<<desk, T>>]
           s == spend[<<desk, T>>]  ss == spend'[<<desk, T>>]
           h == Cardinality(Hand(desk))  hh == Cardinality(Hand(desk)')
           l == Cardinality(Left(desk))  ll == Cardinality(Left(desk)')
           o == Cardinality(Old(desk))  oo == Cardinality(Old(desk)')
<1>j. Jobs' /\ j \in Job(WriterSteps) /\ JobFits(j) /\ j.cost = CostOf(j) /\ T \in 0..MaxDay /\ j.day \in 0..MaxDay /\ j.day <= T
  BY MoveKeepsJobs DEF Jobs, WriteTypeOK, JobFits, Job
<1>r. r \in Job(WriterSteps) /\ r.cost \in 0..2 /\ r.cost = CostOf(r) /\ r.day \in 0..MaxDay /\ utcDay' = T /\ Put(w, r)
  BY DEF Move, JobFits, Job
<1>t. /\ spend \in [Desks \X (BriefDays \cup 0..MaxDay) -> Nat] /\ charged \in [Desks \X (0..MaxDay) -> Nat]
      /\ stops \in Nat /\ stops' \in Nat /\ cc \in Nat /\ ss \in Nat /\ c \in Nat /\ s \in Nat
      /\ <<desk, T>> \in Desks \X (BriefDays \cup 0..MaxDay) /\ <<desk, T>> \in Desks \X (0..MaxDay)
  BY <1>j DEF Jobs, WriteTypeOK
<1>n. /\ h \in Nat /\ hh \in Nat /\ l \in Nat /\ ll \in Nat /\ o \in Nat /\ oo \in Nat
      /\ Cardinality(Writers) \in Nat /\ Budget \in Nat \ {0} /\ Late \in Nat /\ Late' = Late
  <2>1. /\ h \in Nat /\ hh \in Nat /\ l \in Nat /\ ll \in Nat /\ o \in Nat /\ oo \in Nat /\ Cardinality(Writers) \in Nat
    BY UnitsOfDay, UnitSets
  <2> QED BY <1>r, <2>1, Numbers DEF Late
<1>b. c + o <= s + h + 2 * stops + Late /\ c + o + l <= Budget - 1 + 2 * Cardinality(Writers) + 2 * stops + Late
  BY DEF Booked, Capped
<1>g. /\ (Booked(desk)' <=> cc + oo <= ss + hh + 2 * stops' + Late)
      /\ (Capped(desk)' <=> cc + oo + ll <= Budget - 1 + 2 * Cardinality(Writers) + 2 * stops' + Late)
  BY <1>r, <1>n DEF Booked, Capped
<1>u. /\ \A u \in Units : u[1] # w => /\ u \in Hand(desk)' <=> u \in Hand(desk)
                                      /\ u \in Left(desk)' <=> u \in Left(desk)
                                      /\ u \in Old(desk)' <=> u \in Old(desk)
      /\ \A u \in Units : u[1] = w => u[2] \in {1, 2} /\ u = <<w, u[2]>>
      /\ \A n \in {1, 2} : /\ <<w, n>> \in Units
                           /\ <<w, n>> \in Hand(desk) <=> InHand(j, desk, n)
                           /\ <<w, n>> \in Left(desk) <=> IsLeft(j, desk, n)
                           /\ <<w, n>> \in Old(desk) <=> IsOld(j, desk, n)
                           /\ <<w, n>> \in Hand(desk)' <=> InHand(r, desk, n)
                           /\ <<w, n>> \in Left(desk)' <=> IsLeft(r, desk, n)
                           /\ <<w, n>> \in Old(desk)' <=> IsOld(r, desk, n)
  BY <1>r, UnitsMove
<1>s. /\ Hand(desk) \in SUBSET Units /\ Left(desk) \in SUBSET Units /\ Old(desk) \in SUBSET Units
      /\ Hand(desk)' \in SUBSET Units /\ Left(desk)' \in SUBSET Units /\ Old(desk)' \in SUBSET Units
  BY UnitsOfDay
<1>hk. (\A n \in {1, 2} : InHand(j, desk, n) => InHand(r, desk, n)) => h <= hh
  <2>1. (\A n \in {1, 2} : InHand(j, desk, n) => InHand(r, desk, n)) => Hand(desk) \subseteq Hand(desk)'
    BY <1>u, <1>s
  <2> QED BY <1>s, <2>1, FewerUnits
<1>lk. (\A n \in {1, 2} : IsLeft(r, desk, n) => IsLeft(j, desk, n)) => ll <= l
  <2>1. (\A n \in {1, 2} : IsLeft(r, desk, n) => IsLeft(j, desk, n)) => Left(desk)' \subseteq Left(desk)
    BY <1>u, <1>s
  <2> QED BY <1>s, <2>1, FewerUnits
<1>ok. (\A n \in {1, 2} : IsOld(r, desk, n) => IsOld(j, desk, n)) => oo <= o
  <2>1. (\A n \in {1, 2} : IsOld(r, desk, n) => IsOld(j, desk, n)) => Old(desk)' \subseteq Old(desk)
    BY <1>u, <1>s
  <2> QED BY <1>s, <2>1, FewerUnits
<1>h1. ASSUME NEW m \in {1, 2}, ~InHand(j, desk, m), InHand(r, desk, m),
              \A n \in {1, 2} : InHand(j, desk, n) => InHand(r, desk, n)
       PROVE  h + 1 <= hh
  <2>1. <<w, m>> \in Hand(desk)' /\ Hand(desk) \in SUBSET (Hand(desk)' \ {<<w, m>>})
    BY <1>h1, <1>u, <1>s
  <2> QED BY <1>s, <2>1, OneUnitFewer
<1>h2. ASSUME NEW m \in {1, 2}, \A n \in {1, 2} : InHand(j, desk, n) /\ n # m => InHand(r, desk, n)
       PROVE  h <= hh + 1
  <2>1. Hand(desk) \ {<<w, m>>} \subseteq Hand(desk)'
    BY <1>h2, <1>u, <1>s
  <2> QED BY <1>s, <2>1, OneUnitLost
<1>l1. ASSUME NEW m \in {1, 2}, IsLeft(j, desk, m), \A n \in {1, 2} : IsLeft(r, desk, n) => IsLeft(j, desk, n) /\ n # m
       PROVE  ll + 1 <= l
  <2>1. <<w, m>> \in Left(desk) /\ Left(desk)' \in SUBSET (Left(desk) \ {<<w, m>>})
    BY <1>l1, <1>u, <1>s
  <2> QED BY <1>s, <2>1, OneUnitFewer
<1>o1. ASSUME NEW m \in {1, 2}, IsOld(j, desk, m), \A n \in {1, 2} : IsOld(r, desk, n) => IsOld(j, desk, n) /\ n # m
       PROVE  oo + 1 <= o
  <2>1. <<w, m>> \in Old(desk) /\ Old(desk)' \in SUBSET (Old(desk) \ {<<w, m>>})
    BY <1>o1, <1>u, <1>s
  <2> QED BY <1>s, <2>1, OneUnitFewer
<1>at. ASSUME j.todo # <<>> PROVE Piece(w) = j.todo[1] /\ Desk(Piece(w)) \in Desks
  BY <1>at, PieceAtHand
<1>1. CASE QuietMove(w, r)
  <2>1. \A n \in {1, 2} : /\ InHand(j, desk, n) => InHand(r, desk, n)
                          /\ ~IsLeft(r, desk, n) /\ ~IsOld(r, desk, n)
    BY <1>1, <1>j, <1>r DEF QuietMove, InHand, IsLeft, IsOld, OnDesk, SamePiece
  <2>2. cc = c /\ ss = s /\ stops' = stops
    BY <1>1 DEF QuietMove
  <2>3. h <= hh /\ ll <= l /\ oo <= o
    BY <2>1, <1>hk, <1>lk, <1>ok
  <2> HIDE DEF c, cc, s, ss, h, hh, l, ll, o, oo
  <2> QED BY <1>b, <1>g, <1>n, <1>t, <2>2, <2>3
<1>2. CASE CheckMove(w, r)
  <2>0. j.at = "gathered" /\ j.cost = 0 /\ j.todo # <<>>
    BY <1>2, <1>j DEF CheckMove, CostOf, JobFits
  <2>1. r.at = "allowed" /\ r.todo = j.todo /\ r.cost = 0 /\ r.day = SpendDay(w)
    BY <1>2, <1>j, <2>0 DEF CheckMove, Job
  <2>2. \A n \in {1, 2} : InHand(j, desk, n) => InHand(r, desk, n)
    BY <2>0 DEF InHand
  <2>3. \A n \in {1, 2} : IsOld(r, desk, n) => IsOld(j, desk, n)
    BY <1>at, <1>j, <2>0, <2>1 DEF IsOld, OnDesk, SpendDay, Begun, MayCost
  <2>4. cc = c /\ ss = s /\ stops' = stops /\ h <= hh /\ oo <= o
    BY <1>2, <1>hk, <1>ok, <2>2, <2>3 DEF CheckMove
  <2>5. CASE OnDesk(r, desk) /\ r.day = T
    <3>1. s <= Budget - 1
      <4>1. Desk(Piece(w)) = desk /\ SpendDay(w) = T
        BY <1>at, <2>0, <2>1, <2>5 DEF OnDesk
      <4>2. BudgetLeft(desk, T) > 0
        BY <1>2, <4>1 DEF CheckMove
      <4> QED BY <1>n, <1>t, <4>2 DEF BudgetLeft
    <3>2. hh + ll <= 2 * Cardinality(Writers)
      BY <1>j, HandAndLeft
    <3> HIDE DEF c, cc, s, ss, h, hh, l, ll, o, oo
    <3> QED BY <1>b, <1>g, <1>n, <1>t, <2>4, <3>1, <3>2
  <2>6. CASE ~(OnDesk(r, desk) /\ r.day = T)
    <3>1. ll <= l
      BY <1>lk, <2>6 DEF IsLeft
    <3> HIDE DEF c, cc, s, ss, h, hh, l, ll, o, oo
    <3> QED BY <1>b, <1>g, <1>n, <1>t, <2>4, <3>1
  <2> QED BY <2>5, <2>6
<1>3. CASE ChargeMove(w, r)
  <2> DEFINE m == r.cost
  <2>0. j.todo # <<>>
    BY <1>3, <1>j DEF ChargeMove, MayCost, JobFits
  <2>1. /\ m \in {1, 2} /\ r.cost = j.cost + 1 /\ j.cost \in 0..1 /\ MayCost(j, m) /\ r.todo = j.todo /\ r.day = j.day
        /\ \A n \in {1, 2} : Begun(r, n) => MayCost(j, n) /\ n # m
    BY <1>3, <1>j, <1>r DEF ChargeMove, SamePiece, MayCost, CostOf
  <2>2. ss = s /\ stops' = stops /\ charged' = [charged EXCEPT ![<<Desk(Piece(w)), T>>] = @ + 1]
    BY <1>3 DEF ChargeMove, Charge
  <2>3. \A n \in {1, 2} : InHand(j, desk, n) => InHand(r, desk, n)
    BY <2>1 DEF InHand, OnDesk
  <2>4. \A n \in {1, 2} : /\ IsLeft(r, desk, n) => IsLeft(j, desk, n) /\ n # m
                          /\ IsOld(r, desk, n) => IsOld(j, desk, n) /\ n # m
    BY <2>1 DEF IsLeft, IsOld, OnDesk, Begun
  <2>5. h <= hh /\ ll <= l /\ oo <= o
    BY <1>hk, <1>lk, <1>ok, <2>3, <2>4
  <2>6. CASE Desk(Piece(w)) # desk
    <3>1. <<Desk(Piece(w)), T>> # <<desk, T>>
      BY <2>6
    <3>2. cc = c
      BY <1>t, <2>2, <3>1
    <3> HIDE DEF c, cc, s, ss, h, hh, l, ll, o, oo
    <3> QED BY <1>b, <1>g, <1>n, <1>t, <2>2, <2>5, <3>2
  <2>7. CASE Desk(Piece(w)) = desk
    <3>1. cc = c + 1
      BY <1>t, <2>2, <2>7
    <3>2. OnDesk(j, desk) /\ OnDesk(r, desk)
      BY <1>at, <2>0, <2>1, <2>7 DEF OnDesk
    <3>3. CASE j.day = T
      <4>1. IsLeft(j, desk, m) /\ InHand(r, desk, m) /\ ~InHand(j, desk, m)
        BY <2>1, <3>2, <3>3 DEF IsLeft, InHand
      <4>2. h + 1 <= hh
        BY <1>h1, <2>1, <2>3, <4>1
      <4>3. ll + 1 <= l
        BY <1>l1, <2>1, <2>4, <4>1
      <4> HIDE DEF c, cc, s, ss, h, hh, l, ll, o, oo
      <4> QED BY <1>b, <1>g, <1>n, <1>t, <2>2, <2>5, <3>1, <4>2, <4>3
    <3>4. CASE j.day < T
      <4>1. IsOld(j, desk, m)
        BY <2>1, <3>2, <3>4 DEF IsOld, Begun
      <4>2. oo + 1 <= o
        BY <1>o1, <2>1, <2>4, <4>1
      <4> HIDE DEF c, cc, s, ss, h, hh, l, ll, o, oo
      <4> QED BY <1>b, <1>g, <1>n, <1>t, <2>2, <2>5, <3>1, <4>2
    <3> QED BY <1>j, <3>3, <3>4
  <2> QED BY <2>6, <2>7
<1>4. CASE SettleMove(w, r)
  <2> DEFINE m == j.cost  k == <<Desk(Piece(w)), j.day>>
  <2>1. /\ m \in {1, 2} /\ r.cost = m - 1 /\ (r.cost > 0 => r.todo = j.todo /\ r.day = j.day)
        /\ \A n \in {1, 2} : ~IsLeft(r, desk, n) /\ ~IsOld(r, desk, n)
    BY <1>4, <1>j, <1>r DEF SettleMove, SamePiece, IsLeft, IsOld, Begun, Job
  <2>2. cc = c /\ stops' = stops /\ spend' = [spend EXCEPT ![k] = @ + 1]
    BY <1>4 DEF SettleMove, Settle, AddUsage
  <2>3. ll <= l /\ oo <= o
    BY <1>lk, <1>ok, <2>1
  <2>4. j.todo # <<>> /\ Piece(w) = j.todo[1]
    <3>1. j.cost > 0
      BY <2>1
    <3> QED BY <3>1, AtWork
  <2>5. CASE k = <<desk, T>>
    <3>1. ss = s + 1
      BY <1>t, <2>2, <2>5
    <3>2. \A n \in {1, 2} : InHand(j, desk, n) /\ n # m => InHand(r, desk, n)
      BY <2>1 DEF InHand, OnDesk
    <3>3. h <= hh + 1
      BY <1>h2, <2>1, <3>2
    <3> HIDE DEF c, cc, s, ss, h, hh, l, ll, o, oo
    <3> QED BY <1>b, <1>g, <1>n, <1>t, <2>2, <2>3, <3>1, <3>3
  <2>6. CASE k # <<desk, T>>
    <3>1. ss = s
      BY <1>t, <2>2, <2>6
    <3>2. \A n \in {1, 2} : ~InHand(j, desk, n)
      BY <2>4, <2>6 DEF InHand, OnDesk
    <3>3. h <= hh
      BY <1>hk, <3>2
    <3> HIDE DEF c, cc, s, ss, h, hh, l, ll, o, oo
    <3> QED BY <1>b, <1>g, <1>n, <1>t, <2>2, <2>3, <3>1, <3>3
  <2> QED BY <2>5, <2>6
<1>5. CASE StopMove(w, r)
  <2>1. r = Off /\ stops' = stops + 1 /\ cc = c /\ ss = s
    BY <1>5 DEF StopMove
  <2>2. \A n \in {1, 2} : ~InHand(r, desk, n) /\ ~IsLeft(r, desk, n) /\ ~IsOld(r, desk, n)
    BY <2>1 DEF Off, InHand, IsLeft, IsOld, OnDesk
  <2>3. ll <= l /\ oo <= o
    BY <1>lk, <1>ok, <2>2
  <2>4. h <= hh + 2
    <3> DEFINE H1 == Hand(desk) \ {<<w, 1>>}
    <3>1. H1 \in SUBSET Units /\ H1 \ {<<w, 2>>} \subseteq Hand(desk)'
      BY <1>s, <1>u
    <3> HIDE DEF H1
    <3>2. Cardinality(H1) <= hh + 1 /\ Cardinality(H1) \in Nat
      BY <1>s, <3>1, OneUnitLost, UnitSets
    <3>3. h <= Cardinality(H1) + 1
      BY <1>s, <3>1, OneUnitLost DEF H1
    <3> HIDE DEF h, hh
    <3> QED BY <1>n, <3>2, <3>3
  <2> HIDE DEF c, cc, s, ss, h, hh, l, ll, o, oo
  <2> QED BY <1>b, <1>g, <1>n, <1>t, <2>1, <2>3, <2>4
<1> QED BY <1>1, <1>2, <1>3, <1>4, <1>5 DEF Move

LEMMA LateBound ==
  ASSUME utcDay \in Nat
  PROVE  /\ 2 * Cardinality(Writers) * (IF utcDay > 0 THEN 2 ELSE 1) = 2 * Cardinality(Writers) + Late
         /\ Late \in Nat /\ Late <= 2 * Cardinality(Writers)
<1>1. Cardinality(Writers) \in Nat
  BY UnitSets
<1>2. CASE utcDay > 0
  BY <1>1, <1>2 DEF Late
<1>3. CASE ~(utcDay > 0)
  BY <1>1, <1>3 DEF Late
<1> QED BY <1>2, <1>3

\* Today's bill is what the check admits.
LEMMA TodaysBill ==
  ASSUME Jobs, NEW desk \in Desks, Capped(desk)
  PROVE  DayBill(desk, utcDay)
<1> DEFINE l == Cardinality(Left(desk))  o == Cardinality(Old(desk))  C == 2 * Cardinality(Writers)
           f == IF utcDay > 0 THEN 2 ELSE 1  c == charged[<<desk, utcDay>>]
<1>1. l \in Nat /\ o \in Nat /\ C \in Nat
  BY UnitsOfDay, UnitSets
<1>2. utcDay \in Nat /\ c \in Nat /\ stops \in Nat
  BY Numbers DEF Jobs, WriteTypeOK
<1>3. C * f = C + Late /\ Late \in Nat
  BY <1>2, LateBound
<1>4. c + o + l <= Budget - 1 + C + 2 * stops + Late
  BY DEF Capped
<1> HIDE DEF l, o, C, f, c
<1>5. c <= Budget - 1 + C * f + 2 * stops
  BY <1>1, <1>2, <1>3, <1>4, Numbers
<1> QED BY <1>5 DEF DayBill, C, f, c

\* A day that is past: nothing is charged on it, and a stop only widens its bound.
LEMMA DayBillKept ==
  ASSUME Jobs, NEW desk \in Desks, NEW d \in 0..MaxDay, DayBill(desk, d), charged'[<<desk, d>>] = charged[<<desk, d>>],
         stops' \in {stops, stops + 1}
  PROVE  DayBill(desk, d)'
<1> DEFINE B == 2 * Cardinality(Writers) * (IF d > 0 THEN 2 ELSE 1)  c == charged[<<desk, d>>]
<1>1. B \in Nat
  BY UnitSets
<1>2. stops \in Nat /\ Budget \in Nat \ {0} /\ c \in Nat
  BY Numbers DEF Jobs, WriteTypeOK
<1>3. c <= Budget - 1 + B + 2 * stops
  BY DEF DayBill
<1> HIDE DEF B, c
<1>4. PICK m \in Nat : m = stops /\ stops' \in {m, m + 1}
  BY <1>2
<1>5. c <= Budget - 1 + B + 2 * stops'
  <2>1. c <= Budget - 1 + B + 2 * m
    BY <1>3, <1>4
  <2>2. CASE stops' = m
    BY <2>1, <2>2
  <2>3. CASE stops' = m + 1
    <3>1. c <= Budget - 1 + B + 2 * (m + 1)
      BY <1>1, <1>2, <2>1
    <3> QED BY <2>3, <3>1
  <2> QED BY <1>4, <2>2, <2>3
<1> QED BY <1>5 DEF DayBill, B, c

LEMMA BillsInit == WriteInit => Bills
<1> SUFFICES ASSUME WriteInit, NEW desk \in Desks
             PROVE  /\ Booked(desk) /\ Capped(desk)
                    /\ \A d \in 0..MaxDay : (d < utcDay => DayBill(desk, d)) /\ (d > utcDay => charged[<<desk, d>>] = 0)
  BY DEF Bills
<1>1. Hand(desk) = {} /\ Left(desk) = {} /\ Old(desk) = {}
  <2>1. \A u \in Units : u[1] \in Writers
    BY DEF Units
  <2>2. \A w \in Writers : writer[w].todo = <<>>
    BY DEF WriteInit, Off
  <2> QED BY <2>1, <2>2 DEF Hand, Left, Old, InHand, IsLeft, IsOld, OnDesk
<1>2. Cardinality({}) = 0
  BY FS_EmptySet
<1>3. utcDay = 0 /\ stops = 0 /\ 0 \in 0..MaxDay /\ Cardinality(Writers) \in Nat
  BY UnitSets, Numbers DEF WriteInit
<1>4. \A d \in 0..MaxDay : charged[<<desk, d>>] = 0 /\ spend[<<desk, 0>>] = 0
  BY <1>3 DEF WriteInit
<1>5. Late = 0
  BY <1>3 DEF Late
<1> QED BY <1>1, <1>2, <1>3, <1>4, <1>5, Numbers DEF Booked, Capped

\* The clock, the news and the script: no writer moves and nothing is charged.
LEMMA BillOthers ==
  ASSUME Jobs, Jobs', NEW desk \in Desks, Booked(desk), Capped(desk), UNCHANGED <<writer, charged, utcDay>>,
         stops' >= stops, spend'[<<desk, utcDay>>] >= spend[<<desk, utcDay>>]
  PROVE  Booked(desk)' /\ Capped(desk)'
<1> DEFINE T == utcDay
           c == charged[<<desk, T>>]
           s == spend[<<desk, T>>]  ss == spend'[<<desk, T>>]
           h == Cardinality(Hand(desk))
           l == Cardinality(Left(desk))
           o == Cardinality(Old(desk))
<1>1. Hand(desk)' = Hand(desk) /\ Left(desk)' = Left(desk) /\ Old(desk)' = Old(desk) /\ Late' = Late
  BY DEF Hand, Left, Old, InHand, IsLeft, IsOld, Late
<1>2. h \in Nat /\ l \in Nat /\ o \in Nat /\ Cardinality(Writers) \in Nat
  BY UnitsOfDay, UnitSets
<1>3. /\ c \in Nat /\ s \in Nat /\ ss \in Nat /\ stops \in Nat /\ stops' \in Nat /\ Late \in Nat /\ Budget \in Nat
  <2>1. T \in 0..MaxDay /\ <<desk, T>> \in Desks \X (BriefDays \cup 0..MaxDay) /\ <<desk, T>> \in Desks \X (0..MaxDay)
    BY DEF Jobs, WriteTypeOK
  <2> QED BY <2>1, <1>2, Numbers DEF Jobs, WriteTypeOK, Late
<1>4. c + o <= s + h + 2 * stops + Late /\ c + o + l <= Budget - 1 + 2 * Cardinality(Writers) + 2 * stops + Late
  BY DEF Booked, Capped
<1>5. /\ (Booked(desk)' <=> c + o <= ss + h + 2 * stops' + Late)
      /\ (Capped(desk)' <=> c + o + l <= Budget - 1 + 2 * Cardinality(Writers) + 2 * stops' + Late)
  BY <1>1 DEF Booked, Capped
<1>6. stops <= stops' /\ s <= ss
  OBVIOUS
<1> HIDE DEF c, s, ss, h, l, o
<1> QED BY <1>2, <1>3, <1>4, <1>5, <1>6

\* Midnight: nothing is in hand of the new day, and all that is under way is late.
LEMMA BillMidnight ==
  ASSUME Jobs, Jobs', NEW desk \in Desks, NextDay, charged[<<desk, utcDay + 1>>] = 0
  PROVE  Booked(desk)' /\ Capped(desk)'
<1> DEFINE T == utcDay + 1
           ss == spend'[<<desk, T>>]
           hh == Cardinality(Hand(desk)')
           ll == Cardinality(Left(desk)')
           oo == Cardinality(Old(desk)')
           C == Cardinality(Writers)
<1>1. utcDay' = T /\ UNCHANGED <<writer, charged, spend, stops>> /\ utcDay \in Nat /\ T \in 0..MaxDay /\ stops \in Nat
  BY Numbers DEF NextDay, Jobs, WriteTypeOK
<1>2. Left(desk)' = {}
  <2>1. \A u \in Units : u[1] \in Writers
    BY DEF Units
  <2>2. \A w \in Writers : writer'[w].day # utcDay'
    <3>1. \A w \in Writers : writer[w].day <= utcDay /\ writer[w].day \in 0..MaxDay
      BY DEF Jobs, WriteTypeOK, Job
    <3> QED BY <1>1, <3>1
  <2> QED BY <2>1, <2>2 DEF Left, IsLeft
<1>3. ll = 0 /\ hh \in Nat /\ oo \in Nat /\ oo <= 2 * C /\ C \in Nat
  BY <1>2, UnitsOfDay, UnitSets, FS_EmptySet
<1>4. Late' = 2 * C
  BY <1>1 DEF Late
<1>5. ss \in Nat
  BY <1>1 DEF Jobs, WriteTypeOK
<1>6. /\ (Booked(desk)' <=> 0 + oo <= ss + hh + 2 * stops + Late')
      /\ (Capped(desk)' <=> 0 + oo + ll <= Budget - 1 + 2 * C + 2 * stops + Late')
  BY <1>1 DEF Booked, Capped
<1> HIDE DEF T, ss, hh, ll, oo, C
<1> QED BY <1>1, <1>3, <1>4, <1>5, <1>6, Numbers

LEMMA BillsNext ==
  ASSUME Jobs, Bills, [WriteNext]_writeVars
  PROVE  Bills'
<1> SUFFICES ASSUME NEW desk \in Desks
             PROVE  /\ Booked(desk)' /\ Capped(desk)'
                    /\ \A d \in 0..MaxDay : /\ d < utcDay' => DayBill(desk, d)'
                                            /\ d > utcDay' => charged'[<<desk, d>>] = 0
  BY DEF Bills
<1>0. /\ Jobs' /\ Booked(desk) /\ Capped(desk) /\ utcDay \in 0..MaxDay /\ MaxDay \in Nat
      /\ \A d \in 0..MaxDay : (d < utcDay => DayBill(desk, d)) /\ (d > utcDay => charged[<<desk, d>>] = 0)
      /\ spend \in [Desks \X (BriefDays \cup 0..MaxDay) -> Nat] /\ charged \in [Desks \X (0..MaxDay) -> Nat]
  BY JobsNext, Numbers DEF Bills, Jobs, WriteTypeOK
<1>d. ASSUME utcDay' = utcDay, stops' \in {stops, stops + 1},
             \A d \in 0..MaxDay : d # utcDay => charged'[<<desk, d>>] = charged[<<desk, d>>]
      PROVE  \A d \in 0..MaxDay : /\ d < utcDay' => DayBill(desk, d)'
                                  /\ d > utcDay' => charged'[<<desk, d>>] = 0
  <2> SUFFICES ASSUME NEW d \in 0..MaxDay
               PROVE  (d < utcDay' => DayBill(desk, d)') /\ (d > utcDay' => charged'[<<desk, d>>] = 0)
    OBVIOUS
  <2>1. ASSUME d < utcDay PROVE DayBill(desk, d)'
    <3>1. DayBill(desk, d)
      BY <1>0, <2>1
    <3>2. d # utcDay
      BY <1>0, <2>1
    <3> QED BY <1>d, <3>1, <3>2, DayBillKept
  <2> QED BY <1>0, <1>d, <2>1
<1>1. ASSUME NEW w \in Writers, WriterNext(w)
      PROVE  /\ Booked(desk)' /\ Capped(desk)'
             /\ \A d \in 0..MaxDay : /\ d < utcDay' => DayBill(desk, d)'
                                     /\ d > utcDay' => charged'[<<desk, d>>] = 0
  <2>1. PICK r : Move(w, r)
    BY <1>1, WriterMoves
  <2>2. stops' \in {stops, stops + 1} /\ utcDay' = utcDay
    BY <2>1 DEF Move, QuietMove, CheckMove, ChargeMove, SettleMove, StopMove
  <2>3. charged' = charged \/ charged' = [charged EXCEPT ![<<Desk(Piece(w)), utcDay>>] = @ + 1]
    BY <2>1 DEF Move, QuietMove, CheckMove, ChargeMove, SettleMove, StopMove, Charge
  <2>4. \A d \in 0..MaxDay : d # utcDay => charged'[<<desk, d>>] = charged[<<desk, d>>]
    <3> SUFFICES ASSUME NEW d \in 0..MaxDay, d # utcDay PROVE charged'[<<desk, d>>] = charged[<<desk, d>>]
      OBVIOUS
    <3>1. <<desk, d>> # <<Desk(Piece(w)), utcDay>> /\ <<desk, d>> \in Desks \X (0..MaxDay)
      OBVIOUS
    <3> QED BY <1>0, <2>3, <3>1
  <2> QED BY <1>0, <1>d, <2>1, <2>2, <2>4, BillMove
<1>2. ASSUME UNCHANGED <<writer, charged, utcDay>>, stops' \in {stops, stops + 1},
             spend'[<<desk, utcDay>>] >= spend[<<desk, utcDay>>]
      PROVE  /\ Booked(desk)' /\ Capped(desk)'
             /\ \A d \in 0..MaxDay : /\ d < utcDay' => DayBill(desk, d)'
                                     /\ d > utcDay' => charged'[<<desk, d>>] = 0
  <2>1. stops' >= stops
    <3>1. stops \in Nat
      BY Numbers DEF Jobs, WriteTypeOK
    <3> QED BY <1>2, <3>1
  <2> QED BY <1>0, <1>2, <1>d, <2>1, BillOthers
<1>s. <<desk, utcDay>> \in Desks \X (BriefDays \cup 0..MaxDay) /\ spend[<<desk, utcDay>>] \in Nat
  BY <1>0
<1>3. CASE NextDay
  <2>1. utcDay' = utcDay + 1 /\ UNCHANGED <<charged, stops>> /\ utcDay < MaxDay /\ utcDay + 1 \in 0..MaxDay
    BY <1>0, <1>3 DEF NextDay
  <2>2. charged[<<desk, utcDay + 1>>] = 0
    BY <1>0, <2>1
  <2>3. DayBill(desk, utcDay)
    BY <1>0, TodaysBill
  <2>4. ASSUME NEW d \in 0..MaxDay
        PROVE  (d < utcDay' => DayBill(desk, d)') /\ (d > utcDay' => charged'[<<desk, d>>] = 0)
    <3>1. ASSUME d < utcDay' PROVE DayBill(desk, d)'
      <4>1. d < utcDay \/ d = utcDay
        BY <1>0, <2>1, <3>1
      <4>2. CASE d = utcDay
        BY <2>1, <2>3, <4>2, DayBillKept
      <4>3. CASE d < utcDay
        <5>1. DayBill(desk, d)
          BY <1>0, <4>3
        <5> QED BY <2>1, <5>1, DayBillKept
      <4> QED BY <4>1, <4>2, <4>3
    <3> QED BY <1>0, <2>1, <3>1
  <2> QED BY <1>0, <1>3, <2>2, <2>4, BillMidnight
<1>4. ASSUME NEW b \in Fillers, FillerNext(b)
      PROVE  UNCHANGED <<writer, charged, utcDay>> /\ stops' \in {stops, stops + 1}
             /\ spend'[<<desk, utcDay>>] >= spend[<<desk, utcDay>>]
  <2>1. UNCHANGED <<writer, charged, utcDay>> /\ stops' \in {stops, stops + 1}
    BY <1>4 DEF FillerNext, StartBackfill, ReadPending, Translate, RecordUntranslated, SetTranslation, StopFiller
  <2>2. spend' = spend \/ spend' = [spend EXCEPT ![<<Desk(Filling(b)), filler[b].day>>] = @ + 1]
    BY <1>4 DEF FillerNext, StartBackfill, ReadPending, Translate, RecordUntranslated, SetTranslation, StopFiller, AddUsage
  <2>3. spend'[<<desk, utcDay>>] \in {spend[<<desk, utcDay>>], spend[<<desk, utcDay>>] + 1}
    BY <1>0, <1>s, <2>2
  <2> QED BY <1>s, <2>1, <2>3
<1>5. ASSUME NEW t \in ToSet(Tickers), NewMaterial(t)
      PROVE  UNCHANGED <<writer, charged, utcDay, spend, stops>>
  BY <1>5 DEF NewMaterial
<1>6. CASE UNCHANGED writeVars
  BY <1>2, <1>6, <1>s DEF writeVars
<1> QED BY <1>1, <1>2, <1>3, <1>4, <1>5, <1>6, <1>s DEF WriteNext

LEMMA BillsBound ==
  ASSUME Jobs, Bills
  PROVE  DayBillBounded
<1> SUFFICES ASSUME NEW desk \in Desks, NEW d \in 0..MaxDay PROVE DayBill(desk, d)
  BY DEF DayBillBounded, DayBill
<1>0. utcDay \in 0..MaxDay /\ MaxDay \in Nat /\ stops \in Nat /\ Budget \in Nat \ {0} /\ Cardinality(Writers) \in Nat
  BY UnitSets, Numbers DEF Jobs, WriteTypeOK
<1>1. CASE d < utcDay
  BY <1>1 DEF Bills
<1>2. CASE d = utcDay
  BY <1>2, TodaysBill DEF Bills
<1>3. CASE d > utcDay
  <2>1. charged[<<desk, d>>] = 0
    BY <1>3 DEF Bills
  <2>2. 2 * Cardinality(Writers) * (IF d > 0 THEN 2 ELSE 1) \in Nat
    BY <1>0
  <2>3. 0 <= Budget - 1 + 2 * Cardinality(Writers) * (IF d > 0 THEN 2 ELSE 1) + 2 * stops
    BY <1>0, <2>2
  <2> QED BY <2>1, <2>3 DEF DayBill
<1> QED BY <1>0, <1>1, <1>2, <1>3

\* A day costs its cap, and beyond it only what was under way when the cap was reached and what stops kept
\* off the counter: for the tagger, and for the writers of each desk on each day, however many past days
\* and weeks they are asked for.
THEOREM CapsAreHeld == SpendSpec => []CapsHeld
<1> DEFINE Inv == Passes /\ CapRoom /\ Jobs /\ Bills
<1>1. TagInit /\ WriteInit => Inv
  BY PassesInit, CapInit, JobsInit, BillsInit
<1>2. Inv /\ [TagNext]_tagVars /\ [WriteNext]_writeVars => Inv'
  BY PassesNext, CapStep, JobsNext, BillsNext
<1>3. Inv => CapsHeld
  BY RoomIsCap, BillsBound DEF CapsHeld
<1> QED BY <1>1, <1>2, <1>3, PTL DEF SpendSpec, TagSpec, WriteSpec

=============================================================================
