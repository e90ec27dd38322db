------------------------------- MODULE Alerts -------------------------------
(***************************************************************************)
(* Alert rules, their evaluation and the delivery queue                    *)
(* (services/alerts.py, store/alerts.py, store/push.py).                   *)
(*                                                                         *)
(* Evaluation passes may overlap: two scheduler jobs and the command line  *)
(* start them, and each record_event commits on its own.  Delivery is one  *)
(* job; it lists a batch, looks each event's recipients up, sends, and     *)
(* stamps the whole batch at the end.  Customers edit rules and devices    *)
(* between any two of those steps.                                         *)
(*                                                                         *)
(* An Item is what a dedupe key names: a filing, a news item, or a ticker's*)
(* move in one trading session.  Watches holds the pairs a rule's ticker,  *)
(* threshold, relevance floor and document types let through.              *)
(***************************************************************************)
EXTENDS Integers, FiniteSets, Sequences

CONSTANTS
    Rules, Users, Devices, Items,
    Members,      \* Members[r]: the users of the account that owns rule r
    Kind,         \* what a rule watches, and what an item is: "price", "filing" or "news"
    Watches,      \* set of <<rule, item>>
    Passes,       \* evaluation passes that may run at the same time
    Configured,   \* the channel configurations: sets of subsets of {"push", "mail"}
    Nobody, NoItem,
    Batch,        \* alerts_delivery_batch
    MaxFaults, MaxAborts   \* bounds on faults and revoked endpoints, and on stopped delivery passes

ASSUME RuleAssumption ==
    /\ Members \in [Rules -> SUBSET Users]
    /\ Kind \in [Rules \cup Items -> {"price", "filing", "news"}]
    /\ Watches \subseteq {e \in Rules \X Items : Kind[e[1]] = Kind[e[2]]}
ASSUME NobodyAssumption == Nobody \notin Users /\ NoItem \notin Items
ASSUME QueueAssumption ==
    /\ Configured \subseteq SUBSET {"push", "mail"}
    /\ Batch \in Nat \ {0} /\ MaxFaults \in Nat /\ MaxAborts \in Nat

VARIABLES
    ruleState,  \* "none", "enabled", "disabled" or "deleted"
    old,        \* old[r]: items fetched before rule r was created
    fetched, tagged, snap,      \* filings and news in the database; news with a relevance; the latest price move
    events,     \* alert_events in insertion order: [rule, item, state]
    evPc, evRules, evTodo,      \* locals of each evaluation pass
    channels, down,             \* settings; external: the providers that are failing
    owner, gone,                \* push_subscriptions: user of each device; external: revoked endpoints
    dvPc, dvTodo, dvTargets, dvVerdict,   \* locals of the delivery pass
    reached, resent, faults, aborts      \* history: notifications that arrived, and arrived again

ruleVars == <<ruleState, old>>
itemVars == <<fetched, tagged, snap>>
evalVars == <<evPc, evRules, evTodo>>
deviceVars == <<owner, gone>>
deliverVars == <<dvPc, dvTodo, dvTargets, dvVerdict>>
historyVars == <<reached, resent, faults, aborts>>
vars == <<ruleVars, itemVars, events, evalVars, channels, down, deviceVars, deliverVars, historyVars>>

Pair == Rules \X Items
Moves == {i \in Items : Kind[i] = "price"}
Queue == {"queued", "failed"}      \* delivered_utc IS NULL
Settled == {"ok", "skipped", "permanent"}

Kinds == {"price", "filing", "news"}
Event == [rule : Rules, item : Items, state : Queue \cup Settled]

TablesTyped ==
    /\ ruleState \in [Rules -> {"none", "enabled", "disabled", "deleted"}]
    /\ old \in [Rules -> SUBSET Items]
    /\ fetched \subseteq Items /\ tagged \subseteq fetched /\ snap \in Items \cup {NoItem}
    /\ channels \in Configured /\ down \subseteq {"push", "mail"}
    /\ owner \in [Devices -> Users \cup {Nobody}] /\ gone \subseteq Devices

PassesTyped ==
    /\ evPc \in [Passes -> {"idle", "rules"} \cup Kinds]
    /\ evRules \in [Passes -> SUBSET Rules] /\ evTodo \in [Passes -> SUBSET Pair]

DeliveryTyped ==
    /\ dvPc \in {"idle", "look", "send", "mark"}
    /\ dvTodo \in Seq(Pair) /\ dvTargets \subseteq Users \X (Devices \cup {"mail"})
    /\ (dvPc \in {"look", "send"} => dvTodo # << >>) /\ (dvTargets # {} => dvPc = "send")
    /\ dvVerdict \in [Pair -> Settled \cup {"failed", "none"}]

HistoryTyped ==
    /\ reached \subseteq Pair \X Users
    /\ resent \in Nat /\ faults \in 0..MaxFaults /\ aborts \in 0..MaxAborts

TypeOK == TablesTyped /\ events \in Seq(Event) /\ PassesTyped /\ DeliveryTyped /\ HistoryTyped

NoVerdict == [e \in Pair |-> "none"]

Init ==
    /\ ruleState = [r \in Rules |-> "none"] /\ old = [r \in Rules |-> {}]
    /\ fetched = {} /\ tagged = {} /\ snap = NoItem
    /\ events = << >>
    /\ evPc = [p \in Passes |-> "idle"]
    /\ evRules = [p \in Passes |-> {}] /\ evTodo = [p \in Passes |-> {}]
    /\ channels \in Configured /\ down = {}
    /\ owner = [d \in Devices |-> Nobody] /\ gone = {}
    /\ dvPc = "idle" /\ dvTodo = << >> /\ dvTargets = {} /\ dvVerdict = NoVerdict
    /\ reached = {} /\ resent = 0 /\ faults = 0 /\ aborts = 0

Key(i) == <<events[i].rule, events[i].item>>
Keys == {Key(i) : i \in DOMAIN events}

\* The rows of a query, by id: the positions in I, the smallest first.
InOrder(I) == [k \in 1..Cardinality(I) |-> CHOOSE i \in I : Cardinality({j \in I : j < i}) = k - 1]

(***************************************************************************)
(* Customers: rules and devices.                                           *)
(***************************************************************************)
CreateRule(r) ==
    /\ ruleState[r] = "none"
    /\ ruleState' = [ruleState EXCEPT ![r] = "enabled"]
    /\ old' = [old EXCEPT ![r] = fetched]
    /\ UNCHANGED <<itemVars, events, evalVars, channels, down, deviceVars, deliverVars, historyVars>>

SetEnabled(r) ==
    /\ ruleState[r] \in {"enabled", "disabled"}
    /\ ruleState' = [ruleState EXCEPT ![r] = IF @ = "enabled" THEN "disabled" ELSE "enabled"]
    /\ UNCHANGED <<old, itemVars, events, evalVars, channels, down, deviceVars, deliverVars, historyVars>>

\* ON DELETE CASCADE takes the rule's events with it.
DeleteRule(r) ==
    /\ ruleState[r] \in {"enabled", "disabled"}
    /\ ruleState' = [ruleState EXCEPT ![r] = "deleted"]
    /\ LET kept == InOrder({i \in DOMAIN events : events[i].rule # r})
       IN events' = [k \in DOMAIN kept |-> events[kept[k]]]
    /\ UNCHANGED <<old, itemVars, evalVars, channels, down, deviceVars, deliverVars, historyVars>>

\* upsert: one row per endpoint, which moves to whoever subscribes it.
Subscribe(u, d) ==
    /\ "push" \in channels /\ d \notin gone
    /\ owner' = [owner EXCEPT ![d] = u]
    /\ UNCHANGED <<ruleVars, itemVars, events, evalVars, channels, down, gone, deliverVars, historyVars>>

Unsubscribe(u, d) ==
    /\ owner[d] = u
    /\ owner' = [owner EXCEPT ![d] = Nobody]
    /\ UNCHANGED <<ruleVars, itemVars, events, evalVars, channels, down, gone, deliverVars, historyVars>>

(***************************************************************************)
(* External: the pollers and the tagger fill the tables the evaluators     *)
(* read; a browser revokes an endpoint; a provider fails for a while.      *)
(***************************************************************************)
Fetch(i) ==
    /\ Kind[i] # "price" /\ i \notin fetched
    /\ fetched' = fetched \cup {i}
    /\ UNCHANGED <<ruleVars, tagged, snap, events, evalVars, channels, down, deviceVars, deliverVars, historyVars>>

Tag(i) ==
    /\ Kind[i] = "news" /\ i \in fetched \ tagged
    /\ tagged' = tagged \cup {i}
    /\ UNCHANGED <<ruleVars, fetched, snap, events, evalVars, channels, down, deviceVars, deliverVars, historyVars>>

Capture(i) ==
    /\ snap' = i
    /\ UNCHANGED <<ruleVars, fetched, tagged, events, evalVars, channels, down, deviceVars, deliverVars, historyVars>>

Revoke(d) ==
    /\ faults < MaxFaults /\ owner[d] # Nobody /\ d \notin gone
    /\ gone' = gone \cup {d}
    /\ faults' = faults + 1
    /\ UNCHANGED <<ruleVars, itemVars, events, evalVars, channels, down, owner, deliverVars, reached, resent, aborts>>

GoDown(c) ==
    /\ faults < MaxFaults /\ c \in channels \ down
    /\ down' = down \cup {c}
    /\ faults' = faults + 1
    /\ UNCHANGED <<ruleVars, itemVars, events, evalVars, channels, deviceVars, deliverVars, reached, resent, aborts>>

ComeBack(c) ==
    /\ c \in down
    /\ down' = down \ {c}
    /\ UNCHANGED <<ruleVars, itemVars, events, evalVars, channels, deviceVars, deliverVars, historyVars>>

(***************************************************************************)
(* Evaluation: one pass reads the enabled rules once, then for each kind   *)
(* reads its rows and records the events the rules match.  Pairs of one    *)
(* kind are recorded in any order.                                         *)
(***************************************************************************)
ActiveRules == {r \in Rules : ruleState[r] = "enabled"}

Visible(k) ==
    CASE k = "price"  -> {snap} \ {NoItem}
      [] k = "filing" -> {i \in fetched : Kind[i] = "filing"}
      [] k = "news"   -> tagged

\* A filing or news item older than the rule never fires, tagged late or not;
\* a price move that is still the latest snapshot does.
Eligible(r, i) == Kind[i] = "price" \/ i \notin old[r]

Matching(rs, k) ==
    {e \in Watches : e[1] \in rs /\ e[2] \in Visible(k) /\ Eligible(e[1], e[2])}

\* The order the kinds are evaluated in, after the rules are read.
Rank == [rules |-> 0, price |-> 1, filing |-> 2, news |-> 3]

\* Mutant of KindsLeft: the pass is over after the first kind it has rules for.
KindsLeftOne(p) == {k \in Kinds : evPc[p] = "rules" /\ \E r \in evRules[p] : Kind[r] = k}

\* The kinds still to be evaluated that some rule of this pass has.
KindsLeft(p) == {k \in Kinds : Rank[k] > Rank[evPc[p]] /\ \E r \in evRules[p] : Kind[r] = k}

EvalStart(p) ==
    /\ evPc[p] = "idle" /\ ActiveRules # {}
    /\ evPc' = [evPc EXCEPT ![p] = "rules"]
    /\ evRules' = [evRules EXCEPT ![p] = ActiveRules]
    /\ UNCHANGED <<ruleVars, itemVars, events, evTodo, channels, down, deviceVars, deliverVars, historyVars>>

EvalEnd(p) ==
    /\ evPc' = [evPc EXCEPT ![p] = "idle"]
    /\ evRules' = [evRules EXCEPT ![p] = {}]
    /\ evTodo' = [evTodo EXCEPT ![p] = {}]

\* The rows of the next kind are read when the last pair of this one is done.
EvalRead(p) ==
    /\ evPc[p] # "idle" /\ evTodo[p] = {}
    /\ \/ KindsLeft(p) = {} /\ EvalEnd(p)
       \/ \E k \in KindsLeft(p) :
            /\ \A h \in KindsLeft(p) : Rank[k] =< Rank[h]
            /\ evPc' = [evPc EXCEPT ![p] = k]
            /\ evTodo' = [evTodo EXCEPT ![p] = Matching(evRules[p], k)]
            /\ UNCHANGED evRules
    /\ UNCHANGED <<ruleVars, itemVars, events, channels, down, deviceVars, deliverVars, historyVars>>

\* Mutant of RecordEvent: no ON CONFLICT.
RecordEventAlways(e) == events' = Append(events, [rule |-> e[1], item |-> e[2], state |-> "queued"])

\* INSERT ... ON CONFLICT(rule_id, dedupe_key) DO NOTHING
RecordEvent(e) ==
    events' = IF e \in Keys THEN events
              ELSE Append(events, [rule |-> e[1], item |-> e[2], state |-> "queued"])

\* A rule deleted since the pass read it fails the foreign key, and the
\* exception ends the pass.
EvalRecord(p) ==
    /\ \E e \in evTodo[p] :
          \/ /\ ruleState[e[1]] = "deleted"
             /\ EvalEnd(p)
             /\ UNCHANGED events
          \/ /\ ruleState[e[1]] # "deleted"
             /\ RecordEvent(e)
             /\ evTodo' = [evTodo EXCEPT ![p] = @ \ {e}]
             /\ UNCHANGED <<evPc, evRules>>
    /\ UNCHANGED <<ruleVars, itemVars, channels, down, deviceVars, deliverVars, historyVars>>

(***************************************************************************)
(* Delivery.                                                               *)
(***************************************************************************)
Waiting == {i \in DOMAIN events : events[i].state \in Queue}
FirstBatch == LET rows == InOrder(Waiting) IN [k \in DOMAIN rows \cap (1..Batch) |-> Key(rows[k])]

Stamp(keys, s) ==
    events' = [i \in DOMAIN events |->
                 IF Key(i) \in keys THEN [events[i] EXCEPT !.state = s] ELSE events[i]]

\* With no channel configured the batch is skipped on the spot.
DeliverStart ==
    /\ dvPc = "idle" /\ Waiting # {}
    /\ IF channels = {}
         THEN Stamp({FirstBatch[k] : k \in DOMAIN FirstBatch}, "skipped") /\ UNCHANGED deliverVars
         ELSE /\ dvTodo' = FirstBatch
              /\ dvPc' = "look"
              /\ UNCHANGED <<events, dvTargets, dvVerdict>>
    /\ UNCHANGED <<ruleVars, itemVars, evalVars, channels, down, deviceVars, historyVars>>

\* Every device of a member, or the member's mailbox when there is none.
TargetsOf(r) ==
    LET devices(u) == IF "push" \in channels THEN {d \in Devices : owner[d] = u} ELSE {}
    IN UNION {IF devices(u) # {} THEN {u} \X devices(u)
              ELSE IF "mail" \in channels THEN {<<u, "mail">>} ELSE {} : u \in Members[r]}

AfterOne == IF Tail(dvTodo) = << >> THEN "mark" ELSE "look"

DeliverLook ==
    LET e == Head(dvTodo)
        targets == IF ruleState[e[1]] = "deleted" THEN {} ELSE TargetsOf(e[1])
    IN /\ dvPc = "look"
       /\ IF targets = {}
            THEN /\ dvVerdict' = [dvVerdict EXCEPT ![e] = "skipped"]
                 /\ dvTodo' = Tail(dvTodo)
                 /\ dvPc' = AfterOne
                 /\ UNCHANGED dvTargets
            ELSE /\ dvTargets' = targets
                 /\ dvPc' = "send"
                 /\ UNCHANGED <<dvTodo, dvVerdict>>
       /\ UNCHANGED <<ruleVars, itemVars, events, evalVars, channels, down, deviceVars, historyVars>>

\* What a push service or the mailer may answer.
Answers(t) ==
    CASE t[2] \in gone -> {"permanent"}
      [] t[2] \notin gone /\ (IF t[2] = "mail" THEN "mail" ELSE "push") \in down -> {"transient"}
      [] OTHER -> {"ok", "permanent"}

\* Mutant of Verdict: one failed device keeps the event in the queue.
VerdictAll(answers) ==
    IF answers = {"ok"} THEN "ok" ELSE IF "transient" \in answers THEN "failed" ELSE "permanent"

\* Mutant of Verdict: a refusal for good is retried like an outage.
VerdictRetries(answers) == IF "ok" \in answers THEN "ok" ELSE "failed"

Verdict(answers) ==
    IF "ok" \in answers THEN "ok" ELSE IF answers = {"permanent"} THEN "permanent" ELSE "failed"

Arrives(now) ==
    /\ reached' = reached \cup now
    /\ resent' = IF now \cap reached = {} THEN resent ELSE resent + 1

\* The sends of one event and the device rows they touch, in one commit.  A
\* dead endpoint's row is deleted; an event that only met outages ends the pass.
DeliverSend ==
    LET e == Head(dvTodo)
    IN /\ dvPc = "send"
       /\ \E answer \in [dvTargets -> {"ok", "transient", "permanent"}] :
             /\ \A t \in dvTargets : answer[t] \in Answers(t)
             /\ LET verdict == Verdict({answer[t] : t \in dvTargets})
                    now == {<<e, t[1]>> : t \in {x \in dvTargets : answer[x] = "ok"}}
                IN /\ dvVerdict' = [dvVerdict EXCEPT ![e] = verdict]
                   /\ dvTodo' = IF verdict = "failed" THEN << >> ELSE Tail(dvTodo)
                   /\ dvPc' = IF verdict = "failed" THEN "mark" ELSE AfterOne
                   /\ Arrives(now)
       /\ owner' = [d \in Devices |->
                      IF d \in gone /\ \E t \in dvTargets : t[2] = d THEN Nobody ELSE owner[d]]
       /\ dvTargets' = {}
       /\ UNCHANGED <<ruleVars, itemVars, events, evalVars, channels, down, gone, faults, aborts>>

\* mark_delivered commits once per outcome, in this order.
Outcomes == <<"ok", "skipped", "permanent", "failed">>

With(s) == {e \in Pair : dvVerdict[e] = s}

DeliverMark ==
    /\ dvPc = "mark"
    /\ \E i \in DOMAIN Outcomes :
          /\ With(Outcomes[i]) # {} /\ \A j \in 1..(i - 1) : With(Outcomes[j]) = {}
          /\ Stamp(With(Outcomes[i]), Outcomes[i])
          /\ dvVerdict' = [e \in Pair |-> IF e \in With(Outcomes[i]) THEN "none" ELSE dvVerdict[e]]
          /\ dvPc' = IF dvVerdict' = NoVerdict THEN "idle" ELSE "mark"
    /\ UNCHANGED <<ruleVars, itemVars, evalVars, channels, down, deviceVars, dvTodo, dvTargets, historyVars>>

\* The process stops, or a send or a statement raises: nothing more is stamped,
\* although some recipients of the event in hand may have it already.
DeliverAbort ==
    /\ aborts < MaxAborts
    /\ dvPc # "idle"
    /\ \E some \in SUBSET {t \in dvTargets : "ok" \in Answers(t)} :
          Arrives({<<Head(dvTodo), t[1]>> : t \in some})
    /\ dvPc' = "idle" /\ dvTodo' = << >> /\ dvTargets' = {} /\ dvVerdict' = NoVerdict
    /\ aborts' = aborts + 1
    /\ UNCHANGED <<ruleVars, itemVars, events, evalVars, channels, down, deviceVars, faults>>

(***************************************************************************)
(* The specification.                                                      *)
(***************************************************************************)
Customer ==
    \/ \E r \in Rules : CreateRule(r) \/ SetEnabled(r) \/ DeleteRule(r)
    \/ \E u \in Users, d \in Devices : Subscribe(u, d) \/ Unsubscribe(u, d)

World ==
    \/ \E i \in Items : Fetch(i) \/ Tag(i)
    \/ \E i \in Moves \cup {NoItem} : Capture(i)
    \/ \E d \in Devices : Revoke(d)
    \/ \E c \in {"push", "mail"} : GoDown(c) \/ ComeBack(c)

Evaluate(p) == EvalStart(p) \/ EvalRead(p) \/ EvalRecord(p)
Deliver == DeliverStart \/ DeliverLook \/ DeliverSend \/ DeliverMark

Next ==
    \/ Customer \/ World
    \/ \E p \in Passes : Evaluate(p)
    \/ Deliver \/ DeliverAbort

Spec == Init /\ [][Next]_vars

\* The scheduler starts both jobs for ever and a pass that started goes on.
Scheduled == Spec /\ (\A p \in Passes : WF_vars(Evaluate(p))) /\ WF_vars(Deliver)

\* Providers that fail come back.
FairSpec == Scheduled /\ \A c \in {"push", "mail"} : WF_vars(ComeBack(c))

(***************************************************************************)
(* Properties.                                                             *)
(***************************************************************************)

\* "a rule that keeps matching only produces one row per underlying event",
\* whichever passes overlap and however long ago the event was delivered.
OneEventPerMatch ==
    \A i, j \in DOMAIN events :
        events[i].rule = events[j].rule /\ events[i].item = events[j].item => i = j

\* "the worker only marks a row delivered after a push service or the mailer
\* accepted at least one send", and an event reaches a person again only when
\* a pass stopped between the send and the stamp: partial failures and outages
\* never resend what arrived.
ReachedOnce ==
    /\ resent =< aborts * Batch
    /\ \A i \in DOMAIN events :
          events[i].state = "ok" =>
              \E u \in Members[events[i].rule] : <<Key(i), u>> \in reached

\* A filing, or a news item tagged however late, that is newer than a rule
\* watching it eventually fires, unless the rule is switched off or deleted,
\* although passes fail on rules deleted under them.
EveryMatchFires ==
    \A e \in Watches :
        (ruleState[e[1]] = "enabled" /\ e[2] \notin old[e[1]]
            /\ e[2] \in Visible("filing") \cup Visible("news"))
          ~> (e \in Keys \/ ruleState[e[1]] # "enabled")

Queued(e) == \E i \in Waiting : Key(i) = e

\* "An outage does not lose events": a queued event eventually leaves the
\* queue, delivered, refused for good, without recipients or with its rule.
EventsSettle == \A e \in Watches : Queued(e) ~> ~Queued(e)

=============================================================================
