---------------------------- MODULE AlertsProofs ----------------------------
(***************************************************************************)
(* Theorems about Alerts, for every set of rules, items, users, devices,   *)
(* evaluation passes and channel configurations, every batch size, and any *)
(* number of faults and of stopped passes.                                 *)
(***************************************************************************)
EXTENDS Alerts, FiniteSetTheorems, SequenceTheorems, WellFoundedInduction, TLAPS

(***************************************************************************)
(* Rows in the order of their ids: InOrder lists a finite set of positions *)
(* without leaving one out or repeating one.                               *)
(***************************************************************************)
\* A set of natural numbers that is not empty has a least element.
LEMMA LeastExists ==
  ASSUME NEW S \in SUBSET Nat, S # {}
  PROVE  \E m \in S : \A n \in S : m =< n
<1>1. IsWellFoundedOn(OpToRel(<, Nat), Nat)
  BY NatLessThanWellFounded
<1>2. PICK m \in S : \A n \in S : <<n, m>> \notin OpToRel(<, Nat)
  BY <1>1, WFMin, Zenon
<1>3. \A n \in S : ~(n < m)
  BY <1>2 DEF OpToRel
<1> QED BY <1>3

\* Some position has exactly k - 1 smaller ones, for every k up to their number.
LEMMA NthExists ==
  ASSUME NEW I \in SUBSET Nat, IsFiniteSet(I), NEW k \in 1..Cardinality(I)
  PROVE  \E i \in I : Cardinality({j \in I : j < i}) = k - 1
<1> DEFINE Below(i) == {j \in I : j < i}
           Bad == {n \in 1..Cardinality(I) : ~\E i \in I : Cardinality(Below(i)) = n - 1}
<1>1. Cardinality(I) \in Nat
  BY FS_CardinalityType
<1>2. ASSUME Bad # {}
      PROVE  FALSE
  <2>1. PICK b \in Bad : \A n \in Bad : b =< n
    <3>1. Bad \in SUBSET Nat
      BY <1>1
    <3> HIDE DEF Bad
    <3> QED BY <1>2, <3>1, LeastExists
  <2>2. b \in 1..Cardinality(I) /\ b \in Nat /\ ~\E i \in I : Cardinality(Below(i)) = b - 1
    BY <1>1
  <2>3. CASE b = 1
    <3>1. I # {}
      BY <1>1, <2>2, FS_EmptySet
    <3>2. PICK m \in I : \A n \in I : m =< n
      BY <3>1, LeastExists
    <3>3. Below(m) = {}
      <4>1. \A j \in I : ~(j < m)
        BY <3>2
      <4> QED BY <4>1
    <3>4. Cardinality(Below(m)) = b - 1
      BY <2>3, <3>3, FS_EmptySet
    <3> QED BY <2>2, <3>4
  <2>4. CASE b # 1
    <3>1. b - 1 \in 1..Cardinality(I) /\ ~(b =< b - 1)
      BY <1>1, <2>2, <2>4
    <3>2. b - 1 \notin Bad
      BY <2>1, <3>1
    <3>3. PICK i \in I : Cardinality(Below(i)) = b - 1 - 1
      BY <3>1, <3>2
    <3>4. IsFiniteSet(Below(i)) /\ i \notin Below(i)
      BY FS_Subset
    <3>5. Cardinality(Below(i) \cup {i}) = b - 1
      <4>1. Cardinality(Below(i) \cup {i}) = Cardinality(Below(i)) + 1
        <5> HIDE DEF Below
        <5> QED BY <3>4, FS_AddElement
      <4> QED BY <2>2, <3>3, <4>1
    <3> DEFINE After == {j \in I : i < j}
    <3>6. After # {}
      <4>1. SUFFICES ASSUME After = {}
                     PROVE  FALSE
        OBVIOUS
      <4>2. \A j \in I : ~(i < j)
        BY <4>1
      <4>3. \A j \in I : j < i \/ j = i
        BY <4>2
      <4>4. I = Below(i) \cup {i}
        BY <4>3
      <4>5. Cardinality(I) = b - 1
        BY <3>5, <4>4
      <4> QED BY <1>1, <2>2, <4>5
    <3>7. PICK m \in After : \A n \in After : m =< n
      BY <3>6, LeastExists
    <3>8. Below(m) = Below(i) \cup {i}
      <4>1. \A j \in I : i < j => m =< j
        BY <3>7
      <4>2. m \in I /\ i < m
        BY <3>7
      <4>3. \A j \in I : j < m <=> j < i \/ j = i
        BY <4>1, <4>2
      <4> QED BY <4>3
    <3>9. Cardinality(Below(m)) = b - 1
      BY <3>5, <3>8
    <3> QED BY <2>2, <3>7, <3>9
  <2> QED BY <2>3, <2>4
<1> QED BY <1>2

\* Each position of I has its own place in InOrder(I).
LEMMA InOrderOnce ==
  ASSUME NEW I \in SUBSET Nat, IsFiniteSet(I)
  PROVE  /\ Cardinality(I) \in Nat
         /\ InOrder(I) \in [1..Cardinality(I) -> I]
         /\ \A k, l \in 1..Cardinality(I) : InOrder(I)[k] = InOrder(I)[l] => k = l
         /\ \A i \in I : \E k \in 1..Cardinality(I) : InOrder(I)[k] = i
<1>1. Cardinality(I) \in Nat
  BY FS_CardinalityType
<1>2. ASSUME NEW k \in 1..Cardinality(I)
      PROVE  InOrder(I)[k] \in I /\ Cardinality({j \in I : j < InOrder(I)[k]}) = k - 1
  <2>1. \E i \in I : Cardinality({j \in I : j < i}) = k - 1
    BY NthExists
  <2>2. InOrder(I)[k] = CHOOSE i \in I : Cardinality({j \in I : j < i}) = k - 1
    BY DEF InOrder
  <2> QED BY <2>1, <2>2
<1>3. InOrder(I) \in [1..Cardinality(I) -> I]
  BY <1>2 DEF InOrder
<1>4. ASSUME NEW k \in 1..Cardinality(I), NEW l \in 1..Cardinality(I), InOrder(I)[k] = InOrder(I)[l]
      PROVE  k = l
  <2>1. k - 1 = l - 1
    BY <1>2, <1>4
  <2> QED BY <1>1, <2>1
<1>5. InOrder(I) \in Injection(1..Cardinality(I), I)
  BY <1>3, <1>4 DEF Injection, IsInjective
<1>6. IsFiniteSet(1..Cardinality(I)) /\ Cardinality(1..Cardinality(I)) = Cardinality(I)
  BY <1>1, FS_Interval
<1>7. InOrder(I) \in Surjection(1..Cardinality(I), I)
  BY <1>5, <1>6, FS_Injection
<1>8. \A i \in I : \E k \in 1..Cardinality(I) : InOrder(I)[k] = i
  BY <1>7 DEF Surjection
<1> QED BY <1>1, <1>3, <1>4, <1>8

\* The positions of the queue's table that a query keeps.
LEMMA PositionsAreFinite ==
  ASSUME events \in Seq(Event), NEW I \in SUBSET DOMAIN events
  PROVE  I \in SUBSET Nat /\ IsFiniteSet(I)
<1>1. Len(events) \in Nat /\ DOMAIN events = 1..Len(events)
  OBVIOUS
<1>2. IsFiniteSet(1..Len(events))
  BY <1>1, FS_Interval
<1> QED BY <1>1, <1>2, FS_Subset

LEMMA BoundsAreNumbers == Batch \in Nat \ {0} /\ MaxFaults \in Nat /\ MaxAborts \in Nat
  BY QueueAssumption

(***************************************************************************)
(* The three ways the table of events changes.                             *)
(***************************************************************************)
\* Stamping changes no key.
LEMMA StampKeeps ==
  ASSUME events \in Seq(Event), NEW keys, NEW s \in Queue \cup Settled, Stamp(keys, s)
  PROVE  /\ events' \in Seq(Event) /\ DOMAIN events' = DOMAIN events
         /\ \A i \in DOMAIN events : Key(i)' = Key(i)
         /\ \A i \in DOMAIN events : events'[i].state = IF Key(i) \in keys THEN s ELSE events[i].state
<1> DEFINE n == Len(events)
<1>1. n \in Nat /\ DOMAIN events = 1..n /\ \A i \in 1..n : events[i] \in Event
  OBVIOUS
<1>2. \A i \in 1..n : [events[i] EXCEPT !.state = s] \in Event
  BY <1>1 DEF Event
<1>3. events' \in [1..n -> Event] /\ DOMAIN events' = 1..n
  BY <1>1, <1>2 DEF Stamp
<1>4. events' \in Seq(Event)
  BY <1>1, <1>3, SeqDef
<1>5. ASSUME NEW i \in DOMAIN events
      PROVE  /\ Key(i)' = Key(i)
             /\ events'[i].state = IF Key(i) \in keys THEN s ELSE events[i].state
  BY <1>1, <1>5 DEF Stamp, Key, Event
<1> QED BY <1>1, <1>3, <1>4, <1>5

\* A deleted rule's rows go, each of the others is kept once.
LEMMA CascadeKeeps ==
  ASSUME events \in Seq(Event), NEW r \in Rules, DeleteRule(r)
  PROVE  /\ events' \in Seq(Event)
         /\ \E from \in [DOMAIN events' -> DOMAIN events] :
              /\ \A k \in DOMAIN events' : events[from[k]].rule # r /\ events'[k] = events[from[k]]
              /\ \A k, l \in DOMAIN events' : from[k] = from[l] => k = l
              /\ \A i \in DOMAIN events : events[i].rule # r => \E k \in DOMAIN events' : from[k] = i
<1> DEFINE I == {i \in DOMAIN events : events[i].rule # r}
           m == Cardinality(I)
           kept == InOrder(I)
<1>1. I \in SUBSET Nat /\ IsFiniteSet(I)
  BY PositionsAreFinite
<1>2. /\ m \in Nat /\ kept \in [1..m -> I]
      /\ \A k, l \in 1..m : kept[k] = kept[l] => k = l
      /\ \A i \in I : \E k \in 1..m : kept[k] = i
  <2> HIDE DEF I
  <2> QED BY <1>1, InOrderOnce
<1>3. events' = [k \in DOMAIN kept |-> events[kept[k]]]
  BY DEF DeleteRule
<1> HIDE DEF kept, m
<1>4. DOMAIN kept = 1..m /\ DOMAIN events' = 1..m /\ \A k \in 1..m : events'[k] = events[kept[k]]
  BY <1>2, <1>3
<1>5. \A i \in DOMAIN events : events[i] \in Event
  OBVIOUS
<1>6. events' \in [1..m -> Event]
  BY <1>2, <1>3, <1>4, <1>5
<1>7. events' \in Seq(Event)
  BY <1>2, <1>6, SeqDef
<1>8. kept \in [DOMAIN events' -> DOMAIN events]
  BY <1>2, <1>4
<1>9. \A k \in DOMAIN events' : events[kept[k]].rule # r /\ events'[k] = events[kept[k]]
  BY <1>2, <1>4
<1>10. \A k, l \in DOMAIN events' : kept[k] = kept[l] => k = l
  BY <1>2, <1>4
<1>11. \A i \in DOMAIN events : events[i].rule # r => \E k \in DOMAIN events' : kept[k] = i
  BY <1>2, <1>4
<1> QED BY <1>7, <1>8, <1>9, <1>10, <1>11, Zenon

\* record_event adds one row at the end, of a pair that had none.
LEMMA RecordKeeps ==
  ASSUME events \in Seq(Event), NEW e \in Pair, RecordEvent(e)
  PROVE  /\ events' \in Seq(Event)
         /\ \/ e \in Keys /\ events' = events
            \/ /\ e \notin Keys /\ \A i \in DOMAIN events : events'[i] = events[i]
               /\ \E last : /\ DOMAIN events' = DOMAIN events \cup {last} /\ last \notin DOMAIN events
                            /\ Key(last)' = e /\ events'[last].state = "queued"
<1> DEFINE row == [rule |-> e[1], item |-> e[2], state |-> "queued"]
<1>1. row \in Event /\ <<row.rule, row.item>> = e
  BY DEF Event, Pair, Queue
<1>2. CASE e \in Keys
  BY <1>2 DEF RecordEvent
<1>3. CASE e \notin Keys
  <2>1. events' = Append(events, row)
    BY <1>3 DEF RecordEvent
  <2> HIDE DEF row
  <2>2. /\ events' \in Seq(Event) /\ Len(events') = Len(events) + 1
        /\ \A i \in 1..Len(events) : events'[i] = events[i]
        /\ events'[Len(events) + 1] = row
    BY <1>1, <2>1
  <2>3. PICK last : last = Len(events) + 1
    OBVIOUS
  <2>4. DOMAIN events' = DOMAIN events \cup {last} /\ last \notin DOMAIN events
    BY <2>2, <2>3
  <2>5. Key(last)' = e /\ events'[last].state = "queued"
    <3>1. events'[last] = row
      BY <2>2, <2>3
    <3> QED BY <1>1, <3>1 DEF Key, row
  <2>6. \A i \in DOMAIN events : events'[i] = events[i]
    BY <2>2
  <2> QED BY <1>3, <2>2, <2>4, <2>5, <2>6
<1> QED BY <1>2, <1>3

\* A batch: the first rows waiting, each once.
LEMMA BatchIsOfKeys ==
  ASSUME events \in Seq(Event)
  PROVE  /\ FirstBatch \in Seq(Pair) /\ Len(FirstBatch) =< Batch
         /\ (Waiting # {} => FirstBatch # << >>)
         /\ \E at \in [DOMAIN FirstBatch -> Waiting] :
              /\ \A k \in DOMAIN FirstBatch : FirstBatch[k] = Key(at[k])
              /\ \A k, l \in DOMAIN FirstBatch : at[k] = at[l] => k = l
<1> DEFINE c == Cardinality(Waiting)
           n == IF c < Batch THEN c ELSE Batch
           rows == InOrder(Waiting)
<1>1. Waiting \in SUBSET DOMAIN events
  BY DEF Waiting
<1>2. Waiting \in SUBSET Nat /\ IsFiniteSet(Waiting)
  BY <1>1, PositionsAreFinite
<1>3. /\ c \in Nat /\ rows \in [1..c -> Waiting]
      /\ \A k, l \in 1..c : rows[k] = rows[l] => k = l
  BY <1>2, InOrderOnce
<1>4. Waiting # {} => c # 0
  BY <1>2, FS_EmptySet
<1> HIDE DEF c, rows
<1>5. n \in Nat /\ DOMAIN rows \cap (1..Batch) = 1..n /\ 1..n \subseteq 1..c /\ n =< Batch
  BY <1>3, BoundsAreNumbers
<1>6. FirstBatch = [k \in 1..n |-> Key(rows[k])]
  BY <1>5 DEF FirstBatch, rows
<1> HIDE DEF n
<1>7. \A i \in Waiting : Key(i) \in Pair
  <2>1. \A i \in DOMAIN events : events[i] \in Event
    OBVIOUS
  <2> QED BY <1>1, <2>1 DEF Key, Pair, Event
<1>8. FirstBatch \in [1..n -> Pair]
  BY <1>3, <1>5, <1>6, <1>7
<1>9. FirstBatch \in Seq(Pair)
  BY <1>5, <1>8, SeqDef
<1>10. DOMAIN FirstBatch = 1..n /\ Len(FirstBatch) = n
  BY <1>5, <1>8, <1>9
<1>11. Waiting # {} => FirstBatch # << >>
  <2>1. Waiting # {} => n # 0
    BY <1>3, <1>4, BoundsAreNumbers DEF n
  <2> QED BY <1>9, <1>10, <2>1
<1> DEFINE at == [k \in 1..n |-> rows[k]]
<1>12. at \in [DOMAIN FirstBatch -> Waiting]
  BY <1>3, <1>5, <1>10
<1>13. \A k \in DOMAIN FirstBatch : FirstBatch[k] = Key(at[k])
  BY <1>6, <1>10
<1>14. \A k, l \in DOMAIN FirstBatch : at[k] = at[l] => k = l
  BY <1>3, <1>5, <1>10
<1> QED BY <1>5, <1>9, <1>10, <1>11, <1>12, <1>13, <1>14

(***************************************************************************)
(* Typing.                                                                 *)
(***************************************************************************)
LEMMA TypingInit == Init => TypeOK
<1>1. << >> \in Seq(Event) /\ << >> \in Seq(Pair)
  OBVIOUS
<1> QED
  BY <1>1, BoundsAreNumbers
     DEF Init, TypeOK, TablesTyped, PassesTyped, DeliveryTyped, HistoryTyped, NoVerdict, Settled

LEMMA CustomerTyping ==
  ASSUME TypeOK, Customer
  PROVE  TypeOK'
<1> USE DEF TypeOK, itemVars, evalVars, deliverVars, historyVars, ruleVars, deviceVars
<1>1. ASSUME NEW r \in Rules, CreateRule(r) \/ SetEnabled(r)
      PROVE  TypeOK'
  BY <1>1 DEF CreateRule, SetEnabled, TablesTyped, PassesTyped, DeliveryTyped, HistoryTyped
<1>2. ASSUME NEW r \in Rules, DeleteRule(r)
      PROVE  TypeOK'
  <2>1. events' \in Seq(Event)
    BY <1>2, CascadeKeeps
  <2> QED BY <1>2, <2>1 DEF DeleteRule, TablesTyped, PassesTyped, DeliveryTyped, HistoryTyped
<1>3. ASSUME NEW u \in Users, NEW d \in Devices, Subscribe(u, d) \/ Unsubscribe(u, d)
      PROVE  TypeOK'
  BY <1>3 DEF Subscribe, Unsubscribe, TablesTyped, PassesTyped, DeliveryTyped, HistoryTyped
<1> QED BY <1>1, <1>2, <1>3 DEF Customer

LEMMA WorldTyping ==
  ASSUME TypeOK, World
  PROVE  TypeOK'
<1> USE DEF TypeOK, itemVars, evalVars, deliverVars, historyVars, ruleVars, deviceVars
<1>1. ASSUME NEW i \in Items, Fetch(i) \/ Tag(i)
      PROVE  TypeOK'
  BY <1>1 DEF Fetch, Tag, TablesTyped, PassesTyped, DeliveryTyped, HistoryTyped
<1>2. ASSUME NEW i \in Moves \cup {NoItem}, Capture(i)
      PROVE  TypeOK'
  BY <1>2 DEF Capture, Moves, TablesTyped, PassesTyped, DeliveryTyped, HistoryTyped
<1>3. ASSUME NEW d \in Devices, Revoke(d)
      PROVE  TypeOK'
  BY <1>3, BoundsAreNumbers DEF Revoke, TablesTyped, PassesTyped, DeliveryTyped, HistoryTyped
<1>4. ASSUME NEW c \in {"push", "mail"}, GoDown(c) \/ ComeBack(c)
      PROVE  TypeOK'
  <2>1. CASE GoDown(c)
    <3>1. faults' \in 0..MaxFaults
      BY <2>1, BoundsAreNumbers DEF GoDown, HistoryTyped
    <3> QED BY <2>1, <3>1 DEF GoDown, TablesTyped, PassesTyped, DeliveryTyped, HistoryTyped
  <2>2. CASE ComeBack(c)
    BY <2>2 DEF ComeBack, TablesTyped, PassesTyped, DeliveryTyped, HistoryTyped
  <2> QED BY <1>4, <2>1, <2>2
<1> QED BY <1>1, <1>2, <1>3, <1>4 DEF World

LEMMA MatchingIsPairs ==
  ASSUME NEW rs, NEW k
  PROVE  Matching(rs, k) \in SUBSET Pair
  BY RuleAssumption DEF Matching, Pair

LEMMA EvaluateTyping ==
  ASSUME TypeOK, NEW p \in Passes, Evaluate(p)
  PROVE  TypeOK'
<1> USE DEF TypeOK, itemVars, evalVars, deliverVars, historyVars, ruleVars, deviceVars
<1>1. CASE EvalStart(p)
  BY <1>1 DEF EvalStart, ActiveRules, TablesTyped, PassesTyped, DeliveryTyped, HistoryTyped
<1>2. CASE EvalEnd(p) /\ UNCHANGED <<ruleVars, itemVars, events, channels, down, deviceVars, deliverVars, historyVars>>
  BY <1>2 DEF EvalEnd, TablesTyped, PassesTyped, DeliveryTyped, HistoryTyped
<1>3. CASE EvalRead(p)
  <2>1. UNCHANGED <<ruleVars, itemVars, events, channels, down, deviceVars, deliverVars, historyVars>>
    BY <1>3 DEF EvalRead
  <2>2. CASE EvalEnd(p)
    BY <1>2, <2>1, <2>2
  <2>3. ASSUME NEW k \in KindsLeft(p), evPc' = [evPc EXCEPT ![p] = k],
               evTodo' = [evTodo EXCEPT ![p] = Matching(evRules[p], k)], UNCHANGED evRules
        PROVE  TypeOK'
    <3>1. k \in Kinds
      BY DEF KindsLeft
    <3>2. PassesTyped'
      BY <2>3, <3>1, MatchingIsPairs DEF PassesTyped
    <3> QED BY <2>1, <3>2 DEF TablesTyped, DeliveryTyped, HistoryTyped
  <2> QED BY <1>3, <2>2, <2>3 DEF EvalRead
<1>4. CASE EvalRecord(p)
  <2>1. UNCHANGED <<ruleVars, itemVars, channels, down, deviceVars, deliverVars, historyVars>>
    BY <1>4 DEF EvalRecord
  <2>2. CASE EvalEnd(p) /\ UNCHANGED events
    BY <1>2, <2>1, <2>2
  <2>3. ASSUME NEW e \in evTodo[p], RecordEvent(e), evTodo' = [evTodo EXCEPT ![p] = @ \ {e}], UNCHANGED <<evPc, evRules>>
        PROVE  TypeOK'
    <3>1. e \in Pair
      BY DEF PassesTyped
    <3>2. events' \in Seq(Event)
      BY <2>3, <3>1, RecordKeeps
    <3>3. PassesTyped'
      BY <2>3 DEF PassesTyped
    <3> QED BY <2>1, <3>2, <3>3 DEF TablesTyped, DeliveryTyped, HistoryTyped
  <2> QED BY <1>4, <2>2, <2>3 DEF EvalRecord
<1> QED BY <1>1, <1>3, <1>4 DEF Evaluate

\* Whom an event goes to: members of its rule's account.
LEMMA TargetsAreMembers ==
  ASSUME NEW r \in Rules
  PROVE  TargetsOf(r) \subseteq Members[r] \X (Devices \cup {"mail"})
  BY DEF TargetsOf

LEMMA DeliverTyping ==
  ASSUME TypeOK, Deliver \/ DeliverAbort
  PROVE  TypeOK'
<1> USE DEF TypeOK, itemVars, evalVars, deliverVars, historyVars, ruleVars, deviceVars
<1>0. dvPc \in {"look", "send"} => Head(dvTodo) \in Pair /\ Tail(dvTodo) \in Seq(Pair)
  BY DEF DeliveryTyped
<1>1. CASE DeliverStart
  <2>1. UNCHANGED <<ruleVars, itemVars, evalVars, channels, down, deviceVars, historyVars>> /\ dvPc = "idle"
    BY <1>1 DEF DeliverStart
  <2>2. CASE Stamp({FirstBatch[k] : k \in DOMAIN FirstBatch}, "skipped") /\ UNCHANGED deliverVars
    <3>1. events' \in Seq(Event)
      BY <2>2, StampKeeps DEF Settled
    <3> QED BY <2>1, <2>2, <3>1 DEF TablesTyped, PassesTyped, DeliveryTyped, HistoryTyped
  <2>3. CASE dvTodo' = FirstBatch /\ dvPc' = "look" /\ UNCHANGED <<events, dvTargets, dvVerdict>>
    <3>1. Waiting # {}
      BY <1>1 DEF DeliverStart
    <3>2. DeliveryTyped'
      BY <2>1, <2>3, <3>1, BatchIsOfKeys DEF DeliveryTyped
    <3> QED BY <2>1, <2>3, <3>2 DEF TablesTyped, PassesTyped, HistoryTyped
  <2> QED BY <1>1, <2>2, <2>3 DEF DeliverStart
<1>2. CASE DeliverLook
  <2> DEFINE e == Head(dvTodo)
  <2>1. UNCHANGED <<ruleVars, itemVars, events, evalVars, channels, down, deviceVars, historyVars>> /\ dvPc = "look"
    BY <1>2 DEF DeliverLook
  <2>2. e \in Pair /\ Tail(dvTodo) \in Seq(Pair) /\ dvTargets = {}
    BY <1>0, <2>1 DEF DeliveryTyped
  <2>3. CASE /\ dvVerdict' = [dvVerdict EXCEPT ![e] = "skipped"] /\ dvTodo' = Tail(dvTodo)
             /\ dvPc' = AfterOne /\ UNCHANGED dvTargets
    <3>1. DeliveryTyped'
      BY <2>2, <2>3 DEF DeliveryTyped, AfterOne, Settled
    <3> QED BY <2>1, <3>1 DEF TablesTyped, PassesTyped, HistoryTyped
  <2>4. CASE /\ dvTargets' = (IF ruleState[e[1]] = "deleted" THEN {} ELSE TargetsOf(e[1]))
             /\ dvPc' = "send" /\ UNCHANGED <<dvTodo, dvVerdict>>
    <3>1. e[1] \in Rules
      BY <2>2 DEF Pair
    <3>2. dvTargets' \subseteq Users \X (Devices \cup {"mail"})
      BY <2>4, <3>1, TargetsAreMembers, RuleAssumption
    <3>3. DeliveryTyped'
      BY <2>1, <2>4, <3>2 DEF DeliveryTyped
    <3> QED BY <2>1, <3>3 DEF TablesTyped, PassesTyped, HistoryTyped
  <2> QED BY <1>2, <2>3, <2>4 DEF DeliverLook
<1>3. CASE DeliverSend
  <2> DEFINE e == Head(dvTodo)
  <2>1. /\ UNCHANGED <<ruleVars, itemVars, events, evalVars, channels, down, gone, faults, aborts>>
        /\ dvPc = "send" /\ dvTargets' = {}
        /\ owner' = [d \in Devices |-> IF d \in gone /\ \E t \in dvTargets : t[2] = d THEN Nobody ELSE owner[d]]
    BY <1>3 DEF DeliverSend
  <2>2. PICK answer \in [dvTargets -> {"ok", "transient", "permanent"}] :
          LET verdict == Verdict({answer[t] : t \in dvTargets})
              now == {<<e, t[1]>> : t \in {x \in dvTargets : answer[x] = "ok"}}
          IN /\ dvVerdict' = [dvVerdict EXCEPT ![e] = verdict]
             /\ dvTodo' = IF verdict = "failed" THEN << >> ELSE Tail(dvTodo)
             /\ dvPc' = IF verdict = "failed" THEN "mark" ELSE AfterOne
             /\ Arrives(now)
    BY <1>3 DEF DeliverSend
  <2> DEFINE verdict == Verdict({answer[t] : t \in dvTargets})
             now == {<<e, t[1]>> : t \in {x \in dvTargets : answer[x] = "ok"}}
  <2>3. e \in Pair /\ Tail(dvTodo) \in Seq(Pair)
    BY <1>0, <2>1
  <2>4. verdict \in {"ok", "permanent", "failed"}
    BY DEF Verdict
  <2>5. now \subseteq Pair \X Users
    BY <2>3 DEF DeliveryTyped
  <2> HIDE DEF verdict, now, e
  <2>6. DeliveryTyped'
    BY <2>1, <2>2, <2>3, <2>4 DEF DeliveryTyped, AfterOne, Settled, verdict, e
  <2>7. Arrives(now)
    BY <2>2 DEF now
  <2>8. HistoryTyped'
    BY <2>1, <2>5, <2>7 DEF HistoryTyped, Arrives
  <2>9. TablesTyped'
    BY <2>1 DEF TablesTyped
  <2> QED BY <2>1, <2>6, <2>8, <2>9 DEF PassesTyped
<1>4. CASE DeliverMark
  <2>1. /\ UNCHANGED <<ruleVars, itemVars, evalVars, channels, down, deviceVars, dvTodo, dvTargets, historyVars>>
        /\ dvPc = "mark"
    BY <1>4 DEF DeliverMark
  <2>2. PICK i \in DOMAIN Outcomes :
          /\ Stamp(With(Outcomes[i]), Outcomes[i])
          /\ dvVerdict' = [e \in Pair |-> IF e \in With(Outcomes[i]) THEN "none" ELSE dvVerdict[e]]
          /\ dvPc' = IF dvVerdict' = NoVerdict THEN "idle" ELSE "mark"
    BY <1>4 DEF DeliverMark
  <2>3. Outcomes[i] \in Queue \cup Settled
    BY DEF Outcomes, Queue, Settled
  <2>4. events' \in Seq(Event)
    BY <2>2, <2>3, StampKeeps
  <2>5. DeliveryTyped'
    BY <2>1, <2>2 DEF DeliveryTyped
  <2> QED BY <2>1, <2>4, <2>5 DEF TablesTyped, PassesTyped, HistoryTyped
<1>5. CASE DeliverAbort
  <2>1. /\ UNCHANGED <<ruleVars, itemVars, events, evalVars, channels, down, deviceVars, faults>>
        /\ aborts < MaxAborts /\ aborts' = aborts + 1
        /\ dvPc' = "idle" /\ dvTodo' = << >> /\ dvTargets' = {} /\ dvVerdict' = NoVerdict
    BY <1>5 DEF DeliverAbort
  <2>2. PICK some \in SUBSET dvTargets : Arrives({<<Head(dvTodo), t[1]>> : t \in some})
    BY <1>5 DEF DeliverAbort
  <2>3. {<<Head(dvTodo), t[1]>> : t \in some} \subseteq Pair \X Users
    BY <1>0 DEF DeliveryTyped
  <2>4. HistoryTyped'
    BY <2>1, <2>2, <2>3, BoundsAreNumbers DEF HistoryTyped, Arrives
  <2>5. DeliveryTyped'
    BY <2>1 DEF DeliveryTyped, NoVerdict, Settled
  <2> QED BY <2>1, <2>4, <2>5 DEF TablesTyped, PassesTyped
<1> QED BY <1>1, <1>2, <1>3, <1>4, <1>5 DEF Deliver

LEMMA TypingStep ==
  ASSUME TypeOK, [Next]_vars
  PROVE  TypeOK'
<1>1. CASE UNCHANGED vars
  BY <1>1 DEF vars, ruleVars, itemVars, evalVars, deviceVars, deliverVars, historyVars,
              TypeOK, TablesTyped, PassesTyped, DeliveryTyped, HistoryTyped
<1> QED BY <1>1, CustomerTyping, WorldTyping, EvaluateTyping, DeliverTyping DEF Next

\* The state of the rules, of the queue, of the passes over them and of the
\* devices stays well formed, whatever overlaps and whatever is deleted.
THEOREM AlertsTypeCorrect == Spec => []TypeOK
  BY TypingInit, TypingStep, PTL DEF Spec

(***************************************************************************)
(* The inductive invariant of delivery.                                    *)
(***************************************************************************)
\* A notification about e arrived at someone.
Arrived(e) == \E u \in Users : <<e, u>> \in reached

\* The row of e is in the table, unless its rule's deletion took it.
Known(e) == e \in Keys \/ ruleState[e[1]] = "deleted"

\* What the pass has still to do, and what it has an outcome for.
Held(e) == \E k \in DOMAIN dvTodo : dvTodo[k] = e
Judged == {e \in Pair : dvVerdict[e] # "none"}

\* A pass holds each row of its batch once, with or without its outcome, and no row of the
\* batch leaves the queue before its outcome is stamped.
BatchInv ==
    /\ \A k, l \in DOMAIN dvTodo : dvTodo[k] = dvTodo[l] => k = l
    /\ \A e \in Pair : Held(e) => e \notin Judged /\ Known(e)
    /\ dvPc \in {"idle", "mark"} => dvTodo = << >>
    /\ dvPc = "idle" => Judged = {}
    /\ IsFiniteSet(Judged) /\ Cardinality(Judged) + Len(dvTodo) =< Batch
    /\ \A i \in DOMAIN events : Key(i) \in Judged \/ Held(Key(i)) => events[i].state \in Queue
    /\ dvPc = "send" => dvTargets \subseteq Members[Head(dvTodo)[1]] \X (Devices \cup {"mail"})

\* What arrived was an event's, and what is or will be stamped "ok" arrived at a member.
ArrivalInv ==
    /\ \A e \in Pair : Arrived(e) => Known(e)
    /\ \A e \in Pair : dvVerdict[e] = "ok" => \E u \in Members[e[1]] : <<e, u>> \in reached
    /\ \A i \in DOMAIN events :
          events[i].state = "ok" => \E u \in Members[events[i].rule] : <<Key(i), u>> \in reached

\* What arrived and may be sent again: each of these was left behind by a stopped pass, which
\* leaves at most its batch behind, and to send one again takes it away for good.
Again == {e \in Pair : Arrived(e) /\ dvVerdict[e] \in {"none", "failed"} /\ (Queued(e) \/ Held(e))}

AgainCounted == IsFiniteSet(Again) /\ Cardinality(Again) + resent =< aborts * Batch

DeliveryInv == TypeOK /\ OneEventPerMatch /\ BatchInv /\ ArrivalInv /\ AgainCounted

-----------------------------------------------------------------------------
LEMMA KeysAreOnce ==
  OneEventPerMatch <=> \A i, j \in DOMAIN events : Key(i) = Key(j) => i = j
  BY DEF OneEventPerMatch, Key

LEMMA KeysArePairs ==
  ASSUME events \in Seq(Event)
  PROVE  \A i \in DOMAIN events : /\ Key(i) \in Pair /\ events[i].state \in Queue \cup Settled
                                  /\ events[i].rule = Key(i)[1] /\ events[i].rule \in Rules
<1>1. \A i \in DOMAIN events : events[i] \in Event
  OBVIOUS
<1> QED BY <1>1 DEF Key, Pair, Event

\* What a deletion leaves of the queue, as the invariant speaks of it.
LEMMA CascadeKeys ==
  ASSUME events \in Seq(Event), OneEventPerMatch, NEW r \in Rules, DeleteRule(r)
  PROVE  /\ OneEventPerMatch'
         /\ \A k \in DOMAIN events' : \E i \in DOMAIN events : events'[k] = events[i] /\ Key(k)' = Key(i)
         /\ \A e \in Keys : e \in Keys' \/ e[1] = r
<1>1. PICK from \in [DOMAIN events' -> DOMAIN events] :
         /\ \A k \in DOMAIN events' : events[from[k]].rule # r /\ events'[k] = events[from[k]]
         /\ \A k, l \in DOMAIN events' : from[k] = from[l] => k = l
         /\ \A i \in DOMAIN events : events[i].rule # r => \E k \in DOMAIN events' : from[k] = i
  BY CascadeKeeps
<1>2. \A k \in DOMAIN events' : from[k] \in DOMAIN events /\ Key(k)' = Key(from[k])
  BY <1>1 DEF Key
<1>3. OneEventPerMatch'
  <2>1. SUFFICES ASSUME NEW k \in DOMAIN events', NEW l \in DOMAIN events', Key(k)' = Key(l)'
                 PROVE  k = l
    BY DEF OneEventPerMatch, Key
  <2>2. Key(from[k]) = Key(from[l])
    BY <1>2, <2>1
  <2>3. from[k] = from[l]
    BY <1>2, <2>2, KeysAreOnce
  <2> QED BY <1>1, <2>3
<1>4. ASSUME NEW e \in Keys, e[1] # r
      PROVE  e \in Keys'
  <2>1. PICK i \in DOMAIN events : e = Key(i)
    BY DEF Keys
  <2>2. events[i].rule # r
    BY <1>4, <2>1, KeysArePairs
  <2>3. PICK k \in DOMAIN events' : from[k] = i
    BY <1>1, <2>2
  <2>4. Key(k)' = e
    BY <1>2, <2>1, <2>3
  <2> QED BY <2>4 DEF Keys
<1>5. \A k \in DOMAIN events' : \E i \in DOMAIN events : events'[k] = events[i] /\ Key(k)' = Key(i)
  BY <1>1, <1>2
<1> QED BY <1>3, <1>4, <1>5

LEMMA StampKeys ==
  ASSUME events \in Seq(Event), OneEventPerMatch, NEW keys, NEW s \in Queue \cup Settled, Stamp(keys, s)
  PROVE  OneEventPerMatch' /\ Keys' = Keys
<1>1. DOMAIN events' = DOMAIN events /\ \A i \in DOMAIN events : Key(i)' = Key(i)
  BY StampKeeps
<1>2. \A i, j \in DOMAIN events : Key(i) = Key(j) => i = j
  BY KeysAreOnce
<1>3. \A i, j \in DOMAIN events' : Key(i)' = Key(j)' => i = j
  BY <1>1, <1>2
<1>4. OneEventPerMatch'
  BY <1>3 DEF OneEventPerMatch, Key
<1>5. Keys' = Keys
  BY <1>1 DEF Keys
<1> QED BY <1>4, <1>5

LEMMA RecordKeys ==
  ASSUME events \in Seq(Event), OneEventPerMatch, NEW e \in Pair, RecordEvent(e)
  PROVE  OneEventPerMatch' /\ Keys \subseteq Keys'
<1>1. CASE events' = events
  BY <1>1 DEF OneEventPerMatch, Keys, Key
<1>2. CASE e \notin Keys /\ \A i \in DOMAIN events : events'[i] = events[i]
  <2>1. PICK last : /\ DOMAIN events' = DOMAIN events \cup {last} /\ last \notin DOMAIN events
                    /\ Key(last)' = e
    BY <1>2, RecordKeeps DEF Keys
  <2>2. \A i \in DOMAIN events : Key(i)' = Key(i) /\ Key(i) # e
    BY <1>2 DEF Key, Keys
  <2>3. \A i, j \in DOMAIN events : Key(i) = Key(j) => i = j
    BY KeysAreOnce
  <2>4. \A i, j \in DOMAIN events' : Key(i)' = Key(j)' => i = j
    BY <2>1, <2>2, <2>3
  <2>5. OneEventPerMatch'
    BY <2>4 DEF OneEventPerMatch, Key
  <2>6. Keys \subseteq Keys'
    BY <2>1, <2>2 DEF Keys
  <2> QED BY <2>5, <2>6
<1> QED BY <1>1, <1>2, RecordKeeps

LEMMA OneStep ==
  ASSUME TypeOK, OneEventPerMatch, [Next]_vars
  PROVE  OneEventPerMatch'
<1>1. events \in Seq(Event)
  BY DEF TypeOK
<1>2. CASE events' = events
  BY <1>2 DEF OneEventPerMatch
<1>3. CASE Customer
  <2>1. ASSUME NEW r \in Rules, CreateRule(r) \/ SetEnabled(r)
        PROVE  events' = events
    BY <2>1 DEF CreateRule, SetEnabled
  <2>2. ASSUME NEW r \in Rules, DeleteRule(r)
        PROVE  OneEventPerMatch'
    BY <1>1, <2>2, CascadeKeys
  <2>3. ASSUME NEW u \in Users, NEW d \in Devices, Subscribe(u, d) \/ Unsubscribe(u, d)
        PROVE  events' = events
    BY <2>3 DEF Subscribe, Unsubscribe
  <2> QED BY <1>2, <1>3, <2>1, <2>2, <2>3 DEF Customer
<1>4. CASE World
  BY <1>2, <1>4 DEF World, Fetch, Tag, Capture, Revoke, GoDown, ComeBack
<1>5. ASSUME NEW p \in Passes, Evaluate(p)
      PROVE  OneEventPerMatch'
  <2>1. CASE EvalStart(p) \/ EvalRead(p)
    BY <1>2, <2>1 DEF EvalStart, EvalRead
  <2>2. CASE EvalRecord(p)
    <3>1. \A e \in evTodo[p] : e \in Pair
      BY DEF TypeOK, PassesTyped
    <3>2. UNCHANGED events \/ \E e \in Pair : RecordEvent(e)
      BY <2>2, <3>1 DEF EvalRecord
    <3> QED BY <1>1, <1>2, <3>2, RecordKeys
  <2> QED BY <1>5, <2>1, <2>2 DEF Evaluate
<1>6. CASE Deliver \/ DeliverAbort
  <2>1. CASE DeliverStart
    <3>1. UNCHANGED events \/ Stamp({FirstBatch[k] : k \in DOMAIN FirstBatch}, "skipped")
      BY <2>1 DEF DeliverStart
    <3> QED BY <1>1, <1>2, <3>1, StampKeys DEF Settled
  <2>2. CASE DeliverLook \/ DeliverSend \/ DeliverAbort
    BY <1>2, <2>2 DEF DeliverLook, DeliverSend, DeliverAbort
  <2>3. CASE DeliverMark
    <3>1. PICK i \in DOMAIN Outcomes : Stamp(With(Outcomes[i]), Outcomes[i])
      BY <2>3 DEF DeliverMark
    <3>2. Outcomes[i] \in Queue \cup Settled
      BY DEF Outcomes, Queue, Settled
    <3> QED BY <1>1, <3>1, <3>2, StampKeys
  <2> QED BY <1>6, <2>1, <2>2, <2>3 DEF Deliver
<1> QED BY <1>2, <1>3, <1>4, <1>5, <1>6 DEF Next, vars

\* store/alerts.py, record_event: "a rule that keeps matching only produces one
\* row per underlying event", whichever passes overlap, whatever the customers do
\* to the rules meanwhile and however long ago the event was delivered.
THEOREM MatchesFireOnce == Spec => []OneEventPerMatch
<1>1. Init => OneEventPerMatch
  BY DEF Init, OneEventPerMatch
<1>2. TypeOK /\ OneEventPerMatch /\ [Next]_vars => OneEventPerMatch'
  BY OneStep
<1> QED BY <1>1, <1>2, AlertsTypeCorrect, PTL DEF Spec

-----------------------------------------------------------------------------
LEMMA AgainShrinks ==
  ASSUME AgainCounted, Again' \subseteq Again, resent \in Nat, aborts \in Nat, UNCHANGED <<resent, aborts>>
  PROVE  AgainCounted'
<1>1. IsFiniteSet(Again') /\ Cardinality(Again') =< Cardinality(Again)
  BY FS_Subset DEF AgainCounted
<1>2. Cardinality(Again) \in Nat /\ Cardinality(Again') \in Nat
  BY <1>1, FS_CardinalityType DEF AgainCounted
<1>3. aborts * Batch \in Nat
  BY BoundsAreNumbers
<1> QED BY <1>1, <1>2, <1>3 DEF AgainCounted

\* Nothing of delivery moves and a deleted rule stays deleted.
LEMMA DeliveryStill ==
  ASSUME DeliveryInv, UNCHANGED <<events, deliverVars, reached, resent, aborts>>,
         \A r \in Rules : ruleState[r] = "deleted" => ruleState'[r] = "deleted"
  PROVE  BatchInv' /\ ArrivalInv' /\ AgainCounted'
<1> USE DEF deliverVars, DeliveryInv
<1>1. Judged' = Judged
  BY DEF Judged
<1>2. Keys' = Keys /\ \A i \in DOMAIN events : Key(i)' = Key(i)
  BY DEF Keys, Key
<1>3. \A e \in Pair : /\ (Arrived(e)' <=> Arrived(e)) /\ (Held(e)' <=> Held(e)) /\ (Queued(e)' <=> Queued(e))
                      /\ (Known(e) => Known(e)')
  BY <1>2 DEF Arrived, Held, Queued, Waiting, Known, Pair, Key
<1>4. \A i \in DOMAIN events : Held(Key(i))' <=> Held(Key(i))
  BY <1>2 DEF Held
<1>5. BatchInv'
  BY <1>1, <1>2, <1>3, <1>4 DEF BatchInv
<1>6. ArrivalInv'
  BY <1>2, <1>3 DEF ArrivalInv
<1>7. Again' = Again
  BY <1>3 DEF Again
<1> QED BY <1>5, <1>6, <1>7 DEF AgainCounted

LEMMA CustomerDelivery ==
  ASSUME DeliveryInv, Customer
  PROVE  BatchInv' /\ ArrivalInv' /\ AgainCounted'
<1> USE DEF deliverVars, historyVars, DeliveryInv
<1>1. ASSUME NEW r \in Rules, CreateRule(r) \/ SetEnabled(r)
      PROVE  BatchInv' /\ ArrivalInv' /\ AgainCounted'
  <2>1. UNCHANGED <<events, deliverVars, reached, resent, aborts>>
    BY <1>1 DEF CreateRule, SetEnabled
  <2>2. \A q \in Rules : ruleState[q] = "deleted" => ruleState'[q] = "deleted"
    BY <1>1 DEF CreateRule, SetEnabled, TypeOK, TablesTyped
  <2> QED BY <2>1, <2>2, DeliveryStill
<1>2. ASSUME NEW u \in Users, NEW d \in Devices, Subscribe(u, d) \/ Unsubscribe(u, d)
      PROVE  BatchInv' /\ ArrivalInv' /\ AgainCounted'
  <2>1. UNCHANGED <<events, ruleState, deliverVars, reached, resent, aborts>>
    BY <1>2 DEF Subscribe, Unsubscribe, ruleVars
  <2> QED BY <2>1, DeliveryStill
<1>3. ASSUME NEW r \in Rules, DeleteRule(r)
      PROVE  BatchInv' /\ ArrivalInv' /\ AgainCounted'
  <2>1. UNCHANGED <<dvPc, dvTodo, dvTargets, dvVerdict, reached, resent, aborts>>
    BY <1>3 DEF DeleteRule
  <2>2. /\ \A k \in DOMAIN events' : \E i \in DOMAIN events : events'[k] = events[i] /\ Key(k)' = Key(i)
        /\ \A e \in Keys : e \in Keys' \/ e[1] = r
    BY <1>3, CascadeKeys DEF TypeOK
  <2>3. ruleState' = [ruleState EXCEPT ![r] = "deleted"] /\ ruleState \in [Rules -> {"none", "enabled", "disabled", "deleted"}]
    BY <1>3 DEF DeleteRule, TypeOK, TablesTyped
  <2>4. Judged' = Judged
    BY <2>1 DEF Judged
  <2>5. ASSUME NEW e \in Pair
        PROVE  /\ Arrived(e)' <=> Arrived(e)
               /\ Held(e)' <=> Held(e)
               /\ Queued(e)' => Queued(e)
               /\ Known(e) => Known(e)'
    <3>1. Queued(e)' => Queued(e)
      BY <2>2 DEF Queued, Waiting
    <3>2. Known(e) => Known(e)'
      BY <2>2, <2>3 DEF Known, Pair
    <3> QED BY <2>1, <3>1, <3>2 DEF Arrived, Held
  <2>6. \A x : Held(x)' <=> Held(x)
    BY <2>1 DEF Held
  <2>7. \A k \in DOMAIN events' : Key(k)' \in Judged \/ Held(Key(k)') => events'[k].state \in Queue
    BY <2>2 DEF BatchInv
  <2>8. \A k \in DOMAIN events' : Key(k)' \in Judged' \/ Held(Key(k))' => events'[k].state \in Queue
    BY <2>1, <2>4, <2>7 DEF Held
  <2>9. BatchInv'
    BY <2>1, <2>4, <2>5, <2>8 DEF BatchInv
  <2>10. ArrivalInv'
    <3>1. \A k \in DOMAIN events' :
            events'[k].state = "ok" => \E u \in Members[events'[k].rule] : <<Key(k)', u>> \in reached
      BY <2>2 DEF ArrivalInv
    <3> QED BY <2>1, <2>5, <3>1 DEF ArrivalInv
  <2>11. Again' \subseteq Again
    BY <2>1, <2>5 DEF Again
  <2> QED BY <2>1, <2>9, <2>10, <2>11, AgainShrinks DEF TypeOK, HistoryTyped
<1> QED BY <1>1, <1>2, <1>3 DEF Customer

LEMMA EvaluateDelivery ==
  ASSUME DeliveryInv, NEW p \in Passes, Evaluate(p)
  PROVE  BatchInv' /\ ArrivalInv' /\ AgainCounted'
<1> USE DEF deliverVars, historyVars, DeliveryInv
<1>1. UNCHANGED <<ruleState, dvPc, dvTodo, dvTargets, dvVerdict, reached, resent, aborts>>
  BY DEF Evaluate, EvalStart, EvalRead, EvalRecord, ruleVars
<1>2. CASE UNCHANGED events
  BY <1>1, <1>2, DeliveryStill
<1>3. CASE EvalRecord(p) /\ events' # events
  <2>1. PICK e \in Pair : RecordEvent(e) /\ ruleState[e[1]] # "deleted"
    BY <1>3 DEF EvalRecord, TypeOK, PassesTyped
  <2>2. /\ e \notin Keys /\ \A i \in DOMAIN events : events'[i] = events[i]
        /\ \E last : /\ DOMAIN events' = DOMAIN events \cup {last} /\ last \notin DOMAIN events
                     /\ Key(last)' = e /\ events'[last].state = "queued"
    BY <1>3, <2>1, RecordKeeps DEF TypeOK
  <2>3. PICK last : /\ DOMAIN events' = DOMAIN events \cup {last} /\ last \notin DOMAIN events
                    /\ Key(last)' = e /\ events'[last].state = "queued"
    BY <2>2
  <2>4. \A i \in DOMAIN events : Key(i)' = Key(i)
    BY <2>2 DEF Key
  <2>5. ~Known(e) /\ ~Arrived(e)
    BY <2>1, <2>2 DEF Known, ArrivalInv
  <2>6. Judged' = Judged
    BY <1>1 DEF Judged
  <2>7. ASSUME NEW x \in Pair
        PROVE  /\ Arrived(x)' <=> Arrived(x)
               /\ Held(x)' <=> Held(x)
               /\ Queued(x)' => Queued(x) \/ x = e
               /\ Known(x) => Known(x)'
    <3>1. Queued(x)' => Queued(x) \/ x = e
      BY <2>2, <2>3, <2>4 DEF Queued, Waiting
    <3>2. Known(x) => Known(x)'
      BY <1>1, <2>3, <2>4 DEF Known, Keys
    <3> QED BY <1>1, <3>1, <3>2 DEF Arrived, Held
  <2>8. \A i \in DOMAIN events' : Key(i)' \in Judged' \/ Held(Key(i))' => events'[i].state \in Queue
    <3>1. \A i \in DOMAIN events : Held(Key(i))' => Held(Key(i))
      BY <1>1, <2>4 DEF Held
    <3>2. events'[last].state \in Queue
      BY <2>3 DEF Queue
    <3> QED BY <2>2, <2>3, <2>4, <2>6, <3>1, <3>2 DEF BatchInv
  <2>9. BatchInv'
    BY <1>1, <2>6, <2>7, <2>8 DEF BatchInv
  <2>10. ArrivalInv'
    <3>1. events'[last].state # "ok"
      BY <2>3
    <3>2. \A i \in DOMAIN events' :
            events'[i].state = "ok" => \E u \in Members[events'[i].rule] : <<Key(i)', u>> \in reached
      BY <2>2, <2>3, <2>4, <3>1 DEF ArrivalInv
    <3> QED BY <1>1, <2>7, <3>2 DEF ArrivalInv
  <2>11. Again' \subseteq Again
    BY <1>1, <2>5, <2>7 DEF Again
  <2> QED BY <1>1, <2>9, <2>10, <2>11, AgainShrinks DEF TypeOK, HistoryTyped
<1>4. CASE (EvalStart(p) \/ EvalRead(p))
  BY <1>2, <1>4 DEF EvalStart, EvalRead
<1> QED BY <1>2, <1>3, <1>4 DEF Evaluate

LEMMA WorldDelivery ==
  ASSUME DeliveryInv, World
  PROVE  BatchInv' /\ ArrivalInv' /\ AgainCounted'
<1>1. UNCHANGED <<events, ruleState, deliverVars, reached, resent, aborts>>
  BY DEF World, Fetch, Tag, Capture, Revoke, GoDown, ComeBack, ruleVars, historyVars
<1> QED BY <1>1, DeliveryStill DEF DeliveryInv

LEMMA StartDelivery ==
  ASSUME DeliveryInv, DeliverStart
  PROVE  BatchInv' /\ ArrivalInv' /\ AgainCounted'
<1> USE DEF deliverVars, historyVars, DeliveryInv
<1>1. UNCHANGED <<ruleState, reached, resent, aborts>> /\ dvPc = "idle"
  BY DEF DeliverStart, ruleVars
<1>2. Judged = {} /\ dvTodo = << >>
  BY <1>1 DEF BatchInv
<1>3. events \in Seq(Event) /\ \A i \in DOMAIN events : Key(i) \in Pair
  BY KeysArePairs DEF TypeOK
<1>4. CASE Stamp({FirstBatch[k] : k \in DOMAIN FirstBatch}, "skipped") /\ UNCHANGED deliverVars
  <2>1. /\ DOMAIN events' = DOMAIN events /\ \A i \in DOMAIN events : Key(i)' = Key(i)
        /\ \A i \in DOMAIN events : events'[i].state = "skipped" \/ events'[i].state = events[i].state
        /\ \A i \in DOMAIN events : events'[i].rule = Key(i)[1] /\ events[i].rule = Key(i)[1]
    <3>1. "skipped" \in Queue \cup Settled
      BY DEF Settled
    <3>2. /\ events' \in Seq(Event) /\ DOMAIN events' = DOMAIN events /\ \A i \in DOMAIN events : Key(i)' = Key(i)
          /\ \A i \in DOMAIN events : events'[i].state = "skipped" \/ events'[i].state = events[i].state
      BY <1>3, <1>4, <3>1, StampKeeps
    <3> QED BY <1>3, <3>2 DEF Key
  <2>2. Judged' = Judged /\ dvTodo' = dvTodo /\ \A x : ~Held(x)'
    BY <1>2, <1>4 DEF Judged, Held
  <2>3. \A e \in Pair : (Arrived(e)' <=> Arrived(e)) /\ (Known(e) => Known(e)') /\ (Queued(e)' => Queued(e))
    BY <1>1, <2>1 DEF Arrived, Known, Keys, Queued, Waiting, Queue
  <2>4. BatchInv'
    BY <1>1, <1>2, <1>4, <2>2 DEF BatchInv
  <2>5. ArrivalInv'
    BY <1>1, <1>4, <2>1, <2>3 DEF ArrivalInv
  <2>6. Again' \subseteq Again
    BY <1>4, <2>2, <2>3 DEF Again
  <2> QED BY <1>1, <2>4, <2>5, <2>6, AgainShrinks DEF TypeOK, HistoryTyped
<1>5. CASE dvTodo' = FirstBatch /\ dvPc' = "look" /\ UNCHANGED <<events, dvTargets, dvVerdict>>
  <2>1. /\ FirstBatch \in Seq(Pair) /\ Len(FirstBatch) =< Batch
        /\ \E at \in [DOMAIN FirstBatch -> Waiting] :
              /\ \A k \in DOMAIN FirstBatch : FirstBatch[k] = Key(at[k])
              /\ \A k, l \in DOMAIN FirstBatch : at[k] = at[l] => k = l
    BY <1>3, BatchIsOfKeys
  <2>2. PICK at \in [DOMAIN FirstBatch -> Waiting] :
              /\ \A k \in DOMAIN FirstBatch : FirstBatch[k] = Key(at[k])
              /\ \A k, l \in DOMAIN FirstBatch : at[k] = at[l] => k = l
    BY <2>1
  <2>3. \A k \in DOMAIN FirstBatch : at[k] \in DOMAIN events /\ events[at[k]].state \in Queue
    BY DEF Waiting
  <2>4. \A i, j \in DOMAIN events : Key(i) = Key(j) => i = j
    BY KeysAreOnce
  <2>5. \A k, l \in DOMAIN FirstBatch : FirstBatch[k] = FirstBatch[l] => k = l
    BY <2>2, <2>3, <2>4
  <2>6. Judged' = {} /\ \A i \in DOMAIN events : Key(i)' = Key(i)
    BY <1>2, <1>5 DEF Judged, Key
  <2>7. \A x : Held(x)' <=> \E k \in DOMAIN FirstBatch : FirstBatch[k] = x
    BY <1>5 DEF Held
  <2>8. \A e \in Pair : Held(e)' => Queued(e) /\ Known(e)'
    <3>1. \A k \in DOMAIN FirstBatch : Key(at[k]) \in Keys
      BY <2>3 DEF Keys
    <3>2. Keys' = Keys
      BY <1>5 DEF Keys, Key
    <3> QED BY <2>2, <2>3, <2>7, <3>1, <3>2 DEF Queued, Waiting, Known
  <2>9. \A i \in DOMAIN events : Held(Key(i))' => events[i].state \in Queue
    <3>1. ASSUME NEW i \in DOMAIN events, NEW k \in DOMAIN FirstBatch, FirstBatch[k] = Key(i)
          PROVE  events[i].state \in Queue
      <4>1. i = at[k]
        BY <2>2, <2>3, <2>4, <3>1
      <4> QED BY <2>3, <4>1
    <3> QED BY <2>6, <2>7, <3>1
  <2>10. IsFiniteSet(Judged') /\ Cardinality(Judged') + Len(dvTodo') =< Batch
    BY <1>5, <2>1, <2>6, FS_EmptySet
  <2>11. BatchInv'
    BY <1>5, <2>5, <2>6, <2>8, <2>9, <2>10 DEF BatchInv
  <2>12. \A e \in Pair : (Arrived(e)' <=> Arrived(e)) /\ (Known(e)' <=> Known(e)) /\ (Queued(e)' <=> Queued(e))
    BY <1>1, <1>5 DEF Arrived, Known, Keys, Queued, Waiting, Key
  <2>13. ArrivalInv'
    BY <1>1, <1>5, <2>6, <2>12 DEF ArrivalInv
  <2>14. Again' \subseteq Again
    BY <1>5, <2>8, <2>12 DEF Again
  <2> QED BY <1>1, <2>11, <2>13, <2>14, AgainShrinks DEF TypeOK, HistoryTyped
<1> QED BY <1>4, <1>5 DEF DeliverStart

\* The row in hand leaves the list with an outcome, or the whole list is dropped with it.
LEMMA OneIsJudged ==
  ASSUME DeliveryInv, dvPc \in {"look", "send"}, UNCHANGED <<events, ruleState>>,
         NEW v \in Settled \cup {"failed"}, dvVerdict' = [dvVerdict EXCEPT ![Head(dvTodo)] = v],
         dvTodo' = Tail(dvTodo) \/ dvTodo' = << >>, dvPc' \in {"look", "mark"},
         dvPc' = "mark" => dvTodo' = << >>
  PROVE  /\ BatchInv' /\ Judged' = Judged \cup {Head(dvTodo)} /\ Head(dvTodo) \in Pair /\ Held(Head(dvTodo))
         /\ \A e \in Pair : Held(e)' => Held(e)
<1> USE DEF DeliveryInv
<1>1. PICK e : e = Head(dvTodo)
  OBVIOUS
<1>2. /\ dvTodo \in Seq(Pair) /\ dvTodo # << >> /\ e \in Pair /\ dvTodo[1] = e /\ 1 \in DOMAIN dvTodo
      /\ Len(dvTodo) \in Nat /\ DOMAIN dvTodo = 1..Len(dvTodo)
  BY <1>1 DEF TypeOK, DeliveryTyped
<1>3. Held(e) /\ e \notin Judged
  BY <1>2 DEF Held, BatchInv
<1>4. /\ dvTodo' \in Seq(Pair) /\ Len(dvTodo') =< Len(dvTodo) - 1 /\ Len(dvTodo') \in Nat
      /\ \A k \in DOMAIN dvTodo' : k + 1 \in DOMAIN dvTodo /\ dvTodo'[k] = dvTodo[k + 1] /\ k \in Nat \ {0}
  <2>1. CASE dvTodo' = << >>
    BY <1>2, <2>1
  <2>2. CASE dvTodo' = Tail(dvTodo)
    BY <1>2, <2>2
  <2> QED BY <2>1, <2>2
<1>5. \A k, l \in DOMAIN dvTodo' : dvTodo'[k] = dvTodo'[l] => k = l
  BY <1>4 DEF BatchInv
<1>6. \A k \in DOMAIN dvTodo' : dvTodo'[k] # e
  BY <1>2, <1>4 DEF BatchInv
<1>7. Judged' = Judged \cup {e}
  BY <1>1, <1>2 DEF Judged, TypeOK, DeliveryTyped, Settled
<1>8. \A x \in Pair : Held(x)' => Held(x) /\ x # e
  BY <1>4, <1>6 DEF Held
<1>9. \A x \in Pair : Known(x)' <=> Known(x)
  BY DEF Known, Keys, Key
<1>10. IsFiniteSet(Judged') /\ Cardinality(Judged') + Len(dvTodo') =< Batch
  <2>1. IsFiniteSet(Judged) /\ Cardinality(Judged) \in Nat
    BY FS_CardinalityType DEF BatchInv
  <2>2. IsFiniteSet(Judged') /\ Cardinality(Judged') = Cardinality(Judged) + 1
    BY <1>3, <1>7, <2>1, FS_AddElement
  <2> QED BY <1>2, <1>4, <2>1, <2>2, BoundsAreNumbers DEF BatchInv
<1>11. \A i \in DOMAIN events : Key(i)' = Key(i) /\ Key(i) \in Pair
  BY KeysArePairs DEF TypeOK, Key
<1>12. \A i \in DOMAIN events : Held(Key(i))' => Held(Key(i))
  BY <1>4, <1>11 DEF Held
<1>13. \A i \in DOMAIN events' : Key(i)' \in Judged' \/ Held(Key(i))' => events'[i].state \in Queue
  BY <1>3, <1>7, <1>11, <1>12 DEF BatchInv
<1>14. \A x \in Pair : Held(x)' => x \notin Judged' /\ Known(x)'
  BY <1>7, <1>8, <1>9 DEF BatchInv
<1>15. BatchInv'
  BY <1>5, <1>10, <1>13, <1>14 DEF BatchInv
<1> QED BY <1>1, <1>2, <1>3, <1>7, <1>8, <1>15

LEMMA LookDelivery ==
  ASSUME DeliveryInv, DeliverLook
  PROVE  BatchInv' /\ ArrivalInv' /\ AgainCounted'
<1> USE DEF historyVars, DeliveryInv
<1>1. UNCHANGED <<ruleState, events, reached, resent, aborts>> /\ dvPc = "look"
  BY DEF DeliverLook, ruleVars
<1>2. \A i \in DOMAIN events : Key(i)' = Key(i)
  BY <1>1 DEF Key
<1>3. \A e \in Pair : (Arrived(e)' <=> Arrived(e)) /\ (Known(e)' <=> Known(e)) /\ (Queued(e)' <=> Queued(e))
  BY <1>1 DEF Arrived, Known, Keys, Queued, Waiting, Key
<1>4. PICK h : h = Head(dvTodo)
  OBVIOUS
<1>5. h \in Pair /\ h[1] \in Rules
  BY <1>1, <1>4 DEF TypeOK, DeliveryTyped, Pair
<1>6. CASE /\ dvVerdict' = [dvVerdict EXCEPT ![h] = "skipped"] /\ dvTodo' = Tail(dvTodo)
           /\ dvPc' = AfterOne
  <2>1. "skipped" \in Settled \cup {"failed"} /\ dvPc' \in {"look", "mark"} /\ (dvPc' = "mark" => dvTodo' = << >>)
    BY <1>6 DEF Settled, AfterOne
  <2>2. /\ BatchInv' /\ Judged' = Judged \cup {h} /\ Held(h)
        /\ \A e \in Pair : Held(e)' => Held(e)
    BY <1>1, <1>4, <1>6, <2>1, OneIsJudged
  <2>3. \A e \in Pair : dvVerdict'[e] = dvVerdict[e] \/ (e = h /\ dvVerdict'[e] = "skipped")
    BY <1>5, <1>6 DEF TypeOK, DeliveryTyped
  <2>4. ArrivalInv'
    BY <1>1, <1>2, <1>3, <2>3 DEF ArrivalInv
  <2>5. Again' \subseteq Again
    BY <1>3, <2>2, <2>3 DEF Again
  <2> QED BY <1>1, <2>2, <2>4, <2>5, AgainShrinks DEF TypeOK, HistoryTyped
<1>7. CASE /\ dvTargets' = (IF ruleState[h[1]] = "deleted" THEN {} ELSE TargetsOf(h[1]))
           /\ dvPc' = "send" /\ UNCHANGED <<dvTodo, dvVerdict>>
  <2>1. Judged' = Judged /\ \A x : Held(x)' <=> Held(x)
    BY <1>7 DEF Judged, Held
  <2>2. dvTargets' \subseteq Members[Head(dvTodo)[1]] \X (Devices \cup {"mail"})
    BY <1>4, <1>5, <1>7, TargetsAreMembers
  <2>3. \A i \in DOMAIN events : Held(Key(i))' <=> Held(Key(i))
    BY <1>2, <1>7 DEF Held
  <2>4. BatchInv'
    BY <1>1, <1>2, <1>3, <1>7, <2>1, <2>2, <2>3 DEF BatchInv
  <2>5. ArrivalInv'
    BY <1>1, <1>2, <1>3, <1>7 DEF ArrivalInv
  <2>6. Again' \subseteq Again
    BY <1>3, <1>7, <2>1 DEF Again
  <2> QED BY <1>1, <2>4, <2>5, <2>6, AgainShrinks DEF TypeOK, HistoryTyped
<1> QED BY <1>4, <1>6, <1>7 DEF DeliverLook

LEMMA SendDelivery ==
  ASSUME DeliveryInv, DeliverSend
  PROVE  BatchInv' /\ ArrivalInv' /\ AgainCounted'
<1> USE DEF historyVars, DeliveryInv
<1>1. UNCHANGED <<ruleState, events, aborts>> /\ dvPc = "send"
  BY DEF DeliverSend, ruleVars
<1>2. PICK h : h = Head(dvTodo)
  OBVIOUS
<1>3. h \in Pair /\ h[1] \in Rules
  BY <1>1, <1>2 DEF TypeOK, DeliveryTyped, Pair
<1>4. PICK answer \in [dvTargets -> {"ok", "transient", "permanent"}] :
        LET verdict == Verdict({answer[t] : t \in dvTargets})
            now == {<<h, t[1]>> : t \in {x \in dvTargets : answer[x] = "ok"}}
        IN /\ dvVerdict' = [dvVerdict EXCEPT ![h] = verdict]
           /\ dvTodo' = IF verdict = "failed" THEN << >> ELSE Tail(dvTodo)
           /\ dvPc' = IF verdict = "failed" THEN "mark" ELSE AfterOne
           /\ Arrives(now)
  BY <1>2 DEF DeliverSend
<1>5. PICK v : v = Verdict({answer[t] : t \in dvTargets})
  OBVIOUS
<1>6. PICK now : now = {<<h, t[1]>> : t \in {x \in dvTargets : answer[x] = "ok"}}
  OBVIOUS
<1>7. /\ dvVerdict' = [dvVerdict EXCEPT ![h] = v]
      /\ dvTodo' = IF v = "failed" THEN << >> ELSE Tail(dvTodo)
      /\ dvPc' = IF v = "failed" THEN "mark" ELSE AfterOne
      /\ reached' = reached \cup now /\ resent' = IF now \cap reached = {} THEN resent ELSE resent + 1
  BY <1>4, <1>5, <1>6 DEF Arrives
<1>8. v \in {"ok", "permanent", "failed"} /\ (v # "ok" => now = {})
  BY <1>5, <1>6 DEF Verdict
<1>9. v = "ok" => \E u \in Members[h[1]] : <<h, u>> \in now
  <2>1. ASSUME v = "ok"
        PROVE  \E t \in dvTargets : answer[t] = "ok"
    BY <1>5, <2>1 DEF Verdict
  <2>2. \A t \in dvTargets : t[1] \in Members[h[1]]
    BY <1>1, <1>2 DEF BatchInv
  <2> QED BY <1>6, <2>1, <2>2
<1>10. \A x \in now : x[1] = h
  BY <1>6
<1>11. v \in Settled \cup {"failed"} /\ dvPc' \in {"look", "mark"} /\ (dvPc' = "mark" => dvTodo' = << >>)
  BY <1>7, <1>8 DEF Settled, AfterOne
<1>12. dvTodo' = Tail(dvTodo) \/ dvTodo' = << >>
  BY <1>7
<1>13. BatchInv' /\ Judged' = Judged \cup {h} /\ Held(h) /\ \A e \in Pair : Held(e)' => Held(e)
  BY <1>1, <1>2, <1>7, <1>11, <1>12, OneIsJudged
<1>14. \A i \in DOMAIN events : Key(i)' = Key(i)
  BY <1>1 DEF Key
<1>15. \A e \in Pair : /\ (Known(e)' <=> Known(e)) /\ (Queued(e)' <=> Queued(e))
                       /\ (Arrived(e) => Arrived(e)') /\ (Arrived(e)' => Arrived(e) \/ (e = h /\ v = "ok"))
                       /\ dvVerdict'[e] = IF e = h THEN v ELSE dvVerdict[e]
  <2>1. \A e \in Pair : (Known(e)' <=> Known(e)) /\ (Queued(e)' <=> Queued(e))
    BY <1>1 DEF Known, Keys, Queued, Waiting, Key
  <2>2. \A e \in Pair : (Arrived(e) => Arrived(e)') /\ (Arrived(e)' => Arrived(e) \/ (e = h /\ v = "ok"))
    BY <1>7, <1>8, <1>10 DEF Arrived
  <2>3. \A e \in Pair : dvVerdict'[e] = IF e = h THEN v ELSE dvVerdict[e]
    BY <1>7 DEF TypeOK, DeliveryTyped
  <2> QED BY <2>1, <2>2, <2>3
<1>16. dvVerdict[h] = "none" /\ Known(h)
  BY <1>3, <1>13 DEF BatchInv, Judged
<1>17. ArrivalInv'
  <2>1. \A e \in Pair : Arrived(e)' => Known(e)'
    BY <1>15, <1>16 DEF ArrivalInv
  <2>2. \A e \in Pair : dvVerdict'[e] = "ok" => \E u \in Members[e[1]] : <<e, u>> \in reached'
    BY <1>7, <1>9, <1>15 DEF ArrivalInv
  <2>3. \A i \in DOMAIN events' :
          events'[i].state = "ok" => \E u \in Members[events'[i].rule] : <<Key(i)', u>> \in reached'
    BY <1>1, <1>7, <1>14 DEF ArrivalInv
  <2> QED BY <2>1, <2>2, <2>3 DEF ArrivalInv
<1>18. CASE now \cap reached = {}
  <2>1. resent' = resent
    BY <1>7, <1>18
  <2>2. Again' \subseteq Again
    BY <1>8, <1>13, <1>15, <1>16 DEF Again
  <2> QED BY <1>1, <1>13, <1>17, <2>1, <2>2, AgainShrinks DEF TypeOK, HistoryTyped
<1>19. CASE now \cap reached # {}
  <2>1. resent' = resent + 1 /\ v = "ok"
    BY <1>7, <1>8, <1>19
  <2>2. PICK x \in now \cap reached : TRUE
    BY <1>19
  <2>3. \E u \in Users : x = <<h, u>>
    BY <1>10, <2>2 DEF TypeOK, HistoryTyped
  <2>4. h \in Again
    BY <1>3, <1>13, <1>16, <2>2, <2>3 DEF Again, Arrived
  <2>5. Again' \subseteq Again \ {h}
    BY <1>13, <1>15, <2>1 DEF Again
  <2>6. IsFiniteSet(Again) /\ Cardinality(Again) \in Nat
    BY FS_CardinalityType DEF AgainCounted
  <2>7. IsFiniteSet(Again \ {h}) /\ Cardinality(Again \ {h}) = Cardinality(Again) - 1
    BY <2>4, <2>6, FS_RemoveElement
  <2>8. /\ IsFiniteSet(Again') /\ Cardinality(Again') =< Cardinality(Again \ {h})
        /\ Cardinality(Again') \in Nat
    BY <2>5, <2>7, FS_Subset, FS_CardinalityType
  <2>9. aborts * Batch \in Nat /\ aborts' = aborts /\ resent \in Nat
    BY <1>1, BoundsAreNumbers DEF TypeOK, HistoryTyped
  <2>10. AgainCounted'
    BY <2>1, <2>6, <2>7, <2>8, <2>9 DEF AgainCounted
  <2> QED BY <1>13, <1>17, <2>10
<1> QED BY <1>18, <1>19

LEMMA MarkDelivery ==
  ASSUME DeliveryInv, DeliverMark
  PROVE  BatchInv' /\ ArrivalInv' /\ AgainCounted'
<1> USE DEF historyVars, DeliveryInv
<1>1. UNCHANGED <<ruleState, dvTodo, reached, resent, aborts>> /\ dvPc = "mark"
  BY DEF DeliverMark, ruleVars
<1>2. PICK i \in DOMAIN Outcomes :
        /\ Stamp(With(Outcomes[i]), Outcomes[i])
        /\ dvVerdict' = [e \in Pair |-> IF e \in With(Outcomes[i]) THEN "none" ELSE dvVerdict[e]]
        /\ dvPc' = IF dvVerdict' = NoVerdict THEN "idle" ELSE "mark"
  BY DEF DeliverMark
<1>3. PICK s : s = Outcomes[i]
  OBVIOUS
<1>4. s \in Queue \cup Settled /\ s # "none" /\ (s \in Queue => s = "failed")
  BY <1>3 DEF Outcomes, Queue, Settled
<1>5. /\ DOMAIN events' = DOMAIN events
      /\ \A j \in DOMAIN events : Key(j)' = Key(j)
      /\ \A j \in DOMAIN events : events'[j].state = IF Key(j) \in With(s) THEN s ELSE events[j].state
      /\ \A j \in DOMAIN events : events'[j].rule = events[j].rule /\ Key(j) \in Pair /\ events[j].rule = Key(j)[1]
  <2>1. /\ events' \in Seq(Event) /\ DOMAIN events' = DOMAIN events
        /\ \A j \in DOMAIN events : Key(j)' = Key(j)
        /\ \A j \in DOMAIN events : events'[j].state = IF Key(j) \in With(s) THEN s ELSE events[j].state
    BY <1>2, <1>3, <1>4, StampKeeps DEF TypeOK
  <2>2. \A j \in DOMAIN events : Key(j) \in Pair /\ events[j].rule = Key(j)[1]
    BY KeysArePairs DEF TypeOK
  <2> QED BY <2>1, <2>2 DEF Key
<1>6. \A e \in Pair : /\ e \in With(s) <=> dvVerdict[e] = s
                      /\ dvVerdict'[e] = IF dvVerdict[e] = s THEN "none" ELSE dvVerdict[e]
  BY <1>2, <1>3 DEF With
<1>7. dvTodo = << >> /\ \A x : ~Held(x) /\ ~Held(x)'
  BY <1>1 DEF BatchInv, Held
<1>8. Judged' \subseteq Judged
  BY <1>4, <1>6 DEF Judged
<1>9. \A e \in Pair : (Arrived(e)' <=> Arrived(e)) /\ (Known(e)' <=> Known(e))
  BY <1>1, <1>5 DEF Arrived, Known, Keys
<1>10. BatchInv'
  <2>1. IsFiniteSet(Judged) /\ Cardinality(Judged) \in Nat
    BY FS_CardinalityType DEF BatchInv
  <2>2. IsFiniteSet(Judged') /\ Cardinality(Judged') =< Cardinality(Judged) /\ Cardinality(Judged') \in Nat
    BY <1>8, <2>1, FS_Subset, FS_CardinalityType
  <2>3. Len(dvTodo') = 0 /\ Len(dvTodo) = 0
    BY <1>1, <1>7
  <2>4. Cardinality(Judged') + Len(dvTodo') =< Batch
    BY <2>1, <2>2, <2>3, BoundsAreNumbers DEF BatchInv
  <2>5. \A j \in DOMAIN events' : Key(j)' \in Judged' \/ Held(Key(j))' => events'[j].state \in Queue
    <3>1. \A j \in DOMAIN events : Key(j) \in Judged' => Key(j) \in Judged /\ Key(j) \notin With(s)
      BY <1>4, <1>6 DEF Judged
    <3>2. \A j \in DOMAIN events : ~Held(Key(j))'
      BY <1>1, <1>7 DEF Held
    <3> QED BY <1>5, <3>1, <3>2 DEF BatchInv
  <2>6. dvPc' = "idle" => Judged' = {}
    <3>1. ASSUME dvVerdict' = NoVerdict
          PROVE  Judged' = {}
      BY <3>1 DEF Judged, NoVerdict
    <3> QED BY <1>2, <3>1
  <2>7. dvPc' \in {"idle", "mark"} /\ dvTodo' = << >>
    BY <1>1, <1>2, <1>7
  <2> QED BY <1>7, <2>2, <2>4, <2>5, <2>6, <2>7 DEF BatchInv
<1>11. ArrivalInv'
  <2>1. \A e \in Pair : dvVerdict'[e] = "ok" => dvVerdict[e] = "ok"
    BY <1>6
  <2>2. \A j \in DOMAIN events : events'[j].state = "ok" =>
           \E u \in Members[events[j].rule] : <<Key(j), u>> \in reached
    BY <1>5, <1>6 DEF ArrivalInv
  <2> QED BY <1>1, <1>5, <1>9, <2>1, <2>2 DEF ArrivalInv
<1>12. Again' \subseteq Again
  <2>1. SUFFICES ASSUME NEW e \in Pair, Arrived(e), dvVerdict'[e] \in {"none", "failed"}, Queued(e)'
                 PROVE  dvVerdict[e] \in {"none", "failed"} /\ Queued(e)
    BY <1>7, <1>9 DEF Again
  <2>2. PICK j \in DOMAIN events : events'[j].state \in Queue /\ Key(j) = e
    BY <1>5, <2>1 DEF Queued, Waiting
  <2>3. CASE dvVerdict[e] = s
    <3>1. s \in Queue
      BY <1>5, <1>6, <2>2, <2>3
    <3>2. e \in Judged
      BY <1>4, <2>3 DEF Judged
    <3>3. events[j].state \in Queue
      BY <2>2, <3>2 DEF BatchInv
    <3> QED BY <1>4, <2>2, <2>3, <3>1, <3>3 DEF Queued, Waiting
  <2>4. CASE dvVerdict[e] # s
    <3>1. events[j].state \in Queue
      BY <1>5, <1>6, <2>2, <2>4
    <3> QED BY <1>6, <2>1, <2>2, <2>4, <3>1 DEF Queued, Waiting
  <2> QED BY <2>3, <2>4
<1> QED BY <1>1, <1>10, <1>11, <1>12, AgainShrinks DEF TypeOK, HistoryTyped

LEMMA AbortDelivery ==
  ASSUME DeliveryInv, DeliverAbort
  PROVE  BatchInv' /\ ArrivalInv' /\ AgainCounted'
<1> USE DEF historyVars, DeliveryInv
<1>1. /\ UNCHANGED <<ruleState, events>> /\ aborts' = aborts + 1
      /\ dvPc' = "idle" /\ dvTodo' = << >> /\ dvTargets' = {} /\ dvVerdict' = NoVerdict
  BY DEF DeliverAbort, ruleVars
<1>2. PICK h : h = Head(dvTodo)
  OBVIOUS
<1>3. PICK some \in SUBSET dvTargets : Arrives({<<h, t[1]>> : t \in some})
  BY <1>2 DEF DeliverAbort
<1>4. PICK now : now = {<<h, t[1]>> : t \in some}
  OBVIOUS
<1>5. /\ reached' = reached \cup now /\ resent' = IF now \cap reached = {} THEN resent ELSE resent + 1
      /\ \A x \in now : x[1] = h
  BY <1>3, <1>4 DEF Arrives
<1>6. now # {} => dvPc = "send" /\ h \in Pair /\ Held(h) /\ Len(dvTodo) >= 1
  <2>1. ASSUME now # {}
        PROVE  dvPc = "send" /\ dvTodo # << >> /\ dvTodo \in Seq(Pair)
    BY <1>4, <2>1 DEF TypeOK, DeliveryTyped
  <2>2. dvTodo # << >> /\ dvTodo \in Seq(Pair) => h \in Pair /\ Held(h) /\ Len(dvTodo) >= 1
    BY <1>2 DEF Held
  <2> QED BY <2>1, <2>2
<1>7. now # {} => Known(h) /\ dvVerdict[h] = "none"
  BY <1>6 DEF BatchInv, Judged
<1>8. \A i \in DOMAIN events : Key(i)' = Key(i)
  BY <1>1 DEF Key
<1>9. Judged' = {} /\ \A x : ~Held(x)'
  BY <1>1 DEF Judged, NoVerdict, Held
<1>10. \A e \in Pair : /\ (Known(e)' <=> Known(e)) /\ (Queued(e)' <=> Queued(e))
                       /\ (Arrived(e)' => Arrived(e) \/ (e = h /\ now # {}))
  <2>1. \A e \in Pair : (Known(e)' <=> Known(e)) /\ (Queued(e)' <=> Queued(e))
    BY <1>1 DEF Known, Keys, Queued, Waiting, Key
  <2>2. \A e \in Pair : Arrived(e)' => Arrived(e) \/ (e = h /\ now # {})
    BY <1>5 DEF Arrived
  <2> QED BY <2>1, <2>2
<1>11. BatchInv'
  <2>1. IsFiniteSet(Judged') /\ Cardinality(Judged') + Len(dvTodo') =< Batch
    BY <1>1, <1>9, FS_EmptySet, BoundsAreNumbers
  <2>2. \A i \in DOMAIN events' : ~(Key(i)' \in Judged' \/ Held(Key(i))')
    BY <1>1, <1>9 DEF Held
  <2> QED BY <1>1, <1>9, <2>1, <2>2 DEF BatchInv
<1>12. ArrivalInv'
  <2>1. \A e \in Pair : Arrived(e)' => Known(e)'
    BY <1>7, <1>10 DEF ArrivalInv
  <2>2. \A e \in Pair : dvVerdict'[e] # "ok"
    BY <1>1 DEF NoVerdict
  <2>3. \A i \in DOMAIN events' :
          events'[i].state = "ok" => \E u \in Members[events'[i].rule] : <<Key(i)', u>> \in reached'
    BY <1>1, <1>5, <1>8 DEF ArrivalInv
  <2> QED BY <2>1, <2>2, <2>3 DEF ArrivalInv
<1>13. /\ IsFiniteSet(Again) /\ Cardinality(Again) \in Nat /\ IsFiniteSet(Judged) /\ Cardinality(Judged) \in Nat
       /\ Len(dvTodo) \in Nat /\ Cardinality(Judged) + Len(dvTodo) =< Batch
  BY FS_CardinalityType DEF AgainCounted, BatchInv, TypeOK, DeliveryTyped
<1>14. /\ IsFiniteSet(Again \cup Judged) /\ Cardinality(Again \cup Judged) \in Nat
       /\ Cardinality(Again \cup Judged) =< Cardinality(Again) + Cardinality(Judged)
  <2>1. /\ IsFiniteSet(Again \cup Judged)
        /\ Cardinality(Again \cup Judged) = Cardinality(Again) + Cardinality(Judged) - Cardinality(Again \cap Judged)
    BY <1>13, FS_Union
  <2>2. Cardinality(Again \cap Judged) \in Nat
    BY <1>13, FS_Intersection, FS_CardinalityType
  <2>3. Cardinality(Again \cup Judged) \in Nat
    BY <2>1, FS_CardinalityType
  <2> QED BY <1>13, <2>1, <2>2, <2>3
<1>15. \A e \in Again' : e \in Again \cup Judged \/ (e = h /\ now # {})
  BY <1>9, <1>10 DEF Again, Judged
<1>16. /\ resent \in Nat /\ aborts \in Nat /\ aborts * Batch \in Nat /\ Batch \in Nat \ {0}
       /\ aborts' * Batch = aborts * Batch + Batch
  BY <1>1, BoundsAreNumbers DEF TypeOK, HistoryTyped
<1>17. CASE now = {}
  <2>1. Again' \subseteq Again \cup Judged /\ resent' = resent
    BY <1>5, <1>15, <1>17
  <2>2. /\ IsFiniteSet(Again') /\ Cardinality(Again') =< Cardinality(Again \cup Judged)
        /\ Cardinality(Again') \in Nat
    BY <1>14, <2>1, FS_Subset, FS_CardinalityType
  <2>3. AgainCounted'
    BY <1>13, <1>14, <1>16, <2>1, <2>2 DEF AgainCounted
  <2> QED BY <1>11, <1>12, <2>3
<1>18. CASE now # {} /\ now \cap reached # {}
  <2>1. resent' = resent + 1
    BY <1>5, <1>18
  <2>2. PICK x \in now \cap reached : TRUE
    BY <1>18
  <2>3. \E u \in Users : x = <<h, u>>
    BY <1>5, <2>2 DEF TypeOK, HistoryTyped
  <2>4. h \in Again
    BY <1>6, <1>7, <1>18, <2>2, <2>3 DEF Again, Arrived
  <2>5. Again' \subseteq Again \cup Judged
    BY <1>15, <2>4
  <2>6. /\ IsFiniteSet(Again') /\ Cardinality(Again') =< Cardinality(Again \cup Judged)
        /\ Cardinality(Again') \in Nat
    BY <1>14, <2>5, FS_Subset, FS_CardinalityType
  <2>7. AgainCounted'
    BY <1>6, <1>13, <1>14, <1>16, <1>18, <2>1, <2>6 DEF AgainCounted
  <2> QED BY <1>11, <1>12, <2>7
<1>19. CASE now # {} /\ now \cap reached = {}
  <2>1. resent' = resent
    BY <1>5, <1>19
  <2>2. /\ IsFiniteSet((Again \cup Judged) \cup {h})
        /\ Cardinality((Again \cup Judged) \cup {h}) =< Cardinality(Again \cup Judged) + 1
        /\ Cardinality((Again \cup Judged) \cup {h}) \in Nat
    <3>1. /\ IsFiniteSet((Again \cup Judged) \cup {h})
          /\ Cardinality((Again \cup Judged) \cup {h}) =
                IF h \in Again \cup Judged THEN Cardinality(Again \cup Judged) ELSE Cardinality(Again \cup Judged) + 1
      BY <1>14, FS_AddElement
    <3> QED BY <1>14, <3>1
  <2>3. Again' \subseteq (Again \cup Judged) \cup {h}
    BY <1>15
  <2>4. /\ IsFiniteSet(Again') /\ Cardinality(Again') =< Cardinality((Again \cup Judged) \cup {h})
        /\ Cardinality(Again') \in Nat
    BY <2>2, <2>3, FS_Subset, FS_CardinalityType
  <2>5. AgainCounted'
    BY <1>6, <1>13, <1>14, <1>16, <1>19, <2>1, <2>2, <2>4 DEF AgainCounted
  <2> QED BY <1>11, <1>12, <2>5
<1> QED BY <1>17, <1>18, <1>19

LEMMA DeliveryInit == Init => DeliveryInv
<1> SUFFICES ASSUME Init
             PROVE  DeliveryInv
  OBVIOUS
<1>1. TypeOK /\ OneEventPerMatch
  BY TypingInit DEF Init, OneEventPerMatch
<1>2. events = << >> /\ dvTodo = << >> /\ dvPc = "idle" /\ dvVerdict = NoVerdict /\ reached = {} /\ resent = 0 /\ aborts = 0
  BY DEF Init
<1>3. Judged = {} /\ Again = {} /\ Cardinality({}) = 0 /\ IsFiniteSet({})
  BY <1>2, FS_EmptySet DEF Judged, NoVerdict, Again, Arrived
<1>4. BatchInv
  BY <1>2, <1>3, BoundsAreNumbers DEF BatchInv, Held
<1>5. ArrivalInv
  BY <1>2 DEF ArrivalInv, Arrived, NoVerdict
<1>6. AgainCounted
  BY <1>2, <1>3, BoundsAreNumbers DEF AgainCounted
<1> QED BY <1>1, <1>4, <1>5, <1>6 DEF DeliveryInv

LEMMA DeliveryStep ==
  ASSUME DeliveryInv, [Next]_vars
  PROVE  DeliveryInv'
<1>1. TypeOK' /\ OneEventPerMatch'
  BY TypingStep, OneStep DEF DeliveryInv
<1>2. BatchInv' /\ ArrivalInv' /\ AgainCounted'
  <2>1. CASE UNCHANGED vars
    BY <2>1, DeliveryStill DEF vars, ruleVars, deliverVars, historyVars
  <2>2. CASE Deliver \/ DeliverAbort
    BY <2>2, StartDelivery, LookDelivery, SendDelivery, MarkDelivery, AbortDelivery DEF Deliver
  <2> QED BY <2>1, <2>2, CustomerDelivery, WorldDelivery, EvaluateDelivery DEF Next
<1> QED BY <1>1, <1>2 DEF DeliveryInv

\* services/alerts.py, deliver_pending: nothing is stamped delivered that reached
\* nobody of its rule's account, and a person is notified again at most as often
\* as passes were stopped, times the batch: outages, refusals, revoked devices,
\* deleted rules and partial failures never resend what arrived.
THEOREM DeliveredOnce == Spec => []ReachedOnce
<1>1. DeliveryInv => ReachedOnce
  <2> SUFFICES ASSUME DeliveryInv
               PROVE  ReachedOnce
    OBVIOUS
  <2>1. Cardinality(Again) \in Nat /\ resent \in Nat /\ aborts * Batch \in Nat
    BY FS_CardinalityType, BoundsAreNumbers DEF DeliveryInv, AgainCounted, TypeOK, HistoryTyped
  <2>2. resent =< aborts * Batch
    BY <2>1 DEF DeliveryInv, AgainCounted
  <2> QED BY <2>2 DEF DeliveryInv, ArrivalInv, ReachedOnce
<1> QED BY <1>1, DeliveryInit, DeliveryStep, PTL DEF Spec
=============================================================================
