-------------------------- MODULE LifecycleProofs --------------------------
(***************************************************************************)
(* What the two scheduled jobs of billing promise, whatever the requests   *)
(* of Billing do meanwhile: for every set of accounts and of reminder      *)
(* stages, and any number of runs cut short.                               *)
(***************************************************************************)
EXTENDS BillingLifecycle, FiniteSetTheorems, TLAPS

(***************************************************************************)
(* The inductive invariant.  A notice can be mailed again only when a run  *)
(* was cut short between its mail and its row: those notices are Astray,   *)
(* each of them used up one abort, and a repeat takes one of them back.    *)
(***************************************************************************)
ExNotice == NoticeOf(exRow, "expired")
ReNotice == NoticeOf(reRow, Stages[reStage].kind)

\* Mailed and about to be recorded.
InHand ==
    (IF exPc = "record" THEN {ExNotice} ELSE {}) \cup (IF rePc = "record" THEN {ReNotice} ELSE {})

\* Mailed, not recorded, and no job is about to.
Astray == (mailed \ notices) \ InHand

JobsTyped ==
    /\ repeats \in Nat /\ aborts \in Nat /\ IsFiniteSet(mailed)
    /\ exPc \in {"idle", "mark", "mail", "record"}
    /\ rePc \in {"idle", "select", "look", "mail", "record"}
    /\ reStage \in Nat \ {0} /\ (rePc \in {"look", "mail", "record"} => reStage \in DOMAIN Stages)

\* A job mails only what it found unrecorded, and nobody else records it.
MailsAreNew ==
    /\ exPc = "mail" => ExNotice \notin notices
    /\ rePc = "mail" => ReNotice \notin notices

RecordsAreMailed == notices \subseteq mailed /\ InHand \subseteq mailed

AstrayCounted == Cardinality(Astray) + repeats =< aborts

MailInv == JobsTyped /\ MailsAreNew /\ RecordsAreMailed /\ AstrayCounted

-----------------------------------------------------------------------------
\* The stages' notices are told from the expiry notice by their kind.
LEMMA KindsDiffer ==
  ASSUME JobsTyped, rePc \in {"look", "mail", "record"}
  PROVE  /\ \A row, other : NoticeOf(row, Stages[reStage].kind) # NoticeOf(other, "expired")
         /\ reStage + 1 \in Nat \ {0}
<1> DEFINE Stage == [kind : STRING \ {"expired"}, lead : Nat]
<1>1. \A s \in Stage : s.kind # "expired"
  OBVIOUS
<1>2. Stages \in Seq(Stage) /\ reStage \in DOMAIN Stages
  BY StagesAssumption DEF JobsTyped
<1>3. Stages[reStage] \in Stage
  <2> HIDE DEF Stage
  <2> QED BY <1>2
<1>4. Stages[reStage].kind # "expired"
  BY <1>1, <1>3
<1> QED BY <1>4 DEF NoticeOf, JobsTyped

\* What a step may do to the count, in the cases the actions need.
LEMMA AstrayFinite ==
  ASSUME IsFiniteSet(mailed)
  PROVE  IsFiniteSet(Astray) /\ Cardinality(Astray) \in Nat
  BY FS_Subset, FS_CardinalityType DEF Astray

LEMMA AstrayKept ==
  ASSUME JobsTyped, AstrayCounted, Astray' \subseteq Astray, UNCHANGED repeats, aborts' >= aborts, aborts' \in Nat
  PROVE  AstrayCounted'
<1>1. IsFiniteSet(Astray) /\ Cardinality(Astray) \in Nat
  BY AstrayFinite DEF JobsTyped
<1>2. Cardinality(Astray') \in Nat /\ Cardinality(Astray') =< Cardinality(Astray)
  BY <1>1, FS_Subset, FS_CardinalityType
<1> QED BY <1>1, <1>2 DEF JobsTyped, AstrayCounted

LEMMA AstrayByAbort ==
  ASSUME JobsTyped, AstrayCounted, NEW n, Astray' \subseteq Astray \cup {n}, UNCHANGED repeats, aborts' = aborts + 1
  PROVE  AstrayCounted'
<1>1. IsFiniteSet(Astray) /\ Cardinality(Astray) \in Nat
  BY AstrayFinite DEF JobsTyped
<1>2. IsFiniteSet(Astray \cup {n}) /\ Cardinality(Astray \cup {n}) =< Cardinality(Astray) + 1
  BY <1>1, FS_AddElement
<1>3. Cardinality(Astray \cup {n}) \in Nat
  BY <1>2, FS_CardinalityType
<1>4. Cardinality(Astray') \in Nat /\ Cardinality(Astray') =< Cardinality(Astray \cup {n})
  BY <1>2, FS_Subset, FS_CardinalityType
<1> QED BY <1>1, <1>2, <1>3, <1>4 DEF JobsTyped, AstrayCounted

\* A mail takes its notice in hand; it is a repeat only of one that was astray.
LEMMA AstrayByMail ==
  ASSUME JobsTyped, AstrayCounted, NEW n, SendMail(n), n \notin notices, n \notin InHand,
         Astray' = Astray \ {n}, UNCHANGED aborts
  PROVE  AstrayCounted' /\ repeats' \in Nat /\ IsFiniteSet(mailed')
<1>1. IsFiniteSet(Astray) /\ Cardinality(Astray) \in Nat
  BY AstrayFinite DEF JobsTyped
<1>2. Cardinality(Astray') = IF n \in Astray THEN Cardinality(Astray) - 1 ELSE Cardinality(Astray)
  BY <1>1, FS_RemoveElement
<1>3. n \in mailed => n \in Astray
  BY DEF Astray
<1>4. repeats' = IF n \in mailed THEN repeats + 1 ELSE repeats
  BY DEF SendMail
<1>5. IsFiniteSet(mailed')
  BY FS_AddElement DEF SendMail, JobsTyped
<1>6. AstrayCounted'
  <2>1. CASE n \in mailed
    BY <2>1, <1>1, <1>2, <1>3, <1>4 DEF JobsTyped, AstrayCounted
  <2>2. CASE n \notin mailed
    <3>1. n \notin Astray
      BY <2>2 DEF Astray
    <3> QED BY <2>2, <3>1, <1>1, <1>2, <1>4 DEF JobsTyped, AstrayCounted
  <2> QED BY <2>1, <2>2
<1> QED BY <1>4, <1>5, <1>6 DEF JobsTyped

LEMMA MailInit == LifeInit => MailInv
<1> SUFFICES ASSUME LifeInit
             PROVE  MailInv
  OBVIOUS
<1>1. Astray = {}
  BY DEF LifeInit, Astray
<1>2. Cardinality(Astray) = 0 /\ IsFiniteSet(mailed)
  BY <1>1, FS_EmptySet DEF LifeInit
<1>3. JobsTyped
  BY <1>2 DEF LifeInit, JobsTyped
<1>4. MailsAreNew /\ RecordsAreMailed /\ AstrayCounted
  BY <1>2 DEF LifeInit, MailsAreNew, RecordsAreMailed, AstrayCounted, InHand
<1> QED BY <1>3, <1>4 DEF MailInv

LEMMA MailStill ==
  ASSUME MailInv, UNCHANGED jobVars
  PROVE  MailInv'
<1>1. UNCHANGED <<notices, mailed, repeats, aborts, exPc, exRows, exRow, rePc, reNow, reStage, reRows, reRow>>
  BY DEF jobVars, noticeVars, expireVars, remindVars
<1> QED
  BY <1>1 DEF MailInv, JobsTyped, MailsAreNew, RecordsAreMailed, AstrayCounted, Astray, InHand, ExNotice, ReNotice

LEMMA ExpireKeeps ==
  ASSUME MailInv, ExpireStep \/ ExpireAbort
  PROVE  MailInv'
<1> USE DEF MailInv, noticeVars, expireVars, remindVars
<1>1. CASE ExpireSelect
  <2>1. UNCHANGED <<notices, mailed, repeats, aborts, exRow, rePc, reStage, reRow>> /\ exPc = "idle" /\ exPc' = "mark"
    BY <1>1 DEF ExpireSelect
  <2>2. Astray' = Astray /\ InHand' = InHand
    BY <2>1 DEF Astray, InHand, ReNotice
  <2>3. JobsTyped' /\ MailsAreNew' /\ RecordsAreMailed'
    BY <2>1, <2>2 DEF JobsTyped, MailsAreNew, RecordsAreMailed, ReNotice
  <2> QED BY <2>1, <2>2, <2>3 DEF AstrayCounted
<1>2. CASE ExpireMark
  <2>1. UNCHANGED <<notices, mailed, repeats, aborts, rePc, reStage, reRow>> /\ exPc = "mark"
    BY <1>2 DEF ExpireMark
  <2>2. exPc' \in {"idle", "mark"} \/ (exPc' = "mail" /\ ExNotice' \notin notices)
    BY <1>2 DEF ExpireMark, ExpireNext, ExNotice
  <2>3. Astray' = Astray /\ InHand' = InHand
    BY <2>1, <2>2 DEF Astray, InHand, ReNotice
  <2>4. JobsTyped' /\ MailsAreNew' /\ RecordsAreMailed'
    BY <2>1, <2>2, <2>3 DEF JobsTyped, MailsAreNew, RecordsAreMailed, ReNotice
  <2> QED BY <2>1, <2>3, <2>4 DEF AstrayCounted
<1>3. CASE ExpireMail
  <2>1. /\ UNCHANGED <<notices, aborts, exRow, rePc, reStage, reRow>> /\ exPc = "mail" /\ exPc' = "record"
        /\ SendMail(ExNotice)
    BY <1>3 DEF ExpireMail, ExNotice
  <2>2. ExNotice \notin notices /\ ExNotice' = ExNotice /\ ReNotice' = ReNotice
    BY <2>1 DEF MailsAreNew, ExNotice, ReNotice
  <2>3. ExNotice \notin InHand
    BY <2>1, KindsDiffer DEF InHand, ExNotice, ReNotice
  <2>4. mailed' = mailed \cup {ExNotice} /\ InHand' = InHand \cup {ExNotice}
    BY <2>1, <2>2 DEF SendMail, InHand
  <2>5. Astray' = Astray \ {ExNotice}
    BY <2>1, <2>4 DEF Astray
  <2>6. AstrayCounted' /\ repeats' \in Nat /\ IsFiniteSet(mailed')
    BY <2>1, <2>2, <2>3, <2>5, AstrayByMail
  <2>7. JobsTyped' /\ MailsAreNew' /\ RecordsAreMailed'
    BY <2>1, <2>2, <2>4, <2>6 DEF JobsTyped, MailsAreNew, RecordsAreMailed
  <2> QED BY <2>6, <2>7
<1>4. CASE ExpireRecord
  <2>1. /\ UNCHANGED <<mailed, repeats, aborts, rePc, reStage, reRow>> /\ exPc = "record" /\ exPc' \in {"idle", "mark"}
        /\ notices' = notices \cup {ExNotice}
    BY <1>4 DEF ExpireRecord, ExpireNext, ExNotice
  <2>2. ReNotice' = ReNotice /\ (rePc = "mail" => ReNotice # ExNotice)
    BY <2>1, KindsDiffer DEF ExNotice, ReNotice
  <2>3. ExNotice \in InHand /\ InHand \subseteq InHand' \cup {ExNotice} /\ InHand' \subseteq InHand
    BY <2>1, <2>2 DEF InHand
  <2>4. Astray' \subseteq Astray
    BY <2>1, <2>3 DEF Astray
  <2>5. JobsTyped' /\ MailsAreNew' /\ RecordsAreMailed'
    BY <2>1, <2>2, <2>3 DEF JobsTyped, MailsAreNew, RecordsAreMailed
  <2> QED BY <2>1, <2>4, <2>5, AstrayKept DEF JobsTyped
<1>5. CASE ExpireAbort
  <2>1. /\ UNCHANGED <<notices, mailed, repeats, rePc, reStage, reRow>> /\ exPc' = "idle" /\ aborts' = aborts + 1
    BY <1>5 DEF ExpireAbort, ExpireNext
  <2>2. ReNotice' = ReNotice
    BY <2>1 DEF ReNotice
  <2>3. InHand \subseteq InHand' \cup {ExNotice} /\ InHand' \subseteq InHand
    BY <2>1, <2>2 DEF InHand
  <2>4. Astray' \subseteq Astray \cup {ExNotice}
    BY <2>1, <2>3 DEF Astray
  <2>5. JobsTyped' /\ MailsAreNew' /\ RecordsAreMailed'
    BY <2>1, <2>2, <2>3 DEF JobsTyped, MailsAreNew, RecordsAreMailed
  <2> QED BY <2>1, <2>4, <2>5, AstrayByAbort
<1> QED BY <1>1, <1>2, <1>3, <1>4, <1>5 DEF ExpireStep

LEMMA RemindKeeps ==
  ASSUME MailInv, RemindStep \/ RemindAbort
  PROVE  MailInv'
<1> USE DEF MailInv, noticeVars, expireVars, remindVars
<1>1. CASE RemindStart
  <2>1. /\ UNCHANGED <<notices, mailed, repeats, aborts, exPc, exRow, reStage, reRow>>
        /\ rePc = "idle" /\ rePc' = "select"
    BY <1>1 DEF RemindStart
  <2>2. Astray' = Astray /\ InHand' = InHand
    BY <2>1 DEF Astray, InHand, ExNotice
  <2>3. JobsTyped' /\ MailsAreNew' /\ RecordsAreMailed'
    BY <2>1, <2>2 DEF JobsTyped, MailsAreNew, RecordsAreMailed, ExNotice
  <2> QED BY <2>1, <2>2, <2>3 DEF AstrayCounted
<1>2. CASE RemindSelect
  <2>1. /\ UNCHANGED <<notices, mailed, repeats, aborts, exPc, exRow, reRow>> /\ rePc = "select"
        /\ rePc' \in {"idle", "look"} /\ reStage' \in Nat \ {0}
        /\ rePc' = "look" => reStage' = reStage /\ ~(reStage > Len(Stages))
    BY <1>2 DEF RemindSelect, JobsTyped
  <2>2. Astray' = Astray /\ InHand' = InHand
    BY <2>1 DEF Astray, InHand, ExNotice
  <2>3. rePc' = "look" => reStage' \in DOMAIN Stages
    BY <2>1, StagesAssumption DEF JobsTyped
  <2>4. JobsTyped' /\ MailsAreNew' /\ RecordsAreMailed'
    BY <2>1, <2>2, <2>3 DEF JobsTyped, MailsAreNew, RecordsAreMailed, ExNotice
  <2> QED BY <2>1, <2>2, <2>4 DEF AstrayCounted
<1>3. CASE RemindLook
  <2>1. UNCHANGED <<notices, mailed, repeats, aborts, exPc, exRow>> /\ rePc = "look"
    BY <1>3 DEF RemindLook
  <2>2. \/ rePc' = "select" /\ reStage' = reStage + 1
        \/ rePc' = "look" /\ reStage' = reStage
        \/ rePc' = "mail" /\ reStage' = reStage /\ ReNotice' \notin notices
    BY <1>3 DEF RemindLook, ReNotice
  <2>3. reStage' \in Nat \ {0} /\ (rePc' \in {"look", "mail"} => reStage' \in DOMAIN Stages)
    BY <2>1, <2>2 DEF JobsTyped
  <2>4. Astray' = Astray /\ InHand' = InHand
    BY <2>1, <2>2 DEF Astray, InHand, ExNotice
  <2>5. JobsTyped' /\ MailsAreNew' /\ RecordsAreMailed'
    BY <2>1, <2>2, <2>3, <2>4 DEF JobsTyped, MailsAreNew, RecordsAreMailed, ExNotice
  <2> QED BY <2>1, <2>4, <2>5 DEF AstrayCounted
<1>4. CASE RemindMail
  <2>1. /\ UNCHANGED <<notices, aborts, exPc, exRow, reStage, reRow>> /\ rePc = "mail" /\ rePc' = "record"
        /\ SendMail(ReNotice)
    BY <1>4 DEF RemindMail, ReNotice
  <2>2. ReNotice \notin notices /\ ReNotice' = ReNotice /\ ExNotice' = ExNotice
    BY <2>1 DEF MailsAreNew, ExNotice, ReNotice
  <2>3. ReNotice \notin InHand
    BY <2>1, KindsDiffer DEF InHand, ExNotice, ReNotice
  <2>4. mailed' = mailed \cup {ReNotice} /\ InHand' = InHand \cup {ReNotice}
    BY <2>1, <2>2 DEF SendMail, InHand
  <2>5. Astray' = Astray \ {ReNotice}
    BY <2>1, <2>4 DEF Astray
  <2>6. AstrayCounted' /\ repeats' \in Nat /\ IsFiniteSet(mailed')
    BY <2>1, <2>2, <2>3, <2>5, AstrayByMail
  <2>7. JobsTyped' /\ MailsAreNew' /\ RecordsAreMailed'
    BY <2>1, <2>2, <2>4, <2>6 DEF JobsTyped, MailsAreNew, RecordsAreMailed
  <2> QED BY <2>6, <2>7
<1>5. CASE RemindRecord
  <2>1. /\ UNCHANGED <<mailed, repeats, aborts, exPc, exRow, reStage>> /\ rePc = "record" /\ rePc' = "look"
        /\ notices' = notices \cup {ReNotice}
    BY <1>5 DEF RemindRecord, ReNotice
  <2>2. ExNotice' = ExNotice /\ ReNotice # ExNotice
    BY <2>1, KindsDiffer DEF ExNotice, ReNotice
  <2>3. ReNotice \in InHand /\ InHand \subseteq InHand' \cup {ReNotice} /\ InHand' \subseteq InHand
    BY <2>1, <2>2 DEF InHand
  <2>4. Astray' \subseteq Astray
    BY <2>1, <2>3 DEF Astray
  <2>5. JobsTyped' /\ MailsAreNew' /\ RecordsAreMailed'
    BY <2>1, <2>2, <2>3 DEF JobsTyped, MailsAreNew, RecordsAreMailed
  <2> QED BY <2>1, <2>4, <2>5, AstrayKept DEF JobsTyped
<1>6. CASE RemindAbort
  <2>1. /\ UNCHANGED <<notices, mailed, repeats, exPc, exRow>> /\ rePc' = "idle" /\ reStage' = 1 /\ aborts' = aborts + 1
    BY <1>6 DEF RemindAbort
  <2>2. ExNotice' = ExNotice
    BY <2>1 DEF ExNotice
  <2>3. InHand \subseteq InHand' \cup {ReNotice} /\ InHand' \subseteq InHand
    BY <2>1, <2>2 DEF InHand
  <2>4. Astray' \subseteq Astray \cup {ReNotice}
    BY <2>1, <2>3 DEF Astray
  <2>5. JobsTyped' /\ MailsAreNew' /\ RecordsAreMailed'
    BY <2>1, <2>2, <2>3 DEF JobsTyped, MailsAreNew, RecordsAreMailed
  <2> QED BY <2>1, <2>4, <2>5, AstrayByAbort
<1> QED BY <1>1, <1>2, <1>3, <1>4, <1>5, <1>6 DEF RemindStep

\* services/billing.py, expire_lapsed and remind_expiring: "once each per period
\* end".  A notice is repeated at most once for every run cut short, and none is
\* recorded, and so silenced, that was not attempted.
THEOREM NoticesAreMailedOnce == LifeSpec => []MailedOnce
<1>1. ASSUME MailInv, [LifeNext]_lifeVars
      PROVE  MailInv'
  <2>1. CASE UNCHANGED jobVars
    BY <1>1, <2>1, MailStill
  <2>2. CASE ExpireStep \/ ExpireAbort
    BY <1>1, <2>2, ExpireKeeps
  <2>3. CASE RemindStep \/ RemindAbort
    BY <1>1, <2>3, RemindKeeps
  <2> QED BY <1>1, <2>1, <2>2, <2>3 DEF LifeNext, lifeVars
<1>2. MailInv => MailedOnce
  <2>1. ASSUME MailInv
        PROVE  repeats =< aborts
    <3>1. Cardinality(Astray) \in Nat
      BY <2>1, AstrayFinite DEF MailInv, JobsTyped
    <3> QED BY <2>1, <3>1 DEF MailInv, JobsTyped, AstrayCounted
  <2> QED BY <2>1 DEF MailInv, RecordsAreMailed, MailedOnce
<1> QED BY <1>1, <1>2, MailInit, PTL DEF LifeSpec
=============================================================================
