------------------------- MODULE BillingLifecycle -------------------------
(***************************************************************************)
(* The two scheduled jobs that live beside the confirmations of Billing:   *)
(* expire_lapsed (hourly) and remind_expiring (daily), services/billing.py *)
(* with the queries of store/accounts.py and billing_notices of            *)
(* store/payments.py.  APScheduler runs one instance of each, in threads   *)
(* of the web process, so a job and the requests interleave freely.        *)
(*                                                                         *)
(* Each job reads its rows once, then works through the list it holds.     *)
(***************************************************************************)
EXTENDS Billing, Sequences

CONSTANTS
    Stages,     \* REMINDER_STAGES: a sequence of [kind, lead] records
    MaxAborts   \* bound on the job runs that are cut short

ASSUME StagesAssumption ==
    /\ Stages \in Seq([kind : STRING \ {"expired"}, lead : Nat])
    /\ MaxAborts \in Nat

Kinds == {"expired"} \cup {Stages[i].kind : i \in DOMAIN Stages}

VARIABLES
    notices,            \* billing_notices rows
    mailed, repeats,    \* history: notices mailed; mails that repeated one of them
    aborts,             \* history: job runs cut short
    exPc, exRows, exRow,                  \* expire_lapsed: its list, the row in hand
    rePc, reNow, reStage, reRows, reRow   \* remind_expiring

expireVars == <<exPc, exRows, exRow>>
remindVars == <<rePc, reNow, reStage, reRows, reRow>>
noticeVars == <<notices, mailed, repeats>>
jobVars == <<noticeVars, aborts, expireVars, remindVars>>
lifeVars == <<vars, jobVars>>

Row == [account : Accounts, end : Nat]
NoRow == [account |-> "none", end |-> 0]

LifeInit ==
    /\ Init
    /\ notices = {} /\ mailed = {} /\ repeats = 0 /\ aborts = 0
    /\ exPc = "idle" /\ exRows = {} /\ exRow = NoRow
    /\ rePc = "idle" /\ reNow = 0 /\ reStage = 1 /\ reRows = {} /\ reRow = NoRow

NoticeOf(row, kind) == [account |-> row.account, end |-> row.end, kind |-> kind]

Earliest(rows) == {r \in rows : \A s \in rows : r.end =< s.end}

\* One mail to the account's members; its failure is logged and changes nothing.
SendMail(n) ==
    /\ mailed' = mailed \cup {n}
    /\ repeats' = IF n \in mailed THEN repeats + 1 ELSE repeats

(***************************************************************************)
(* expire_lapsed                                                           *)
(***************************************************************************)
Lapsed(t) ==
    {row \in [account : Accounts, end : {subEnd[a] : a \in Accounts} \ {NoEnd}] :
        /\ row.end = subEnd[row.account] /\ row.end < t
        /\ plan[row.account] = "paid" /\ subStatus[row.account] = "active"}

ExpireSelect ==
    /\ exPc = "idle"
    /\ Lapsed(clock) # {}
    /\ exRows' = Lapsed(clock)
    /\ exPc' = "mark"
    /\ UNCHANGED <<vars, noticeVars, aborts, remindVars, exRow>>

ExpireNext(rows) ==
    /\ exRows' = rows
    /\ exRow' = NoRow
    /\ exPc' = IF rows = {} THEN "idle" ELSE "mark"

\* Mutant of ExpireMark: the notice lookup is inverted.
ExpireMarkInverted ==
    /\ exPc = "mark"
    /\ \E row \in Earliest(exRows) :
          /\ subStatus' = [subStatus EXCEPT ![row.account] = "expired"]
          /\ IF NoticeOf(row, "expired") \notin notices
               THEN ExpireNext(exRows \ {row})
               ELSE exRow' = row /\ exPc' = "mail" /\ UNCHANGED exRows
    /\ UNCHANGED <<clock, payVars, plan, subEnd, extVars, reqVars, credits, noticeVars, aborts, remindVars>>

\* mark_expired updates by account alone, whatever the row says by now; then
\* the notice is looked up.
ExpireMark ==
    /\ exPc = "mark"
    /\ \E row \in Earliest(exRows) :
          /\ subStatus' = [subStatus EXCEPT ![row.account] = "expired"]
          /\ IF NoticeOf(row, "expired") \in notices
               THEN ExpireNext(exRows \ {row})
               ELSE exRow' = row /\ exPc' = "mail" /\ UNCHANGED exRows
    /\ UNCHANGED <<clock, payVars, plan, subEnd, extVars, reqVars, credits, noticeVars, aborts, remindVars>>

ExpireMail ==
    /\ exPc = "mail"
    /\ SendMail(NoticeOf(exRow, "expired"))
    /\ exPc' = "record"
    /\ UNCHANGED <<vars, notices, aborts, exRows, exRow, remindVars>>

ExpireRecord ==
    /\ exPc = "record"
    /\ notices' = notices \cup {NoticeOf(exRow, "expired")}
    /\ ExpireNext(exRows \ {exRow})
    /\ UNCHANGED <<vars, mailed, repeats, aborts, remindVars>>

ExpireAbort ==
    /\ aborts < MaxAborts
    /\ aborts' = aborts + 1
    /\ exPc # "idle"
    /\ ExpireNext({})
    /\ UNCHANGED <<vars, noticeVars, remindVars>>

(***************************************************************************)
(* remind_expiring                                                         *)
(***************************************************************************)
Ending(t, horizon) ==
    {row \in [account : Accounts, end : {subEnd[a] : a \in Accounts} \ {NoEnd}] :
        /\ row.end = subEnd[row.account] /\ t =< row.end /\ row.end =< horizon
        /\ plan[row.account] = "paid" /\ subStatus[row.account] = "active"}

RemindStart ==
    /\ rePc = "idle"
    /\ rePc' = "select"
    /\ reNow' = clock
    /\ UNCHANGED <<vars, noticeVars, aborts, expireVars, reStage, reRows, reRow>>

RemindSelect ==
    /\ rePc = "select"
    /\ IF reStage > Len(Stages)
         THEN rePc' = "idle" /\ reStage' = 1 /\ reNow' = 0 /\ UNCHANGED reRows
         ELSE /\ reRows' = Ending(reNow, reNow + Stages[reStage].lead)
              /\ rePc' = "look"
              /\ UNCHANGED <<reStage, reNow>>
    /\ UNCHANGED <<vars, noticeVars, aborts, expireVars, reRow>>

\* The next row whose notice was not sent; the stage is over when none is left.
RemindLook ==
    /\ rePc = "look"
    /\ IF reRows = {}
         THEN rePc' = "select" /\ reStage' = reStage + 1 /\ UNCHANGED <<reRows, reRow>>
         ELSE \E row \in Earliest(reRows) :
                 /\ reRows' = reRows \ {row}
                 /\ IF NoticeOf(row, Stages[reStage].kind) \in notices
                      THEN UNCHANGED <<rePc, reRow>>
                      ELSE rePc' = "mail" /\ reRow' = row
                 /\ UNCHANGED reStage
    /\ UNCHANGED <<vars, noticeVars, aborts, expireVars, reNow>>

RemindMail ==
    /\ rePc = "mail"
    /\ SendMail(NoticeOf(reRow, Stages[reStage].kind))
    /\ rePc' = "record"
    /\ UNCHANGED <<vars, notices, aborts, expireVars, reNow, reStage, reRows, reRow>>

\* Mutant of RemindRecord: the notice is not recorded.
RemindRecordForgets ==
    /\ rePc = "record"
    /\ rePc' = "look" /\ reRow' = NoRow
    /\ UNCHANGED <<vars, noticeVars, aborts, expireVars, reNow, reStage, reRows>>

RemindRecord ==
    /\ rePc = "record"
    /\ notices' = notices \cup {NoticeOf(reRow, Stages[reStage].kind)}
    /\ rePc' = "look" /\ reRow' = NoRow
    /\ UNCHANGED <<vars, mailed, repeats, aborts, expireVars, reNow, reStage, reRows>>

RemindAbort ==
    /\ aborts < MaxAborts
    /\ aborts' = aborts + 1
    /\ rePc # "idle"
    /\ rePc' = "idle" /\ reNow' = 0 /\ reStage' = 1 /\ reRows' = {} /\ reRow' = NoRow
    /\ UNCHANGED <<vars, noticeVars, expireVars>>

(***************************************************************************)
(* The specification.                                                      *)
(***************************************************************************)
ExpireStep == ExpireSelect \/ ExpireMark \/ ExpireMail \/ ExpireRecord
RemindStep == RemindStart \/ RemindSelect \/ RemindLook \/ RemindMail \/ RemindRecord

LifeNext ==
    \/ Next /\ UNCHANGED jobVars
    \/ ExpireStep \/ ExpireAbort
    \/ RemindStep \/ RemindAbort

LifeSpec == LifeInit /\ [][LifeNext]_lifeVars

(***************************************************************************)
(* Properties.                                                             *)
(***************************************************************************)

\* "Send the 7-day and 1-day reminders, once each per period end", and the
\* expiry notice "once": however the two jobs interleave with renewals, a
\* notice is repeated only after a run was cut short, at most once for each,
\* and no notice is recorded, and so silenced, that was not attempted.
MailedOnce == repeats =< aborts /\ notices \subseteq mailed

\* "Flip paid subscriptions whose period has ended to `expired` ... and tells
\* the customer once": a lapsed customer eventually renews or is told about
\* the period that ended, unless a run was cut short after the stamp.
LapsedIsTold ==
    \A a \in Accounts :
        (plan[a] = "paid" /\ subStatus[a] = "active" /\ PlanFor(a) = "free") ~>
            \/ subStatus[a] = "active" /\ PlanFor(a) = "paid"
            \/ \E n \in mailed : n.account = a /\ n.kind = "expired" /\ n.end = subEnd[a]
            \/ aborts > 0

=============================================================================
