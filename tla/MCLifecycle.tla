---------------------------- MODULE MCLifecycle ----------------------------
(***************************************************************************)
(* Two small instances that share a run.  "closed": one purchase whose     *)
(* customer may open the return page, the cancelled one, or none, while    *)
(* the webhook is delivered any number of times.  "jobs": a purchase each  *)
(* of two customers, settled in full if at all, and the two scheduled jobs.*)
(* A period lasts one tick, the reminder leads by one.                     *)
(***************************************************************************)
EXTENDS BillingLifecycle

CONSTANTS alice, bob, month, other

VARIABLE scene

MCOwner  == [p \in Payments |-> IF p = other THEN bob ELSE alice]
MCLength == [p \in Payments |-> 1]
MCStages == <<[kind |-> "expiring_1d", lead |-> 1]>>

mcVars == <<lifeVars, scene>>
InClosed == scene = "closed" /\ UNCHANGED <<jobVars, scene>>
InJobs == scene = "jobs" /\ UNCHANGED scene
JobsStill == InJobs /\ UNCHANGED jobVars

MCInit == LifeInit /\ scene \in {"closed", "jobs"}

MCNext ==
    \/ InClosed /\ Checkout(month)
    \/ InClosed /\ ChargeMoves(month)
    \/ \E r \in Requests : InClosed /\ Handle(r)
    \/ JobsStill /\ Tick
    \/ \E p \in Payments : JobsStill /\ Checkout(p) /\ link'[p] # "lost"
    \/ \E p \in Payments : JobsStill /\ ChargeMoves(p) /\ charge'[p] = "paid"
    \/ JobsStill /\ Handle(Webhook)
    \/ InJobs /\ ExpireSelect
    \/ InJobs /\ ExpireMark
    \/ InJobs /\ ExpireMail
    \/ InJobs /\ ExpireRecord
    \/ InJobs /\ ExpireAbort
    \/ InJobs /\ RemindStart
    \/ InJobs /\ RemindSelect
    \/ InJobs /\ RemindLook
    \/ InJobs /\ RemindMail
    \/ InJobs /\ RemindRecord
    \/ InJobs /\ RemindAbort

MCFairSpec ==
    /\ MCInit /\ [][MCNext]_mcVars
    /\ \A r \in Requests : WF_mcVars(InClosed /\ Proceed(r))
    /\ WF_mcVars(InClosed /\ Deliver(month))
    /\ WF_mcVars(JobsStill /\ Proceed(Webhook))
    /\ \A p \in Payments : WF_mcVars(JobsStill /\ Deliver(p))
    /\ WF_mcVars(InJobs /\ ExpireStep)
    /\ WF_mcVars(InJobs /\ RemindStep)
    /\ WF_mcVars(JobsStill /\ Tick)

=============================================================================
