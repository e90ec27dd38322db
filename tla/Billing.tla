------------------------------ MODULE Billing ------------------------------
(***************************************************************************)
(* Paid plan periods: checkout, confirmation and activation                *)
(* (services/billing.py, store/payments.py, the subscription half of       *)
(* store/accounts.py, apps/web/routes/billing.py).                         *)
(*                                                                         *)
(* Every repository function commits its own statement and a SELECT holds  *)
(* no lock, so one confirmation is a sequence of separate database steps:  *)
(* read the payment, ask the provider, re-read the payment, read the       *)
(* subscription, write the subscription, write the payment.  Each is one   *)
(* action here, and other requests run between any two of them.            *)
(*                                                                         *)
(* Requests: the browser's return page (a threadpool request, Returns),    *)
(* the return page of a cancelled checkout (Cancels), and the provider's   *)
(* webhook.  The webhook route is `async` and calls the synchronous        *)
(* handler on the event loop, so webhooks run one at a time: Webhook is a  *)
(* single request.  Time is a counter; a period is a number of its ticks.  *)
(***************************************************************************)
EXTENDS Integers, FiniteSets

CONSTANTS
    Accounts,      \* customer accounts
    Operators,     \* accounts seeded 'paid' with no period end (migration 0019)
    Payments,      \* the tx_refs that may be minted
    Owner,         \* Owner[p]: the account a payment extends
    Length,        \* Length[p]: ticks the bought period lasts
    Returns, Cancels, Webhook,
    NoTx, NoEnd,   \* "no payment in hand", "current_period_end_utc IS NULL"
    Faults,        \* subset of {"abort", "outage"}
    MaxClock,      \* bound on time
    MaxCredits     \* bound on subscription writes made for one payment

Requests == Returns \cup Cancels \cup {Webhook}

ASSUME OwnerAssumption   == Owner \in [Payments -> Accounts]
ASSUME LengthAssumption  == Length \in [Payments -> Nat \ {0}]
ASSUME NullAssumption    == NoTx \notin Payments /\ NoEnd \notin Nat
ASSUME RequestAssumption == Webhook \notin Returns \cup Cancels
ASSUME BoundAssumption   == MaxClock \in Nat /\ MaxCredits \in Nat

VARIABLES
    clock,
    status,     \* payments.status per tx_ref; "none" before the row exists
    periodEnd,  \* payments.period_end_utc
    plan, subStatus, subEnd,   \* the subscriptions row of each account
    link,       \* the hosted checkout of each payment
    charge,     \* external: what the provider holds for the reference
    hook,       \* external: the provider still owes a webhook delivery
    pc, tx, now, start,        \* locals of each request
    credits     \* history: subscription writes committed for each payment

payVars == <<status, periodEnd>>
subVars == <<plan, subStatus, subEnd>>
extVars == <<link, charge, hook>>
reqVars == <<pc, tx, now, start>>
vars == <<clock, payVars, subVars, extVars, reqVars, credits>>

Statuses == {"none", "pending", "failed", "successful"}
Steps == {"idle", "verify", "fail", "reread", "readsub", "setplan", "marksuccess"}

TypeOK ==
    /\ clock \in Nat
    /\ status \in [Payments -> Statuses]
    /\ periodEnd \in [Payments -> Nat]
    /\ plan \in [Accounts -> {"free", "paid"}]
    /\ subStatus \in [Accounts -> {"active", "expired"}]
    /\ subEnd \in [Accounts -> Nat \cup {NoEnd}]
    /\ link \in [Payments -> {"none", "asked", "given", "lost"}]
    /\ charge \in [Payments -> {"open", "failed", "short", "paid"}]
    /\ hook \in [Payments -> BOOLEAN]
    /\ pc \in [Requests -> Steps]
    /\ tx \in [Requests -> Payments \cup {NoTx}]
    /\ now \in [Requests -> Nat]
    /\ start \in [Requests -> Nat]
    /\ credits \in [Payments -> Nat]

Init ==
    /\ clock = 0
    /\ status = [p \in Payments |-> "none"]
    /\ periodEnd = [p \in Payments |-> 0]
    /\ plan = [a \in Accounts |-> IF a \in Operators THEN "paid" ELSE "free"]
    /\ subStatus = [a \in Accounts |-> "active"]
    /\ subEnd = [a \in Accounts |-> NoEnd]
    /\ link = [p \in Payments |-> "none"]
    /\ charge = [p \in Payments |-> "open"]
    /\ hook = [p \in Payments |-> FALSE]
    /\ pc = [r \in Requests |-> "idle"]
    /\ tx = [r \in Requests |-> NoTx]
    /\ now = [r \in Requests |-> 0]
    /\ start = [r \in Requests |-> 0]
    /\ credits = [p \in Payments |-> 0]

(***************************************************************************)
(* What gating reads.                                                      *)
(***************************************************************************)
PlanFor(a) ==
    IF \/ subStatus[a] # "active"
       \/ subEnd[a] # NoEnd /\ subEnd[a] < clock
    THEN "free"
    ELSE plan[a]

(***************************************************************************)
(* Checkout: the pending row is committed before the provider is asked.    *)
(***************************************************************************)
StartCheckout(p) ==
    /\ status[p] = "none"
    /\ status' = [status EXCEPT ![p] = "pending"]
    /\ link' = [link EXCEPT ![p] = "asked"]
    /\ UNCHANGED <<clock, periodEnd, subVars, charge, hook, reqVars, credits>>

CheckoutCreated(p) ==
    /\ link[p] = "asked"
    /\ link' = [link EXCEPT ![p] = "given"]
    /\ UNCHANGED <<clock, payVars, subVars, charge, hook, reqVars, credits>>

\* Mutants of MarkFailed: the reason stored as the status; no WHERE on the status.
MarkFailedAsReason(p) ==
    status' = [status EXCEPT ![p] = IF @ = "pending" THEN "cancelled" ELSE @]
MarkFailedAlways(p) == status' = [status EXCEPT ![p] = "failed"]

\* UPDATE payments SET status = 'failed' WHERE tx_ref = p AND status = 'pending'
MarkFailed(p) ==
    status' = [status EXCEPT ![p] = IF @ = "pending" THEN "failed" ELSE @]

CheckoutRefused(p) ==
    /\ link[p] = "asked"
    /\ MarkFailed(p)
    /\ link' = [link EXCEPT ![p] = "lost"]
    /\ UNCHANGED <<clock, periodEnd, subVars, charge, hook, reqVars, credits>>

\* The checkout request dies before the provider answered: the row stays
\* pending and nobody ever learns its link.
CheckoutAborted(p) ==
    /\ "abort" \in Faults
    /\ link[p] = "asked"
    /\ link' = [link EXCEPT ![p] = "lost"]
    /\ UNCHANGED <<clock, payVars, subVars, charge, hook, reqVars, credits>>

(***************************************************************************)
(* External: the provider.  A charge may fail and be retried on the hosted *)
(* page; "short" is a settled charge in another currency or for less than  *)
(* the price.  A settled charge is final, and each change of a charge is   *)
(* announced by a webhook delivery.                                        *)
(***************************************************************************)
ChargeMoves(p) ==
    /\ link[p] = "given"
    /\ charge[p] \in {"open", "failed"}
    /\ \E c \in {"failed", "short", "paid"} \ {charge[p]} :
          charge' = [charge EXCEPT ![p] = c]
    /\ hook' = [hook EXCEPT ![p] = TRUE]
    /\ UNCHANGED <<clock, payVars, subVars, link, reqVars, credits>>

(***************************************************************************)
(* Confirmation.                                                           *)
(***************************************************************************)
\* The request is over: its locals are gone.
Finish(r) ==
    /\ pc' = [pc EXCEPT ![r] = "idle"]
    /\ tx' = [tx EXCEPT ![r] = NoTx]
    /\ now' = [now EXCEPT ![r] = 0]
    /\ start' = [start EXCEPT ![r] = 0]

Goto(r, step) ==
    /\ pc' = [pc EXCEPT ![r] = step]
    /\ UNCHANGED <<tx, now, start>>

\* A return page is opened with a tx_ref the customer was given; a webhook is
\* delivered (and possibly redelivered) for a charge that has moved.
Arrives(r, p) ==
    /\ pc[r] = "idle"
    /\ link[p] = "given"
    /\ r = Webhook => charge[p] # "open"

\* _confirm_once reads the row on a connection of its own, and abandon reads
\* it before closing it.  A row already successful ends the request.  The
\* webhook route answers "ok" whatever the outcome, so a delivery that has
\* reached the handler is settled unless the handler aborts.
ReadPayment(r, p) ==
    /\ Arrives(r, p)
    /\ IF status[p] = "successful"
         THEN UNCHANGED reqVars
         ELSE /\ pc' = [pc EXCEPT ![r] = IF r \in Cancels THEN "fail" ELSE "verify"]
              /\ tx' = [tx EXCEPT ![r] = p]
              /\ now' = [now EXCEPT ![r] = clock]
              /\ UNCHANGED start
    /\ hook' = [hook EXCEPT ![p] = IF r = Webhook THEN FALSE ELSE @]
    /\ UNCHANGED <<clock, payVars, subVars, link, charge, credits>>

\* The transaction looked up: the webhook's event names the payment's own; a
\* return page carries whatever transaction_id its URL holds.
LookedUp(r) == IF r = Webhook THEN {tx[r]} ELSE Payments

\* Mutant of Matches: any settled transaction pays for any row.
MatchesAnyReference(p, q) == charge[q] = "paid"

\* _matches: the verified transaction pays for this row.
Matches(p, q) == q = p /\ charge[q] = "paid"

\* A pending answer ends this try: the return page asks up to four times, and
\* every retry reads the payment again.
Verify(r) ==
    /\ pc[r] = "verify"
    /\ \E q \in LookedUp(r) :
          \/ /\ charge[q] = "open"                       \* pending, or not found yet
             /\ Finish(r)
          \/ /\ charge[q] # "open" /\ ~Matches(tx[r], q)   \* failed, or a mismatch
             /\ Goto(r, "fail")
          \/ /\ Matches(tx[r], q)
             /\ Goto(r, "reread")
    /\ UNCHANGED <<clock, payVars, subVars, extVars, credits>>

VerifyUnreachable(r) ==
    /\ "outage" \in Faults
    /\ pc[r] = "verify"
    /\ Finish(r)
    /\ UNCHANGED <<clock, payVars, subVars, extVars, credits>>

\* mark_failed after a failed or mismatched verification, or from abandon.
CloseAsFailed(r) ==
    /\ pc[r] = "fail"
    /\ MarkFailed(tx[r])
    /\ Finish(r)
    /\ UNCHANGED <<clock, periodEnd, subVars, extVars, credits>>

\* Mutant of Reread: the payment is marked before the plan is set.
RereadMarksFirst(r) ==
    /\ pc[r] = "reread"
    /\ IF status[tx[r]] = "successful" THEN Finish(r) ELSE Goto(r, "marksuccess")
    /\ UNCHANGED <<clock, payVars, subVars, extVars, credits>>

\* The second look at the row, a plain SELECT.
Reread(r) ==
    /\ pc[r] = "reread"
    /\ IF status[tx[r]] = "successful" THEN Finish(r) ELSE Goto(r, "readsub")
    /\ UNCHANGED <<clock, payVars, subVars, extVars, credits>>

\* Mutant of PeriodStart: buying again restarts the period.
PeriodStartNow(a, t) == t

\* A period still running is extended from its end, any other starts now.
PeriodStart(a, t) ==
    IF plan[a] = "paid" /\ subEnd[a] # NoEnd /\ subEnd[a] > t THEN subEnd[a] ELSE t

ReadSubscription(r) ==
    /\ pc[r] = "readsub"
    /\ start' = [start EXCEPT ![r] = PeriodStart(Owner[tx[r]], now[r])]
    /\ now' = [now EXCEPT ![r] = 0]                      \* not read again
    /\ pc' = [pc EXCEPT ![r] = "setplan"]
    /\ UNCHANGED <<clock, payVars, subVars, extVars, tx, credits>>

SetPlan(r) ==
    LET p == tx[r]
        a == Owner[p]
    IN /\ pc[r] = "setplan"
       /\ credits[p] < MaxCredits
       /\ plan' = [plan EXCEPT ![a] = "paid"]
       /\ subStatus' = [subStatus EXCEPT ![a] = "active"]
       /\ subEnd' = [subEnd EXCEPT ![a] = start[r] + Length[p]]
       /\ credits' = [credits EXCEPT ![p] = @ + 1]
       /\ Goto(r, "marksuccess")
       /\ UNCHANGED <<clock, payVars, extVars>>

\* Mutant of MarkSuccessful: only a pending row is updated, as mark_failed does.
MarkSuccessfulPendingOnly(r) ==
    LET p == tx[r]
    IN /\ pc[r] = "marksuccess"
       /\ IF status[p] = "pending"
            THEN /\ status' = [status EXCEPT ![p] = "successful"]
                 /\ periodEnd' = [periodEnd EXCEPT ![p] = start[r] + Length[p]]
            ELSE UNCHANGED payVars
       /\ Finish(r)
       /\ UNCHANGED <<clock, subVars, extVars, credits>>

\* UPDATE payments SET status = 'successful' ... AND status != 'successful'
MarkSuccessful(r) ==
    LET p == tx[r]
    IN /\ pc[r] = "marksuccess"
       /\ status' = [status EXCEPT ![p] = "successful"]
       /\ periodEnd' = [periodEnd EXCEPT
                          ![p] = IF status[p] = "successful" THEN @ ELSE start[r] + Length[p]]
       /\ Finish(r)
       /\ UNCHANGED <<clock, subVars, extVars, credits>>

\* The handler raises (a locked or full database) or the process stops.  What
\* was committed stays; a webhook that was not answered is delivered again.
Abort(r) ==
    /\ "abort" \in Faults
    /\ pc[r] # "idle"
    /\ Finish(r)
    /\ hook' = [hook EXCEPT ![tx[r]] = IF r = Webhook THEN TRUE ELSE @]
    /\ UNCHANGED <<clock, payVars, subVars, link, charge, credits>>

Tick ==
    /\ clock < MaxClock
    /\ clock' = clock + 1
    /\ UNCHANGED <<payVars, subVars, extVars, reqVars, credits>>

(***************************************************************************)
(* The specification.                                                      *)
(***************************************************************************)
Checkout(p) ==
    StartCheckout(p) \/ CheckoutCreated(p) \/ CheckoutRefused(p) \/ CheckoutAborted(p)

Handle(r) ==
    \/ \E p \in Payments : ReadPayment(r, p)
    \/ Verify(r)
    \/ VerifyUnreachable(r)
    \/ CloseAsFailed(r)
    \/ Reread(r)
    \/ ReadSubscription(r)
    \/ SetPlan(r)
    \/ MarkSuccessful(r)
    \/ Abort(r)

Next ==
    \/ Tick
    \/ \E p \in Payments : Checkout(p) \/ ChargeMoves(p)
    \/ \E r \in Requests : Handle(r)

Spec == Init /\ [][Next]_vars

\* A handler that has started keeps running, and the provider delivers a
\* webhook it still owes.  Customers, charges and time owe nothing.
Proceed(r) ==
    \/ Verify(r) \/ VerifyUnreachable(r) \/ CloseAsFailed(r) \/ Reread(r)
    \/ ReadSubscription(r) \/ SetPlan(r) \/ MarkSuccessful(r)

Deliver(p) == hook[p] /\ ReadPayment(Webhook, p)

(***************************************************************************)
(* Properties.                                                             *)
(***************************************************************************)

\* "The plan is activated only after the provider's verify call says the
\* transaction succeeded" (billing.py, module docstring): a row is successful,
\* and an account holds the paid plan, only if the provider really settled the
\* full price for that row, or for a row of that account.  Redirects carry
\* other payments' transaction ids, and rows close and reopen in between.
NoUnpaidActivation ==
    /\ \A p \in Payments : status[p] = "successful" => charge[p] = "paid"
    /\ \A a \in Accounts \ Operators :
          plan[a] = "paid" => \E p \in Payments : Owner[p] = a /\ charge[p] = "paid"

\* What a request in the middle of its work has in hand: a payment row, past
\* the verification a settled charge, past set_plan a committed period.  The
\* locals outlive other requests' commits, and this is why acting on them
\* after a stale read never activates what was not paid.
VerifiedInHand ==
    \A r \in Requests :
        /\ pc[r] # "idle" => tx[r] \in Payments
        /\ pc[r] \in {"reread", "readsub", "setplan", "marksuccess"} => charge[tx[r]] = "paid"
        /\ pc[r] = "marksuccess" => credits[tx[r]] > 0

\* A payment is recorded as taken only after the period it bought has been
\* committed to the subscription, so an abort between the two commits of
\* _activate never takes money without granting the period.
GrantedBeforeTaken ==
    \A p \in Payments : status[p] = "successful" => credits[p] > 0

\* However redirect, webhook, abandon and refusal interleave, "successful" is
\* final, a failed row can only be redeemed, and no row goes back to pending.
StatusOnlyForward ==
    [][\A p \in Payments :
          /\ status[p] = "successful" => status'[p] = "successful"
          /\ status[p] = "failed" => status'[p] \in {"failed", "successful"}
          /\ status[p] = "pending" => status'[p] # "none"]_status

\* "a row already `successful` is never activated twice, so the redirect and
\* the webhook can both arrive, in either order, any number of times".
ActivatedOnce == \A p \in Payments : credits[p] =< 1

\* "Buying again extends the current period rather than restarting it": no
\* activation moves an account's period end back, NULL being no end at all.
EndNeverShrinks ==
    [][\A a \in Accounts :
          \/ subEnd[a] = NoEnd /\ (plan[a] = "paid" => subEnd'[a] = NoEnd)
          \/ subEnd[a] # NoEnd /\ subEnd'[a] # NoEnd /\ subEnd'[a] >= subEnd[a]]_subEnd

\* A charge that the provider settled in full is eventually activated, the
\* customer having closed the page or not.
PaidIsActivated ==
    \A p \in Payments : charge[p] = "paid" ~> status[p] = "successful"

=============================================================================
