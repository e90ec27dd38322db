--------------------------- MODULE BillingLedger ---------------------------
(***************************************************************************)
(* Billing seen as PaidPeriods: a payment is credited from the commit of   *)
(* set_plan on, and an account is paid until its subscription's period end.*)
(***************************************************************************)
EXTENDS Billing

Credited == {p \in Payments : credits[p] > 0}

PaidUntil == [a \in Accounts |-> IF subEnd[a] = NoEnd THEN 0 ELSE subEnd[a]]

Ledger == INSTANCE PaidPeriods WITH credited <- Credited, until <- PaidUntil

\* While confirmations run one at a time and none is cut short, billing grants
\* each payment once and loses no paid time: it implements PaidPeriods.  With
\* no operator account among Accounts, a NULL end means "never paid".
ImplementsLedger == Ledger!Spec

=============================================================================
