----------------------------- MODULE MCLedger -----------------------------
(***************************************************************************)
(* BillingLedger with two customers, one of whom buys twice.               *)
(***************************************************************************)
EXTENDS BillingLedger

CONSTANTS alice, bob, month, year, other

MCOwner  == [p \in Payments |-> IF p = other THEN bob ELSE alice]
MCLength == [p \in Payments |-> IF p = year THEN 3 ELSE 1]

=============================================================================
