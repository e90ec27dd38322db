----------------------------- MODULE MCBilling -----------------------------
(***************************************************************************)
(* Small instances of Billing: one customer with a short and a longer      *)
(* purchase, next to the provider and the requests the .cfg names.         *)
(***************************************************************************)
EXTENDS Billing

CONSTANTS alice, month, year

MCOwner  == [p \in Payments |-> alice]
MCLength == [p \in Payments |-> IF p = year THEN 3 ELSE 1]

=============================================================================
