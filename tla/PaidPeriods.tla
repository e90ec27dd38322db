---------------------------- MODULE PaidPeriods ----------------------------
(***************************************************************************)
(* What billing promises a customer, with no database, request or provider *)
(* in sight: every payment extends its account exactly once, from the end  *)
(* of the running period or from the moment of the confirmation, whichever *)
(* is later ("Buying again extends the current period rather than          *)
(* restarting it", "a row already successful is never activated twice":    *)
(* services/billing.py, module docstring).                                 *)
(***************************************************************************)
EXTENDS Integers

CONSTANTS Accounts, Payments, Owner, Length

VARIABLES
    clock,
    credited,   \* payments whose period has been granted
    until       \* end of each account's paid time; 0 before any

vars == <<clock, credited, until>>

Init ==
    /\ clock = 0
    /\ credited = {}
    /\ until = [a \in Accounts |-> 0]

Later(s, t) == IF s > t THEN s ELSE t

\* t is the moment the confirming request took as "now".
Credit(p) ==
    /\ p \notin credited
    /\ credited' = credited \cup {p}
    /\ \E t \in 0..clock :
          until' = [until EXCEPT ![Owner[p]] = Later(@, t) + Length[p]]
    /\ UNCHANGED clock

Tick ==
    /\ clock' = clock + 1
    /\ UNCHANGED <<credited, until>>

Next == Tick \/ \E p \in Payments : Credit(p)

Spec == Init /\ [][Next]_vars

=============================================================================
