------------------------------ MODULE MCAlerts ------------------------------
(***************************************************************************)
(* Small instances of Alerts: a filing rule of the account alice and ann   *)
(* share, a news rule and a price rule of bob's.                           *)
(***************************************************************************)
EXTENDS Alerts

CONSTANTS phone, alice, ann, bob, onFiling, onNews, onMove, filing, report, news, move

MCMembers == [r \in Rules |-> IF r = onFiling THEN {alice, ann} ELSE {bob}]
MCKind == [x \in Rules \cup Items |->
             IF x \in {onNews, news} THEN "news" ELSE IF x \in {onMove, move} THEN "price" ELSE "filing"]
MCWatches == {e \in Rules \X Items : MCKind[e[1]] = MCKind[e[2]]}

=============================================================================
