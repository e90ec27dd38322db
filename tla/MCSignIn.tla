------------------------------ MODULE MCSignIn ------------------------------
(***************************************************************************)
(* Two small instances of SignIn that share a run.  "sending": every       *)
(* request for a challenge, the clock and the purge, and nobody who signs  *)
(* in.  "entering": one requester, two challenges and every completion.    *)
(***************************************************************************)
EXTENDS SignIn, TLC

CONSTANTS ann, ben, OneAsk

VARIABLE scene

In(s) == scene = s /\ UNCHANGED scene
OneMore == minted + Cardinality({a \in Asks : askPc[a] = "mint"}) < 2

MCInit == SignInit /\ scene \in {"sending", "entering"}

MCNext ==
    \/ \E a \in Asks : In("sending") /\ AskCheck(a)
    \/ \E a \in Asks : In("sending") /\ AskMint(a)
    \/ \E a \in Asks : In("sending") /\ AskSend(a)
    \/ In("sending") /\ Purge
    \/ In("sending") /\ Tick
    \/ In("entering") /\ OneMore /\ AskCheck(OneAsk)
    \/ In("entering") /\ AskMint(OneAsk)
    \/ In("entering") /\ AskSend(OneAsk)
    \/ \E p \in Proofs : In("entering") /\ LinkRead(p)
    \/ \E p \in Proofs : In("entering") /\ CodeRead(p)
    \/ \E p \in Proofs : In("entering") /\ Bump(p)
    \/ \E p \in Proofs : In("entering") /\ Burn(p)
    \/ \E p \in Proofs : In("entering") /\ Consume(p)
    \/ \E p \in Proofs : In("entering") /\ FindUser(p)
    \/ \E p \in Proofs : In("entering") /\ CreateUser(p)
    \/ \E p \in Proofs : In("entering") /\ CreateAccount(p)
    \/ \E p \in Proofs : In("entering") /\ AddMember(p)
    \/ \E p \in Proofs : In("entering") /\ CreateSession(p)
    \/ \E p \in Proofs : In("entering") /\ Stop(p)
    \/ In("entering") /\ Logout
    \/ In("entering") /\ ClaimOwner
    \/ In("entering") /\ clock = 0 /\ Tick

MCSpec == MCInit /\ [][MCNext]_<<signVars, scene>>

Interchangeable ==
    Permutations(Asks \ {OneAsk}) \cup Permutations(Proofs) \cup Permutations(Emails \ Claimed)

=============================================================================
