--------------------------- MODULE BillingProofs ---------------------------
(***************************************************************************)
(* Theorems about Billing, for every number of accounts, payments and      *)
(* requests, and under every fault: nothing below bounds Faults, MaxClock  *)
(* or MaxCredits.                                                          *)
(***************************************************************************)
EXTENDS BillingLedger, TLAPS

LEMMA WebhookIsRequest == Webhook \in Requests
  BY DEF Requests

(***************************************************************************)
(* Typing.                                                                 *)
(***************************************************************************)
LEMMA TypingInit == Init => TypeOK
  BY OwnerAssumption, NullAssumption DEF Init, TypeOK, Statuses, Steps

\* A request in the middle of its work holds a payment: TypeOK alone does not
\* say so, and Owner and Length are only defined on payments.
HoldsPayment == \A r \in Requests : pc[r] # "idle" => tx[r] \in Payments

LEMMA FinishTyping ==
  ASSUME TypeOK, HoldsPayment, NEW r \in Requests, Finish(r)
  PROVE  /\ pc' \in [Requests -> Steps] /\ tx' \in [Requests -> Payments \cup {NoTx}]
         /\ now' \in [Requests -> Nat] /\ start' \in [Requests -> Nat]
         /\ HoldsPayment'
  BY DEF TypeOK, HoldsPayment, Finish, Steps

LEMMA GotoTyping ==
  ASSUME TypeOK, HoldsPayment, NEW r \in Requests, NEW step \in Steps, Goto(r, step),
         pc[r] # "idle"
  PROVE  /\ pc' \in [Requests -> Steps] /\ tx' \in [Requests -> Payments \cup {NoTx}]
         /\ now' \in [Requests -> Nat] /\ start' \in [Requests -> Nat]
         /\ HoldsPayment'
  BY DEF TypeOK, HoldsPayment, Goto, Steps

LEMMA MarkFailedTyping ==
  ASSUME TypeOK, NEW p, MarkFailed(p)
  PROVE  status' \in [Payments -> Statuses]
  BY DEF TypeOK, MarkFailed, Statuses

LEMMA TypingStep ==
  ASSUME TypeOK, HoldsPayment, [Next]_vars
  PROVE  TypeOK' /\ HoldsPayment'
<1> USE DEF payVars, subVars, extVars, reqVars
<1>1. CASE Tick
  BY <1>1 DEF Tick, TypeOK, HoldsPayment
<1>2. ASSUME NEW p \in Payments, Checkout(p)
      PROVE  TypeOK' /\ HoldsPayment'
  <2>1. CASE StartCheckout(p)
    BY <2>1 DEF StartCheckout, TypeOK, HoldsPayment, Statuses
  <2>2. CASE CheckoutCreated(p)
    BY <2>2 DEF CheckoutCreated, TypeOK, HoldsPayment
  <2>3. CASE CheckoutRefused(p)
    BY <2>3, MarkFailedTyping DEF CheckoutRefused, TypeOK, HoldsPayment
  <2>4. CASE CheckoutAborted(p)
    BY <2>4 DEF CheckoutAborted, TypeOK, HoldsPayment
  <2> QED BY <1>2, <2>1, <2>2, <2>3, <2>4 DEF Checkout
<1>3. ASSUME NEW p \in Payments, ChargeMoves(p)
      PROVE  TypeOK' /\ HoldsPayment'
  BY <1>3 DEF ChargeMoves, TypeOK, HoldsPayment
<1>4. ASSUME NEW r \in Requests, Handle(r)
      PROVE  TypeOK' /\ HoldsPayment'
  <2>1. ASSUME NEW p \in Payments, ReadPayment(r, p)
        PROVE  TypeOK' /\ HoldsPayment'
    <3>1. hook' \in [Payments -> BOOLEAN]
      BY <2>1 DEF ReadPayment, TypeOK
    <3>2. CASE status[p] = "successful"
      BY <2>1, <3>1, <3>2 DEF ReadPayment, TypeOK, HoldsPayment
    <3>3. CASE status[p] # "successful"
      <4>1. PICK step \in {"fail", "verify"} : pc' = [pc EXCEPT ![r] = step]
        BY <2>1, <3>3 DEF ReadPayment
      <4>2. /\ tx' = [tx EXCEPT ![r] = p]
            /\ now' = [now EXCEPT ![r] = clock]
            /\ start' = start
        BY <2>1, <3>3 DEF ReadPayment
      <4>3. pc' \in [Requests -> Steps] /\ HoldsPayment'
        BY <4>1, <4>2 DEF TypeOK, HoldsPayment, Steps
      <4>4. tx' \in [Requests -> Payments \cup {NoTx}] /\ now' \in [Requests -> Nat]
        BY <4>2 DEF TypeOK
      <4> QED BY <2>1, <3>1, <4>2, <4>3, <4>4 DEF ReadPayment, TypeOK
    <3> QED BY <3>2, <3>3
  <2>2. CASE Verify(r)
    <3>1. Finish(r) \/ Goto(r, "fail") \/ Goto(r, "reread")
      BY <2>2 DEF Verify
    <3>2. "fail" \in Steps /\ "reread" \in Steps
      BY DEF Steps
    <3>3. /\ pc' \in [Requests -> Steps] /\ tx' \in [Requests -> Payments \cup {NoTx}]
          /\ now' \in [Requests -> Nat] /\ start' \in [Requests -> Nat]
          /\ HoldsPayment'
      <4>1. CASE Finish(r) BY <4>1, FinishTyping
      <4>2. CASE Goto(r, "fail") BY <4>2, <2>2, <3>2, GotoTyping DEF Verify
      <4>3. CASE Goto(r, "reread") BY <4>3, <2>2, <3>2, GotoTyping DEF Verify
      <4> QED BY <3>1, <4>1, <4>2, <4>3
    <3> QED BY <2>2, <3>3 DEF Verify, TypeOK
  <2>3. CASE VerifyUnreachable(r)
    BY <2>3, FinishTyping DEF VerifyUnreachable, TypeOK
  <2>4. CASE CloseAsFailed(r)
    BY <2>4, FinishTyping, MarkFailedTyping DEF CloseAsFailed, TypeOK
  <2>5. CASE Reread(r)
    <3>1. "readsub" \in Steps
      BY DEF Steps
    <3>2. CASE Finish(r) BY <3>2, <2>5, FinishTyping DEF Reread, TypeOK
    <3>3. CASE Goto(r, "readsub") BY <3>1, <3>3, <2>5, GotoTyping DEF Reread, TypeOK
    <3> QED BY <2>5, <3>2, <3>3 DEF Reread
  <2>6. CASE ReadSubscription(r)
    <3>1. tx[r] \in Payments /\ Owner[tx[r]] \in Accounts
      BY <2>6, OwnerAssumption DEF ReadSubscription, HoldsPayment
    <3>2. PeriodStart(Owner[tx[r]], now[r]) \in Nat
      BY <3>1 DEF PeriodStart, TypeOK
    <3> QED BY <2>6, <3>2 DEF ReadSubscription, TypeOK, HoldsPayment, Steps
  <2>7. CASE SetPlan(r)
    <3>1. tx[r] \in Payments /\ Length[tx[r]] \in Nat
      BY <2>7, LengthAssumption DEF SetPlan, HoldsPayment
    <3>2. start[r] + Length[tx[r]] \in Nat
      BY <3>1 DEF TypeOK
    <3>3. "marksuccess" \in Steps
      BY DEF Steps
    <3>4. /\ pc' \in [Requests -> Steps] /\ tx' \in [Requests -> Payments \cup {NoTx}]
          /\ now' \in [Requests -> Nat] /\ start' \in [Requests -> Nat]
          /\ HoldsPayment'
      BY <2>7, <3>3, GotoTyping DEF SetPlan
    <3>5. /\ plan' \in [Accounts -> {"free", "paid"}]
          /\ subStatus' \in [Accounts -> {"active", "expired"}]
      BY <2>7 DEF SetPlan, TypeOK
    <3>6. subEnd' \in [Accounts -> Nat \cup {NoEnd}]
      BY <2>7, <3>2 DEF SetPlan, TypeOK
    <3>7. credits' \in [Payments -> Nat]
      BY <2>7, <3>1 DEF SetPlan, TypeOK
    <3>8. UNCHANGED <<clock, status, periodEnd, link, charge, hook>>
      BY <2>7 DEF SetPlan
    <3> QED BY <3>4, <3>5, <3>6, <3>7, <3>8 DEF TypeOK
  <2>8. CASE MarkSuccessful(r)
    <3>1. tx[r] \in Payments /\ Length[tx[r]] \in Nat
      BY <2>8, LengthAssumption DEF MarkSuccessful, HoldsPayment
    <3>2. start[r] + Length[tx[r]] \in Nat
      BY <3>1 DEF TypeOK
    <3>3. status' \in [Payments -> Statuses] /\ periodEnd' \in [Payments -> Nat]
      BY <2>8, <3>1, <3>2 DEF MarkSuccessful, TypeOK, Statuses
    <3> QED BY <2>8, <3>3, FinishTyping DEF MarkSuccessful, TypeOK
  <2>9. CASE Abort(r)
    BY <2>9, FinishTyping DEF Abort, TypeOK
  <2> QED BY <1>4, <2>1, <2>2, <2>3, <2>4, <2>5, <2>6, <2>7, <2>8, <2>9 DEF Handle
<1>5. CASE UNCHANGED vars
  BY <1>5 DEF vars, TypeOK, HoldsPayment
<1> QED BY <1>1, <1>2, <1>3, <1>4, <1>5 DEF Next

\* Every variable keeps its type, whatever requests, payments and faults there
\* are.
THEOREM TypeCorrect == Spec => []TypeOK
<1>1. Init => TypeOK /\ HoldsPayment
  BY TypingInit DEF Init, HoldsPayment
<1>2. TypeOK /\ HoldsPayment /\ [Next]_vars => (TypeOK /\ HoldsPayment)'
  BY TypingStep
<1> QED BY <1>1, <1>2, PTL DEF Spec

(***************************************************************************)
(* Nothing is activated that was not paid.                                 *)
(*                                                                         *)
(* NoUnpaidActivation and GrantedBeforeTaken are not inductive: SetPlan    *)
(* and MarkSuccessful act on what earlier steps of the request saw.        *)
(* VerifiedInHand carries that along.                                      *)
(***************************************************************************)
SafeInv ==
    /\ TypeOK
    /\ HoldsPayment
    /\ VerifiedInHand
    /\ NoUnpaidActivation
    /\ GrantedBeforeTaken

LEMMA SafeInit == Init => SafeInv
  BY TypingInit DEF Init, SafeInv, HoldsPayment, VerifiedInHand, NoUnpaidActivation,
     GrantedBeforeTaken

\* A request that ends, or that moves on with its payment in hand, keeps the
\* invariant as long as the tables do.
LEMMA FinishInHand ==
  ASSUME SafeInv, NEW r \in Requests, Finish(r), UNCHANGED <<charge, credits>>
  PROVE  VerifiedInHand'
  BY DEF SafeInv, TypeOK, VerifiedInHand, Finish

LEMMA GotoInHand ==
  ASSUME SafeInv, NEW r \in Requests, NEW step \in Steps, Goto(r, step), pc[r] # "idle",
         \A p \in Payments : credits'[p] >= credits[p],
         step \in {"reread", "readsub", "setplan", "marksuccess"} => charge[tx[r]] = "paid",
         step = "marksuccess" => credits'[tx[r]] > 0,
         charge' = charge, credits' \in [Payments -> Nat]
  PROVE  VerifiedInHand'
<1>1. ASSUME NEW q \in Requests
      PROVE  /\ pc'[q] # "idle" => tx'[q] \in Payments
             /\ pc'[q] \in {"reread", "readsub", "setplan", "marksuccess"} => charge'[tx'[q]] = "paid"
             /\ pc'[q] = "marksuccess" => credits'[tx'[q]] > 0
  <2>1. tx' = tx /\ pc' = [pc EXCEPT ![r] = step]
    BY DEF Goto
  <2>2. CASE q = r
    BY <2>1, <2>2 DEF SafeInv, TypeOK, VerifiedInHand
  <2>3. CASE q # r
    <3>1. pc'[q] = pc[q]
      BY <2>1, <2>3 DEF SafeInv, TypeOK
    <3>2. CASE pc[q] = "marksuccess"
      <4>1. tx[q] \in Payments /\ credits[tx[q]] > 0
        BY <3>2 DEF SafeInv, VerifiedInHand
      <4>2. credits'[tx[q]] >= credits[tx[q]] /\ credits[tx[q]] \in Nat /\ credits'[tx[q]] \in Nat
        BY <4>1 DEF SafeInv, TypeOK
      <4>3. credits'[tx[q]] > 0
        BY <4>1, <4>2
      <4> QED BY <2>1, <3>1, <4>3 DEF SafeInv, VerifiedInHand
    <3>3. CASE pc[q] # "marksuccess"
      BY <2>1, <3>1, <3>3 DEF SafeInv, VerifiedInHand
    <3> QED BY <3>2, <3>3
  <2> QED BY <2>2, <2>3
<1> QED BY <1>1 DEF VerifiedInHand

\* The tables keep the invariant when statuses do not become successful, plans
\* stay and charges stay.
LEMMA TablesKept ==
  ASSUME SafeInv, UNCHANGED <<plan, charge, credits>>,
         \A p \in Payments : status'[p] = "successful" => status[p] = "successful"
  PROVE  NoUnpaidActivation' /\ GrantedBeforeTaken'
  BY DEF SafeInv, NoUnpaidActivation, GrantedBeforeTaken

LEMMA MarkFailedKeeps ==
  ASSUME TypeOK, NEW q, MarkFailed(q), NEW p \in Payments
  PROVE  /\ status'[p] = "successful" <=> status[p] = "successful"
         /\ status[p] = "failed" => status'[p] = "failed"
         /\ status[p] # "none" => status'[p] # "none"
         /\ status[p] = "pending" => status'[p] \in {"pending", "failed"}
  BY DEF TypeOK, MarkFailed

LEMMA SafeStep ==
  ASSUME SafeInv, [Next]_vars
  PROVE  SafeInv'
<1> USE DEF payVars, subVars, extVars, reqVars
<1>0. TypeOK' /\ HoldsPayment'
  BY TypingStep DEF SafeInv
<1> SUFFICES VerifiedInHand' /\ NoUnpaidActivation' /\ GrantedBeforeTaken'
  BY <1>0 DEF SafeInv
<1>1. CASE Tick
  <2>1. VerifiedInHand'
    BY <1>1 DEF Tick, SafeInv, VerifiedInHand
  <2> QED BY <1>1, <2>1, TablesKept DEF Tick
<1>2. ASSUME NEW p \in Payments, Checkout(p)
      PROVE  VerifiedInHand' /\ NoUnpaidActivation' /\ GrantedBeforeTaken'
  <2>1. UNCHANGED <<plan, charge, credits, pc, tx>>
    BY <1>2 DEF Checkout, StartCheckout, CheckoutCreated, CheckoutRefused, CheckoutAborted
  <2>2. \A q \in Payments : status'[q] = "successful" => status[q] = "successful"
    <3>1. CASE StartCheckout(p)
      BY <3>1 DEF StartCheckout, SafeInv, TypeOK
    <3>2. CASE CheckoutRefused(p)
      BY <3>2, MarkFailedKeeps DEF CheckoutRefused, SafeInv
    <3> QED BY <1>2, <3>1, <3>2 DEF Checkout, CheckoutCreated, CheckoutAborted
  <2>3. VerifiedInHand'
    BY <2>1 DEF SafeInv, VerifiedInHand
  <2> QED BY <2>1, <2>2, <2>3, TablesKept
<1>3. ASSUME NEW p \in Payments, ChargeMoves(p)
      PROVE  VerifiedInHand' /\ NoUnpaidActivation' /\ GrantedBeforeTaken'
  <2>1. \A q \in Payments : charge[q] = "paid" => charge'[q] = "paid"
    BY <1>3 DEF ChargeMoves, SafeInv, TypeOK
  <2>2. UNCHANGED <<status, plan, credits, pc, tx>>
    BY <1>3 DEF ChargeMoves
  <2>3. VerifiedInHand'
    BY <2>1, <2>2 DEF SafeInv, VerifiedInHand
  <2>4. NoUnpaidActivation' /\ GrantedBeforeTaken'
    BY <2>1, <2>2 DEF SafeInv, NoUnpaidActivation, GrantedBeforeTaken
  <2> QED BY <2>3, <2>4
<1>4. ASSUME NEW r \in Requests, Handle(r)
      PROVE  VerifiedInHand' /\ NoUnpaidActivation' /\ GrantedBeforeTaken'
  <2>1. ASSUME NEW p \in Payments, ReadPayment(r, p)
        PROVE  VerifiedInHand' /\ NoUnpaidActivation' /\ GrantedBeforeTaken'
    <3>1. UNCHANGED <<status, plan, charge, credits>>
      BY <2>1 DEF ReadPayment
    <3>2. CASE status[p] = "successful"
      <4>1. VerifiedInHand'
        BY <2>1, <3>2 DEF ReadPayment, SafeInv, VerifiedInHand
      <4> QED BY <3>1, <4>1, TablesKept
    <3>3. CASE status[p] # "successful"
      <4>1. PICK step \in {"fail", "verify"} : pc' = [pc EXCEPT ![r] = step]
        BY <2>1, <3>3 DEF ReadPayment
      <4>2. tx' = [tx EXCEPT ![r] = p]
        BY <2>1, <3>3 DEF ReadPayment
      <4>3. VerifiedInHand'
        BY <3>1, <4>1, <4>2 DEF SafeInv, TypeOK, VerifiedInHand
      <4> QED BY <3>1, <4>3, TablesKept
    <3> QED BY <3>2, <3>3
  <2>2. CASE Verify(r)
    <3>1. UNCHANGED <<status, plan, charge, credits>> /\ pc[r] = "verify"
      BY <2>2 DEF Verify
    <3>2. \/ Finish(r) \/ Goto(r, "fail")
          \/ charge[tx[r]] = "paid" /\ Goto(r, "reread")
      BY <2>2 DEF Verify, Matches
    <3>3. \A p \in Payments : credits'[p] >= credits[p]
      BY <3>1 DEF SafeInv, TypeOK
    <3>4. credits' \in [Payments -> Nat]
      BY <3>1 DEF SafeInv, TypeOK
    <3>5. "fail" \in Steps /\ "reread" \in Steps
      BY DEF Steps
    <3>6. CASE Finish(r) BY <3>1, <3>6, FinishInHand, TablesKept
    <3>7. CASE Goto(r, "fail")
      BY <3>1, <3>3, <3>4, <3>5, <3>7, GotoInHand, TablesKept
    <3>8. CASE charge[tx[r]] = "paid" /\ Goto(r, "reread")
      BY <3>1, <3>3, <3>4, <3>5, <3>8, GotoInHand, TablesKept
    <3> QED BY <3>2, <3>6, <3>7, <3>8
  <2>3. CASE VerifyUnreachable(r)
    BY <2>3, FinishInHand, TablesKept DEF VerifyUnreachable
  <2>4. CASE CloseAsFailed(r)
    <3>1. \A q \in Payments : status'[q] = "successful" => status[q] = "successful"
      BY <2>4, MarkFailedKeeps DEF CloseAsFailed, SafeInv
    <3> QED BY <2>4, <3>1, FinishInHand, TablesKept DEF CloseAsFailed
  <2>5. CASE Reread(r)
    <3>1. UNCHANGED <<status, plan, charge, credits>> /\ pc[r] = "reread"
      BY <2>5 DEF Reread
    <3>2. charge[tx[r]] = "paid"
      BY <3>1 DEF SafeInv, VerifiedInHand
    <3>3. /\ \A p \in Payments : credits'[p] >= credits[p]
          /\ credits' \in [Payments -> Nat]
          /\ "readsub" \in Steps
      BY <3>1 DEF SafeInv, TypeOK, Steps
    <3>4. CASE Finish(r) BY <3>1, <3>4, FinishInHand, TablesKept
    <3>5. CASE Goto(r, "readsub")
      BY <3>1, <3>2, <3>3, <3>5, GotoInHand, TablesKept
    <3> QED BY <2>5, <3>4, <3>5 DEF Reread
  <2>6. CASE ReadSubscription(r)
    <3>1. VerifiedInHand'
      BY <2>6 DEF ReadSubscription, SafeInv, TypeOK, VerifiedInHand
    <3> QED BY <2>6, <3>1, TablesKept DEF ReadSubscription
  <2>7. CASE SetPlan(r)
    <3>1. tx[r] \in Payments /\ charge[tx[r]] = "paid"
      BY <2>7 DEF SetPlan, SafeInv, VerifiedInHand
    <3>2. /\ plan' = [plan EXCEPT ![Owner[tx[r]]] = "paid"]
          /\ credits' = [credits EXCEPT ![tx[r]] = @ + 1]
          /\ Goto(r, "marksuccess") /\ pc[r] = "setplan"
          /\ UNCHANGED <<status, charge>>
      BY <2>7 DEF SetPlan
    <3>3. /\ credits' \in [Payments -> Nat]
          /\ \A p \in Payments : credits'[p] >= credits[p]
          /\ credits'[tx[r]] > 0
      BY <3>1, <3>2 DEF SafeInv, TypeOK
    <3>4. VerifiedInHand'
      <4>1. "marksuccess" \in Steps BY DEF Steps
      <4> QED BY <3>1, <3>2, <3>3, <4>1, GotoInHand
    <3>5. NoUnpaidActivation'
      <4>1. ASSUME NEW a \in Accounts \ Operators, plan'[a] = "paid"
            PROVE  \E p \in Payments : Owner[p] = a /\ charge'[p] = "paid"
        <5>1. CASE a = Owner[tx[r]] BY <3>1, <3>2, <5>1
        <5>2. CASE a # Owner[tx[r]]
          BY <3>2, <4>1, <5>2 DEF SafeInv, TypeOK, NoUnpaidActivation
        <5> QED BY <5>1, <5>2
      <4> QED BY <3>2, <4>1 DEF SafeInv, NoUnpaidActivation
    <3>6. GrantedBeforeTaken'
      <4>1. ASSUME NEW p \in Payments, status'[p] = "successful"
            PROVE  credits'[p] > 0
        <5>1. credits[p] > 0 /\ credits[p] \in Nat /\ credits'[p] \in Nat /\ credits'[p] >= credits[p]
          BY <3>2, <3>3, <4>1 DEF SafeInv, TypeOK, GrantedBeforeTaken
        <5> QED BY <5>1
      <4> QED BY <4>1 DEF GrantedBeforeTaken
    <3> QED BY <3>4, <3>5, <3>6
  <2>8. CASE MarkSuccessful(r)
    <3>1. tx[r] \in Payments /\ charge[tx[r]] = "paid" /\ credits[tx[r]] > 0
      BY <2>8 DEF MarkSuccessful, SafeInv, VerifiedInHand
    <3>2. /\ status' = [status EXCEPT ![tx[r]] = "successful"]
          /\ Finish(r) /\ UNCHANGED <<plan, charge, credits>>
      BY <2>8 DEF MarkSuccessful
    <3>3. NoUnpaidActivation' /\ GrantedBeforeTaken'
      BY <3>1, <3>2 DEF SafeInv, TypeOK, NoUnpaidActivation, GrantedBeforeTaken
    <3> QED BY <3>2, <3>3, FinishInHand
  <2>9. CASE Abort(r)
    BY <2>9, FinishInHand, TablesKept DEF Abort
  <2> QED BY <1>4, <2>1, <2>2, <2>3, <2>4, <2>5, <2>6, <2>7, <2>8, <2>9 DEF Handle
<1>5. CASE UNCHANGED vars
  <2>1. VerifiedInHand'
    BY <1>5 DEF vars, SafeInv, VerifiedInHand
  <2> QED BY <1>5, <2>1, TablesKept DEF vars
<1> QED BY <1>1, <1>2, <1>3, <1>4, <1>5 DEF Next

LEMMA SafeAlways == Spec => []SafeInv
<1>1. Init => SafeInv
  BY SafeInit
<1>2. SafeInv /\ [Next]_vars => SafeInv'
  BY SafeStep
<1> QED BY <1>1, <1>2, PTL DEF Spec

\* No row is successful and no customer's plan is paid unless the provider
\* settled the price: the module docstring's "the plan is activated only after
\* the provider's verify call says the transaction succeeded".
THEOREM ActivationIsPaid == Spec => []NoUnpaidActivation
<1>1. SafeInv => NoUnpaidActivation
  BY DEF SafeInv
<1> QED BY <1>1, SafeAlways, PTL

\* _activate commits the period before it commits the payment as taken.
THEOREM TakenIsGranted == Spec => []GrantedBeforeTaken
<1>1. SafeInv => GrantedBeforeTaken
  BY DEF SafeInv
<1> QED BY <1>1, SafeAlways, PTL

(***************************************************************************)
(* Payment statuses only move forward.                                     *)
(***************************************************************************)
Forward ==
    \A p \in Payments :
        /\ status[p] = "successful" => status'[p] = "successful"
        /\ status[p] = "failed" => status'[p] \in {"failed", "successful"}
        /\ status[p] = "pending" => status'[p] # "none"

LEMMA ForwardStep ==
  ASSUME TypeOK, HoldsPayment, [Next]_vars
  PROVE  [Forward]_status
<1> USE DEF payVars
<1> SUFFICES ASSUME status' # status PROVE Forward
  OBVIOUS
<1>1. ASSUME NEW p \in Payments, StartCheckout(p) PROVE Forward
  BY <1>1 DEF StartCheckout, TypeOK, Forward
<1>2. ASSUME NEW p, MarkFailed(p) PROVE Forward
  BY <1>2, MarkFailedKeeps DEF Forward, TypeOK, Statuses
<1>3. ASSUME NEW r \in Requests, MarkSuccessful(r) PROVE Forward
  BY <1>3 DEF MarkSuccessful, TypeOK, HoldsPayment, Forward
<1>4. \/ \E p \in Payments : StartCheckout(p)
      \/ \E p \in Payments : CheckoutRefused(p)
      \/ \E r \in Requests : CloseAsFailed(r)
      \/ \E r \in Requests : MarkSuccessful(r)
  BY DEF Next, vars, Tick, Checkout, CheckoutCreated, CheckoutAborted, ChargeMoves, Handle,
         ReadPayment, Verify, VerifyUnreachable, Reread, ReadSubscription, SetPlan, Abort
<1> QED BY <1>1, <1>2, <1>3, <1>4 DEF CheckoutRefused, CloseAsFailed

\* "successful" is final, a failed row can only be redeemed, and no row loses
\* its place: mark_failed's and mark_successful's WHERE clauses are enough,
\* whatever the requests that run them read before.
THEOREM StatusMovesForward == Spec => StatusOnlyForward
<1>1. Spec => [](TypeOK /\ HoldsPayment)
  <2>1. SafeInv => TypeOK /\ HoldsPayment
    BY DEF SafeInv
  <2> QED BY <2>1, SafeAlways, PTL
<1>2. TypeOK /\ HoldsPayment /\ [Next]_vars => [Forward]_status
  BY ForwardStep
<1> QED BY <1>1, <1>2, PTL DEF Spec, StatusOnlyForward, Forward

(***************************************************************************)
(* What billing guarantees when confirmations do not overlap: the webhook, *)
(* serialised by the event loop, is the only request that activates        *)
(* (Returns = {}), cancelled return pages being free to interleave.        *)
(*                                                                         *)
(*   NoPeriodShrinks: with aborts allowed, no activation moves an          *)
(*     account's end back.                                                 *)
(*   LedgerStep: without aborts, every step is a step of PaidPeriods or    *)
(*     a stutter, so each payment extends its account exactly once.        *)
(*                                                                         *)
(* Both need the same fact about the request in hand: the start it holds   *)
(* is still right when set_plan commits, because nobody else wrote the     *)
(* subscription since it was read.                                         *)
(***************************************************************************)
Working == {"verify", "reread", "readsub", "setplan"}

\* A cancelled return page only ever closes a row.
CancelsOnlyClose == \A r \in Cancels : pc[r] \in {"idle", "fail"}

\* An account's plan is paid exactly when its period end is set.
PaidHasEnd == \A a \in Accounts : plan[a] = "paid" <=> subEnd[a] # NoEnd

\* The moment a request works with is not in the future.
NowIsPast == \A r \in Requests : now[r] \in 0..clock

\* The start in hand is the later of the running period's end and a past
\* moment.
StartFits ==
    pc[Webhook] = "setplan" =>
        \E t \in 0..clock :
            start[Webhook] = Ledger!Later(PaidUntil[Owner[tx[Webhook]]], t)

SerialInv == SafeInv /\ CancelsOnlyClose /\ PaidHasEnd /\ NowIsPast /\ StartFits

Serial == Returns = {} /\ Operators = {}

LEMMA SerialInit ==
  ASSUME Serial, Init
  PROVE  SerialInv
<1>1. SafeInv
  BY SafeInit
<1>2. CancelsOnlyClose /\ NowIsPast /\ StartFits
  BY WebhookIsRequest DEF Init, CancelsOnlyClose, NowIsPast, StartFits, Requests
<1>3. PaidHasEnd
  BY DEF Init, Serial, PaidHasEnd
<1> QED BY <1>1, <1>2, <1>3 DEF SerialInv

\* The subscriptions and the clock stand still: the invariant rests on what the
\* requests do alone.
LEMMA FinishSerial ==
  ASSUME SerialInv, NEW r \in Requests, Finish(r), UNCHANGED <<clock, subVars>>
  PROVE  CancelsOnlyClose' /\ PaidHasEnd' /\ NowIsPast' /\ StartFits'
<1> USE DEF subVars
<1>1. PaidHasEnd'
  BY DEF SerialInv, PaidHasEnd
<1>2. CancelsOnlyClose'
  BY DEF SerialInv, SafeInv, TypeOK, CancelsOnlyClose, Finish, Requests
<1>3. NowIsPast'
  BY DEF SerialInv, SafeInv, TypeOK, NowIsPast, Finish
<1>4. StartFits'
  <2>1. CASE r = Webhook
    BY <2>1 DEF SerialInv, SafeInv, TypeOK, StartFits, Finish
  <2>2. CASE r # Webhook
    <3>1. pc'[Webhook] = pc[Webhook] /\ tx'[Webhook] = tx[Webhook] /\ start'[Webhook] = start[Webhook]
      BY <2>2, WebhookIsRequest DEF SerialInv, SafeInv, TypeOK, Finish
    <3> QED BY <3>1 DEF SerialInv, StartFits, PaidUntil
  <2> QED BY <2>1, <2>2
<1> QED BY <1>1, <1>2, <1>3, <1>4

\* Only the webhook gets past "fail", and it moves to a step where no start is
\* in hand.
LEMMA GotoSerial ==
  ASSUME SerialInv, NEW step \in Steps \ {"setplan"}, Goto(Webhook, step),
         UNCHANGED <<clock, subVars>>
  PROVE  CancelsOnlyClose' /\ PaidHasEnd' /\ NowIsPast' /\ StartFits'
<1> USE DEF subVars
<1>1. PaidHasEnd' /\ NowIsPast'
  BY DEF SerialInv, PaidHasEnd, NowIsPast, Goto
<1>2. CancelsOnlyClose'
  BY RequestAssumption DEF SerialInv, SafeInv, TypeOK, CancelsOnlyClose, Goto, Requests
<1>3. pc'[Webhook] = step
  BY WebhookIsRequest DEF SerialInv, SafeInv, TypeOK, Goto
<1> QED BY <1>1, <1>2, <1>3 DEF StartFits

\* Nothing but the tables of payments and of the provider changes.
LEMMA IdleSerial ==
  ASSUME SerialInv, UNCHANGED <<clock, subVars, reqVars>>
  PROVE  CancelsOnlyClose' /\ PaidHasEnd' /\ NowIsPast' /\ StartFits'
  BY DEF subVars, reqVars, SerialInv, CancelsOnlyClose, PaidHasEnd, NowIsPast, StartFits, PaidUntil

\* Who can take which step.
LEMMA OnlyWebhookWorks ==
  ASSUME Serial, SerialInv, NEW r \in Requests, pc[r] \notin {"idle", "fail"}
  PROVE  r = Webhook
  BY DEF Serial, SerialInv, CancelsOnlyClose, Requests

LEMMA StartRead ==
  ASSUME SerialInv, NEW a \in Accounts, NEW t \in 0..clock
  PROVE  PeriodStart(a, t) = Ledger!Later(PaidUntil[a], t)
  BY DEF SerialInv, PaidHasEnd, PeriodStart, PaidUntil, Ledger!Later, SafeInv, TypeOK

LEMMA SerialStep ==
  ASSUME Serial, SerialInv, [Next]_vars
  PROVE  SerialInv'
<1> USE DEF payVars, subVars, extVars
<1>0. SafeInv'
  BY SafeStep DEF SerialInv
<1> SUFFICES CancelsOnlyClose' /\ PaidHasEnd' /\ NowIsPast' /\ StartFits'
  BY <1>0 DEF SerialInv
<1>1. CASE Tick
  <2>1. 0..clock \subseteq 0..clock'
    BY <1>1 DEF Tick, SerialInv, SafeInv, TypeOK
  <2>2. UNCHANGED <<subEnd, plan, pc, tx, now, start>>
    BY <1>1 DEF Tick, reqVars
  <2>3. CancelsOnlyClose' /\ PaidHasEnd' /\ NowIsPast'
    BY <2>1, <2>2 DEF SerialInv, CancelsOnlyClose, PaidHasEnd, NowIsPast
  <2>4. StartFits'
    BY <2>1, <2>2 DEF SerialInv, StartFits, PaidUntil
  <2> QED BY <2>3, <2>4
<1>2. ASSUME NEW p \in Payments, Checkout(p)
      PROVE  CancelsOnlyClose' /\ PaidHasEnd' /\ NowIsPast' /\ StartFits'
  BY <1>2, IdleSerial
     DEF Checkout, StartCheckout, CheckoutCreated, CheckoutRefused, CheckoutAborted
<1>3. ASSUME NEW p \in Payments, ChargeMoves(p)
      PROVE  CancelsOnlyClose' /\ PaidHasEnd' /\ NowIsPast' /\ StartFits'
  BY <1>3, IdleSerial DEF ChargeMoves
<1>4. ASSUME NEW r \in Requests, Handle(r)
      PROVE  CancelsOnlyClose' /\ PaidHasEnd' /\ NowIsPast' /\ StartFits'
  <2>1. ASSUME NEW p \in Payments, ReadPayment(r, p)
        PROVE  CancelsOnlyClose' /\ PaidHasEnd' /\ NowIsPast' /\ StartFits'
    <3>1. UNCHANGED <<clock, subVars>>
      BY <2>1 DEF ReadPayment
    <3>2. CASE status[p] = "successful"
      BY <2>1, <3>1, <3>2, IdleSerial DEF ReadPayment
    <3>3. CASE status[p] # "successful"
      <4>1. /\ pc' = [pc EXCEPT ![r] = IF r \in Cancels THEN "fail" ELSE "verify"]
            /\ tx' = [tx EXCEPT ![r] = p]
            /\ now' = [now EXCEPT ![r] = clock]
            /\ start' = start
        BY <2>1, <3>3 DEF ReadPayment
      <4>2. CancelsOnlyClose'
        BY <4>1 DEF SerialInv, SafeInv, TypeOK, CancelsOnlyClose, Requests
      <4>3. NowIsPast'
        BY <3>1, <4>1 DEF SerialInv, SafeInv, TypeOK, NowIsPast
      <4>4. PaidHasEnd'
        BY <3>1 DEF SerialInv, PaidHasEnd
      <4>5. StartFits'
        <5>1. CASE r = Webhook
          BY <4>1, <5>1 DEF SerialInv, SafeInv, TypeOK, StartFits
        <5>2. CASE r # Webhook
          <6>1. pc'[Webhook] = pc[Webhook] /\ tx'[Webhook] = tx[Webhook]
            BY <4>1, <5>2, WebhookIsRequest DEF SerialInv, SafeInv, TypeOK
          <6> QED BY <3>1, <4>1, <6>1 DEF SerialInv, StartFits, PaidUntil
        <5> QED BY <5>1, <5>2
      <4> QED BY <4>2, <4>3, <4>4, <4>5
    <3> QED BY <3>2, <3>3
  <2>2. CASE Verify(r)
    <3>1. r = Webhook
      BY <2>2, OnlyWebhookWorks DEF Verify
    <3>2. "fail" \in Steps \ {"setplan"} /\ "reread" \in Steps \ {"setplan"}
      BY DEF Steps
    <3>3. Finish(r) \/ Goto(Webhook, "fail") \/ Goto(Webhook, "reread")
      BY <2>2, <3>1 DEF Verify
    <3>4. UNCHANGED <<clock, subVars>>
      BY <2>2 DEF Verify
    <3> QED BY <3>2, <3>3, <3>4, FinishSerial, GotoSerial
  <2>3. CASE VerifyUnreachable(r)
    BY <2>3, FinishSerial DEF VerifyUnreachable
  <2>4. CASE CloseAsFailed(r)
    BY <2>4, FinishSerial DEF CloseAsFailed
  <2>5. CASE Reread(r)
    <3>1. r = Webhook
      BY <2>5, OnlyWebhookWorks DEF Reread
    <3>2. "readsub" \in Steps \ {"setplan"}
      BY DEF Steps
    <3> QED BY <2>5, <3>1, <3>2, FinishSerial, GotoSerial DEF Reread
  <2>6. CASE ReadSubscription(r)
    <3>1. r = Webhook
      BY <2>6, OnlyWebhookWorks DEF ReadSubscription
    <3>2. tx[Webhook] \in Payments /\ Owner[tx[Webhook]] \in Accounts
      BY <2>6, <3>1, OwnerAssumption DEF ReadSubscription, SerialInv, SafeInv, HoldsPayment
    <3>3. now[Webhook] \in 0..clock
      BY WebhookIsRequest DEF SerialInv, NowIsPast
    <3>4. start'[Webhook] = Ledger!Later(PaidUntil[Owner[tx[Webhook]]], now[Webhook])
      BY <2>6, <3>1, <3>2, <3>3, StartRead, WebhookIsRequest
         DEF ReadSubscription, SerialInv, SafeInv, TypeOK
    <3>5. UNCHANGED <<clock, subVars, tx>> /\ pc' = [pc EXCEPT ![Webhook] = "setplan"]
          /\ now' = [now EXCEPT ![Webhook] = 0]
      BY <2>6, <3>1 DEF ReadSubscription
    <3>6. StartFits'
      BY <3>3, <3>4, <3>5 DEF StartFits, PaidUntil
    <3>7. CancelsOnlyClose'
      BY <3>5, RequestAssumption DEF SerialInv, SafeInv, TypeOK, CancelsOnlyClose, Requests
    <3>8. NowIsPast'
      BY <3>5 DEF SerialInv, SafeInv, TypeOK, NowIsPast
    <3>9. PaidHasEnd'
      BY <3>5 DEF SerialInv, PaidHasEnd
    <3> QED BY <3>6, <3>7, <3>8, <3>9
  <2>7. CASE SetPlan(r)
    <3>1. r = Webhook
      BY <2>7, OnlyWebhookWorks DEF SetPlan
    <3>2. tx[Webhook] \in Payments /\ start[Webhook] + Length[tx[Webhook]] \in Nat
      <4>1. tx[Webhook] \in Payments
        BY <2>7, <3>1 DEF SetPlan, SerialInv, SafeInv, HoldsPayment
      <4>2. Length[tx[Webhook]] \in Nat
        BY <4>1, LengthAssumption
      <4>3. start[Webhook] \in Nat
        BY WebhookIsRequest DEF SerialInv, SafeInv, TypeOK
      <4> QED BY <4>1, <4>2, <4>3
    <3>3. /\ plan' = [plan EXCEPT ![Owner[tx[Webhook]]] = "paid"]
          /\ subEnd' = [subEnd EXCEPT ![Owner[tx[Webhook]]] = start[Webhook] + Length[tx[Webhook]]]
          /\ Goto(Webhook, "marksuccess") /\ UNCHANGED clock
      BY <2>7, <3>1 DEF SetPlan
    <3>4. PaidHasEnd'
      <4>1. start[Webhook] + Length[tx[Webhook]] # NoEnd
        BY <3>2, NullAssumption
      <4>2. plan \in [Accounts -> {"free", "paid"}] /\ subEnd \in [Accounts -> Nat \cup {NoEnd}]
        BY DEF SerialInv, SafeInv, TypeOK
      <4>3. PaidHasEnd
        BY DEF SerialInv
      <4> QED BY <3>3, <4>1, <4>2, <4>3 DEF PaidHasEnd
    <3>5. CancelsOnlyClose'
      BY <3>3, RequestAssumption DEF SerialInv, SafeInv, TypeOK, CancelsOnlyClose, Goto, Requests
    <3>6. NowIsPast'
      BY <3>3 DEF SerialInv, NowIsPast, Goto
    <3>7. pc'[Webhook] = "marksuccess"
      BY <3>3, WebhookIsRequest DEF SerialInv, SafeInv, TypeOK, Goto
    <3> QED BY <3>4, <3>5, <3>6, <3>7 DEF StartFits
  <2>8. CASE MarkSuccessful(r)
    BY <2>8, FinishSerial DEF MarkSuccessful
  <2>9. CASE Abort(r)
    BY <2>9, FinishSerial DEF Abort
  <2> QED BY <1>4, <2>1, <2>2, <2>3, <2>4, <2>5, <2>6, <2>7, <2>8, <2>9 DEF Handle
<1>5. CASE UNCHANGED vars
  BY <1>5, IdleSerial DEF vars
<1> QED BY <1>1, <1>2, <1>3, <1>4, <1>5 DEF Next

LEMMA SerialAlways ==
  ASSUME Serial
  PROVE  Spec => []SerialInv
<1>1. Init => SerialInv
  BY SerialInit
<1>2. SerialInv /\ [Next]_vars => SerialInv'
  BY SerialStep
<1> QED BY <1>1, <1>2, PTL DEF Spec

(***************************************************************************)
(* With aborts: no activation moves a period end back.                     *)
(***************************************************************************)
LEMMA OnlySetPlanMovesEnd ==
  ASSUME [Next]_vars, subEnd' # subEnd
  PROVE  \E r \in Requests : SetPlan(r)
<1> USE DEF subVars
<1>1. ~Tick /\ ~UNCHANGED vars
  BY DEF Tick, vars
<1>2. \A p \in Payments : ~Checkout(p) /\ ~ChargeMoves(p)
  BY DEF Checkout, StartCheckout, CheckoutCreated, CheckoutRefused, CheckoutAborted, ChargeMoves
<1>3. \A r \in Requests : Handle(r) => SetPlan(r)
  BY DEF Handle, ReadPayment, Verify, VerifyUnreachable, CloseAsFailed, Reread, ReadSubscription,
         MarkSuccessful, Abort
<1> QED BY <1>1, <1>2, <1>3 DEF Next

EndKept ==
    \A a \in Accounts :
        \/ subEnd[a] = NoEnd /\ (plan[a] = "paid" => subEnd'[a] = NoEnd)
        \/ subEnd[a] # NoEnd /\ subEnd'[a] # NoEnd /\ subEnd'[a] >= subEnd[a]

\* The webhook's set_plan as a credit of the ledger.
LEMMA SetPlanCredits ==
  ASSUME Serial, SerialInv, NEW r \in Requests, SetPlan(r)
  PROVE  /\ r = Webhook
         /\ tx[r] \in Payments /\ Owner[tx[r]] \in Accounts
         /\ \E t \in 0..clock :
               subEnd' = [subEnd EXCEPT ![Owner[tx[r]]] =
                             Ledger!Later(PaidUntil[Owner[tx[r]]], t) + Length[tx[r]]]
<1>1. r = Webhook
  BY OnlyWebhookWorks DEF SetPlan
<1>2. tx[r] \in Payments /\ Owner[tx[r]] \in Accounts
  BY OwnerAssumption DEF SetPlan, SerialInv, SafeInv, HoldsPayment
<1>3. PICK t \in 0..clock : start[Webhook] = Ledger!Later(PaidUntil[Owner[tx[Webhook]]], t)
  BY <1>1 DEF SetPlan, SerialInv, StartFits
<1> QED BY <1>1, <1>2, <1>3 DEF SetPlan

LEMMA EndKeptStep ==
  ASSUME Serial, SerialInv, [Next]_vars
  PROVE  [EndKept]_subEnd
<1> SUFFICES ASSUME subEnd' # subEnd PROVE EndKept
  OBVIOUS
<1>1. PICK r \in Requests : SetPlan(r)
  BY OnlySetPlanMovesEnd
<1>2. PICK t \in 0..clock :
         subEnd' = [subEnd EXCEPT ![Owner[tx[r]]] =
                       Ledger!Later(PaidUntil[Owner[tx[r]]], t) + Length[tx[r]]]
  BY <1>1, SetPlanCredits
<1>3. tx[r] \in Payments /\ Owner[tx[r]] \in Accounts /\ Length[tx[r]] \in Nat /\ t \in Nat
  BY <1>1, SetPlanCredits, LengthAssumption DEF SerialInv, SafeInv, TypeOK
<1>4. subEnd \in [Accounts -> Nat \cup {NoEnd}] /\ PaidHasEnd
  BY DEF SerialInv, SafeInv, TypeOK
<1>5. ASSUME NEW a \in Accounts, a = Owner[tx[r]]
      PROVE  \/ subEnd[a] = NoEnd /\ (plan[a] = "paid" => subEnd'[a] = NoEnd)
             \/ subEnd[a] # NoEnd /\ subEnd'[a] # NoEnd /\ subEnd'[a] >= subEnd[a]
  <2>1. CASE subEnd[a] = NoEnd
    BY <2>1, <1>4 DEF PaidHasEnd
  <2>2. CASE subEnd[a] # NoEnd
    <3>1. subEnd[a] \in Nat /\ subEnd'[a] = Ledger!Later(subEnd[a], t) + Length[tx[r]]
      BY <1>2, <1>4, <1>5, <2>2 DEF PaidUntil
    <3>2. subEnd'[a] \in Nat /\ subEnd'[a] >= subEnd[a]
      BY <1>3, <3>1 DEF Ledger!Later
    <3> QED BY <2>2, <3>2, NullAssumption
  <2> QED BY <2>1, <2>2
<1>6. ASSUME NEW a \in Accounts, a # Owner[tx[r]]
      PROVE  \/ subEnd[a] = NoEnd /\ (plan[a] = "paid" => subEnd'[a] = NoEnd)
             \/ subEnd[a] # NoEnd /\ subEnd'[a] # NoEnd /\ subEnd'[a] >= subEnd[a]
  <2>1. subEnd'[a] = subEnd[a]
    BY <1>2, <1>4, <1>6
  <2>2. subEnd[a] # NoEnd => subEnd[a] >= subEnd[a]
    BY <1>4
  <2> QED BY <2>1, <2>2
<1> QED BY <1>5, <1>6 DEF EndKept

\* "Buying again extends the current period rather than restarting it", and
\* "paying early never loses days": true of every behaviour in which
\* confirmations do not overlap, aborts between commits included, and no
\* account started with an open-ended plan.
THEOREM NoPeriodShrinks ==
  ASSUME Serial
  PROVE  Spec => EndNeverShrinks
<1>1. SerialInv /\ [Next]_vars => [EndKept]_subEnd
  BY EndKeptStep
<1> QED BY <1>1, SerialAlways, PTL DEF Spec, EndNeverShrinks, EndKept

(***************************************************************************)
(* Without aborts: billing implements PaidPeriods.                         *)
(***************************************************************************)
Uninterrupted == Serial /\ "abort" \notin Faults

\* A credited payment is successful already, or the webhook is about to say so.
CreditsExact ==
    \A p \in Payments :
        credits[p] > 0 =>
            status[p] = "successful" \/ (pc[Webhook] = "marksuccess" /\ tx[Webhook] = p)

\* What the webhook read before it asked the provider still holds: its payment
\* has not become successful in the meantime.
StillOpen == pc[Webhook] \in Working => status[tx[Webhook]] # "successful"

LedgerInv == SerialInv /\ CreditsExact /\ StillOpen

LEMMA LedgerInvInit ==
  ASSUME Uninterrupted, Init
  PROVE  LedgerInv
<1>1. SerialInv
  BY SerialInit DEF Uninterrupted
<1>2. CreditsExact /\ StillOpen
  BY WebhookIsRequest DEF Init, CreditsExact, StillOpen, Working
<1> QED BY <1>1, <1>2 DEF LedgerInv

\* Statuses do not become successful, credits stand still, and the webhook
\* stands still.
LEMMA LedgerFrame ==
  ASSUME LedgerInv, credits' = credits,
         pc'[Webhook] = pc[Webhook], tx'[Webhook] = tx[Webhook],
         \A p \in Payments : status'[p] = "successful" <=> status[p] = "successful"
  PROVE  CreditsExact' /\ StillOpen'
<1>1. CreditsExact'
  BY DEF LedgerInv, CreditsExact
<1>2. pc[Webhook] \in Working => tx[Webhook] \in Payments
  BY WebhookIsRequest DEF LedgerInv, SerialInv, SafeInv, HoldsPayment, Working
<1>3. StillOpen'
  BY <1>2 DEF LedgerInv, StillOpen
<1> QED BY <1>1, <1>3

\* The webhook ends, or moves on before set_plan, with no payment credited by
\* halves.
LEMMA LedgerWorking ==
  ASSUME LedgerInv, credits' = credits, status' = status, pc[Webhook] \in Working,
         \/ Finish(Webhook)
         \/ \E step \in Steps \ {"marksuccess"} : Goto(Webhook, step)
         \/ pc' = [pc EXCEPT ![Webhook] = "setplan"] /\ tx' = tx
  PROVE  CreditsExact' /\ StillOpen'
<1>1. pc[Webhook] # "marksuccess"
  BY DEF Working
<1>2. CreditsExact'
  BY <1>1 DEF LedgerInv, CreditsExact
<1>3. pc \in [Requests -> Steps]
  BY DEF LedgerInv, SerialInv, SafeInv, TypeOK
<1>4. CASE Finish(Webhook)
  BY <1>2, <1>3, <1>4, WebhookIsRequest DEF StillOpen, Finish, Working
<1>5. CASE tx' = tx
  BY <1>2, <1>5 DEF LedgerInv, StillOpen
<1> QED BY <1>4, <1>5 DEF Goto

\* Another request's move leaves the webhook where it is.
LEMMA OthersApart ==
  ASSUME LedgerInv, NEW r \in Requests, r # Webhook,
         NEW step, pc' = [pc EXCEPT ![r] = step], NEW p, tx' = [tx EXCEPT ![r] = p]
  PROVE  pc'[Webhook] = pc[Webhook] /\ tx'[Webhook] = tx[Webhook]
  BY WebhookIsRequest DEF LedgerInv, SerialInv, SafeInv, TypeOK

LEMMA LedgerInvStep ==
  ASSUME Uninterrupted, LedgerInv, [Next]_vars
  PROVE  LedgerInv'
<1> USE DEF payVars, subVars, extVars, reqVars
<1>0. SerialInv'
  BY SerialStep DEF LedgerInv, Uninterrupted
<1> SUFFICES CreditsExact' /\ StillOpen'
  BY <1>0 DEF LedgerInv
<1>t. TypeOK /\ HoldsPayment
  BY DEF LedgerInv, SerialInv, SafeInv
<1>1. CASE Tick \/ UNCHANGED vars
  BY <1>1, LedgerFrame DEF Tick, vars
<1>2. ASSUME NEW p \in Payments, Checkout(p)
      PROVE  CreditsExact' /\ StillOpen'
  <2>1. UNCHANGED <<credits, pc, tx>>
    BY <1>2 DEF Checkout, StartCheckout, CheckoutCreated, CheckoutRefused, CheckoutAborted
  <2>2. \A q \in Payments : status'[q] = "successful" <=> status[q] = "successful"
    <3>1. CASE StartCheckout(p) BY <3>1, <1>t DEF StartCheckout, TypeOK
    <3>2. CASE CheckoutRefused(p) BY <3>2, <1>t, MarkFailedKeeps DEF CheckoutRefused
    <3> QED BY <1>2, <3>1, <3>2 DEF Checkout, CheckoutCreated, CheckoutAborted
  <2> QED BY <2>1, <2>2, LedgerFrame
<1>3. ASSUME NEW p \in Payments, ChargeMoves(p)
      PROVE  CreditsExact' /\ StillOpen'
  BY <1>3, LedgerFrame DEF ChargeMoves
<1>4. ASSUME NEW r \in Requests, Handle(r)
      PROVE  CreditsExact' /\ StillOpen'
  <2>1. ASSUME NEW p \in Payments, ReadPayment(r, p)
        PROVE  CreditsExact' /\ StillOpen'
    <3>1. UNCHANGED <<status, credits>> /\ pc[r] = "idle"
      BY <2>1 DEF ReadPayment, Arrives
    <3>2. CASE status[p] = "successful"
      BY <2>1, <3>1, <3>2, LedgerFrame DEF ReadPayment
    <3>3. CASE status[p] # "successful"
      <4>1. PICK step \in {"fail", "verify"} : pc' = [pc EXCEPT ![r] = step]
        BY <2>1, <3>3 DEF ReadPayment
      <4>2. tx' = [tx EXCEPT ![r] = p]
        BY <2>1, <3>3 DEF ReadPayment
      <4>3. CASE r = Webhook
        <5>1. CreditsExact'
          BY <3>1, <4>3 DEF LedgerInv, CreditsExact
        <5>2. StillOpen'
          BY <3>1, <3>3, <4>2, <4>3, <1>t DEF StillOpen, TypeOK
        <5> QED BY <5>1, <5>2
      <4>4. CASE r # Webhook
        BY <3>1, <4>1, <4>2, <4>4, OthersApart, LedgerFrame
      <4> QED BY <4>3, <4>4
    <3> QED BY <3>2, <3>3
  <2>2. CASE Verify(r) \/ VerifyUnreachable(r) \/ Reread(r)
    <3>1. pc[r] \in {"verify", "reread"} /\ UNCHANGED <<status, credits>>
      BY <2>2 DEF Verify, VerifyUnreachable, Reread
    <3>2. r = Webhook /\ pc[Webhook] \in Working
      BY <3>1, OnlyWebhookWorks DEF Uninterrupted, LedgerInv, Working
    <3>3. \/ Finish(Webhook)
          \/ \E step \in Steps \ {"marksuccess"} : Goto(Webhook, step)
      BY <2>2, <3>2 DEF Verify, VerifyUnreachable, Reread, Steps
    <3> QED BY <3>1, <3>2, <3>3, LedgerWorking
  <2>3. CASE CloseAsFailed(r)
    <3>1. /\ \A q \in Payments : status'[q] = "successful" <=> status[q] = "successful"
          /\ credits' = credits /\ pc[r] = "fail"
      BY <2>3, <1>t, MarkFailedKeeps DEF CloseAsFailed
    <3>2. CASE r = Webhook
      <4>1. pc[Webhook] # "marksuccess" /\ pc'[Webhook] = "idle"
        BY <2>3, <3>1, <3>2, <1>t DEF CloseAsFailed, Finish, TypeOK
      <4>2. CreditsExact'
        BY <3>1, <4>1 DEF LedgerInv, CreditsExact
      <4>3. StillOpen'
        BY <4>1 DEF StillOpen, Working
      <4> QED BY <4>2, <4>3
    <3>3. CASE r # Webhook
      BY <2>3, <3>1, <3>3, OthersApart, LedgerFrame DEF CloseAsFailed, Finish
    <3> QED BY <3>2, <3>3
  <2>4. CASE ReadSubscription(r)
    <3>1. r = Webhook /\ pc[Webhook] \in Working
      BY <2>4, OnlyWebhookWorks DEF ReadSubscription, Uninterrupted, LedgerInv, Working
    <3> QED BY <2>4, <3>1, LedgerWorking DEF ReadSubscription
  <2>5. CASE SetPlan(r)
    <3>1. r = Webhook /\ tx[Webhook] \in Payments /\ pc[Webhook] = "setplan"
      BY <2>5, SetPlanCredits DEF Uninterrupted, LedgerInv, SetPlan
    <3>2. /\ pc'[Webhook] = "marksuccess" /\ tx' = tx /\ status' = status
          /\ credits' = [credits EXCEPT ![tx[Webhook]] = @ + 1]
      BY <2>5, <3>1, <1>t DEF SetPlan, Goto, TypeOK
    <3>3. CreditsExact'
      BY <3>1, <3>2, <1>t DEF LedgerInv, CreditsExact, TypeOK
    <3>4. StillOpen'
      BY <3>2 DEF StillOpen, Working
    <3> QED BY <3>3, <3>4
  <2>6. CASE MarkSuccessful(r)
    <3>1. r = Webhook /\ tx[Webhook] \in Payments
      BY <2>6, OnlyWebhookWorks, <1>t
         DEF MarkSuccessful, Uninterrupted, LedgerInv, HoldsPayment
    <3>2. /\ status' = [status EXCEPT ![tx[Webhook]] = "successful"]
          /\ credits' = credits /\ pc'[Webhook] = "idle"
      BY <2>6, <3>1, <1>t DEF MarkSuccessful, Finish, TypeOK
    <3>3. CreditsExact'
      BY <3>1, <3>2, <1>t DEF LedgerInv, CreditsExact, TypeOK
    <3>4. StillOpen'
      BY <3>2 DEF StillOpen, Working
    <3> QED BY <3>3, <3>4
  <2>7. CASE Abort(r)
    BY <2>7 DEF Abort, Uninterrupted
  <2> QED BY <1>4, <2>1, <2>2, <2>3, <2>4, <2>5, <2>6, <2>7 DEF Handle
<1> QED BY <1>1, <1>2, <1>3, <1>4 DEF Next

LEMMA LedgerInitMaps == Serial /\ Init => Ledger!Init
  BY OwnerAssumption, NullAssumption DEF Serial, Init, Ledger!Init, Credited, PaidUntil

LEMMA OnlySetPlanCredits ==
  ASSUME [Next]_vars, \A r \in Requests : ~SetPlan(r)
  PROVE  /\ UNCHANGED <<credits, subEnd>>
         /\ clock' = clock \/ clock' = clock + 1
<1> USE DEF subVars
<1>1. CASE Tick \/ UNCHANGED vars
  BY <1>1 DEF Tick, vars
<1>2. ASSUME NEW p \in Payments, Checkout(p) \/ ChargeMoves(p)
      PROVE  UNCHANGED <<credits, subEnd, clock>>
  BY <1>2 DEF Checkout, StartCheckout, CheckoutCreated, CheckoutRefused, CheckoutAborted, ChargeMoves
<1>3. ASSUME NEW r \in Requests, Handle(r)
      PROVE  UNCHANGED <<credits, subEnd, clock>>
  BY <1>3 DEF Handle, ReadPayment, Verify, VerifyUnreachable, CloseAsFailed, Reread,
              ReadSubscription, MarkSuccessful, Abort
<1> QED BY <1>1, <1>2, <1>3 DEF Next

LEMMA LedgerStep ==
  ASSUME Uninterrupted, LedgerInv, [Next]_vars
  PROVE  [Ledger!Next]_(Ledger!vars)
<1>1. CASE \A r \in Requests : ~SetPlan(r)
  <2>1. Credited' = Credited /\ PaidUntil' = PaidUntil
    BY <1>1, OnlySetPlanCredits DEF Credited, PaidUntil
  <2> QED BY <1>1, <2>1, OnlySetPlanCredits DEF Ledger!Next, Ledger!Tick, Ledger!vars
<1>2. ASSUME NEW r \in Requests, SetPlan(r)
      PROVE  Ledger!Next
  <2>1. TypeOK
    BY DEF LedgerInv, SerialInv, SafeInv
  <2>2. /\ r = Webhook /\ tx[r] \in Payments /\ Owner[tx[r]] \in Accounts
        /\ pc[r] = "setplan" /\ credits' = [credits EXCEPT ![tx[r]] = @ + 1]
        /\ clock' = clock
    BY <1>2, SetPlanCredits DEF SetPlan, Uninterrupted, LedgerInv
  <2>3. tx[r] \notin Credited
    BY <2>2 DEF LedgerInv, CreditsExact, StillOpen, Working, Credited
  <2>4. Credited' = Credited \cup {tx[r]}
    BY <2>1, <2>2 DEF Credited, TypeOK
  <2>5. PICK t \in 0..clock :
           subEnd' = [subEnd EXCEPT ![Owner[tx[r]]] =
                         Ledger!Later(PaidUntil[Owner[tx[r]]], t) + Length[tx[r]]]
    BY <1>2, SetPlanCredits DEF Uninterrupted, LedgerInv
  <2>6. Ledger!Later(PaidUntil[Owner[tx[r]]], t) + Length[tx[r]] # NoEnd
    <3>1. Length[tx[r]] \in Nat /\ PaidUntil[Owner[tx[r]]] \in Nat
      BY <2>1, <2>2, LengthAssumption DEF PaidUntil, TypeOK
    <3> QED BY <3>1, NullAssumption DEF Ledger!Later
  <2>7. PaidUntil' = [PaidUntil EXCEPT ![Owner[tx[r]]] =
                         Ledger!Later(@, t) + Length[tx[r]]]
    BY <2>1, <2>2, <2>5, <2>6 DEF PaidUntil, TypeOK
  <2> QED BY <2>2, <2>3, <2>4, <2>7 DEF Ledger!Next, Ledger!Credit
<1> QED BY <1>1, <1>2

\* Confirmed one at a time and without interruption, every payment extends its
\* account exactly once, from the later of its running period's end and the
\* moment of the confirmation: Billing implements PaidPeriods.
THEOREM BillingImplementsLedger ==
  ASSUME Uninterrupted
  PROVE  Spec => ImplementsLedger
<1>1. Init => LedgerInv /\ Ledger!Init
  BY LedgerInvInit, LedgerInitMaps DEF Uninterrupted
<1>2. LedgerInv /\ [Next]_vars => LedgerInv'
  BY LedgerInvStep
<1>3. LedgerInv /\ [Next]_vars => [Ledger!Next]_(Ledger!vars)
  BY LedgerStep
<1> QED BY <1>1, <1>2, <1>3, PTL DEF Spec, ImplementsLedger, Ledger!Spec

=============================================================================
