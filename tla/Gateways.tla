------------------------------ MODULE Gateways ------------------------------
(***************************************************************************)
(* The two payment gateways and the setting that picks one                 *)
(* (services/billing.py: the adapters, provider_name, build_provider,      *)
(* handle_webhook; apps/web/routes/billing.py: the webhook's two URLs).    *)
(*                                                                         *)
(* Billing has the races of a confirmation and takes the provider as one   *)
(* party.  Here a confirmation is one step and the provider is two: each   *)
(* has its own words for a charge's state and its own unit for an amount,  *)
(* and the operator changes the setting, the price and the keys between    *)
(* a checkout and what comes back from it.                                 *)
(***************************************************************************)
EXTENDS Integers

CONSTANTS
    TxRefs,   \* the tx_refs that may be minted
    Foreign,      \* a reference of the merchant's other business
    Prices,       \* what a period may be set to cost, in francs
    NoneYet

ASSUME ForeignAssumption == Foreign \notin TxRefs /\ NoneYet \notin TxRefs \cup {Foreign}
ASSUME PriceAssumption == Prices \subseteq Nat \ {0}

PROVIDERS == {"flutterwave", "paystack"}
Statuses == {"pending", "failed", "successful"}
Secrets == PROVIDERS \cup {"hash"}          \* "hash": flw_webhook_hash
Settings == PROVIDERS \cup {"misspelt"}

VARIABLES
    gwSetting,    \* BILLING_PROVIDER
    gwSecrets,    \* which keys are set
    gwPrice,      \* the price of a period
    gwRows,       \* payments: provider, amount, status
    gwHeld,       \* external: the charge each gateway holds for a reference
    gwAnswer      \* the last request and what it was told, NoneYet after any other step

gwVars == <<gwSetting, gwSecrets, gwPrice, gwRows, gwHeld, gwAnswer>>

-----------------------------------------------------------------------------
(* External: a gateway's unit, and its words.                              *)

Unit(g) == IF g = "paystack" THEN 100 ELSE 1

Settled(g) == IF g = "paystack" THEN "success" ELSE "successful"
Ended(g) == IF g = "paystack" THEN {"failed", "abandoned", "reversed"} ELSE {"failed", "cancelled"}
UnderWay(g) == IF g = "paystack" THEN {"ongoing"} ELSE {"pending"}

-----------------------------------------------------------------------------
(* The adapters.                                                           *)

\* create_checkout: Paystack is asked for hundredths.
ToGateway(g, francs) == IF g = "paystack" THEN francs * 100 ELSE francs

\* verify: the amount in francs.  A fraction of one is never the price.
FromGateway(g, amount) == IF g = "paystack" THEN amount \div 100 ELSE amount

\* verify: the status in provider-neutral terms.
Normalised(g, word) ==
    CASE g = "flutterwave" /\ word = "successful" -> "successful"
      [] g = "flutterwave" /\ word \in {"failed", "cancelled"} -> "failed"
      [] g = "paystack" /\ word = "success" -> "successful"
      [] g = "paystack" /\ word \in {"failed", "abandoned", "reversed"} -> "failed"
      [] OTHER -> "pending"

\* verify: Flutterwave looks a transaction id up, when there is one; Paystack
\* always the reference.  NoneYet: nothing is recorded (NotFound).
Lookup(g, ref, id) ==
    LET q == IF g = "flutterwave" /\ id # NoneYet THEN id ELSE ref
        held == gwHeld[<<g, q>>]
    IN  IF held.word = NoneYet THEN NoneYet
        ELSE [status |-> Normalised(g, held.word), francs |-> FromGateway(g, held.amount),
              currency |-> held.currency, ref |-> q]

\* webhook_authentic: a delivery carries its own gateway's header only, and
\* without the secret nothing is authentic.
WebhookAuthentic(g, sender) ==
    sender = g /\ (IF g = "flutterwave" THEN "hash" ELSE g) \in gwSecrets

\* provider_name, build_provider
Built(g) == g \in PROVIDERS \cap gwSecrets

-----------------------------------------------------------------------------
(* Confirmation, as one step.                                              *)

\* Mutant of Issuer: whatever the setting says today.
TodaysProvider(ref) == gwSetting

\* _client: verify with the provider that issued the checkout.
Issuer(ref) == gwRows[ref].provider

PaysFor(ref, v) == v.ref = ref /\ v.currency = "XOF" /\ v.francs >= gwRows[ref].amount

\* _confirm_once
Outcome(ref, g, id, up) ==
    LET v == Lookup(g, ref, id)
    IN  IF gwRows[ref].status = "successful" THEN "already"
        ELSE IF ~up \/ ~Built(g) THEN "unknown"
        ELSE IF v = NoneYet \/ v.status = "pending" THEN "pending"
        ELSE IF v.status = "failed" THEN "failed"
        ELSE IF PaysFor(ref, v) THEN "activated" ELSE "mismatch"

RowAfter(row, outcome) ==
    [row EXCEPT !.status =
        IF outcome = "activated" THEN "successful"
        ELSE IF outcome \in {"failed", "mismatch"} /\ @ = "pending" THEN "failed" ELSE @]

Confirm(ref, g, id, up, via) ==
    LET outcome == Outcome(ref, g, id, up)
    IN  /\ gwRows' = [gwRows EXCEPT ![ref] = RowAfter(@, outcome)]
        /\ gwAnswer' = [ref |-> ref, via |-> via, event |-> "complete", id |-> id, up |-> up,
                        outcome |-> outcome]
        /\ UNCHANGED <<gwSetting, gwSecrets, gwPrice, gwHeld>>

-----------------------------------------------------------------------------
Words == UNION {{Settled(g)} \cup Ended(g) \cup UnderWay(g) : g \in PROVIDERS}
Row == [provider : PROVIDERS, amount : Prices, status : Statuses]
Verdict == [status : Statuses, francs : Int, currency : {"XOF", "GHS"}, ref : TxRefs]

ASSUME NoneYetAssumption == NoneYet \notin Words \cup Row \cup Verdict

NoCharge == [word |-> NoneYet, asked |-> 0, amount |-> 0, currency |-> "XOF"]

GatewaysInit ==
    /\ gwSetting \in Settings /\ gwSecrets \in SUBSET Secrets /\ gwPrice \in Prices
    /\ gwRows = [r \in TxRefs |-> NoneYet]
    /\ gwHeld = [x \in PROVIDERS \X (TxRefs \cup {Foreign}) |->
                    IF x[2] = Foreign
                    THEN [word |-> Settled(x[1]), asked |-> 0, currency |-> "XOF",
                          amount |-> (CHOOSE p \in Prices : \A q \in Prices : q =< p) * Unit(x[1])]
                    ELSE NoCharge]
    /\ gwAnswer = NoneYet

\* checkout, start_checkout: the row remembers which provider was asked and
\* for how much; without its keys, or with no such provider, the page is closed
\* and no row written.
OpenCheckout(ref) ==
    /\ gwRows[ref] = NoneYet /\ Built(gwSetting)
    /\ \E created \in BOOLEAN :
        /\ gwRows' = [gwRows EXCEPT ![ref] =
                        [provider |-> gwSetting, amount |-> gwPrice,
                         status |-> IF created THEN "pending" ELSE "failed"]]
        /\ gwHeld' = [gwHeld EXCEPT ![<<gwSetting, ref>>].asked =
                        IF created THEN ToGateway(gwSetting, gwPrice) ELSE @]
    /\ gwAnswer' = NoneYet
    /\ UNCHANGED <<gwSetting, gwSecrets, gwPrice>>

\* External: the hosted page.  A charge is taken for what was asked, for a
\* franc less or in another currency; a settled one can only be reversed.
HostedPage(g, ref) ==
    LET held == gwHeld[<<g, ref>>]
    IN  /\ held.asked > 0
        /\ \E word \in {Settled(g)} \cup Ended(g) \cup UnderWay(g),
              amount \in {held.asked, held.asked - Unit(g)}, currency \in {"XOF", "GHS"} :
            /\ held.word = Settled(g) => word = "reversed"
            /\ word = "reversed" => held.word = Settled(g)
            /\ word = "reversed" => amount = held.amount /\ currency = held.currency
            /\ word \notin {Settled(g), "reversed"} => amount = held.asked /\ currency = "XOF"
            /\ held.word \notin {word, "reversed"}
            /\ gwHeld' = [gwHeld EXCEPT ![<<g, ref>>] =
                            [@ EXCEPT !.word = word, !.amount = amount, !.currency = currency]]
        /\ gwAnswer' = NoneYet
        /\ UNCHANGED <<gwSetting, gwSecrets, gwPrice, gwRows>>

\* checkout_return, the customer coming back: with an id of any transaction,
\* or none.
ComeBack(ref, id, up) ==
    /\ gwRows[ref] # NoneYet
    /\ Confirm(ref, Issuer(ref), id, up, "return")

\* checkout_return after a cancelled checkout: abandon.
Abandon(ref) ==
    /\ gwRows[ref] # NoneYet /\ gwRows[ref].status = "pending"
    /\ gwRows' = [gwRows EXCEPT ![ref].status = "failed"] /\ gwAnswer' = NoneYet
    /\ UNCHANGED <<gwSetting, gwSecrets, gwPrice, gwHeld>>

\* webhook, webhook_for: one URL follows the setting, two name their provider.
Adapter(url) == IF url = "default" THEN gwSetting ELSE url

\* handle_webhook.  The event names the reference it is about; only the end of
\* a charge, and only of this program's references, is acted on.
Delivered(sender, url, event, ref, id, up) ==
    LET g == Adapter(url)
        authentic == Built(g) /\ WebhookAuthentic(g, sender)
    IN  /\ gwHeld[<<sender, ref>>].word # NoneYet
        /\ IF authentic /\ event = "complete" /\ ref # Foreign
           THEN Confirm(ref, g, id, up, url)
           ELSE /\ gwAnswer' = [ref |-> ref, via |-> url, event |-> event, id |-> id, up |-> up,
                                outcome |-> IF authentic THEN "ignored" ELSE "refused"]
                /\ UNCHANGED <<gwSetting, gwSecrets, gwPrice, gwRows, gwHeld>>

\* Nothing depends on an answer once it was given.
AnswerRead ==
    /\ gwAnswer # NoneYet /\ gwAnswer' = NoneYet
    /\ UNCHANGED <<gwSetting, gwSecrets, gwPrice, gwRows, gwHeld>>

\* The operator edits .env: the setting, the price, the keys.
Operate(setting, price, secrets) ==
    /\ <<setting, price, secrets>> # <<gwSetting, gwPrice, gwSecrets>>
    /\ gwSetting' = setting /\ gwPrice' = price /\ gwSecrets' = secrets
    /\ gwAnswer' = NoneYet /\ UNCHANGED <<gwRows, gwHeld>>

GatewaysNext ==
    \/ \E ref \in TxRefs : OpenCheckout(ref) \/ Abandon(ref)
    \/ \E g \in PROVIDERS, ref \in TxRefs : HostedPage(g, ref)
    \/ \E ref \in TxRefs, id \in TxRefs \cup {Foreign, NoneYet}, up \in BOOLEAN : ComeBack(ref, id, up)
    \/ \E sender \in PROVIDERS, url \in PROVIDERS \cup {"default"}, event \in {"complete", "other"},
          ref \in TxRefs \cup {Foreign}, id \in TxRefs \cup {Foreign, NoneYet}, up \in BOOLEAN :
        Delivered(sender, url, event, ref, id, up)
    \/ AnswerRead
    \/ \E setting \in Settings, price \in Prices, secrets \in SUBSET Secrets : Operate(setting, price, secrets)

GatewaysSpec == GatewaysInit /\ [][GatewaysNext]_gwVars

-----------------------------------------------------------------------------
HeldInFull(row, ref) ==
    LET held == gwHeld[<<row.provider, ref>>]
    IN  /\ held.word \in {Settled(row.provider), "reversed"} /\ held.currency = "XOF"
        /\ held.amount >= row.amount * Unit(row.provider)

TakenInFull ==
    \A ref \in TxRefs :
        gwRows[ref] # NoneYet /\ gwRows[ref].status = "successful" => HeldInFull(gwRows[ref], ref)

AnswerIsTheGateways ==
    gwAnswer # NoneYet /\ gwAnswer.ref \in TxRefs /\ gwRows[gwAnswer.ref] # NoneYet =>
        LET ref == gwAnswer.ref
            row == gwRows[ref]
            held == gwHeld[<<row.provider, ref>>]
            word == held.word
            heard == /\ gwAnswer.up /\ gwAnswer.id \in {NoneYet, ref}
                     /\ row.provider \in gwSecrets
                     /\ gwAnswer.via \in {"return", row.provider}
                     /\ gwAnswer.via = "flutterwave" => "hash" \in gwSecrets
                     /\ gwAnswer.event = "complete"
        IN  /\ heard /\ word = Settled(row.provider) /\ held.currency = "XOF" /\ held.amount >= held.asked =>
                    gwAnswer.outcome \in {"activated", "already"}
            /\ heard /\ word \in UnderWay(row.provider) \cup {NoneYet} =>
                    gwAnswer.outcome \in {"pending", "already"}
            /\ heard /\ word \in Ended(row.provider) =>
                    gwAnswer.outcome \in {"failed", "already"}

\* "it remembers which provider was asked so the return and the webhook verify
\* with the same one even if BILLING_PROVIDER changes later", and "nothing
\* outside the adapters knows" that Paystack counts in hundredths: whatever the
\* operator changes in between, a payment is taken only when its own gateway
\* holds what was asked at checkout, in francs and in XOF, and a return page or
\* a delivery to that gateway's own URL answers what that gateway says.
GatewaysAgree == TakenInFull /\ AnswerIsTheGateways
=============================================================================
