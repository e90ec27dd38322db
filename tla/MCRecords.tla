------------------------------ MODULE MCRecords ------------------------------
(***************************************************************************)
(* An issuer's records, the watchlists, the page counter, the payments and *)
(* the schema they are stored in, one to a behaviour: a behaviour is of    *)
(* one `part`, and the others' variables stay as they began.               *)
(***************************************************************************)
EXTENDS Figures, Attribution, Watchlists, Visits, Gateways, Schema, TLC

VARIABLE part

Parts == {"figures", "filings", "lists", "visits", "payments", "schema"}

-----------------------------------------------------------------------------
(* Figures: an annual report, its amendment without a period in the name,  *)
(* a summary of the same year, and a half-year of the next.                *)

MCPapers ==
    <<[year |-> 1, kind |-> "annual", rank |-> 1], [year |-> 1, kind |-> NoKind, rank |-> 2],
      [year |-> 1, kind |-> "annual", rank |-> 3], [year |-> 2, kind |-> "H1", rank |-> 3]>>
X(y, k, p, c, s, o) ==
    [year |-> y, kind |-> k, figures |-> [profit |-> p, cashflow |-> c], segments |-> s, owners |-> o]
MCExtracts ==
    {X(NoYear, NoKind, 1, 0, <<>>, <<>>), X(NoYear, "annual", 2, 1, <<>>, <<"", "x", "x">>),
     X(2, "annual", 1, 0, <<"y">>, <<>>), X(NoYear, "annual", 0, 0, <<>>, <<"y">>)}

(* Attribution: two banks of one group in two countries, a slug that names *)
(* its country and one that does not.                                      *)

MCNameOf == [BOAB |-> <<"BANK", "AFRICA", "BN">>, BOABF |-> <<"BANK", "AFRICA", "BURKINA", "FASO">>]
MCCountryOf == [BOAB |-> "BJ", BOABF |-> "BF"]
MCAlias ==
    [run \in {<<"BN">>, <<"BENIN">>, <<"BF">>, <<"BURKINA">>, <<"BURKINA", "FASO">>} |->
        IF run \in {<<"BN">>, <<"BENIN">>} THEN "BJ" ELSE "BF"]
MCDisplayOf == [boab |-> <<"BANK", "AFRICA", "BENIN">>, boa |-> <<"BANK">>]
MCManualOf == [boab |-> Nobody, boa |-> Nobody]
D(s, n, w) == [slug |-> s, issuer |-> n, words |-> w]
MCDocuments ==
    <<D("boab", <<"BANK", "AFRICA", "BENIN">>, {"etats_financiers", "exercice", "year"}),
      D("boab", <<"BANK", "AFRICA", "BENIN">>, {"etats_financiers", "resultats", "year", "exercice"}),
      D("boa", <<"BANK", "AFRICA", "BF">>, {"rapport_activites", "trimestre2", "year"})>>

\* No name of these lists is the beginning of a name of another country.
ASSUME MCNamesAssumption == NamesTellCountries

(* Schema: a table and its index; a column; a table, a row and a rebuild.  *)

MCMigrations == <<<<"guarded", "guarded">>, <<"once">>, <<"guarded", "guarded", "once">>>>

-----------------------------------------------------------------------------
MCInit ==
    /\ part \in Parts
    /\ FiguresInit /\ AttributionInit /\ WatchlistsInit /\ VisitsInit /\ GatewaysInit /\ SchemaInit
    /\ part # "payments" =>
        gwSetting = "paystack" /\ gwSecrets = Secrets /\ \A p \in Prices : p =< gwPrice

In(p) == part = p /\ UNCHANGED part
OfFigures == In("figures") /\ UNCHANGED <<atVars, wlVars, vsVars, gwVars, scVars>>
OfAttribution == In("filings") /\ UNCHANGED <<fgVars, wlVars, vsVars, gwVars, scVars>>
OfWatchlists == In("lists") /\ UNCHANGED <<fgVars, atVars, vsVars, gwVars, scVars>>

OfVisits == In("visits") /\ UNCHANGED <<fgVars, atVars, wlVars, gwVars, scVars>>
OfAnswers == In("payments") /\ UNCHANGED <<fgVars, atVars, wlVars, vsVars, scVars>>
OfPayments == OfAnswers /\ gwAnswer = NoneYet
OfSchema == In("schema") /\ UNCHANGED <<fgVars, atVars, wlVars, vsVars, gwVars>>

\* The operator tracks one ticker on one list; one is taken off one list.
Asks(a, s, t) == a = Operator => s = "core" /\ t = "SNTS"

\* Programs do not disturb one another: one at a time asks.
Alone == \A p \in Programs : scSaid[p] = Unasked

MCNext ==
    \/ OfFigures /\ Pass
    \/ \E x \in Extracts : OfFigures /\ ExtractPaper(x)
    \/ OfFigures /\ ExtractNothing
    \/ OfFigures /\ RecoverShadowed
    \/ OfFigures /\ RecoverCashflow
    \/ \E S \in SUBSET Tickers : OfAttribution /\ MeetEquities(S)
    \/ \E d \in Docs : OfAttribution /\ List(d)
    \/ \E d \in Docs : OfAttribution /\ Announced(d)
    \/ \E s \in Slugs, t \in Tickers : OfAttribution /\ Override(s, t)
    \/ OfAttribution /\ Pull
    \/ OfAttribution /\ PromoteStart
    \/ OfAttribution /\ PromoteLook
    \/ OfAttribution /\ PromoteStore
    \/ \E d \in Desks, a \in Holders, s \in ListNames : OfWatchlists /\ CreateCheck(d, a, s)
    \/ \E d \in Desks : OfWatchlists /\ CreateInsert(d)
    \/ \E d \in Desks, a \in Holders, s \in ListNames, t \in Securities :
        OfWatchlists /\ Asks(a, s, t) /\ AddLookUp(d, a, s, t)
    \/ \E d \in Desks : OfWatchlists /\ AddAlready(d)
    \/ \E d \in Desks : OfWatchlists /\ AddCount(d)
    \/ \E d \in Desks : OfWatchlists /\ AddInsert(d)
    \/ \E d \in Desks, a \in Holders : OfWatchlists /\ RemoveLookUp(d, a, "core", "SNTS")
    \/ \E d \in Desks : OfWatchlists /\ RemoveDelete(d)
    \/ \E s \in ListNames : OfWatchlists /\ DeleteList(s)
    \/ \E v \in Visitors, p \in Paths : OfVisits /\ Settle(v, p)
    \/ OfVisits /\ Record
    \/ OfVisits /\ Restart
    \/ OfVisits /\ Midnight
    \/ OfVisits /\ Prune
    \/ \E ref \in TxRefs : OfPayments /\ OpenCheckout(ref)
    \/ \E g \in PROVIDERS, ref \in TxRefs : OfPayments /\ HostedPage(g, ref)
    \/ \E ref \in TxRefs, id \in TxRefs \cup {Foreign, NoneYet}, up \in BOOLEAN :
        OfPayments /\ ComeBack(ref, id, up)
    \/ \E ref \in TxRefs : OfPayments /\ Abandon(ref)
    \/ \E sender \in PROVIDERS, url \in PROVIDERS \cup {"default"}, up \in BOOLEAN :
        \E ref \in TxRefs \cup {Foreign}, event \in {"complete", "other"} :
            OfPayments /\ Delivered(sender, url, event, ref, ref, up)
    \/ OfAnswers /\ AnswerRead
    \/ \E setting \in Settings : OfPayments /\ Operate(setting, gwPrice, gwSecrets)
    \/ \E price \in Prices : OfPayments /\ Operate(gwSetting, price, gwSecrets)
    \/ \E x \in Secrets : OfPayments /\ Operate(gwSetting, gwPrice, gwSecrets \cup {x})
    \/ \E x \in Secrets : OfPayments /\ Operate(gwSetting, gwPrice, gwSecrets \ {x})
    \/ \E S \in SUBSET Ids : OfSchema /\ Deploy(S)
    \/ \E r \in Runs : OfSchema /\ ApplyAll(r)
    \/ \E r \in Runs : OfSchema /\ Statement(r)
    \/ \E r \in Runs : OfSchema /\ RecordId(r)
    \/ \E r \in Runs : OfSchema /\ Killed(r)
    \/ OfSchema /\ Alone /\ Lifespan
    \/ OfSchema /\ Alone /\ TuiMain
    \/ OfSchema /\ Alone /\ Check
    \/ \E p \in Programs : OfSchema /\ Ends(p)

MCSpec == MCInit /\ [][MCNext]_<<part, fgVars, atVars, wlVars, vsVars, gwVars, scVars>>

Interchangeable == Permutations(Desks) \cup Permutations(Runs)

=============================================================================
