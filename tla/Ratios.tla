------------------------------- MODULE Ratios -------------------------------
(***************************************************************************)
(* The ratios of an issuer's periods (services/ratios.py), from the rows   *)
(* of `financials` and the last quote.  A ratio is the pair of its two     *)
(* terms, so that its sign and its divisor can be seen; None is "—".       *)
(***************************************************************************)
EXTENDS Integers, FiniteSets, Sequences

CONSTANTS
    Statements,   \* the rows an issuer may have: year, kind, currency and amounts, None where unknown
    Markets,      \* price, shares outstanding
    MaxPeriods,   \* `limit`
    None

ASSUME MaxPeriodsAssumption == MaxPeriods \in Nat

VARIABLES
    rtRows,       \* the issuer's rows
    rtMarket,     \* its price and shares
    rtViews       \* the series last shown, newest first

rtVars == <<rtRows, rtMarket, rtViews>>

PriceCurrency == "XOF"

-----------------------------------------------------------------------------
\* _safe_div: no ratio without both terms, or over zero.
SafeDiv(num, den) == IF num = None \/ den = None \/ den = 0 THEN None ELSE [num |-> num, den |-> den]

Sign(x) == IF x > 0 THEN 1 ELSE IF x < 0 THEN -1 ELSE 0
SignOf(ratio) == Sign(ratio.num) * Sign(ratio.den)
Magnitude(x) == IF x < 0 THEN -x ELSE x

Positive(x) == x # None /\ x > 0

\* Per-share figures keep the sign of what is shared out, over a count of shares.
PerShare(x, shares) ==
    IF x = None \/ shares \in {None, 0} THEN None ELSE x * shares

MarketCap(m) ==
    IF m.price \in {None, 0} \/ m.shares \in {None, 0} THEN None ELSE m.price * m.shares

Mismatch(s, m) == m.price # None /\ s.currency # PriceCurrency

\* Mutant of PriceRatio: a loss is divided by, too.
AnyDivisor(m, den) == SafeDiv(m.price, den)

\* valuation_ratios.  A multiple needs a divisor above zero (F-28); a free cash
\* flow below it shows as a yield.
PriceRatio(m, den) == IF ~Positive(den) THEN None ELSE SafeDiv(m.price, den)

Valuation(s, m) ==
    LET priced(ratio) == IF Mismatch(s, m) THEN None ELSE ratio
        cap == MarketCap(m)
        ofCap(x) == IF cap = None \/ ~Positive(x) THEN None ELSE SafeDiv(cap, x)
    IN  [pe |-> priced(PriceRatio(m, s.eps)),
         pb |-> priced(PriceRatio(m, PerShare(s.equity, m.shares))),
         ps |-> priced(PriceRatio(m, PerShare(s.revenue, m.shares))),
         pfcf |-> priced(ofCap(s.freeCash)),
         fcfYield |-> priced(IF cap = None THEN None ELSE SafeDiv(s.freeCash, cap)),
         evEbitda |-> priced(ofCap(s.operating)),
         dividendYield |-> priced(SafeDiv(s.dividend, m.price)),
         payout |-> SafeDiv(s.dividend, s.eps),
         earningsYield |-> priced(SafeDiv(s.eps, m.price))]

Profitability(s) ==
    [roe |-> SafeDiv(s.income, s.equity), roa |-> SafeDiv(s.income, s.assets),
     netMargin |-> SafeDiv(s.income, s.revenue), operatingMargin |-> SafeDiv(s.operating, s.revenue)]

Leverage(s) == [leverage |-> SafeDiv(s.assets, s.equity), equityRatio |-> SafeDiv(s.equity, s.assets)]

\* Mutant of OverMagnitude: the divisor keeps its sign.
OverThen(now, then) == SafeDiv(now - then, then)

\* growth_ratios: against the row before in the list, of the same kind and not
\* across a missing year; over |then| (F-08).
OverMagnitude(now, then) == SafeDiv(now - then, Magnitude(then))
YearOnYear(now, then) ==
    IF now = None \/ then = None \/ then = 0 THEN None ELSE OverMagnitude(now, then)

Growth(s, prior) ==
    LET usable == prior # None /\ prior.kind = s.kind /\ Magnitude(s.year - prior.year) =< 1
        of(a) == IF usable THEN YearOnYear(s[a], prior[a]) ELSE None
    IN  [revenue |-> of("revenue"), income |-> of("income"), eps |-> of("eps")]

\* compute_ratios
Ratios(s, m, prior) ==
    [statement |-> s, mismatch |-> Mismatch(s, m), valuation |-> Valuation(s, m),
     profitability |-> Profitability(s), leverage |-> Leverage(s), growth |-> Growth(s, prior)]

\* list_financials: the last rows of a kind, newest first.
Listed(kind) ==
    LET ofKind == {s \in rtRows : s.kind = kind}
        newer(s) == {t \in ofKind : t.year > s.year}
    IN  [i \in 1..(IF Cardinality(ofKind) < MaxPeriods THEN Cardinality(ofKind) ELSE MaxPeriods) |->
            CHOOSE s \in ofKind : Cardinality(newer(s)) = i - 1]

\* get_ratios_series
SeriesOf(kind, m) ==
    LET rows == Listed(kind)
    IN  [i \in DOMAIN rows |-> Ratios(rows[i], m, IF i < Len(rows) THEN rows[i + 1] ELSE None)]

-----------------------------------------------------------------------------
RatiosInit == rtRows = {} /\ rtMarket \in Markets /\ rtViews = <<>>

\* An extraction stores a period, or replaces it.
StoreStatement(s) ==
    /\ rtRows' = {t \in rtRows : t.year # s.year \/ t.kind # s.kind} \cup {s}
    /\ rtRows' # rtRows /\ rtViews' = <<>>
    /\ UNCHANGED rtMarket

ShowSeries(kind) ==
    /\ rtViews = <<>> /\ rtViews' = SeriesOf(kind, rtMarket) /\ rtViews' # <<>>
    /\ UNCHANGED <<rtRows, rtMarket>>

\* get_ratios_for_interim: the last interim row alone.
ShowInterim ==
    LET interims == {s \in rtRows : s.kind # "annual"}
        last == CHOOSE s \in interims : \A t \in interims : t.year =< s.year
    IN  /\ rtViews = <<>> /\ interims # {}
        /\ rtViews' = <<Ratios(last, rtMarket, None)>>
        /\ UNCHANGED <<rtRows, rtMarket>>

RatiosNext ==
    \/ \E s \in Statements : StoreStatement(s)
    \/ ShowSeries("annual")
    \/ ShowInterim

-----------------------------------------------------------------------------
GrowthTellsDirection ==
    \A i \in DOMAIN rtViews : \A a \in {"revenue", "income", "eps"} :
        LET s == rtViews[i].statement
            priors == {t \in rtRows : t.kind = s.kind /\ t.year = s.year - 1}
        IN  rtViews[i].growth[a] # None =>
                \E t \in priors : /\ s[a] # None /\ t[a] # None
                                  /\ SignOf(rtViews[i].growth[a]) = Sign(s[a] - t[a])

MultiplesReadTrue ==
    \A i \in DOMAIN rtViews :
        LET v == rtViews[i].valuation
        IN  /\ \A k \in {"pe", "pb", "ps", "pfcf", "evEbitda"} : v[k] # None => v[k].den > 0 /\ v[k].num >= 0
            /\ \A k \in DOMAIN v \ {"payout"} :
                v[k] # None => rtViews[i].statement.currency = PriceCurrency
            /\ \A k \in DOMAIN v : v[k] # None => v[k].den # 0

\* A growth figure says which way the line went since the year before, also
\* from a loss (F-08), and there is one only for two periods of a kind in
\* consecutive years (F-28) of which both amounts are known.  No multiple of
\* the price is shown that a loss or a negative book value turned negative, and
\* none that divides one currency by another.
RatiosReadTrue == GrowthTellsDirection /\ MultiplesReadTrue
=============================================================================
