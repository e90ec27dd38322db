------------------------------- MODULE Bonds -------------------------------
(***************************************************************************)
(* The arithmetic behind a bond's page (services/bonds.py): the terms read *)
(* off the exchange's last snapshot, the coupon calendar, the yield, and   *)
(* the prospectus links.  A behaviour picks a bond and a day, computes the *)
(* page, and may then read exchange notices; prices are XOF, coupons       *)
(* hundredths of one, rates hundredths of a percent.                       *)
(***************************************************************************)
EXTENDS Integers, FiniteSets, SequencesExt

CONSTANTS
    Terms,       \* what a bond really is: rate, residual, payments per year, maturity year, anchor
    Anchors,     \* dates a coupon was last paid on, or the bond issued on
    Todays,      \* days the page is looked at
    Deviations,  \* the price, in percent of the residual
    Curves,      \* present values of a schedule at the grid's yields, each decreasing
    Notices,     \* the exchange's notices, newest first
    Bond, Nil

ASSUME BondAssumption == \A t \in Terms : t.ppy \in {1, 2, 4} /\ t.rate \in Nat \ {0}

VARIABLES
    bdTerms, bdAnchor, bdToday, bdPrice,    \* the case: terms, last coupon or issue, day, quote
    bdRead, bdRows,                         \* its page: inferred terms, schedule
    bdCurve, bdDirty, bdYield,              \* a schedule's values, a price, its solved yield
    bdPins, bdManual                        \* prospectus_url per bond; those set by hand

bdVars == <<bdTerms, bdAnchor, bdToday, bdPrice, bdRead, bdRows, bdCurve, bdDirty, bdYield, bdPins, bdManual>>
caseVars == <<bdTerms, bdAnchor, bdToday, bdPrice>>
yieldVars == <<bdCurve, bdDirty, bdYield>>
pinVars == <<bdPins, bdManual>>

-----------------------------------------------------------------------------
(* Dates: year, month and day.                                             *)

Leap(y) == y % 4 = 0 /\ (y % 100 # 0 \/ y % 400 = 0)
MonthLength(y, m) ==
    IF m = 2 THEN (IF Leap(y) THEN 29 ELSE 28) ELSE IF m \in {4, 6, 9, 11} THEN 30 ELSE 31
Before(d, e) == d[1] < e[1] \/ (d[1] = e[1] /\ (d[2] < e[2] \/ (d[2] = e[2] /\ d[3] < e[3])))

\* _add_months: the same day, or the last one of a shorter month.
AddMonths(d, n) ==
    LET total == (d[2] - 1) + n
        y == d[1] + (total \div 12)
        m == (total % 12) + 1
    IN  <<y, m, IF d[3] =< MonthLength(y, m) THEN d[3] ELSE MonthLength(y, m)>>

-----------------------------------------------------------------------------
(* infer_bond_terms                                                        *)

\* derive_residual_nominal: the last coupon over the rate, for a yearly coupon.
YearlyResidual(amount, rate) == (amount * 100) \div rate

\* |price / yearly - k| within `band` hundredths.
Near(price, yearly, k, band) ==
    LET off == price - k * yearly IN 100 * (IF off < 0 THEN -off ELSE off) =< band * yearly

\* Mutant of InferTerms: the price is not looked at.
AnnualTerms(amount, rate, price) ==
    [residual |-> YearlyResidual(amount, rate), ppy |-> 1, sure |-> TRUE]

InferTerms(amount, rate, price) ==
    LET yearly == YearlyResidual(amount, rate)
        times(k) == [residual |-> k * yearly, ppy |-> k, sure |-> TRUE]
    IN  IF Near(price, yearly, 1, 35) THEN times(1)
        ELSE IF Near(price, yearly, 2, 30) THEN times(2)
        ELSE IF Near(price, yearly, 4, 50) THEN times(4)
        ELSE [residual |-> yearly, ppy |-> 1, sure |-> FALSE]

\* current_yield: the yearly coupon over the price, in hundredths of a percent.
CurrentYield(rate, price, residual) == (rate * residual) \div price

-----------------------------------------------------------------------------
(* build_schedule                                                          *)

\* The first date of the cadence after today.
FirstAfter(anchor, step, today) ==
    LET k == CHOOSE n \in 0..60 :
                /\ Before(today, FoldLeft(LAMBDA d, i : AddMonths(d, step), anchor, [i \in 1..n |-> i]))
                /\ \A j \in 0..n - 1 :
                    ~Before(today, FoldLeft(LAMBDA d, i : AddMonths(d, step), anchor, [i \in 1..j |-> i]))
    IN  FoldLeft(LAMBDA d, i : AddMonths(d, step), anchor, [i \in 1..k |-> i])

\* Coupons until the end of the maturity year, the last one with the principal.
RECURSIVE Coupons(_, _, _)
Coupons(date, step, maturity) ==
    IF date[1] > maturity THEN <<>>
    ELSE <<[date |-> date, last |-> AddMonths(date, step)[1] > maturity]>>
            \o Coupons(AddMonths(date, step), step, maturity)

\* Mutant of NextCoupon: an anchor of today counts as the next coupon.
AnchorItself(anchor, step, today) ==
    IF Before(anchor, today) THEN FirstAfter(anchor, step, today) ELSE anchor

NextCoupon(anchor, step, today) == FirstAfter(anchor, step, today)

Schedule(anchor, ppy, maturity, today) ==
    LET step == 12 \div (IF ppy \in {1, 2, 4} THEN ppy ELSE 1)
    IN  Coupons(NextCoupon(anchor, step, today), step, maturity)

-----------------------------------------------------------------------------
(* solve_ytm: bisection, on a grid of yields instead of the reals.         *)

RECURSIVE Bisect(_, _, _, _)
Bisect(curve, price, lo, hi) ==
    LET mid == (lo + hi) \div 2
    IN  IF hi - lo =< 1 \/ curve[mid] = price THEN mid
        ELSE IF curve[mid] =< price THEN Bisect(curve, price, lo, mid)
        ELSE Bisect(curve, price, mid, hi)

\* Mutant of Bracketed: the window's ends are answers, too.
Clamped(curve, price) == price > 0

\* No answer for a price outside what the window's ends are worth.
Bracketed(curve, price) == price > 0 /\ curve[1] >= price /\ curve[Len(curve)] =< price
SolveYield(curve, price) ==
    IF Bracketed(curve, price) THEN Bisect(curve, price, 1, Len(curve)) ELSE Nil

-----------------------------------------------------------------------------
(* pin_prospectus_urls                                                     *)

\* _resolve_bond_spec: the one bond of that issue year, or the one bond at all.
Resolve(spec) ==
    IF Cardinality(spec.sameYear) = 1 THEN spec.sameYear
    ELSE IF Cardinality(spec.matches) = 1 THEN spec.matches ELSE {}

Named(notice) ==
    IF notice.tickers # {} THEN notice.tickers ELSE UNION {Resolve(s) : s \in notice.specs}

\* Mutant of IsAdmission: any notice will do.
AnyNotice(n) == TRUE
IsAdmission(n) == Notices[n].admission

\* The first admission notice in the list that names each bond.
Pinned(b) ==
    LET S == {n \in DOMAIN Notices : IsAdmission(n) /\ b \in Named(Notices[n])}
    IN  IF S = {} THEN Nil ELSE Notices[CHOOSE n \in S : \A k \in S : n =< k].url

Pin(overwrite) ==
    /\ bdPins' = [b \in Bond |->
            IF Pinned(b) # Nil /\ (overwrite \/ bdPins[b] = Nil) THEN Pinned(b) ELSE bdPins[b]]
    /\ bdManual' = IF overwrite THEN {b \in bdManual : Pinned(b) = Nil} ELSE bdManual
    /\ bdPins' # bdPins
    /\ UNCHANGED <<caseVars, bdRead, bdRows, yieldVars>>

PinByHand(b) ==
    /\ bdManual = {} /\ bdManual' = {b} /\ bdPins' = [bdPins EXCEPT ![b] = "by hand"]
    /\ UNCHANGED <<caseVars, bdRead, bdRows, yieldVars>>

-----------------------------------------------------------------------------
BondsInit ==
    /\ bdTerms \in Terms /\ bdAnchor \in Anchors /\ bdToday \in Todays
    /\ bdPrice \in {(bdTerms.residual * v) \div 100 : v \in Deviations}
    /\ bdRead = Nil /\ bdRows = Nil
    /\ bdCurve = Nil /\ bdDirty = 0 /\ bdYield = Nil
    /\ bdPins = [b \in Bond |-> Nil] /\ bdManual = {}

\* get_bond_view: the last coupon the exchange published is a period's share of
\* the yearly one; without rows there is no schedule.
ViewBond ==
    /\ bdRead = Nil
    /\ LET amount == (bdTerms.rate * bdTerms.residual) \div (100 * bdTerms.ppy)
           terms == InferTerms(amount, bdTerms.rate, bdPrice)
       IN  /\ bdRead' = terms
           /\ bdRows' = Schedule(bdAnchor, terms.ppy, bdTerms.maturity, bdToday)
    /\ UNCHANGED <<caseVars, yieldVars, pinVars>>

ViewYield(curve, price) ==
    /\ bdRead # Nil /\ bdRows # <<>> /\ bdCurve = Nil
    /\ bdCurve' = curve /\ bdDirty' = price /\ bdYield' = SolveYield(curve, price)
    /\ UNCHANGED <<caseVars, bdRead, bdRows, pinVars>>

BondsNext ==
    \/ ViewBond
    \/ \E curve \in Curves : \E price \in {0} \cup {curve[i] + e : i \in DOMAIN curve, e \in {-1, 0, 1}} :
        ViewYield(curve, price)
    \/ Pin(TRUE)
    \/ Pin(FALSE)
    \/ \E b \in Bond : PinByHand(b)

-----------------------------------------------------------------------------
TermsRecovered ==
    bdRead # Nil /\ 8 * bdPrice \in 7 * bdTerms.residual..9 * bdTerms.residual =>
        /\ bdRead.residual = bdTerms.residual /\ bdRead.ppy = bdTerms.ppy
        /\ bdPrice = bdTerms.residual =>
            CurrentYield(bdTerms.rate, bdPrice, bdRead.residual) = bdTerms.rate

CalendarWhole ==
    bdRead # Nil /\ bdRows # <<>> =>
        LET n == Len(bdRows)
            step == 12 \div bdRead.ppy
        IN  /\ Before(bdToday, bdRows[1].date)
            /\ Before(bdToday, bdAnchor) \/ ~Before(bdToday, AddMonths(bdRows[1].date, -step))
            /\ \A i \in 1..n - 1 : Before(bdRows[i].date, bdRows[i + 1].date)
            /\ \A y \in bdRows[1].date[1] + 1..bdRows[n].date[1] :
                Cardinality({i \in 1..n : bdRows[i].date[1] = y}) = bdRead.ppy
            /\ {i \in 1..n : bdRows[i].last} = {n} /\ bdRows[n].date[1] = bdTerms.maturity

YieldIsRoot ==
    bdYield # Nil => /\ bdCurve[bdYield] >= bdDirty
                     /\ bdYield < Len(bdCurve) => bdCurve[bdYield + 1] =< bdDirty

PinsRespected ==
    \A b \in Bond : /\ b \in bdManual => bdPins[b] = "by hand"
                    /\ bdPins[b] \notin {Nil, "by hand"} =>
                        \E n \in DOMAIN Notices :
                            Notices[n].admission /\ Notices[n].url = bdPins[b] /\ b \in Named(Notices[n])

\* A bond quoted within an eighth of its residual is read right, whichever of
\* the three cadences it pays at, and one at par yields its coupon rate.  The
\* calendar starts after today, misses no coupon and invents none, and pays the
\* principal once, with the last coupon of the maturity year.  The solver's
\* yield is next to the one that is worth the price, and it answers None for a
\* price no yield of its window is worth, "rather than clamping".  And however
\* often the backfill of notices runs, a link set by hand stays unless it is
\* told to overwrite, and every other link is an admission notice's.
BondPageRight == TermsRecovered /\ CalendarWhole /\ YieldIsRoot /\ PinsRespected
=============================================================================
