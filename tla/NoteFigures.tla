---------------------------- MODULE NoteFigures ----------------------------
(***************************************************************************)
(* The figures an analyst note is written from (services/analyst_notes.py: *)
(* _price_stats, _beta_vs_market, _peers_lite), computed before the call   *)
(* so that the model need not.  Levels are powers of two, so that a log    *)
(* return is an integer; a quotient is the pair of its terms.              *)
(***************************************************************************)
EXTENDS Ratios

CONSTANTS
    StockLevels, IndexLevels,   \* the closes a session may have, None for no bar
    PeerRows,                   \* the peer tables a sector may have: rows of `self` and `value`
    MaxDays,                    \* bound on the sessions
    NoteWindow,                 \* the newest bars a note reads of each series, 90 in the code
    MinReturns,                 \* aligned returns a beta needs, 20 in the code
    MinCloses                   \* closes a volatility needs, 5 in the code

ASSUME LevelsAssumption ==
    (StockLevels \cup IndexLevels) \ {None} \subseteq {2^k : k \in 0..10}
ASSUME WindowAssumption == NoteWindow \in Nat /\ MinReturns \in Nat \ {0} /\ MinCloses \in Nat

VARIABLES
    nfDays,    \* the sessions, oldest first: the closes of the stock and of the index
    nfNote     \* the figures of the last note, None when none or outdated

nfVars == <<nfDays, nfNote>>

Exponent(level) == CHOOSE k \in 0..10 : 2^k = level

Total(f) ==
    LET upTo[i \in 0..Len(f)] == IF i = 0 THEN 0 ELSE upTo[i - 1] + f[i]
    IN  upTo[Len(f)]

-----------------------------------------------------------------------------
\* get_history, newest first, cut to the window: the sessions a series has.
Bars(series) ==
    LET newest == [i \in 1..Len(nfDays) |-> Len(nfDays) + 1 - i]
        has(d) == nfDays[d][series] # None
        bars == SelectSeq(newest, has)
    IN  SubSeq(bars, 1, IF Len(bars) < NoteWindow THEN Len(bars) ELSE NoteWindow)

Closes(series, sessions) == [i \in DOMAIN sessions |-> nfDays[sessions[i]][series]]

\* a deeper fall, of two quotients with positive divisors
Deeper(a, b) == a[1] * b[2] > b[1] * a[2]

\* _max_drawdown_pct: walked from the oldest, against the highest so far.
Drawdown(closes) ==
    LET n == Len(closes)
        walk[i \in 0..n] ==
            IF i = 0 THEN [peak |-> closes[n], worst |-> <<0, 1>>]
            ELSE LET px == closes[n + 1 - i]
                     peak == IF px > walk[i - 1].peak THEN px ELSE walk[i - 1].peak
                     fall == <<peak - px, peak>>
                 IN  [peak |-> peak,
                      worst |-> IF Deeper(fall, walk[i - 1].worst) THEN fall ELSE walk[i - 1].worst]
    IN  IF n < 2 THEN None ELSE walk[n].worst

\* _log_returns: newer over older.
LogReturns(closes) ==
    [i \in 1..(Len(closes) - 1) |-> Exponent(closes[i]) - Exponent(closes[i + 1])]

\* n squared times the covariance of two series of n returns
Covariance(r, s) ==
    Len(r) * Total([i \in DOMAIN r |-> r[i] * s[i]]) - (Total(r) * Total(s))

\* Mutant of Aligned: the two series as they come, paired by position.
AsTheyCome ==
    LET n == IF Len(Bars("stock")) < Len(Bars("index")) THEN Len(Bars("stock")) ELSE Len(Bars("index"))
    IN  [stock |-> SubSeq(Closes("stock", Bars("stock")), 1, n),
         index |-> SubSeq(Closes("index", Bars("index")), 1, n)]

\* _beta_vs_market: only sessions both series have, each in its own window.
Aligned ==
    LET ofIndex == {Bars("index")[i] : i \in DOMAIN Bars("index")}
        both(d) == d \in ofIndex
        sessions == SelectSeq(Bars("stock"), both)
    IN  [stock |-> Closes("stock", sessions), index |-> Closes("index", sessions)]

Beta ==
    LET stock == LogReturns(Aligned.stock)
        index == LogReturns(Aligned.index)
        variance == Covariance(index, index)
    IN  IF Len(stock) < MinReturns \/ variance = 0 THEN None
        ELSE [num |-> Covariance(stock, index), den |-> variance]

\* _price_stats
PriceStats ==
    LET closes == Closes("stock", Bars("stock"))
        returns == LogReturns(closes)
        high == CHOOSE x \in {closes[i] : i \in DOMAIN closes} : \A i \in DOMAIN closes : closes[i] =< x
        low == CHOOSE x \in {closes[i] : i \in DOMAIN closes} : \A i \in DOMAIN closes : closes[i] >= x
    IN  IF closes = <<>> THEN None
        ELSE [days |-> Len(closes), latest |-> closes[1], high |-> high, low |-> low,
              change |-> [num |-> closes[1] - closes[Len(closes)], den |-> closes[Len(closes)]],
              drawdown |-> Drawdown(closes),
              variance |-> IF Len(closes) < MinCloses \/ Len(returns) < 2 THEN None
                           ELSE [num |-> Covariance(returns, returns), den |-> Len(returns) * Len(returns)],
              beta |-> Beta]

-----------------------------------------------------------------------------
(* Peers.                                                                  *)

\* The k-th smallest.
Ranked(values, k) ==
    CHOOSE v \in {values[i] : i \in DOMAIN values} :
        /\ Cardinality({i \in DOMAIN values : values[i] < v}) < k
        /\ Cardinality({i \in DOMAIN values : values[i] =< v}) >= k

\* _peer_medians: the median of what is known, none of fewer than two; twice
\* its value, so that the mean of two is an integer.
MedianTwice(rows) ==
    LET known(row) == row.value # None
        samples == SelectSeq(rows, known)
        values == [i \in DOMAIN samples |-> samples[i].value]
        n == Len(values)
    IN  IF n < 2 THEN None
        ELSE Ranked(values, (n + 1) \div 2) + Ranked(values, (n \div 2) + 1)

\* _peers_lite: the subject apart, its peers' median next to it; nothing when
\* the peers could not be fetched.
PeersLite(rows, fetched) ==
    LET other(row) == ~row.self
        peers == SelectSeq(rows, other)
        itself == {rows[i].value : i \in {j \in DOMAIN rows : rows[j].self}}
    IN  IF fetched THEN [peers |-> peers, median |-> MedianTwice(peers), self |-> itself]
        ELSE [peers |-> <<>>, median |-> None, self |-> {}]

-----------------------------------------------------------------------------
NotesInit == nfDays = <<>> /\ nfNote = None

\* A session ends: either series may have no bar for it.
NewSession(stock, index) ==
    /\ Len(nfDays) < MaxDays
    /\ nfDays' = Append(nfDays, [stock |-> stock, index |-> index])
    /\ nfNote' = None

\* The context of a note is gathered.
GatherFigures(rows, fetched) ==
    /\ nfNote = None
    /\ nfNote' = [prices |-> PriceStats, sector |-> PeersLite(rows, fetched)]
    /\ UNCHANGED nfDays

-----------------------------------------------------------------------------
\* The largest fall from any session to any later one of the window.
FallIsTheDeepest ==
    LET closes == Closes("stock", Bars("stock"))
        later == {<<closes[p[1]] - closes[p[2]], closes[p[1]]>> :
                    p \in {q \in (DOMAIN closes) \X (DOMAIN closes) : q[2] =< q[1]}}
        dd == nfNote.prices.drawdown
    IN  IF Len(closes) < 2 THEN dd = None
        ELSE /\ \A f \in later : ~Deeper(f, dd)
             /\ \E f \in later : ~Deeper(dd, f)

\* A stock whose level goes with the k-th power of the index's over the
\* sessions they share has beta k.
BetaIsTheSlope ==
    LET shared == {d \in DOMAIN nfDays : \A s \in {"stock", "index"} : \E i \in DOMAIN Bars(s) : Bars(s)[i] = d}
        level(d, s) == Exponent(nfDays[d][s])
        beta == nfNote.prices.beta
        next(d) == CHOOSE e \in shared : e > d /\ \A f \in shared : f > d => f >= e
        steps == {level(next(d), "index") - level(d, "index") : d \in {e \in shared : \E f \in shared : f > e}}
    IN  /\ beta # None <=> Cardinality(shared) > MinReturns /\ Cardinality(steps) > 1
        /\ \A k \in -1..2 :
            /\ beta # None
            /\ \A d, e \in shared :
                level(d, "stock") - level(e, "stock") = k * (level(d, "index") - level(e, "index"))
            => beta.num = k * beta.den

\* No more than half of the peers are below the median, no more than half
\* above, and the subject is not among them.
MedianDivides ==
    LET sector == nfNote.sector
        known == {i \in DOMAIN sector.peers : sector.peers[i].value # None}
        side(below) == Cardinality({i \in known :
            IF below THEN 2 * sector.peers[i].value < sector.median ELSE 2 * sector.peers[i].value > sector.median})
    IN  /\ \A i \in DOMAIN sector.peers : ~sector.peers[i].self
        /\ IF Cardinality(known) < 2 THEN sector.median = None
           ELSE 2 * side(TRUE) =< Cardinality(known) /\ 2 * side(FALSE) =< Cardinality(known)

\* What a note is written from is what it is called: the drawdown is the
\* deepest of all falls, the beta is over returns of the same sessions ("a
\* public-holiday gap on one side ... doesn't stretch or mis-pair returns"), the
\* median is of the other companies; and the ratios shown beside them read
\* true.
FiguresReadTrue ==
    /\ RatiosReadTrue
    /\ nfNote # None =>
        /\ nfNote.prices # None => FallIsTheDeepest /\ BetaIsTheSlope
        /\ MedianDivides
=============================================================================
