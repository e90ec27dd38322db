------------------------------ MODULE MCMarket ------------------------------
(***************************************************************************)
(* The components behind the market's pages, one to a behaviour: a         *)
(* behaviour is of one `part`, and the others' variables stay as they      *)
(* began.                                                                  *)
(***************************************************************************)
EXTENDS Boards, NewsFeed, Issuers, Bonds, NoteFigures, TLC

VARIABLE part

Parts == {"quotes", "boards", "news", "facts", "peers", "bonds", "ratios", "notes"}

-----------------------------------------------------------------------------
(* Boards: periods of two, three and four days; a year that starts on the  *)
(* last day.                                                               *)

MCSpans == [w1 |-> 2, m1 |-> 3, m3 |-> 4]

(* NewsFeed and Issuers: two dividends of one amount and one of another;   *)
(* two banks the exchange lists and one company it does not.               *)

MCAmount == <<1, 2, 1>>
MCSector == <<"banks", "banks", "telecoms">>

(* Bonds: yearly, half-yearly and quarterly coupons, one amortised, one    *)
(* that has matured; ends of month; a curve with a flat part and one point *)
(* alone; admissions by ticker, by issue year, and too vague to tell.      *)

T(r, n, p, m) == [rate |-> r, residual |-> n, ppy |-> p, maturity |-> m]
MCTerms ==
    {T(600, 10000, 1, 2027), T(610, 1250, 1, 2026), T(600, 10000, 2, 2027),
     T(400, 10000, 4, 2026), T(600, 10000, 2, 2025)}
MCAnchors == {<<2024, 2, 29>>, <<2025, 8, 31>>, <<2025, 11, 30>>, <<2026, 1, 15>>}
MCTodays == {<<2025, 8, 31>>, <<2025, 12, 31>>, <<2026, 3, 1>>}
MCCurves == {<<120, 110, 100, 90, 90, 80>>, <<100>>}
N(a, u, t, s) == [admission |-> a, url |-> u, tickers |-> t, specs |-> s]
MCNotices ==
    <<N(FALSE, "coupon", {"b1"}, {}), N(TRUE, "new", {"b1"}, {}), N(TRUE, "old", {"b1"}, {}),
      N(TRUE, "tap", {}, {[sameYear |-> {"b2"}, matches |-> {"b1", "b2"}]}),
      N(TRUE, "vague", {}, {[sameYear |-> {}, matches |-> {"b1", "b3"}]})>>

(* Ratios: three years, each a profit that grows, a loss that shrinks with *)
(* negative equity, or a report in another currency with gaps.             *)

St(y, k, c, rev, op, inc, eq, e, d, f) ==
    [year |-> y, kind |-> k, currency |-> c, revenue |-> rev, operating |-> op, income |-> inc,
     assets |-> 9, equity |-> eq, eps |-> e, dividend |-> d, freeCash |-> f]
MCStatements ==
    UNION {{St(y, "annual", "XOF", 10 + y, 3, -y, 4, y, 1, -2),
            St(y, "annual", "XOF", 10, -3, 3 - (2 * y), -4, y - 2, 1, 2),
            St(y, "annual", "EUR", None, 0, -2, None, -3, None, 0)} : y \in 1..3}
    \cup {St(3, "H1", "XOF", 10, -3, 5, -4, 2, 1, 2)}
MCMarkets ==
    {[price |-> 5, shares |-> 2], [price |-> None, shares |-> 2],
     [price |-> 5, shares |-> None], [price |-> 0, shares |-> 2]}

\* NoteFigures: none, one, three and four peers, one of them the subject, one
\* without the figure.

Peer(s, v) == [self |-> s, value |-> v]
MCPeerRows ==
    {<<>>, <<Peer(TRUE, 9), Peer(FALSE, 4)>>,
     <<Peer(FALSE, 7), Peer(TRUE, 1), Peer(FALSE, 3), Peer(FALSE, None)>>,
     <<Peer(TRUE, 2), Peer(FALSE, 6), Peer(FALSE, 3), Peer(FALSE, 8), Peer(FALSE, 3)>>}

-----------------------------------------------------------------------------
MCInit ==
    /\ part \in Parts
    /\ BoardsInit /\ NewsInit /\ IssuersInit /\ BondsInit /\ RatiosInit /\ NotesInit
    /\ part \notin {"quotes", "boards"} => qtKind = "equity"
    /\ part # "news" => nwIssuers
    /\ part # "facts" => isDue = Week
    /\ part # "bonds" =>
        /\ bdTerms = T(600, 10000, 1, 2027) /\ bdAnchor = <<2026, 1, 15>>
        /\ bdToday = <<2026, 3, 1>> /\ bdPrice = 10000
    /\ part # "ratios" => rtMarket = [price |-> 5, shares |-> 2]

In(p) == part = p /\ UNCHANGED part
OfQuotes == In("quotes") /\ UNCHANGED <<brNewest, nwVars, isVars, bdVars, rtVars, nfVars>>
OfBoards == In("boards") /\ UNCHANGED <<nwVars, isVars, bdVars, rtVars, nfVars>>
OfNewsFeed == In("news") /\ UNCHANGED <<boardVars, isVars, bdVars, rtVars, nfVars>>
OnlyIssuers == UNCHANGED <<boardVars, nwVars, bdVars, rtVars, nfVars>>
OfFacts == In("facts") /\ OnlyIssuers
OfPeers == In("peers") /\ OnlyIssuers
OfBonds == In("bonds") /\ UNCHANGED <<boardVars, nwVars, isVars, rtVars, nfVars>>
OfRatios == In("ratios") /\ UNCHANGED <<boardVars, nwVars, isVars, bdVars, nfVars>>
OfNotes == In("notes") /\ UNCHANGED <<boardVars, nwVars, isVars, bdVars, rtVars>>

MCNext ==
    \/ OfQuotes /\ Tick
    \/ OfQuotes /\ SnapshotOnce
    \/ OfQuotes /\ SnapshotBonds
    \/ OfQuotes /\ StartBackfill
    \/ OfQuotes /\ BackfillRows
    \/ OfQuotes /\ ClearCache
    \/ \E l \in Loaders : OfQuotes /\ AnswerCached(l)
    \/ \E l \in Loaders : OfQuotes /\ MissCache(l)
    \/ \E l \in Loaders : OfQuotes /\ ReadRows(l)
    \/ \E l \in Loaders : OfQuotes /\ FetchHistory(l)
    \/ \E l \in Loaders : OfQuotes /\ StoreCache(l)
    \/ OfBoards /\ Capture
    \/ OfBoards /\ PageRead
    \/ OfBoards /\ TickBoards
    \/ OfBoards /\ BondsPolled
    \/ \E a \in Articles : OfNewsFeed /\ Publish(a)
    \/ \E n \in Dividends : OfNewsFeed /\ Announce(n)
    \/ OfNewsFeed /\ NewDay
    \/ OfNewsFeed /\ MeetIssuer
    \/ OfNewsFeed /\ Poll
    \/ \E i \in DOMAIN nwRows : OfNewsFeed /\ Tag(i)
    \/ \E e \in Equities : OfFacts /\ MeetEquity(e)
    \/ \E e \in Equities : OfPeers /\ MeetEquity(e)
    \/ OfFacts /\ Wait
    \/ OfPeers /\ Wait
    \/ OfFacts /\ WeeklyRefresh
    \/ OfFacts /\ ManualRefresh
    \/ OfFacts /\ RefreshNext
    \/ OfFacts /\ EnrichStart
    \/ OfFacts /\ EnrichNext
    \/ \E e \in Equities : OfPeers /\ FetchPeers(e)
    \/ \E e \in Equities : OfPeers /\ ViewPeers(e)
    \/ OfBonds /\ ViewBond
    \/ \E curve \in Curves : \E price \in {0} \cup {curve[i] + e : i \in DOMAIN curve, e \in {-1, 0, 1}} :
        OfBonds /\ ViewYield(curve, price)
    \/ OfBonds /\ Pin(TRUE)
    \/ OfBonds /\ Pin(FALSE)
    \/ \E b \in Bond : OfBonds /\ PinByHand(b)
    \/ \E s \in Statements : OfRatios /\ StoreStatement(s)
    \/ OfRatios /\ ShowSeries("annual")
    \/ OfRatios /\ ShowInterim
    \/ \E stock \in StockLevels, index \in IndexLevels : OfNotes /\ NewSession(stock, index)
    \/ \E rows \in PeerRows : OfNotes /\ GatherFigures(rows, TRUE)
    \/ OfNotes /\ GatherFigures(<<>>, FALSE)

MCSpec == MCInit /\ [][MCNext]_<<part, boardVars, nwVars, isVars, bdVars, rtVars, nfVars>>

Interchangeable == Permutations(Loaders)

=============================================================================
