------------------------------ MODULE NewsFeed ------------------------------
(***************************************************************************)
(* The news poll and what it fills: articles and dividends, as             *)
(* services/news.py reads them from the source's pages and store/news.py   *)
(* keeps them.  A poll stores each page in one transaction.  The source is *)
(* the environment: it announces a dividend without a date, dates it, and  *)
(* drops it from the page once it is past.                                 *)
(***************************************************************************)
EXTENDS Integers, FiniteSets, SequencesExt

CONSTANTS
    Articles,      \* articles and communiqués, by the hash of address and title
    Communiques,   \* those of them that are communiqués, under their issuer's name
    Dividends,     \* the dividends of one ticker, numbered in the order they are announced
    Amount,        \* Amount[n]: what dividend n pays
    PerPage,       \* articles on a page of the feed
    MaxDay         \* bound on the days followed

ASSUME CommuniquesAssumption == Communiques \subseteq Articles
\* No two dividends are detached the same day: dividend n on day ExDay(n).
ASSUME DividendAssumption == Dividends \subseteq Nat /\ \A n \in Dividends : Amount[n] \in Nat \ {0}
ExDay(n) == 2 * n
NoDay == -1
NoSum == 0
Soon == 2         \* list_upcoming_actions looks `days` ahead

VARIABLES
    nwDay,
    nwListed,      \* the articles of the source's pages
    nwIssuers,     \* is the issuer among the securities already?
    nwPage,        \* the dividends page: per dividend "no", "bare" (no date, no amount), "undated", "dated"
    nwRows,        \* news_items in the order of their ids: article, ticker_hint, the tagger's ticker and relevance
    nwActions      \* corporate_actions, by id: date, amount, and the dividend last written (history)

nwVars == <<nwDay, nwListed, nwIssuers, nwPage, nwRows, nwActions>>

NewsInit ==
    /\ nwDay = 0 /\ nwListed = {} /\ nwIssuers \in BOOLEAN
    /\ nwPage = [n \in Dividends |-> "no"]
    /\ nwRows = <<>> /\ nwActions = <<>>

-----------------------------------------------------------------------------
(* The source.                                                             *)

Publish(a) ==
    /\ a \notin nwListed
    /\ nwListed' = nwListed \cup {a}
    /\ UNCHANGED <<nwDay, nwIssuers, nwPage, nwRows, nwActions>>

\* One dividend at a time waits for its date, and its amount does not change.
Announce(n) ==
    /\ nwDay < ExDay(n)
    /\ \/ /\ nwPage[n] = "no" /\ \A k \in Dividends : nwPage[k] \notin {"bare", "undated"}
          /\ \A k \in Dividends : k < n => nwPage[k] # "no" \/ nwDay >= ExDay(k)
          /\ \E s \in {"bare", "undated", "dated"} : nwPage' = [nwPage EXCEPT ![n] = s]
       \/ nwPage[n] = "bare" /\ \E s \in {"undated", "dated"} : nwPage' = [nwPage EXCEPT ![n] = s]
       \/ nwPage[n] = "undated" /\ nwPage' = [nwPage EXCEPT ![n] = "dated"]
    /\ UNCHANGED <<nwDay, nwListed, nwIssuers, nwRows, nwActions>>

\* A new day; the page lists upcoming dividends only.  A dividend gets its date
\* before that day, and the hourly poll has seen the dates of the day before.
NewDay ==
    /\ nwDay < MaxDay
    /\ \A n \in Dividends :
        /\ ExDay(n) = nwDay => nwPage[n] \notin {"bare", "undated"}
        /\ nwPage[n] = "dated" /\ nwIssuers => \E i \in DOMAIN nwActions : nwActions[i].day = ExDay(n)
    /\ nwDay' = nwDay + 1
    /\ nwPage' = [n \in Dividends |-> IF ExDay(n) < nwDay + 1 THEN "no" ELSE nwPage[n]]
    /\ UNCHANGED <<nwListed, nwIssuers, nwRows, nwActions>>

\* The snapshot job stores the issuer.
MeetIssuer ==
    /\ ~nwIssuers /\ nwIssuers' = TRUE
    /\ UNCHANGED <<nwDay, nwListed, nwPage, nwRows, nwActions>>

-----------------------------------------------------------------------------
(* The poll.                                                               *)

\* What parse_news_feed and parse_communiques read off the pages.
NewsPage == SetToSeq(nwListed \ Communiques)
CommuniquesPage == SetToSeq(nwListed \cap Communiques)

\* _resolve_ticker: the ticker of a communiqué's issuer, when the securities
\* have its name by then; an article names no issuer.
Hint(a) == a \in Communiques /\ nwIssuers
Row(a) == [article |-> a, hint |-> Hint(a), tagged |-> FALSE, about |-> FALSE]
StoredArticles(rows) == {rows[i].article : i \in DOMAIN rows}

\* Mutant of UpsertArticle: INSERT OR REPLACE.
InsertOrReplace(rows, a) ==
    Append(SelectSeq(rows, LAMBDA r : r.article # a), Row(a))

\* upsert_news_items: an article that is there is left alone.
UpsertArticle(rows, a) ==
    IF a \in StoredArticles(rows) THEN rows ELSE Append(rows, Row(a))

\* parse_dividendes: a row of the page, "A préciser" instead of a date.
Entry(n) ==
    [day |-> IF nwPage[n] = "dated" THEN ExDay(n) ELSE NoDay,
     sum |-> IF nwPage[n] = "bare" THEN NoSum ELSE Amount[n], of |-> n]

Lowest(S) == IF S = {} THEN 0 ELSE CHOOSE i \in S : \A j \in S : i =< j

SameDay(rows, e) == Lowest({i \in DOMAIN rows : rows[i].day = e.day})
Promoted(rows, e) ==
    Lowest({i \in DOMAIN rows : rows[i].day = NoDay /\ rows[i].sum \in {NoSum, e.sum}})

\* Mutant of Target: a dated entry never takes over an undated row.
NoPromotion(rows, e) == SameDay(rows, e)

\* upsert_corporate_actions: the row an entry goes to.  A dated one without a
\* row of its own takes over an undated one of no amount or the same (F-12).
Target(rows, e) ==
    IF e.day = NoDay \/ SameDay(rows, e) # 0 THEN SameDay(rows, e) ELSE Promoted(rows, e)

UpsertAction(rows, e) ==
    LET i == Target(rows, e)
    IN  IF i = 0 THEN Append(rows, e)
        ELSE [rows EXCEPT ![i] = [e EXCEPT !.sum = IF e.sum # NoSum THEN e.sum ELSE rows[i].sum]]

\* poll_all: the pages in whatever order they list their entries; dividends of
\* a ticker the securities do not have yet are left out.
Poll ==
    LET listed == {n \in Dividends : nwIssuers /\ nwPage[n] # "no"}
    IN  /\ nwRows' = FoldLeft(UpsertArticle, nwRows, NewsPage \o CommuniquesPage)
        /\ \E order \in SetToSeqs(listed) :
            nwActions' = FoldLeft(UpsertAction, nwActions, [i \in DOMAIN order |-> Entry(order[i])])
        /\ UNCHANGED <<nwDay, nwListed, nwIssuers, nwPage>>

\* apply_tags, once per article: is it about the ticker, is it relevant?
Tag(i) ==
    /\ ~nwRows[i].tagged
    /\ \E b \in BOOLEAN : nwRows' = [nwRows EXCEPT ![i].tagged = TRUE, ![i].about = b]
    /\ UNCHANGED <<nwDay, nwListed, nwIssuers, nwPage, nwActions>>

NewsNext ==
    \/ \E a \in Articles : Publish(a)
    \/ \E n \in Dividends : Announce(n)
    \/ NewDay
    \/ MeetIssuer
    \/ Poll
    \/ \E i \in DOMAIN nwRows : Tag(i)

-----------------------------------------------------------------------------
(* The readers.                                                            *)

\* _news_filter_clause: the ticker is the hint or among the tagger's.
Matching == SelectSeq(nwRows, LAMBDA r : r.hint \/ r.about)

\* list_feed: newest first, a page at a time, and the number of all of them.
FeedTotal == Len(Matching)
FeedPage(k) ==
    LET newest == Reverse(Matching)
    IN  SubSeq(newest, k * PerPage + 1, IF (k + 1) * PerPage > Len(newest) THEN Len(newest) ELSE (k + 1) * PerPage)
Feed == UNION {{FeedPage(k)[i].article : i \in DOMAIN FeedPage(k)} : k \in 0..FeedTotal}

\* list_upcoming_actions
Upcoming == {i \in DOMAIN nwActions : nwActions[i].day = NoDay \/ nwActions[i].day \in nwDay..nwDay + Soon}

-----------------------------------------------------------------------------
DividendListedOnce ==
    \A i, j \in Upcoming : i # j => nwActions[i].of # nwActions[j].of

\* The calendar never lists one dividend twice, once without a date and once
\* with it (F-12) or once more at every poll; and a ticker's feed never loses an
\* article: polling a page again leaves what the tagger wrote on it.
FeedReadsTrue == [][DividendListedOnce' /\ Feed \subseteq Feed']_nwVars
=============================================================================
