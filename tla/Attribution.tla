---------------------------- MODULE Attribution ----------------------------
(***************************************************************************)
(* Whose a document is, what it is and of which period: what               *)
(* services/filings.py decides for the reports of brvm.org and for the     *)
(* communiqués of the news that it promotes to filings.  FilingPipeline    *)
(* has the downloads and the files; here a download arrives or does not.   *)
(* A name is a sequence of words, and a title or a file name is the set    *)
(* of the expressions that are found in it.                                *)
(***************************************************************************)
EXTENDS Listings, SequencesExt

CONSTANTS
    Tickers, NameOf, CountryOf,   \* the equities: display name and country
    Alias,                        \* _ALIAS_TO_ISO: the country a run of words stands for
    Slugs, DisplayOf, ManualOf,   \* brvm.org's issuers, and _MANUAL_SLUG_ALIASES
    Documents,                    \* per document: slug, issuer's name in the news, words
    Nobody

ASSUME DocumentsAssumption ==
    /\ Documents \in Seq([slug : Slugs, issuer : Seq(STRING), words : SUBSET STRING])
    /\ NameOf \in [Tickers -> Seq(STRING)] /\ DisplayOf \in [Slugs -> Seq(STRING)]
    /\ ManualOf \in [Slugs -> Tickers \cup {Nobody}]
    /\ Nobody \notin Tickers \cup {"unseen", "annual", "H1", "Q1", "Q3"} /\ "unseen" \notin Tickers

VARIABLES
    atKnown,      \* the equities `securities` has
    atSlugs,      \* filing_source_slugs
    atListed,     \* documents on brvm.org's pages
    atNews,       \* documents among the communiqués
    atRows,       \* filings, in the order of their ids
    atIndex, atTodo,  \* the promotion under way: the names it knows, its communiqués
    atHand        \* the one it is downloading

atVars == <<atKnown, atSlugs, atListed, atNews, atRows, atIndex, atTodo, atHand>>
sitesVars == <<atKnown, atListed, atNews>>
promoVars == <<atIndex, atTodo, atHand>>

Docs == DOMAIN Documents
Unseen == "unseen"
NoDocument == <<>>

AttributionInit ==
    /\ atKnown = {} /\ atSlugs = [s \in Slugs |-> Unseen]
    /\ atListed = {} /\ atNews = {} /\ atRows = <<>>
    /\ atIndex = {} /\ atTodo = <<>> /\ atHand = NoDocument

MeetEquities(S) ==
    /\ S # {} /\ atKnown \cap S = {} /\ atKnown' = atKnown \cup S
    /\ UNCHANGED <<atSlugs, atListed, atNews, atRows, promoVars>>
List(d) ==
    /\ d \notin atListed /\ atListed' = atListed \cup {d}
    /\ UNCHANGED <<atKnown, atSlugs, atNews, atRows, promoVars>>
Announced(d) ==
    /\ d \notin atNews /\ atNews' = atNews \cup {d}
    /\ UNCHANGED <<atKnown, atSlugs, atListed, atRows, promoVars>>

-----------------------------------------------------------------------------
(* Whose: resolve_ticker.                                                  *)

\* _split_root_country: the longest run of up to three words at the end that
\* names a country.
CountryRuns(name) == {k \in 1..3 : k =< Len(name) /\ SubSeq(name, Len(name) - k + 1, Len(name)) \in DOMAIN Alias}
RunLength(name) == IF CountryRuns(name) = {} THEN 0 ELSE CHOOSE k \in CountryRuns(name) : \A j \in CountryRuns(name) : j =< k
Country(name) ==
    IF RunLength(name) = 0 THEN Nobody ELSE Alias[SubSeq(name, Len(name) - RunLength(name) + 1, Len(name))]
Root(name) == IF RunLength(name) = Len(name) THEN name ELSE SubSeq(name, 1, Len(name) - RunLength(name))

\* _load_name_index: an equity's country is the one its name ends in, or that
\* of its row.
IndexedCountry(t) == IF Country(NameOf[t]) # Nobody THEN Country(NameOf[t]) ELSE CountryOf[t]

\* Mutant of Rooted: the group's company of any country.
RootedAnywhere(K, name) == {t \in K : Country(name) # Nobody /\ Root(NameOf[t]) = Root(name)}
Rooted(K, name) ==
    {t \in K : /\ Country(name) # Nobody /\ Root(NameOf[t]) = Root(name)
               /\ IndexedCountry(t) = Country(name)}

\* _fuzzy_resolve: the first test that any equity passes.
Fuzzy(K, name) ==
    LET exact == {t \in K : NameOf[t] = name \/ name = <<t>>}
        starts == {t \in K : IsPrefix(name, NameOf[t]) \/ IsPrefix(NameOf[t], name)}
    IN  IF exact # {} THEN exact
        ELSE IF Rooted(K, name) # {} THEN Rooted(K, name)
        ELSE IF starts # {} THEN starts ELSE {Nobody}

\* Mutant of ResolveTicker: what was remembered is not looked at.
EveryTime(s) == IF ManualOf[s] # Nobody THEN {ManualOf[s]} ELSE Fuzzy(atKnown, DisplayOf[s])

\* A resolution is remembered, also that there was none; the aliases are
\* looked at again, the names are not.
ResolveTicker(s) ==
    IF atSlugs[s] \in Tickers THEN {atSlugs[s]}
    ELSE IF ManualOf[s] # Nobody THEN {ManualOf[s]}
    ELSE IF atSlugs[s] = Nobody THEN {Nobody} ELSE Fuzzy(atKnown, DisplayOf[s])

\* store/slugs.py remember: a ticker is never replaced by none.
Remember(resolved) == [s \in Slugs |-> IF resolved[s] # Nobody \/ atSlugs[s] = Unseen THEN resolved[s] ELSE atSlugs[s]]

\* `UPDATE filing_source_slugs SET ticker = ...`, by the operator.
Override(s, t) ==
    /\ atSlugs[s] = Nobody /\ atSlugs' = [atSlugs EXCEPT ![s] = t]
    /\ UNCHANGED <<sitesVars, atRows, promoVars>>

-----------------------------------------------------------------------------
(* What, and of which period.                                              *)

\* The label of the first pair whose expression is there.
FirstOf(pairs, words) ==
    LET S == {i \in DOMAIN pairs : pairs[i][1] \in words}
    IN  IF S = {} THEN Nobody ELSE pairs[CHOOSE i \in S : \A j \in S : i =< j][2]

\* _DOC_TYPE_PATTERNS, _classify_doc_type and _classify_period, of a file name.
FileTypes == <<<<"rapport_annuel", "rapport_annuel">>, <<"etats_financiers", "etats_financiers">>,
               <<"rapport_activites", "rapport_activites">>, <<"resultats", "resultats">>, <<"rse", "rse">>,
               <<"assemblee", "assemblee">>>>
FilePeriods == <<<<"semestre1", "H1">>, <<"trimestre1", "Q1">>, <<"trimestre3", "Q3">>,
                 <<"exercice", "annual">>, <<"year", "annual">>>>
FileType(d) == IF FirstOf(FileTypes, Documents[d].words) = Nobody THEN "autre" ELSE FirstOf(FileTypes, Documents[d].words)
FilePeriod(d) == FirstOf(FilePeriods, Documents[d].words)

\* classify_communique_title: no type, no filing; a bare year is trusted in an
\* annual report only, and a second quarter is the first half.
TitleTypes == <<<<"rapport_annuel", "rapport_annuel">>, <<"etats_financiers", "etats_financiers">>,
                <<"rapport_activites", "rapport_activites">>, <<"examen_limite", "rapport_activites">>,
                <<"resultats", "resultats">>>>
TitlePeriods == <<<<"semestre1", "H1">>, <<"trimestre2", "H1">>, <<"trimestre1", "Q1">>,
                  <<"trimestre3", "Q3">>, <<"exercice", "annual">>>>
TitleType(d) == FirstOf(TitleTypes, Documents[d].words)
TitlePeriod(d) ==
    IF FirstOf(TitlePeriods, Documents[d].words) # Nobody THEN FirstOf(TitlePeriods, Documents[d].words)
    ELSE IF TitleType(d) = "rapport_annuel" /\ "year" \in Documents[d].words THEN "annual" ELSE Nobody

-----------------------------------------------------------------------------
FilingRow(source, d, t, type, period, seen) ==
    [source |-> source, doc |-> d, ticker |-> t, type |-> type, period |-> period, seen |-> seen]
Stored(source, d) == \E i \in DOMAIN atRows : atRows[i].source = source /\ atRows[i].doc = d

\* fetch_issuer_filings: every document an issuer's pages list.
IssuerPages(s) == {d \in atListed : Documents[d].slug = s}

Sooner == {o \in Docs \X Docs : o[1] < o[2]}

\* pull_all: every issuer is resolved; of the documents its pages list and no
\* row has, those whose download arrived get one.
Pull ==
    \E resolved \in [Slugs -> Tickers \cup {Nobody}] :
        /\ \A s \in Slugs : resolved[s] \in ResolveTicker(s)
        /\ atSlugs' = Remember(resolved)
        /\ \E arrived \in SUBSET UNION {{d \in IssuerPages(s) : ~Stored("brvm", d)} :
                                        s \in {r \in Slugs : resolved[r] \in atKnown}} :
            atRows' = atRows \o [i \in 1..Cardinality(arrived) |->
                LET d == Listing(arrived, Sooner)[i]
                IN  FilingRow("brvm", d, resolved[Documents[d].slug], FileType(d), FilePeriod(d), 0)]
        /\ UNCHANGED <<sitesVars, promoVars>>

\* promote_from_communiques: the communiqués no filing has the address of.
PromoteStart ==
    /\ atTodo = <<>> /\ atHand = NoDocument
    /\ atIndex' = atKnown
    /\ atTodo' = Listing({d \in atNews : ~Stored("sikafinance", d)}, {o \in Docs \X Docs : o[1] > o[2]}) /\ atTodo' # <<>>
    /\ UNCHANGED <<sitesVars, atSlugs, atRows, atHand>>

\* Mutant of Covered: one source does not look at the other's filings.
NotCovered(t, type, period) == FALSE

\* _period_already_covered, by either source.
Covered(t, type, period) ==
    period # Nobody /\ \E i \in DOMAIN atRows : /\ atRows[i].ticker = t
                                               /\ atRows[i].type = type /\ atRows[i].period = period

\* The next communiqué: is it a filing, of an issuer that is known, that is not
\* stored yet?
PromoteLook ==
    /\ atTodo # <<>> /\ atHand = NoDocument
    /\ LET d == Head(atTodo)
       IN  \E t \in Fuzzy(atIndex, Documents[d].issuer) :
            atHand' = IF \/ TitleType(d) = Nobody \/ t = Nobody
                         \/ Stored("sikafinance", d) \/ Covered(t, TitleType(d), TitlePeriod(d))
                      THEN NoDocument
                      ELSE FilingRow("sikafinance", d, t, TitleType(d), TitlePeriod(d), Len(atRows))
    /\ atTodo' = Tail(atTodo)
    /\ UNCHANGED <<sitesVars, atSlugs, atRows, atIndex>>

\* Its download arrives or does not; upsert_filings leaves an address alone
\* that is there.
PromoteStore ==
    /\ atHand # NoDocument /\ atHand' = NoDocument
    /\ \/ atRows' = IF Stored("sikafinance", atHand.doc) THEN atRows ELSE Append(atRows, atHand)
       \/ UNCHANGED atRows
    /\ UNCHANGED <<sitesVars, atSlugs, atIndex, atTodo>>

AttributionNext ==
    \/ \E S \in SUBSET Tickers : MeetEquities(S)
    \/ \E d \in Docs : List(d)
    \/ \E d \in Docs : Announced(d)
    \/ \E s \in Slugs, t \in Tickers : Override(s, t)
    \/ Pull
    \/ PromoteStart
    \/ PromoteLook
    \/ PromoteStore

AttributionSpec == AttributionInit /\ [][AttributionNext]_atVars

-----------------------------------------------------------------------------
\* What the lists must be like: of an issuer whose name ends in a country, the alias and the equities whose
\* name begins with its own, or the other way round, are of that country, and no ticker reads as a country.
NamesTellCountries ==
    /\ \A t \in Tickers : Country(<<t>>) = Nobody
    /\ \A s \in Slugs : Country(DisplayOf[s]) # Nobody =>
        /\ ManualOf[s] # Nobody => IndexedCountry(ManualOf[s]) = Country(DisplayOf[s])
        /\ \A t \in Tickers : IsPrefix(DisplayOf[s], NameOf[t]) \/ IsPrefix(NameOf[t], DisplayOf[s]) =>
            IndexedCountry(t) = Country(DisplayOf[s])

IssuerKeepsTicker ==
    \A s \in Slugs :
        /\ atSlugs[s] \in Tickers => atSlugs'[s] = atSlugs[s]
        /\ atSlugs[s] = Unseen /\ atSlugs'[s] \in Tickers /\ Country(DisplayOf[s]) # Nobody =>
            IndexedCountry(atSlugs'[s]) = Country(DisplayOf[s])

\* A title without a period, or a second quarter, is dated apart from its file.
DatedAlike(d) == TitlePeriod(d) # Nobody /\ TitleType(d) = FileType(d) /\ "trimestre2" \notin Documents[d].words
ReportStoredOnce ==
    \A i, j \in DOMAIN atRows :
        /\ i # j => <<atRows[i].source, atRows[i].doc>> # <<atRows[j].source, atRows[j].doc>>
        /\ i # j /\ atRows[i].source = "sikafinance" /\ j =< atRows[i].seen =>
            /\ atRows[i].period # Nobody =>
                <<atRows[i].ticker, atRows[i].type, atRows[i].period>> # <<atRows[j].ticker, atRows[j].type, atRows[j].period>>
            /\ atRows[i].doc = atRows[j].doc /\ atRows[i].ticker = atRows[j].ticker => ~DatedAlike(atRows[i].doc)

\* Once an issuer of brvm.org has a ticker it keeps it, whichever equities are
\* listed later, so that all its reports are under one ticker; a name that ends
\* in a country is never taken for the group's company of another one; and a
\* communiqué is never stored beside a filing of its period that was there when
\* the promotion looked, whichever source that one came from, nor a document
\* beside itself, unless its title and its file name date it apart.
FilingsAttributed == [][IssuerKeepsTicker /\ ReportStoredOnce']_atVars
=============================================================================
