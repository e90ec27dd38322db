----------------------------- MODULE Watchlists -----------------------------
(***************************************************************************)
(* Watchlists: services/watchlist.py over store/watchlists.py, used by the *)
(* web routes and by the terminal's view.  A request reads and writes in   *)
(* separate statements, so requests of one account interleave; a list may  *)
(* be deleted, from the terminal, while a request for it is under way.     *)
(***************************************************************************)
EXTENDS Integers, FiniteSets

CONSTANTS
    Operator, Guests,    \* the terminal's account, on the paid plan; free accounts
    ListNames, Securities,
    FreeLimit,           \* FREE_WATCHLIST_LIMIT
    Desks,               \* requests being answered at the same time
    MaxLists             \* bound on the lists created

ASSUME WatchlistsAssumption ==
    /\ FreeLimit \in Nat /\ MaxLists \in Nat /\ Operator \notin Guests
    /\ IsFiniteSet(Desks) /\ Desks # {}

Holders == Guests \cup {Operator}

VARIABLES
    wlLists,     \* watchlists: id, account, slug
    wlLast,      \* the ids given so far: AUTOINCREMENT
    wlItems,     \* watchlist_items: list, ticker; history: who asked for it, and for which slug
    wlPc, wlWho, wlSlug, wlTicker, wlId    \* each request: step, account, arguments, the list it found

wlVars == <<wlLists, wlLast, wlItems, wlPc, wlWho, wlSlug, wlTicker, wlId>>
askVars == <<wlPc, wlWho, wlSlug, wlTicker, wlId>>

Nothing == "nothing"

WatchlistsInit ==
    /\ wlLists = {} /\ wlLast = 0 /\ wlItems = {}
    /\ wlPc = [d \in Desks |-> "idle"]
    /\ wlWho = [d \in Desks |-> Operator]
    /\ wlSlug = [d \in Desks |-> Nothing] /\ wlTicker = [d \in Desks |-> Nothing]
    /\ wlId = [d \in Desks |-> 0]

\* get_by_slug
Found(a, s) == {l \in wlLists : l.account = a /\ l.slug = s}

Begin(d, step, a, s, t, id) ==
    /\ wlPc' = [wlPc EXCEPT ![d] = step] /\ wlWho' = [wlWho EXCEPT ![d] = a]
    /\ wlSlug' = [wlSlug EXCEPT ![d] = s] /\ wlTicker' = [wlTicker EXCEPT ![d] = t]
    /\ wlId' = [wlId EXCEPT ![d] = id]
Leave(d) == Begin(d, "idle", Operator, Nothing, Nothing, 0)
Advance(d, step) == wlPc' = [wlPc EXCEPT ![d] = step] /\ UNCHANGED <<wlWho, wlSlug, wlTicker, wlId>>

-----------------------------------------------------------------------------
(* create                                                                  *)

CreateCheck(d, a, s) ==
    /\ wlPc[d] = "idle" /\ Found(a, s) = {} /\ wlLast < MaxLists
    /\ Begin(d, "create", a, s, Nothing, 0)
    /\ UNCHANGED <<wlLists, wlLast, wlItems>>

\* Mutant of NewId: the id of a deleted list is given again.
FreeId == IF wlLists = {} THEN 1 ELSE (CHOOSE l \in wlLists : \A k \in wlLists : k.id =< l.id).id + 1

\* AUTOINCREMENT
NewId == wlLast + 1

\* The unique index refuses the slug another request has just taken.
CreateInsert(d) ==
    /\ wlPc[d] = "create"
    /\ IF Found(wlWho[d], wlSlug[d]) # {} \/ wlLast >= MaxLists
         THEN UNCHANGED <<wlLists, wlLast>>
         ELSE /\ wlLists' = wlLists \cup {[id |-> NewId, account |-> wlWho[d], slug |-> wlSlug[d]]}
              /\ wlLast' = wlLast + 1
    /\ Leave(d)
    /\ UNCHANGED wlItems

-----------------------------------------------------------------------------
(* add_item                                                                *)

\* The list and the ticker are known; a paid plan has no limit to look at.
AddLookUp(d, a, s, t) ==
    /\ wlPc[d] = "idle"
    /\ \E l \in Found(a, s) : Begin(d, IF a = Operator THEN "insert" ELSE "already", a, s, t, l.id)
    /\ UNCHANGED <<wlLists, wlLast, wlItems>>

ListsOf(a) == {l.id : l \in {k \in wlLists : k.account = a}}
Tracked(a) == {i.ticker : i \in {j \in wlItems : j.list \in ListsOf(a)}}

\* A ticker on another of the account's lists takes no slot.
AddAlready(d) ==
    /\ wlPc[d] = "already"
    /\ Advance(d, IF wlTicker[d] \in Tracked(wlWho[d]) THEN "insert" ELSE "count")
    /\ UNCHANGED <<wlLists, wlLast, wlItems>>

\* Mutant of CountFor: the limit is each list's.
ListOnly(d) == Cardinality({i \in wlItems : i.list = wlId[d]})

CountFor(d) == Cardinality(Tracked(wlWho[d]))

AddCount(d) ==
    /\ wlPc[d] = "count"
    /\ IF CountFor(d) >= FreeLimit THEN Leave(d) ELSE Advance(d, "insert")
    /\ UNCHANGED <<wlLists, wlLast, wlItems>>

\* INSERT OR IGNORE ... WHERE EXISTS the list, of this account.
AddInsert(d) ==
    /\ wlPc[d] = "insert"
    /\ wlItems' =
        IF \/ ~\E l \in wlLists : l.id = wlId[d] /\ l.account = wlWho[d]
           \/ \E i \in wlItems : i.list = wlId[d] /\ i.ticker = wlTicker[d]
        THEN wlItems
        ELSE wlItems \cup {[list |-> wlId[d], ticker |-> wlTicker[d], by |-> wlWho[d], asked |-> wlSlug[d]]}
    /\ Leave(d)
    /\ UNCHANGED <<wlLists, wlLast>>

-----------------------------------------------------------------------------
(* remove_item and delete                                                  *)

RemoveLookUp(d, a, s, t) ==
    /\ wlPc[d] = "idle"
    /\ \E l \in Found(a, s) : Begin(d, "remove", a, s, t, l.id)
    /\ UNCHANGED <<wlLists, wlLast, wlItems>>

RemoveDelete(d) ==
    /\ wlPc[d] = "remove"
    /\ wlItems' = {i \in wlItems :
            ~(/\ i.list = wlId[d] /\ i.ticker = wlTicker[d]
              /\ \E l \in wlLists : l.id = wlId[d] /\ l.account = wlWho[d])}
    /\ Leave(d)
    /\ UNCHANGED <<wlLists, wlLast>>

\* From the terminal only; the items go with the list (ON DELETE CASCADE).
DeleteList(s) ==
    /\ Found(Operator, s) # {}
    /\ wlLists' = wlLists \ Found(Operator, s)
    /\ wlItems' = {i \in wlItems : i.list \notin {l.id : l \in Found(Operator, s)}}
    /\ UNCHANGED <<wlLast, askVars>>

WatchlistsNext ==
    \/ \E d \in Desks, a \in Holders, s \in ListNames : CreateCheck(d, a, s)
    \/ \E d \in Desks : CreateInsert(d)
    \/ \E d \in Desks, a \in Holders, s \in ListNames, t \in Securities : AddLookUp(d, a, s, t)
    \/ \E d \in Desks : AddAlready(d)
    \/ \E d \in Desks : AddCount(d)
    \/ \E d \in Desks : AddInsert(d)
    \/ \E d \in Desks, a \in Holders, s \in ListNames, t \in Securities : RemoveLookUp(d, a, s, t)
    \/ \E d \in Desks : RemoveDelete(d)
    \/ \E s \in ListNames : DeleteList(s)

WatchlistsSpec == WatchlistsInit /\ [][WatchlistsNext]_wlVars

-----------------------------------------------------------------------------
ItemsWhereAsked ==
    /\ \A i \in wlItems : \E l \in wlLists : l.id = i.list /\ l.account = i.by /\ l.slug = i.asked
    /\ \A k, l \in wlLists : k # l => k.id # l.id /\ <<k.account, k.slug>> # <<l.account, l.slug>>

FreeCapHeld == \A a \in Guests : Cardinality(Tracked(a)) < FreeLimit + Cardinality(Desks)

\* A ticker is only ever on the list its request named, of the account that
\* asked, however long ago the request looked that list up and whatever was
\* deleted and created since; an account has one list of a name; and a free
\* account never tracks more securities, on all its lists together, than the
\* limit plus the requests that were counting at the same time.
ListsAreAsAsked == ItemsWhereAsked /\ FreeCapHeld
=============================================================================
