--------------------------- MODULE RecordsProofs ---------------------------
(***************************************************************************)
(* Theorems about the records the program keeps and what they are kept in: *)
(* Watchlists, for every set of accounts, lists, securities and requests   *)
(* under way, and every limit; Gateways, for every set of references and   *)
(* of prices; Schema, for any migrations and runs of them; Visits, for any *)
(* visitors, pages and number of days; Figures and Attribution, for any    *)
(* issuers and documents, and whatever is read in them; Issuers, for any   *)
(* equities, sectors, refreshes by hand and answers of the sites.          *)
(***************************************************************************)
EXTENDS Watchlists, Visits, Gateways, Schema, Figures, Attribution, Issuers, FiniteSetTheorems, FunctionTheorems,
        SequenceTheorems, WellFoundedInduction, TLAPS

(***************************************************************************)
(* Watchlists: lists are what was asked for.                               *)
(***************************************************************************)
Asking == {"already", "count", "insert", "remove"}    \* steps of a request that found a list

\* Ids only grow: the list a request found is there as the request saw it, or is gone for good.
ListsNumbered ==
    /\ wlLast \in Nat
    /\ \A l \in wlLists : l.id \in 1..wlLast
    /\ \A d \in Desks : wlPc[d] \in Asking =>
          /\ wlId[d] \in 1..wlLast
          /\ \A l \in wlLists : l.id = wlId[d] => l.account = wlWho[d] /\ l.slug = wlSlug[d]

DesksTyped ==
    /\ DOMAIN wlPc = Desks /\ DOMAIN wlWho = Desks /\ DOMAIN wlSlug = Desks /\ DOMAIN wlTicker = Desks
    /\ DOMAIN wlId = Desks
    /\ \A d \in Desks : wlPc[d] \in {"idle", "create"} \cup Asking

ListInv == DesksTyped /\ ListsNumbered /\ ItemsWhereAsked

\* A request that finds a list, and how the desk that takes it, or leaves it, changes.
LEMMA DeskMoves ==
  ASSUME DesksTyped, NEW d \in Desks, NEW step \in {"idle", "create"} \cup Asking, NEW a, NEW s, NEW t, NEW id,
         Begin(d, step, a, s, t, id)
  PROVE  /\ DesksTyped'
         /\ wlPc'[d] = step /\ wlWho'[d] = a /\ wlSlug'[d] = s /\ wlTicker'[d] = t /\ wlId'[d] = id
         /\ \A e \in Desks \ {d} : /\ wlPc'[e] = wlPc[e] /\ wlWho'[e] = wlWho[e] /\ wlSlug'[e] = wlSlug[e]
                                   /\ wlTicker'[e] = wlTicker[e] /\ wlId'[e] = wlId[e]
  BY DEF Begin, DesksTyped

LEMMA DeskLeaves ==
  ASSUME DesksTyped, NEW d \in Desks, Leave(d)
  PROVE  /\ DesksTyped' /\ wlPc'[d] = "idle"
         /\ \A e \in Desks \ {d} : /\ wlPc'[e] = wlPc[e] /\ wlWho'[e] = wlWho[e] /\ wlSlug'[e] = wlSlug[e]
                                   /\ wlTicker'[e] = wlTicker[e] /\ wlId'[e] = wlId[e]
  BY DeskMoves DEF Leave

LEMMA DeskAdvances ==
  ASSUME DesksTyped, NEW d \in Desks, NEW step \in Asking, Advance(d, step)
  PROVE  /\ DesksTyped' /\ wlPc'[d] = step /\ UNCHANGED <<wlWho, wlSlug, wlTicker, wlId>>
         /\ \A e \in Desks \ {d} : wlPc'[e] = wlPc[e]
  BY DEF Advance, DesksTyped

LEMMA ListInit == WatchlistsInit => ListInv
  BY DEF WatchlistsInit, ListInv, DesksTyped, ListsNumbered, ItemsWhereAsked, Asking

\* A request that finds a list.
LEMMA LookUpKeeps ==
  ASSUME ListInv, NEW d \in Desks, NEW a, NEW s, NEW t, NEW step \in Asking, NEW l \in Found(a, s),
         Begin(d, step, a, s, t, l.id), UNCHANGED <<wlLists, wlLast, wlItems>>
  PROVE  ListInv'
<1> USE DEF ListInv
<1>1. /\ DesksTyped'
      /\ wlPc'[d] = step /\ wlWho'[d] = a /\ wlSlug'[d] = s /\ wlId'[d] = l.id
      /\ \A e \in Desks \ {d} : /\ wlPc'[e] = wlPc[e] /\ wlWho'[e] = wlWho[e] /\ wlSlug'[e] = wlSlug[e]
                                /\ wlId'[e] = wlId[e]
  <2>1. step \in {"idle", "create"} \cup Asking
    OBVIOUS
  <2> QED BY <2>1, DeskMoves
<1>2. l \in wlLists /\ l.account = a /\ l.slug = s
  BY DEF Found
<1>3. \A k \in wlLists : k.id = l.id => k = l
  BY <1>2 DEF ItemsWhereAsked
<1>4. ListsNumbered'
  BY <1>1, <1>2, <1>3 DEF ListsNumbered
<1> QED BY <1>1, <1>4 DEF ItemsWhereAsked

\* A request that ends, or goes on with the list it found.
LEMMA DeskKeeps ==
  ASSUME ListInv, NEW d \in Desks, Leave(d) \/ (wlPc[d] \in Asking /\ \E step \in Asking : Advance(d, step)),
         UNCHANGED <<wlLists, wlLast>>
  PROVE  DesksTyped' /\ ListsNumbered'
<1> USE DEF ListInv
<1>1. CASE Leave(d)
  BY <1>1, DeskLeaves DEF ListsNumbered, Asking
<1>2. ASSUME wlPc[d] \in Asking, NEW step \in Asking, Advance(d, step)
      PROVE  DesksTyped' /\ ListsNumbered'
  <2>1. /\ DesksTyped' /\ UNCHANGED <<wlWho, wlSlug, wlTicker, wlId>>
        /\ \A e \in Desks \ {d} : wlPc'[e] = wlPc[e]
    BY <1>2, DeskAdvances
  <2> QED BY <1>2, <2>1 DEF ListsNumbered
<1> QED BY <1>1, <1>2

LEMMA ListStep ==
  ASSUME ListInv, [WatchlistsNext]_wlVars
  PROVE  ListInv'
<1> USE DEF ListInv
<1>1. CASE UNCHANGED wlVars
  BY <1>1 DEF wlVars, DesksTyped, ListsNumbered, ItemsWhereAsked
<1>2. ASSUME NEW d \in Desks, NEW a \in Holders, NEW s \in ListNames, CreateCheck(d, a, s)
      PROVE  ListInv'
  <2>1. Begin(d, "create", a, s, Nothing, 0) /\ UNCHANGED <<wlLists, wlLast, wlItems>>
    BY <1>2 DEF CreateCheck
  <2>2. DesksTyped' /\ wlPc'[d] = "create"
        /\ \A e \in Desks \ {d} : /\ wlPc'[e] = wlPc[e] /\ wlWho'[e] = wlWho[e] /\ wlSlug'[e] = wlSlug[e]
                                  /\ wlId'[e] = wlId[e]
    BY <2>1, DeskMoves
  <2>3. ListsNumbered'
    BY <2>1, <2>2 DEF ListsNumbered, Asking
  <2> QED BY <2>1, <2>2, <2>3 DEF ItemsWhereAsked
<1>3. ASSUME NEW d \in Desks, CreateInsert(d)
      PROVE  ListInv'
  <2>1. Leave(d) /\ UNCHANGED wlItems
    BY <1>3 DEF CreateInsert
  <2>2. CASE UNCHANGED <<wlLists, wlLast>>
    BY <2>1, <2>2, DeskKeeps DEF ItemsWhereAsked
  <2>3. CASE /\ Found(wlWho[d], wlSlug[d]) = {} /\ wlLast' = wlLast + 1
             /\ wlLists' = wlLists \cup {[id |-> NewId, account |-> wlWho[d], slug |-> wlSlug[d]]}
    <3>1. PICK n : n = [id |-> wlLast + 1, account |-> wlWho[d], slug |-> wlSlug[d]]
      OBVIOUS
    <3>2. wlLists' = wlLists \cup {n} /\ n.id = wlLast + 1 /\ n.account = wlWho[d] /\ n.slug = wlSlug[d]
      BY <2>3, <3>1 DEF NewId
    <3>3. \A l \in wlLists : l.id # n.id /\ <<l.account, l.slug>> # <<n.account, n.slug>>
      BY <2>3, <3>2 DEF Found, ListsNumbered
    <3>4. DesksTyped' /\ wlPc'[d] = "idle"
          /\ \A e \in Desks \ {d} : /\ wlPc'[e] = wlPc[e] /\ wlWho'[e] = wlWho[e] /\ wlSlug'[e] = wlSlug[e]
                                    /\ wlId'[e] = wlId[e]
      BY <2>1, DeskLeaves
    <3>5. wlLast \in Nat /\ n.id \in 1..wlLast' /\ \A x \in 1..wlLast : x \in 1..wlLast' /\ x # n.id
      BY <2>3, <3>2 DEF ListsNumbered
    <3>6. ListsNumbered'
      <4>1. wlLast' \in Nat /\ \A l \in wlLists' : l.id \in 1..wlLast'
        BY <2>3, <3>2, <3>5 DEF ListsNumbered
      <4>2. ASSUME NEW e \in Desks, wlPc'[e] \in Asking
            PROVE  /\ wlId'[e] \in 1..wlLast'
                   /\ \A l \in wlLists' : l.id = wlId'[e] => l.account = wlWho'[e] /\ l.slug = wlSlug'[e]
        <5>1. e # d
          BY <3>4, <4>2 DEF Asking
        <5>2. wlId[e] \in 1..wlLast /\ wlId'[e] = wlId[e] /\ wlWho'[e] = wlWho[e] /\ wlSlug'[e] = wlSlug[e]
              /\ \A l \in wlLists : l.id = wlId[e] => l.account = wlWho[e] /\ l.slug = wlSlug[e]
          BY <3>4, <4>2, <5>1 DEF ListsNumbered
        <5> QED BY <3>2, <3>5, <5>2
      <4> QED BY <4>1, <4>2 DEF ListsNumbered
    <3>7. ItemsWhereAsked'
      BY <2>1, <3>2, <3>3 DEF ItemsWhereAsked
    <3> QED BY <3>4, <3>6, <3>7
  <2> QED BY <1>3, <2>2, <2>3 DEF CreateInsert
<1>4. ASSUME NEW d \in Desks, NEW a \in Holders, NEW s \in ListNames, NEW t \in Securities,
             AddLookUp(d, a, s, t) \/ RemoveLookUp(d, a, s, t)
      PROVE  ListInv'
  <2>1. UNCHANGED <<wlLists, wlLast, wlItems>>
    BY <1>4 DEF AddLookUp, RemoveLookUp
  <2>2. \E l \in Found(a, s) : \E step \in Asking : Begin(d, step, a, s, t, l.id)
    BY <1>4 DEF AddLookUp, RemoveLookUp, Asking
  <2> QED BY <2>1, <2>2, LookUpKeeps
<1>5. ASSUME NEW d \in Desks, AddAlready(d) \/ AddCount(d)
      PROVE  ListInv'
  <2>1. UNCHANGED <<wlLists, wlLast, wlItems>>
    BY <1>5 DEF AddAlready, AddCount
  <2>2. Leave(d) \/ (wlPc[d] \in Asking /\ \E step \in Asking : Advance(d, step))
    BY <1>5 DEF AddAlready, AddCount, Asking
  <2> QED BY <2>1, <2>2, DeskKeeps DEF ItemsWhereAsked
<1>6. ASSUME NEW d \in Desks, AddInsert(d)
      PROVE  ListInv'
  <2>1. Leave(d) /\ UNCHANGED <<wlLists, wlLast>> /\ wlPc[d] \in Asking
    BY <1>6 DEF AddInsert, Asking
  <2>2. CASE UNCHANGED wlItems
    BY <2>1, <2>2, DeskKeeps DEF ItemsWhereAsked
  <2>3. CASE /\ \E l \in wlLists : l.id = wlId[d] /\ l.account = wlWho[d]
             /\ wlItems' = wlItems \cup
                  {[list |-> wlId[d], ticker |-> wlTicker[d], by |-> wlWho[d], asked |-> wlSlug[d]]}
    <3>1. PICK l \in wlLists : l.id = wlId[d] /\ l.account = wlWho[d]
      BY <2>3
    <3>2. l.slug = wlSlug[d]
      BY <2>1, <3>1 DEF ListsNumbered
    <3>3. ItemsWhereAsked'
      BY <2>1, <2>3, <3>1, <3>2 DEF ItemsWhereAsked
    <3> QED BY <2>1, <3>3, DeskKeeps
  <2> QED BY <1>6, <2>2, <2>3 DEF AddInsert
<1>7. ASSUME NEW d \in Desks, RemoveDelete(d)
      PROVE  ListInv'
  <2>1. Leave(d) /\ UNCHANGED <<wlLists, wlLast>> /\ wlItems' \subseteq wlItems
    BY <1>7 DEF RemoveDelete
  <2> QED BY <2>1, DeskKeeps DEF ItemsWhereAsked
<1>8. ASSUME NEW s \in ListNames, DeleteList(s)
      PROVE  ListInv'
  <2>1. /\ wlLists' = wlLists \ Found(Operator, s) /\ UNCHANGED <<wlLast, wlPc, wlWho, wlSlug, wlTicker, wlId>>
        /\ wlItems' = {i \in wlItems : i.list \notin {l.id : l \in Found(Operator, s)}}
    BY <1>8 DEF DeleteList, askVars
  <2>2. DesksTyped' /\ ListsNumbered'
    BY <2>1 DEF DesksTyped, ListsNumbered
  <2>3. ASSUME NEW i \in wlItems'
        PROVE  \E l \in wlLists' : l.id = i.list /\ l.account = i.by /\ l.slug = i.asked
    <3>1. i \in wlItems /\ \A l \in Found(Operator, s) : l.id # i.list
      BY <2>1
    <3>2. PICK l \in wlLists : l.id = i.list /\ l.account = i.by /\ l.slug = i.asked
      BY <3>1 DEF ItemsWhereAsked
    <3> QED BY <2>1, <3>1, <3>2
  <2>4. \A k, l \in wlLists' : k # l => k.id # l.id /\ <<k.account, k.slug>> # <<l.account, l.slug>>
    BY <2>1 DEF ItemsWhereAsked
  <2> QED BY <2>2, <2>3, <2>4 DEF ItemsWhereAsked
<1> QED BY <1>1, <1>2, <1>3, <1>4, <1>5, <1>6, <1>7, <1>8 DEF WatchlistsNext

(***************************************************************************)
(* Watchlists: the limit of a free account.                                *)
(***************************************************************************)
\* Requests that passed the limit and have not written their item.
Inserting(a) == {d \in Desks : wlPc[d] = "insert" /\ wlWho[d] = a}

\* What an account tracks or is about to: two requests for one security take one place.
Wanted(a) == Tracked(a) \cup {wlTicker[d] : d \in Inserting(a)}

WantedBounded ==
    \A a \in Guests : IsFiniteSet(Wanted(a)) /\ Cardinality(Wanted(a)) < FreeLimit + Cardinality(Desks)

LEMMA DesksCounted == IsFiniteSet(Desks) /\ Cardinality(Desks) \in Nat /\ Cardinality(Desks) > 0 /\ FreeLimit \in Nat
<1>1. IsFiniteSet(Desks) /\ Desks # {} /\ FreeLimit \in Nat
  BY WatchlistsAssumption
<1>2. Cardinality(Desks) \in Nat /\ Cardinality(Desks) # 0
  BY <1>1, FS_CardinalityType, FS_EmptySet
<1> QED BY <1>1, <1>2

\* A set of values of a function has at most as many elements as its arguments.
LEMMA ImageIsSmaller ==
  ASSUME NEW S, IsFiniteSet(S), NEW f
  PROVE  IsFiniteSet({f[x] : x \in S}) /\ Cardinality({f[x] : x \in S}) =< Cardinality(S)
<1> DEFINE T == {f[x] : x \in S}
           g == [x \in S |-> f[x]]
<1>1. g \in Surjection(S, T)
  BY DEF Surjection
<1> QED BY <1>1, FS_Surjection

LEMMA WantedShrinks ==
  ASSUME WantedBounded, \A a \in Guests : Wanted(a)' \subseteq Wanted(a)
  PROVE  WantedBounded'
<1>1. ASSUME NEW a \in Guests
      PROVE  IsFiniteSet(Wanted(a)') /\ Cardinality(Wanted(a)') < FreeLimit + Cardinality(Desks)
  <2>1. IsFiniteSet(Wanted(a)) /\ Cardinality(Wanted(a)) \in Nat
    BY FS_CardinalityType DEF WantedBounded
  <2>2. /\ IsFiniteSet(Wanted(a)') /\ Cardinality(Wanted(a)') =< Cardinality(Wanted(a))
        /\ Cardinality(Wanted(a)') \in Nat
    BY <2>1, FS_Subset, FS_CardinalityType
  <2> QED BY <2>1, <2>2, DesksCounted DEF WantedBounded
<1> QED BY <1>1 DEF WantedBounded

\* A request that found room: the securities of the others under way are at most as many as the desks.
LEMMA RoomForOne ==
  ASSUME WantedBounded, NEW d \in Desks, Cardinality(Tracked(wlWho[d])) < FreeLimit,
         \A a \in Guests : a # wlWho[d] => Wanted(a)' \subseteq Wanted(a),
         \A a \in Guests : Tracked(a)' = Tracked(a)
  PROVE  WantedBounded'
<1>1. ASSUME NEW a \in Guests
      PROVE  IsFiniteSet(Wanted(a)') /\ Cardinality(Wanted(a)') < FreeLimit + Cardinality(Desks)
  <2>1. IsFiniteSet(Wanted(a)) /\ Cardinality(Wanted(a)) \in Nat
    BY FS_CardinalityType DEF WantedBounded
  <2>2. CASE a # wlWho[d]
    <3>1. /\ IsFiniteSet(Wanted(a)') /\ Cardinality(Wanted(a)') =< Cardinality(Wanted(a))
          /\ Cardinality(Wanted(a)') \in Nat
      BY <2>1, <2>2, FS_Subset, FS_CardinalityType
    <3> QED BY <2>1, <3>1, DesksCounted DEF WantedBounded
  <2>3. CASE a = wlWho[d]
    <3>1. PICK tracked : tracked = Tracked(a)
      OBVIOUS
    <3>2. tracked \subseteq Wanted(a)
      BY <3>1 DEF Wanted
    <3>3. IsFiniteSet(tracked) /\ Cardinality(tracked) \in Nat /\ Cardinality(tracked) < FreeLimit
      BY <2>1, <2>3, <3>1, <3>2, FS_Subset, FS_CardinalityType
    <3>4. PICK S : S = Inserting(a)'
      OBVIOUS
    <3>5. PICK f : f = wlTicker'
      OBVIOUS
    <3>6. S \subseteq Desks
      BY <3>4 DEF Inserting
    <3>7. IsFiniteSet(S) /\ Cardinality(S) =< Cardinality(Desks) /\ Cardinality(S) \in Nat
      BY <3>6, DesksCounted, FS_Subset, FS_CardinalityType
    <3>8. PICK T : T = {f[x] : x \in S}
      OBVIOUS
    <3>9. IsFiniteSet(T) /\ Cardinality(T) =< Cardinality(S) /\ Cardinality(T) \in Nat
      BY <3>7, <3>8, ImageIsSmaller, FS_CardinalityType
    <3>10. Wanted(a)' = tracked \cup T
      BY <3>1, <3>4, <3>5, <3>8 DEF Wanted
    <3>11. /\ IsFiniteSet(tracked \cup T)
           /\ Cardinality(tracked \cup T) = Cardinality(tracked) + Cardinality(T) - Cardinality(tracked \cap T)
           /\ Cardinality(tracked \cap T) \in Nat
      BY <3>3, <3>9, FS_Union, FS_Intersection, FS_CardinalityType
    <3>12. Cardinality(tracked \cup T) < FreeLimit + Cardinality(Desks)
      BY <3>3, <3>7, <3>9, <3>11, DesksCounted
    <3> QED BY <3>10, <3>11, <3>12
  <2> QED BY <2>2, <2>3
<1> QED BY <1>1 DEF WantedBounded

\* Nothing new is tracked and nobody new is about to track.
LEMMA WantedFollows ==
  ASSUME NEW a, Tracked(a)' \subseteq Wanted(a),
         \A d \in Desks : wlPc'[d] = "insert" /\ wlWho'[d] = a =>
            wlTicker'[d] \in Tracked(a) \/ (wlPc[d] = "insert" /\ wlWho[d] = a /\ wlTicker'[d] = wlTicker[d])
  PROVE  Wanted(a)' \subseteq Wanted(a)
  BY DEF Wanted, Inserting

LEMMA WantedInit == WatchlistsInit => WantedBounded
<1> SUFFICES ASSUME WatchlistsInit, NEW a \in Guests
             PROVE  IsFiniteSet(Wanted(a)) /\ Cardinality(Wanted(a)) < FreeLimit + Cardinality(Desks)
  BY DEF WantedBounded
<1>1. Wanted(a) = {}
  BY DEF WatchlistsInit, Wanted, Tracked, ListsOf, Inserting
<1> QED BY <1>1, FS_EmptySet, DesksCounted

LEMMA WantedStep ==
  ASSUME ListInv, WantedBounded, [WatchlistsNext]_wlVars
  PROVE  WantedBounded'
<1> USE DEF ListInv
<1>1. CASE UNCHANGED wlVars
  BY <1>1 DEF wlVars, WantedBounded, Wanted, Tracked, ListsOf, Inserting
<1>2. ASSUME NEW d \in Desks, Leave(d) \/ \E step \in {"create"} \cup Asking : \E a, s, t, id :
                                  Begin(d, step, a, s, t, id) /\ (step = "insert" => a \notin Guests),
             \A a \in Guests : Tracked(a)' \subseteq Wanted(a)
      PROVE  WantedBounded'
  <2>1. /\ wlPc'[d] # "insert" \/ wlWho'[d] \notin Guests
        /\ \A e \in Desks \ {d} : wlPc'[e] = wlPc[e] /\ wlWho'[e] = wlWho[e] /\ wlTicker'[e] = wlTicker[e]
    <3>1. CASE Leave(d)
      BY <3>1, DeskLeaves
    <3>2. ASSUME NEW step \in {"create"} \cup Asking, NEW a, NEW s, NEW t, NEW id,
                 Begin(d, step, a, s, t, id), step = "insert" => a \notin Guests
          PROVE  /\ wlPc'[d] # "insert" \/ wlWho'[d] \notin Guests
                 /\ \A e \in Desks \ {d} : wlPc'[e] = wlPc[e] /\ wlWho'[e] = wlWho[e] /\ wlTicker'[e] = wlTicker[e]
      BY <3>2, DeskMoves
    <3> QED BY <1>2, <3>1, <3>2
  <2>2. \A a \in Guests : Wanted(a)' \subseteq Wanted(a)
    BY <1>2, <2>1, WantedFollows
  <2> QED BY <2>2, WantedShrinks
<1>3. ASSUME UNCHANGED <<wlLists, wlItems>>
      PROVE  \A a \in Guests : Tracked(a)' = Tracked(a) /\ Tracked(a)' \subseteq Wanted(a)
  BY <1>3 DEF Tracked, ListsOf, Wanted
<1>4. ASSUME NEW d \in Desks, NEW a \in Holders, NEW s \in ListNames, CreateCheck(d, a, s)
      PROVE  WantedBounded'
  <2>1. UNCHANGED <<wlLists, wlItems>> /\ Begin(d, "create", a, s, Nothing, 0)
    BY <1>4 DEF CreateCheck
  <2> QED BY <1>2, <1>3, <2>1
<1>5. ASSUME NEW d \in Desks, CreateInsert(d)
      PROVE  WantedBounded'
  <2>1. Leave(d) /\ UNCHANGED wlItems
    BY <1>5 DEF CreateInsert
  <2>2. \A l \in wlLists' : l \in wlLists \/ l.id = wlLast + 1
    BY <1>5 DEF CreateInsert, NewId
  <2>3. \A i \in wlItems : i.list \in 1..wlLast /\ i.list # wlLast + 1
    BY DEF ItemsWhereAsked, ListsNumbered
  <2>4. \A a \in Guests : Tracked(a)' \subseteq Wanted(a)
    BY <2>1, <2>2, <2>3 DEF Tracked, ListsOf, Wanted
  <2> QED BY <1>2, <2>1, <2>4
<1>6. ASSUME NEW d \in Desks, NEW a \in Holders, NEW s \in ListNames, NEW t \in Securities,
             AddLookUp(d, a, s, t) \/ RemoveLookUp(d, a, s, t)
      PROVE  WantedBounded'
  <2>1. UNCHANGED <<wlLists, wlItems>>
    BY <1>6 DEF AddLookUp, RemoveLookUp
  <2>2. Operator \notin Guests
    BY WatchlistsAssumption
  <2>3. \E step \in {"create"} \cup Asking : \E id :
         Begin(d, step, a, s, t, id) /\ (step = "insert" => a \notin Guests)
    BY <1>6, <2>2 DEF AddLookUp, RemoveLookUp, Asking
  <2> QED BY <1>2, <1>3, <2>1, <2>3
<1>7. ASSUME NEW d \in Desks, AddAlready(d)
      PROVE  WantedBounded'
  <2>1. UNCHANGED <<wlLists, wlItems>> /\ wlPc[d] = "already"
        /\ Advance(d, IF wlTicker[d] \in Tracked(wlWho[d]) THEN "insert" ELSE "count")
    BY <1>7 DEF AddAlready
  <2>2. /\ UNCHANGED <<wlWho, wlTicker>> /\ \A e \in Desks \ {d} : wlPc'[e] = wlPc[e]
        /\ wlPc'[d] = IF wlTicker[d] \in Tracked(wlWho[d]) THEN "insert" ELSE "count"
    BY <2>1, DeskAdvances DEF Asking
  <2>3. \A a \in Guests : Wanted(a)' \subseteq Wanted(a)
    BY <1>3, <2>1, <2>2, WantedFollows
  <2> QED BY <2>3, WantedShrinks
<1>8. ASSUME NEW d \in Desks, AddCount(d)
      PROVE  WantedBounded'
  <2>1. UNCHANGED <<wlLists, wlItems>>
    BY <1>8 DEF AddCount
  <2>2. CASE Leave(d)
    BY <1>2, <1>3, <2>1, <2>2
  <2>3. CASE ~(CountFor(d) >= FreeLimit) /\ Advance(d, "insert")
    <3>1. UNCHANGED <<wlWho, wlTicker>> /\ \A e \in Desks \ {d} : wlPc'[e] = wlPc[e]
      BY <2>3, DeskAdvances DEF Asking
    <3>2. \A a \in Guests : a # wlWho[d] => Wanted(a)' \subseteq Wanted(a)
      BY <1>3, <2>1, <3>1, WantedFollows
    <3>3. CASE wlWho[d] \in Guests
      <4>1. PICK a \in Guests : a = wlWho[d]
        BY <3>3
      <4>2. IsFiniteSet(Wanted(a)) /\ Tracked(a) \subseteq Wanted(a)
        BY DEF WantedBounded, Wanted
      <4>3. Cardinality(Tracked(a)) \in Nat
        BY <4>2, FS_Subset, FS_CardinalityType
      <4>4. Cardinality(Tracked(wlWho[d])) < FreeLimit
        BY <2>3, <4>1, <4>3, DesksCounted DEF CountFor
      <4> QED BY <1>3, <2>1, <3>2, <4>4, RoomForOne
    <3>4. CASE wlWho[d] \notin Guests
      BY <3>2, <3>4, WantedShrinks
    <3> QED BY <3>3, <3>4
  <2> QED BY <1>8, <2>2, <2>3 DEF AddCount
<1>9. ASSUME NEW d \in Desks, AddInsert(d)
      PROVE  WantedBounded'
  <2>1. Leave(d) /\ UNCHANGED <<wlLists, wlLast>> /\ wlPc[d] = "insert"
    BY <1>9 DEF AddInsert
  <2>2. CASE UNCHANGED wlItems
    BY <1>2, <1>3, <2>1, <2>2
  <2>3. CASE /\ \E l \in wlLists : l.id = wlId[d] /\ l.account = wlWho[d]
             /\ wlItems' = wlItems \cup
                  {[list |-> wlId[d], ticker |-> wlTicker[d], by |-> wlWho[d], asked |-> wlSlug[d]]}
    <3>1. \A l \in wlLists : l.id = wlId[d] => l.account = wlWho[d]
      BY <2>3 DEF ItemsWhereAsked
    <3>2. \A i \in wlItems' : i \in wlItems \/ (i.list = wlId[d] /\ i.ticker = wlTicker[d])
      BY <2>3
    <3>3. ASSUME NEW a \in Guests
          PROVE  Tracked(a)' \subseteq Wanted(a)
      BY <2>1, <3>1, <3>2 DEF Tracked, ListsOf, Wanted, Inserting
    <3> QED BY <1>2, <2>1, <3>3
  <2> QED BY <1>9, <2>2, <2>3 DEF AddInsert
<1>10. ASSUME NEW d \in Desks, RemoveDelete(d)
       PROVE  WantedBounded'
  <2>1. Leave(d) /\ UNCHANGED wlLists /\ wlItems' \subseteq wlItems
    BY <1>10 DEF RemoveDelete
  <2>2. \A a \in Guests : Tracked(a)' \subseteq Wanted(a)
    BY <2>1 DEF Tracked, ListsOf, Wanted
  <2> QED BY <1>2, <2>1, <2>2
<1>11. ASSUME NEW s \in ListNames, DeleteList(s)
       PROVE  WantedBounded'
  <2>1. wlLists' \subseteq wlLists /\ wlItems' \subseteq wlItems /\ UNCHANGED <<wlPc, wlWho, wlTicker>>
    BY <1>11 DEF DeleteList, askVars
  <2>2. \A a \in Guests : Wanted(a)' \subseteq Wanted(a)
    BY <2>1 DEF Tracked, ListsOf, Wanted, Inserting
  <2> QED BY <2>2, WantedShrinks
<1> QED BY <1>1, <1>4, <1>5, <1>6, <1>7, <1>8, <1>9, <1>10, <1>11 DEF WatchlistsNext

\* services/watchlist.py: an item is on the list and of the account its request
\* named, whatever was deleted and created while the request was under way; an
\* account has one list of a name; and however many requests count at once, a free
\* account passes its limit by less than the number of them.
THEOREM ListsStayAsAsked == WatchlistsSpec => []ListsAreAsAsked
<1>1. WatchlistsInit => ListInv /\ WantedBounded
  BY ListInit, WantedInit
<1>2. ListInv /\ WantedBounded /\ [WatchlistsNext]_wlVars => (ListInv /\ WantedBounded)'
  BY ListStep, WantedStep
<1>3. ListInv /\ WantedBounded => ListsAreAsAsked
  <2> SUFFICES ASSUME ListInv, WantedBounded, NEW a \in Guests
               PROVE  Cardinality(Tracked(a)) < FreeLimit + Cardinality(Desks)
    BY DEF ListInv, ListsAreAsAsked, FreeCapHeld
  <2>1. IsFiniteSet(Wanted(a)) /\ Tracked(a) \subseteq Wanted(a) /\ Cardinality(Wanted(a)) < FreeLimit + Cardinality(Desks)
    BY DEF WantedBounded, Wanted
  <2>2. /\ Cardinality(Tracked(a)) =< Cardinality(Wanted(a)) /\ Cardinality(Tracked(a)) \in Nat
        /\ Cardinality(Wanted(a)) \in Nat
    BY <2>1, FS_Subset, FS_CardinalityType
  <2> QED BY <2>1, <2>2, DesksCounted
<1> QED BY <1>1, <1>2, <1>3, PTL DEF WatchlistsSpec

(***************************************************************************)
(* Gateways: what is taken, and what is answered, is the gateway's.        *)
(***************************************************************************)
Charge == [word : Words \cup {NoneYet}, asked : Nat, amount : Int, currency : {"XOF", "GHS"}]

GatewaysTyped ==
    /\ gwPrice \in Prices /\ gwRows \in [TxRefs -> Row \cup {NoneYet}]
    /\ DOMAIN gwHeld = PROVIDERS \X (TxRefs \cup {Foreign})
    /\ \A g \in PROVIDERS, ref \in TxRefs : gwHeld[<<g, ref>>] \in Charge

\* A gateway holds a charge only for what a checkout asked it, in its own unit
\* and its own words; and a reference's checkout asked one gateway.
ChargesAreAsked ==
    \A g \in PROVIDERS, ref \in TxRefs :
        /\ gwHeld[<<g, ref>>].word # NoneYet =>
              /\ gwHeld[<<g, ref>>].asked > 0
              /\ gwHeld[<<g, ref>>].word \in {Settled(g)} \cup Ended(g) \cup UnderWay(g)
        /\ gwHeld[<<g, ref>>].asked > 0 =>
              /\ gwRows[ref] # NoneYet /\ gwRows[ref].provider = g
              /\ gwHeld[<<g, ref>>].asked = gwRows[ref].amount * Unit(g)

GateInv == GatewaysTyped /\ ChargesAreAsked /\ GatewaysAgree

LEMMA Foreigner == /\ Foreign \notin TxRefs /\ NoneYet \notin TxRefs /\ NoneYet # Foreign
                   /\ \A p \in Prices : p \in Nat /\ p > 0
                   /\ NoneYet \notin Words /\ NoneYet \notin Row /\ NoneYet \notin Verdict
  BY ForeignAssumption, PriceAssumption, NoneYetAssumption

\* Hundredths: the adapter's rounding neither takes a charge that is short nor
\* refuses one that is not.
LEMMA Hundredths ==
  ASSUME NEW g \in PROVIDERS, NEW amount \in Int, NEW francs \in Nat
  PROVE  /\ FromGateway(g, amount) \in Int
         /\ FromGateway(g, amount) >= francs <=> amount >= francs * Unit(g)
         /\ ToGateway(g, francs) = francs * Unit(g) /\ francs * Unit(g) \in Nat
         /\ francs > 0 => francs * Unit(g) > 0
  BY DEF FromGateway, ToGateway, Unit

\* Each gateway's words reach the program as what they mean.
LEMMA WordsAreRead ==
  ASSUME NEW g \in PROVIDERS, NEW word
  PROVE  /\ Normalised(g, word) \in Statuses
         /\ Normalised(g, word) = "successful" <=> word = Settled(g)
         /\ word \in Ended(g) => Normalised(g, word) = "failed"
         /\ word \in UnderWay(g) => Normalised(g, word) = "pending"
  BY DEF PROVIDERS, Normalised, Statuses, Settled, Ended, UnderWay

\* Looked up by its reference, a charge is found or nothing is.
LEMMA LookedUp ==
  ASSUME GatewaysTyped, NEW g \in PROVIDERS, NEW ref \in TxRefs, NEW id \in {NoneYet, ref}
  PROVE  /\ gwHeld[<<g, ref>>].word = NoneYet => Lookup(g, ref, id) = NoneYet
         /\ gwHeld[<<g, ref>>].word # NoneYet =>
              /\ Lookup(g, ref, id) # NoneYet /\ Lookup(g, ref, id).ref = ref
              /\ Lookup(g, ref, id).status = Normalised(g, gwHeld[<<g, ref>>].word)
              /\ Lookup(g, ref, id).francs = FromGateway(g, gwHeld[<<g, ref>>].amount)
              /\ Lookup(g, ref, id).currency = gwHeld[<<g, ref>>].currency
<1> DEFINE held == gwHeld[<<g, ref>>]
           v == [status |-> Normalised(g, held.word), francs |-> FromGateway(g, held.amount),
                 currency |-> held.currency, ref |-> ref]
<1>1. Lookup(g, ref, id) = IF held.word = NoneYet THEN NoneYet ELSE v
  BY DEF Lookup
<1>2. held.amount \in Int /\ held.currency \in {"XOF", "GHS"}
  BY DEF GatewaysTyped, Charge
<1>3. FromGateway(g, held.amount) \in Int /\ Normalised(g, held.word) \in Statuses
  BY <1>2, WordsAreRead DEF FromGateway
<1>4. v \in Verdict
  BY <1>2, <1>3 DEF Verdict
<1> QED BY <1>1, <1>4, Foreigner

\* A payment is activated only by a charge of its own reference, held in full
\* by the gateway that was asked.
LEMMA ActivatedInFull ==
  ASSUME GatewaysTyped, ChargesAreAsked, NEW g \in PROVIDERS, NEW ref \in TxRefs,
         NEW id \in TxRefs \cup {Foreign, NoneYet}, NEW up, gwRows[ref] # NoneYet,
         gwRows[ref].status # "successful", Outcome(ref, g, id, up) = "activated"
  PROVE  HeldInFull(gwRows[ref], ref)
<1> DEFINE row == gwRows[ref]
           q == IF g = "flutterwave" /\ id # NoneYet THEN id ELSE ref
           held == gwHeld[<<g, q>>]
           v == Lookup(g, ref, id)
<1>1. /\ v # NoneYet /\ v.status # "pending" /\ v.status # "failed"
      /\ PaysFor(ref, v)
  BY DEF Outcome
<1>2. /\ v = [status |-> Normalised(g, held.word), francs |-> FromGateway(g, held.amount),
              currency |-> held.currency, ref |-> q]
      /\ held.word # NoneYet
  BY <1>1 DEF Lookup
<1>3. q = ref /\ held.currency = "XOF" /\ FromGateway(g, held.amount) >= row.amount
  BY <1>1, <1>2 DEF PaysFor
<1>4. held \in Charge /\ row \in Row
  BY <1>3 DEF GatewaysTyped
<1>5. row.amount \in Nat /\ held.amount \in Int
  BY <1>4, PriceAssumption DEF Row, Charge
<1>6. Normalised(g, held.word) = "successful"
  BY <1>1, <1>2, WordsAreRead DEF Statuses
<1>7. held.word = Settled(g)
  BY <1>6, WordsAreRead
<1>8. row.provider = g
  BY <1>2, <1>3 DEF ChargesAreAsked
<1>9. held.amount >= row.amount * Unit(g)
  BY <1>3, <1>5, Hundredths
<1> QED BY <1>3, <1>7, <1>8, <1>9 DEF HeldInFull

\* What a confirmation that reaches the asked gateway answers.
LEMMA AnsweredAsHeld ==
  ASSUME GatewaysTyped, ChargesAreAsked, NEW ref \in TxRefs, NEW id \in {NoneYet, ref}, gwRows[ref] # NoneYet,
         Built(gwRows[ref].provider)
  PROVE  LET g == gwRows[ref].provider
             held == gwHeld[<<g, ref>>]
             outcome == Outcome(ref, g, id, TRUE)
         IN  /\ held.word = Settled(g) /\ held.currency = "XOF" /\ held.amount >= held.asked =>
                    outcome \in {"activated", "already"}
             /\ held.word \in UnderWay(g) \cup {NoneYet} => outcome \in {"pending", "already"}
             /\ held.word \in Ended(g) => outcome \in {"failed", "already"}
<1> DEFINE row == gwRows[ref]
           g == row.provider
           held == gwHeld[<<g, ref>>]
           v == Lookup(g, ref, id)
           outcome == Outcome(ref, g, id, TRUE)
<1>1. row \in Row /\ g \in PROVIDERS
  BY DEF GatewaysTyped, Row
<1>2. held \in Charge
  BY <1>1 DEF GatewaysTyped
<1>3. row.amount \in Nat /\ held.amount \in Int /\ held.word \in Words \cup {NoneYet}
  BY <1>1, <1>2, PriceAssumption DEF Row, Charge
<1>4. outcome = IF row.status = "successful" THEN "already"
                ELSE IF v = NoneYet \/ v.status = "pending" THEN "pending"
                ELSE IF v.status = "failed" THEN "failed"
                ELSE IF PaysFor(ref, v) THEN "activated" ELSE "mismatch"
  BY DEF Outcome
<1>5. ASSUME held.word = Settled(g), held.currency = "XOF", held.amount >= held.asked
      PROVE  outcome \in {"activated", "already"}
  <2>1. held.word # NoneYet
    BY <1>1, <1>5, Foreigner DEF Settled, PROVIDERS, Words
  <2>2. held.asked = row.amount * Unit(g)
    BY <1>1, <2>1 DEF ChargesAreAsked
  <2>3. FromGateway(g, held.amount) >= row.amount
    BY <1>1, <1>3, <1>5, <2>2, Hundredths
  <2>4. Normalised(g, held.word) = "successful"
    BY <1>1, <1>5, WordsAreRead
  <2> QED BY <1>1, <1>4, <1>5, <2>1, <2>3, <2>4, LookedUp DEF PaysFor
<1>6. ASSUME held.word \in UnderWay(g) \cup {NoneYet}
      PROVE  outcome \in {"pending", "already"}
  <2>1. CASE held.word = NoneYet
    <3>1. v = NoneYet
      BY <1>1, <2>1, LookedUp
    <3> QED BY <1>4, <3>1
  <2>2. CASE held.word # NoneYet /\ held.word \in UnderWay(g)
    <3>1. v.status = "pending"
      BY <1>1, <2>2, LookedUp, WordsAreRead
    <3> QED BY <1>4, <3>1
  <2> QED BY <1>6, <2>1, <2>2
<1>7. ASSUME held.word \in Ended(g)
      PROVE  outcome \in {"failed", "already"}
  <2>1. held.word # NoneYet
    BY <1>1, <1>7, Foreigner DEF Ended, PROVIDERS, Words
  <2>2. v # NoneYet /\ v.status = "failed"
    BY <1>1, <1>7, <2>1, LookedUp, WordsAreRead
  <2> QED BY <1>4, <2>2
<1> QED BY <1>5, <1>6, <1>7

\* A confirmation, come back to or delivered: the row's payment was taken only if
\* it was taken in full, and the answer is what the asked gateway says.
LEMMA ConfirmKeeps ==
  ASSUME GateInv, NEW ref \in TxRefs, NEW g, NEW id \in TxRefs \cup {Foreign, NoneYet},
         NEW up \in BOOLEAN, NEW via, gwRows[ref] # NoneYet, Confirm(ref, g, id, up, via),
         via \in {"return", gwRows[ref].provider} => g = gwRows[ref].provider
  PROVE  GateInv'
<1> USE DEF GateInv
<1> DEFINE row == gwRows[ref]
           outcome == Outcome(ref, g, id, up)
<1>1. row \in Row /\ row.provider \in PROVIDERS /\ row.status \in Statuses
  BY DEF GatewaysTyped, Row
<1>2. /\ UNCHANGED <<gwSecrets, gwPrice, gwHeld>>
      /\ gwRows' = [gwRows EXCEPT ![ref] = RowAfter(row, outcome)]
      /\ gwAnswer' = [ref |-> ref, via |-> via, event |-> "complete", id |-> id, up |-> up, outcome |-> outcome]
  BY DEF Confirm
<1>3. PICK after : after = RowAfter(row, outcome)
  OBVIOUS
<1>4. /\ after \in Row /\ after # NoneYet /\ after.provider = row.provider /\ after.amount = row.amount
      /\ after.status = "successful" => row.status = "successful" \/ outcome = "activated"
  BY <1>1, <1>3, Foreigner DEF RowAfter, Row, Statuses
<1>5. gwRows' \in [TxRefs -> Row \cup {NoneYet}] /\ gwRows'[ref] = after
      /\ \A r \in TxRefs \ {ref} : gwRows'[r] = gwRows[r]
  BY <1>2, <1>3, <1>4 DEF GatewaysTyped
<1>6. GatewaysTyped' /\ ChargesAreAsked'
  BY <1>2, <1>4, <1>5 DEF GatewaysTyped, ChargesAreAsked
<1>7. TakenInFull'
  <2> SUFFICES ASSUME NEW r \in TxRefs, gwRows'[r] # NoneYet, gwRows'[r].status = "successful"
               PROVE  HeldInFull(gwRows[r], r)'
    BY DEF TakenInFull
  <2>1. CASE r # ref
    BY <1>2, <1>5, <2>1 DEF TakenInFull, GatewaysAgree, HeldInFull
  <2>2. CASE r = ref
    <3>1. HeldInFull(row, ref)
      <4>1. CASE row.status = "successful"
        BY <4>1 DEF TakenInFull, GatewaysAgree
      <4>2. CASE row.status # "successful"
        <5>1. outcome = "activated"
          BY <1>4, <1>5, <2>2, <4>2
        <5>2. g \in PROVIDERS
          BY <4>2, <5>1 DEF Outcome, Built
        <5> QED BY <4>2, <5>1, <5>2, ActivatedInFull
      <4> QED BY <4>1, <4>2
    <3> QED BY <1>2, <1>4, <1>5, <2>2, <3>1 DEF HeldInFull
  <2> QED BY <2>1, <2>2
<1>8. AnswerIsTheGateways'
  <2>1. CASE up /\ id \in {NoneYet, ref} /\ Built(row.provider) /\ g = row.provider
    <3>1. up = TRUE
      BY <2>1
    <3>2. outcome = Outcome(ref, row.provider, id, TRUE)
      BY <2>1, <3>1
    <3>3. PICK said : said = outcome
      OBVIOUS
    <3>4. PICK h : h = gwHeld[<<row.provider, ref>>]
      OBVIOUS
    <3>5. /\ h.word = Settled(row.provider) /\ h.currency = "XOF" /\ h.amount >= h.asked =>
                said \in {"activated", "already"}
          /\ h.word \in UnderWay(row.provider) \cup {NoneYet} => said \in {"pending", "already"}
          /\ h.word \in Ended(row.provider) => said \in {"failed", "already"}
      BY <2>1, <3>2, <3>3, <3>4, AnsweredAsHeld
    <3>6. /\ gwAnswer'.ref = ref /\ gwAnswer'.outcome = said /\ gwRows'[ref].provider = row.provider
          /\ gwHeld'[<<row.provider, ref>>] = h
      BY <1>2, <1>4, <1>5, <3>3, <3>4
    <3> QED BY <3>5, <3>6 DEF AnswerIsTheGateways
  <2>2. CASE ~(up /\ id \in {NoneYet, ref} /\ Built(row.provider) /\ g = row.provider)
    BY <1>1, <1>2, <1>4, <1>5, <2>2 DEF AnswerIsTheGateways, Built
  <2> QED BY <2>1, <2>2
<1> QED BY <1>6, <1>7, <1>8 DEF GatewaysAgree

LEMMA GateInit == GatewaysInit => GateInv
<1> SUFFICES ASSUME GatewaysInit
             PROVE  GateInv
  OBVIOUS
<1>1. gwRows = [r \in TxRefs |-> NoneYet] /\ gwAnswer = NoneYet /\ gwPrice \in Prices
  BY DEF GatewaysInit
<1>2. DOMAIN gwHeld = PROVIDERS \X (TxRefs \cup {Foreign})
      /\ \A g \in PROVIDERS, ref \in TxRefs : gwHeld[<<g, ref>>] = NoCharge
  BY Foreigner DEF GatewaysInit
<1>3. NoCharge \in Charge /\ NoCharge.word = NoneYet /\ NoCharge.asked = 0
  BY DEF NoCharge, Charge
<1> QED BY <1>1, <1>2, <1>3
        DEF GateInv, GatewaysTyped, ChargesAreAsked, GatewaysAgree, TakenInFull, AnswerIsTheGateways

LEMMA GateStep ==
  ASSUME GateInv, [GatewaysNext]_gwVars
  PROVE  GateInv'
<1> USE DEF GateInv
<1>1. CASE UNCHANGED gwVars
  BY <1>1 DEF gwVars, GatewaysTyped, ChargesAreAsked, GatewaysAgree, TakenInFull, HeldInFull, AnswerIsTheGateways
<1>2. ASSUME NEW ref \in TxRefs, OpenCheckout(ref)
      PROVE  GateInv'
  <2>1. PICK created \in BOOLEAN :
          /\ gwRows' = [gwRows EXCEPT ![ref] = [provider |-> gwSetting, amount |-> gwPrice,
                                                status |-> IF created THEN "pending" ELSE "failed"]]
          /\ gwHeld' = [gwHeld EXCEPT ![<<gwSetting, ref>>].asked =
                          IF created THEN ToGateway(gwSetting, gwPrice) ELSE @]
    BY <1>2 DEF OpenCheckout
  <2>2. gwRows[ref] = NoneYet /\ gwSetting \in PROVIDERS /\ gwAnswer' = NoneYet /\ gwPrice' = gwPrice
    BY <1>2 DEF OpenCheckout, Built
  <2>3. PICK new : new = [provider |-> gwSetting, amount |-> gwPrice,
                          status |-> IF created THEN "pending" ELSE "failed"]
    OBVIOUS
  <2>4. /\ new \in Row /\ new # NoneYet /\ new.provider = gwSetting /\ new.amount = gwPrice
        /\ new.status # "successful"
    BY <2>2, <2>3, Foreigner DEF GatewaysTyped, Row, Statuses
  <2>5. gwRows' \in [TxRefs -> Row \cup {NoneYet}] /\ gwRows'[ref] = new
        /\ \A r \in TxRefs \ {ref} : gwRows'[r] = gwRows[r]
    BY <2>1, <2>3, <2>4 DEF GatewaysTyped
  <2>6. PICK asked \in Nat : asked = gwPrice * Unit(gwSetting)
    BY <2>2, Foreigner, Hundredths DEF GatewaysTyped
  <2>7. /\ DOMAIN gwHeld' = PROVIDERS \X (TxRefs \cup {Foreign})
        /\ \A g \in PROVIDERS, r \in TxRefs : r # ref \/ g # gwSetting => gwHeld'[<<g, r>>] = gwHeld[<<g, r>>]
        /\ gwHeld'[<<gwSetting, ref>>] =
             [gwHeld[<<gwSetting, ref>>] EXCEPT !.asked = IF created THEN asked ELSE @]
    <3>1. ToGateway(gwSetting, gwPrice) = asked
      BY <2>2, <2>6, Foreigner, Hundredths DEF GatewaysTyped
    <3> QED BY <2>1, <2>2, <3>1 DEF GatewaysTyped
  <2>8. \A g \in PROVIDERS : /\ gwHeld[<<g, ref>>] \in Charge
                             /\ ~(gwHeld[<<g, ref>>].asked > 0) /\ gwHeld[<<g, ref>>].word = NoneYet
    BY <2>2 DEF GatewaysTyped, ChargesAreAsked
  <2>9. /\ gwHeld'[<<gwSetting, ref>>] \in Charge /\ gwHeld'[<<gwSetting, ref>>].word = NoneYet
        /\ gwHeld'[<<gwSetting, ref>>].asked > 0 => gwHeld'[<<gwSetting, ref>>].asked = asked
    BY <2>2, <2>6, <2>7, <2>8 DEF Charge
  <2>10. GatewaysTyped'
    BY <2>2, <2>5, <2>7, <2>9 DEF GatewaysTyped
  <2>11. ChargesAreAsked'
    <3> SUFFICES ASSUME NEW g \in PROVIDERS, NEW r \in TxRefs
                 PROVE  /\ gwHeld'[<<g, r>>].word # NoneYet =>
                              /\ gwHeld'[<<g, r>>].asked > 0
                              /\ gwHeld'[<<g, r>>].word \in {Settled(g)} \cup Ended(g) \cup UnderWay(g)
                        /\ gwHeld'[<<g, r>>].asked > 0 =>
                              /\ gwRows'[r] # NoneYet /\ gwRows'[r].provider = g
                              /\ gwHeld'[<<g, r>>].asked = gwRows'[r].amount * Unit(g)
      BY DEF ChargesAreAsked
    <3>1. CASE r = ref /\ g = gwSetting
      BY <2>4, <2>5, <2>6, <2>9, <3>1
    <3>2. CASE r = ref /\ g # gwSetting
      BY <2>7, <2>8, <3>2
    <3>3. CASE r # ref
      BY <2>5, <2>7, <3>3 DEF ChargesAreAsked
    <3> QED BY <3>1, <3>2, <3>3
  <2>12. TakenInFull'
    BY <2>2, <2>4, <2>5, <2>7 DEF TakenInFull, GatewaysAgree, GatewaysTyped, Row, HeldInFull
  <2>13. AnswerIsTheGateways'
    BY <2>2 DEF AnswerIsTheGateways
  <2> QED BY <2>10, <2>11, <2>12, <2>13 DEF GatewaysAgree
<1>3. ASSUME NEW ref \in TxRefs, Abandon(ref)
      PROVE  GateInv'
  <2>1. PICK after : after = [gwRows[ref] EXCEPT !.status = "failed"]
    OBVIOUS
  <2>2. gwRows[ref] \in Row
    BY <1>3 DEF Abandon, GatewaysTyped
  <2>3. after \in Row /\ after # NoneYet /\ after.provider = gwRows[ref].provider
        /\ after.amount = gwRows[ref].amount /\ after.status = "failed"
    BY <2>1, <2>2, Foreigner DEF Row, Statuses
  <2>4. /\ gwRows' \in [TxRefs -> Row \cup {NoneYet}] /\ gwRows'[ref] = after
        /\ \A r \in TxRefs \ {ref} : gwRows'[r] = gwRows[r]
        /\ UNCHANGED gwHeld /\ gwAnswer' = NoneYet
    BY <1>3, <2>1, <2>3 DEF Abandon, GatewaysTyped
  <2>5. GatewaysTyped' /\ ChargesAreAsked'
    BY <1>3, <2>3, <2>4 DEF GatewaysTyped, ChargesAreAsked, Abandon
  <2>6. TakenInFull' /\ AnswerIsTheGateways'
    BY <2>3, <2>4 DEF TakenInFull, GatewaysAgree, HeldInFull, AnswerIsTheGateways
  <2> QED BY <2>5, <2>6 DEF GatewaysAgree
<1>4. ASSUME NEW g \in PROVIDERS, NEW ref \in TxRefs, HostedPage(g, ref)
      PROVE  GateInv'
  <2>1. PICK held : held = gwHeld[<<g, ref>>]
    OBVIOUS
  <2>2. PICK word \in {Settled(g)} \cup Ended(g) \cup UnderWay(g),
             amount \in {held.asked, held.asked - Unit(g)}, currency \in {"XOF", "GHS"} :
          /\ held.word = Settled(g) => word = "reversed"
          /\ word = "reversed" => held.word = Settled(g) /\ amount = held.amount /\ currency = held.currency
          /\ held.word # "reversed"
          /\ gwHeld' = [gwHeld EXCEPT ![<<g, ref>>] =
                          [@ EXCEPT !.word = word, !.amount = amount, !.currency = currency]]
    BY <1>4, <2>1 DEF HostedPage
  <2>3. held \in Charge /\ held.asked > 0 /\ UNCHANGED <<gwPrice, gwRows>> /\ gwAnswer' = NoneYet
    BY <1>4, <2>1 DEF HostedPage, GatewaysTyped
  <2>4. PICK after : after = [held EXCEPT !.word = word, !.amount = amount, !.currency = currency]
    OBVIOUS
  <2>5. /\ DOMAIN gwHeld' = PROVIDERS \X (TxRefs \cup {Foreign}) /\ gwHeld'[<<g, ref>>] = after
        /\ \A f \in PROVIDERS, r \in TxRefs : r # ref \/ f # g => gwHeld'[<<f, r>>] = gwHeld[<<f, r>>]
    BY <2>1, <2>2, <2>4 DEF GatewaysTyped
  <2>6. after.word = word /\ after.asked = held.asked /\ after.amount = amount /\ after.currency = currency
    BY <2>3, <2>4 DEF Charge
  <2>7. word \in Words /\ amount \in Int
    BY <2>3 DEF Words, Charge, Unit
  <2>8. after \in Charge
    BY <2>3, <2>4, <2>7 DEF Charge
  <2>9. GatewaysTyped' /\ ChargesAreAsked'
    BY <2>1, <2>3, <2>5, <2>6, <2>8 DEF GatewaysTyped, ChargesAreAsked
  <2>10. ASSUME NEW r \in TxRefs, gwRows'[r] # NoneYet, gwRows'[r].status = "successful"
         PROVE  HeldInFull(gwRows[r], r)'
    <3>1. HeldInFull(gwRows[r], r) /\ gwRows[r] \in Row /\ gwRows[r].provider \in PROVIDERS
      BY <2>3, <2>10 DEF GatewaysAgree, TakenInFull, GatewaysTyped, Row
    <3>2. CASE r = ref /\ gwRows[r].provider = g
      <4>1. held.word = Settled(g)
        BY <2>1, <2>2, <3>1, <3>2 DEF HeldInFull
      <4>2. after.word = "reversed" /\ after.amount = held.amount /\ after.currency = held.currency
        BY <2>2, <2>6, <4>1
      <4> QED BY <2>1, <2>3, <2>5, <3>1, <3>2, <4>2 DEF HeldInFull
    <3>3. CASE r # ref \/ gwRows[r].provider # g
      BY <2>3, <2>5, <3>1, <3>3 DEF HeldInFull
    <3> QED BY <3>2, <3>3
  <2>11. TakenInFull' /\ AnswerIsTheGateways'
    BY <2>3, <2>10 DEF TakenInFull, AnswerIsTheGateways
  <2> QED BY <2>9, <2>11 DEF GatewaysAgree
<1>5. ASSUME NEW ref \in TxRefs, NEW id \in TxRefs \cup {Foreign, NoneYet}, NEW up \in BOOLEAN, ComeBack(ref, id, up)
      PROVE  GateInv'
  <2>1. gwRows[ref] # NoneYet /\ Confirm(ref, gwRows[ref].provider, id, up, "return")
    BY <1>5 DEF ComeBack, Issuer
  <2>2. gwRows[ref].provider \in PROVIDERS
    BY <2>1 DEF GatewaysTyped, Row
  <2> QED BY <2>1, <2>2, ConfirmKeeps
<1>6. ASSUME NEW sender \in PROVIDERS, NEW url \in PROVIDERS \cup {"default"}, NEW event \in {"complete", "other"},
             NEW ref \in TxRefs \cup {Foreign}, NEW id \in TxRefs \cup {Foreign, NoneYet}, NEW up \in BOOLEAN,
             Delivered(sender, url, event, ref, id, up)
      PROVE  GateInv'
  <2> DEFINE g == Adapter(url)
             authentic == Built(g) /\ WebhookAuthentic(g, sender)
  <2>1. gwHeld[<<sender, ref>>].word # NoneYet
    BY <1>6 DEF Delivered
  <2>2. ref \in TxRefs => gwRows[ref] # NoneYet /\ gwRows[ref].provider = sender
    BY <2>1 DEF ChargesAreAsked
  <2>3. CASE authentic /\ event = "complete" /\ ref # Foreign
    <3>1. ref \in TxRefs /\ Confirm(ref, g, id, up, url)
      BY <1>6, <2>3 DEF Delivered
    <3>2. url \in {"return", gwRows[ref].provider} => g = gwRows[ref].provider
      BY <2>2, <2>3, <3>1 DEF WebhookAuthentic
    <3> HIDE DEF g
    <3> QED BY <2>2, <3>1, <3>2, ConfirmKeeps
  <2>4. CASE ~(authentic /\ event = "complete" /\ ref # Foreign)
    <3>1. /\ UNCHANGED <<gwSetting, gwSecrets, gwPrice, gwRows, gwHeld>>
          /\ gwAnswer' = [ref |-> ref, via |-> url, event |-> event, id |-> id, up |-> up,
                          outcome |-> IF authentic THEN "ignored" ELSE "refused"]
      BY <1>6, <2>4 DEF Delivered
    <3>2. GatewaysTyped' /\ ChargesAreAsked' /\ TakenInFull'
      BY <3>1 DEF GatewaysTyped, ChargesAreAsked, GatewaysAgree, TakenInFull, HeldInFull
    <3>3. ASSUME ref \in TxRefs, gwRows[ref].provider \in gwSecrets, url = gwRows[ref].provider,
                 url = "flutterwave" => "hash" \in gwSecrets, event = "complete"
          PROVE  FALSE
      <4>1. g = sender /\ sender = url
        BY <2>2, <3>3 DEF Adapter, PROVIDERS
      <4>2. authentic
        BY <3>3, <4>1 DEF Built, WebhookAuthentic, PROVIDERS
      <4> QED BY <2>4, <3>3, <4>2, Foreigner
    <3>4. url # "return"
      BY DEF PROVIDERS
    <3>5. AnswerIsTheGateways'
      BY <3>1, <3>3, <3>4 DEF AnswerIsTheGateways
    <3> QED BY <3>2, <3>5 DEF GatewaysAgree
  <2> QED BY <2>3, <2>4
<1>7. ASSUME AnswerRead \/ \E setting \in Settings, price \in Prices, secrets \in SUBSET Secrets : Operate(setting, price, secrets)
      PROVE  GateInv'
  <2>1. UNCHANGED <<gwRows, gwHeld>> /\ gwAnswer' = NoneYet /\ gwPrice' \in Prices
    BY <1>7 DEF AnswerRead, Operate, GatewaysTyped
  <2> QED BY <2>1 DEF GatewaysTyped, ChargesAreAsked, GatewaysAgree, TakenInFull, HeldInFull, AnswerIsTheGateways
<1>8. CASE GatewaysNext
  <2>1. CASE \E ref \in TxRefs : OpenCheckout(ref) \/ Abandon(ref)
    BY <1>2, <1>3, <2>1
  <2>2. CASE \E g \in PROVIDERS, ref \in TxRefs : HostedPage(g, ref)
    BY <1>4, <2>2
  <2>3. CASE \E ref \in TxRefs, id \in TxRefs \cup {Foreign, NoneYet}, up \in BOOLEAN : ComeBack(ref, id, up)
    BY <1>5, <2>3
  <2>4. CASE \E sender \in PROVIDERS, url \in PROVIDERS \cup {"default"}, event \in {"complete", "other"},
                ref \in TxRefs \cup {Foreign}, id \in TxRefs \cup {Foreign, NoneYet}, up \in BOOLEAN :
               Delivered(sender, url, event, ref, id, up)
    <3>1. PICK sender \in PROVIDERS, url \in PROVIDERS \cup {"default"}, event \in {"complete", "other"},
               ref \in TxRefs \cup {Foreign}, id \in TxRefs \cup {Foreign, NoneYet}, up \in BOOLEAN :
            Delivered(sender, url, event, ref, id, up)
      BY <2>4, Zenon
    <3> QED BY <1>6, <3>1
  <2> QED BY <1>7, <1>8, <2>1, <2>2, <2>3, <2>4 DEF GatewaysNext
<1> QED BY <1>1, <1>8

\* services/billing.py: whatever the operator changes between a checkout and what
\* comes back from it, a payment is taken only when the gateway that was asked
\* holds what was asked, in francs and in XOF; and a return page, or a delivery
\* to that gateway's own URL, answers what that gateway says of the charge.
THEOREM TheGatewaysAgree == GatewaysSpec => []GatewaysAgree
<1>1. GatewaysInit => GateInv
  BY GateInit
<1>2. GateInv /\ [GatewaysNext]_gwVars => GateInv'
  BY GateStep
<1>3. GateInv => GatewaysAgree
  BY DEF GateInv
<1> QED BY <1>1, <1>2, <1>3, PTL DEF GatewaysSpec

(***************************************************************************)
(* Schema: what is recorded is whole.                                      *)
(***************************************************************************)
RunsRecords == [at : {"off", "on", "done"}, todo : SUBSET Ids, next : Nat \ {0}, listed : SUBSET Ids]

SchemaTyped ==
    /\ scDisk \in SUBSET Ids
    /\ scTracker \in (SUBSET Ids) \cup {NoTable}
    /\ DOMAIN scApplied = Ids /\ \A i \in Ids : scApplied[i] \in 0..Len(Migrations[i])
    /\ scRun \in [Runs -> RunsRecords]
    /\ scSaid \in [Programs -> (SUBSET Ids) \cup {Unasked, Refused}]

\* An id is in the table only when its script has run to the end, by whichever run.
RecordedWhole == Whole(AppliedIds)

\* A run has, of what it listed, recorded everything but what it still has to do, and has
\* executed its first pending script up to its next statement.
RunsInOrder ==
    \A r \in Runs :
        /\ scRun[r].at # "off" => scTracker # NoTable /\ scRun[r].listed \ scRun[r].todo \subseteq scTracker
        /\ scRun[r].at = "on" => scRun[r].todo # {} /\ scApplied[First(scRun[r].todo)] >= scRun[r].next - 1
                                  /\ scRun[r].next - 1 =< Len(Migrations[First(scRun[r].todo)])
        /\ scRun[r].at = "done" => scRun[r].todo = {}

LetThroughWhole == \A p \in Programs : scSaid[p] \notin {Unasked, Refused} => Whole(scSaid[p])

SchemaInv == SchemaTyped /\ RecordedWhole /\ RunsInOrder /\ LetThroughWhole

\* The first of what a run has to do is one of its ids, and there are statements in it.
LEMMA FirstOfPending ==
  ASSUME NEW todo \in SUBSET Ids, todo # {}
  PROVE  First(todo) \in todo /\ Len(Migrations[First(todo)]) \in Nat
<1>1. Ids \subseteq Nat /\ \A i \in Ids : Len(Migrations[i]) \in Nat
  BY MigrationsAssumption DEF Ids
<1>2. PICK i \in todo : \A j \in todo : i =< j
  <2>1. todo \in SUBSET Nat
    BY <1>1
  <2>2. PICK i \in todo : \A j \in todo : <<j, i>> \notin OpToRel(<, Nat)
    BY <2>1, NatLessThanWellFounded, WFMin
  <2>3. \A j \in todo : ~(j < i)
    BY <2>1, <2>2 DEF OpToRel
  <2> QED BY <2>1, <2>3
<1>3. First(todo) \in todo
  BY <1>2 DEF First
<1> QED BY <1>1, <1>3

\* A run that goes on to what is left, or is done.
LEMMA RunMovesOn ==
  ASSUME NEW run \in RunsRecords, NEW S \in SUBSET Ids
  PROVE  [run EXCEPT !.todo = S, !.next = 1, !.at = IF S = {} THEN "done" ELSE "on"] \in RunsRecords
<1>1. 1 \in Nat \ {0}
  OBVIOUS
<1>2. CASE S = {}
  BY <1>1, <1>2 DEF RunsRecords
<1>3. CASE S # {}
  BY <1>1, <1>3 DEF RunsRecords
<1> QED BY <1>2, <1>3

\* Of a script that is not begun nothing is needed.
LEMMA NothingDone ==
  ASSUME SchemaTyped, NEW todo \in SUBSET Ids, todo # {}
  PROVE  scApplied[First(todo)] >= 1 - 1 /\ 1 - 1 =< Len(Migrations[First(todo)])
<1>1. First(todo) \in Ids /\ Len(Migrations[First(todo)]) \in Nat
  BY FirstOfPending
<1> QED BY <1>1 DEF SchemaTyped

\* A migration that is whole stays whole while statements are added to the database.
LEMMA WholeStays ==
  ASSUME SchemaTyped, SchemaTyped', \A i \in Ids : scApplied'[i] >= scApplied[i],
         NEW S \in SUBSET Ids, Whole(S)
  PROVE  Whole(S)'
<1>1. \A i \in Ids : Len(Migrations[i]) \in Nat
  BY MigrationsAssumption DEF Ids
<1> QED BY <1>1 DEF Whole, SchemaTyped

LEMMA SchemaBegins == SchemaInit => SchemaInv
<1> SUFFICES ASSUME SchemaInit
             PROVE  SchemaInv
  OBVIOUS
<1>1. \A i \in Ids : Len(Migrations[i]) \in Nat
  BY MigrationsAssumption DEF Ids
<1>2. SchemaTyped
  BY <1>1 DEF SchemaInit, SchemaTyped, NoRun, RunsRecords
<1>3. RecordedWhole /\ RunsInOrder /\ LetThroughWhole
  BY DEF SchemaInit, RecordedWhole, AppliedIds, Whole, RunsInOrder, NoRun, LetThroughWhole
<1> QED BY <1>2, <1>3 DEF SchemaInv

\* A run lists what is pending.
LEMMA ApplyAllKeeps ==
  ASSUME SchemaInv, NEW r \in Runs, ApplyAll(r)
  PROVE  SchemaInv'
<1> DEFINE todo == scDisk \ AppliedIds
<1> USE DEF SchemaInv
<1>1. /\ scTracker' = AppliedIds /\ UNCHANGED <<scDisk, scApplied, scSaid>>
      /\ scRun' = [scRun EXCEPT ![r] = [at |-> IF todo = {} THEN "done" ELSE "on", todo |-> todo, next |-> 1, listed |-> scDisk]]
  BY DEF ApplyAll
<1>2. AppliedIds \in SUBSET Ids /\ AppliedIds # NoTable /\ (scTracker # NoTable => AppliedIds = scTracker)
  BY MarksAssumption DEF SchemaTyped, AppliedIds, Ids
<1>3. SchemaTyped'
  BY <1>1, <1>2 DEF SchemaTyped, RunsRecords
<1>4. AppliedIds' = AppliedIds
  BY <1>1, <1>2 DEF AppliedIds
<1>5. RecordedWhole' /\ LetThroughWhole'
  BY <1>1, <1>4 DEF RecordedWhole, LetThroughWhole, Whole
<1>6. RunsInOrder'
  <2> SUFFICES ASSUME NEW q \in Runs
               PROVE  /\ scRun'[q].at # "off" => scTracker' # NoTable /\ scRun'[q].listed \ scRun'[q].todo \subseteq scTracker'
                      /\ scRun'[q].at = "on" => scRun'[q].todo # {} /\ scApplied'[First(scRun'[q].todo)] >= scRun'[q].next - 1
                                                 /\ scRun'[q].next - 1 =< Len(Migrations[First(scRun'[q].todo)])
                      /\ scRun'[q].at = "done" => scRun'[q].todo = {}
    BY DEF RunsInOrder, First
  <2>1. CASE q = r
    <3>1. scRun'[q] = [at |-> IF todo = {} THEN "done" ELSE "on", todo |-> todo, next |-> 1, listed |-> scDisk]
      BY <1>1, <2>1 DEF SchemaTyped
    <3>2. todo # {} => scApplied[First(todo)] >= 1 - 1 /\ 1 - 1 =< Len(Migrations[First(todo)])
      BY NothingDone DEF SchemaTyped
    <3>3. scDisk \ todo \subseteq scTracker'
      BY <1>1
    <3> HIDE DEF todo
    <3> QED BY <1>1, <1>2, <3>1, <3>2, <3>3
  <2>2. CASE q # r
    <3>1. scRun'[q] = scRun[q]
      BY <1>1, <2>2 DEF SchemaTyped
    <3> QED BY <1>1, <1>2, <3>1 DEF RunsInOrder
  <2> QED BY <2>1, <2>2
<1> QED BY <1>3, <1>5, <1>6

\* A run that stops, whatever the reason, holds nothing.
LEMMA StoppedHolds ==
  ASSUME SchemaInv, NEW r \in Runs, scRun' = [scRun EXCEPT ![r] = NoRun],
         UNCHANGED <<scDisk, scTracker, scApplied, scSaid>>
  PROVE  SchemaInv'
<1> USE DEF SchemaInv
<1>1. SchemaTyped'
  BY DEF SchemaTyped, NoRun, RunsRecords
<1>2. RecordedWhole' /\ LetThroughWhole'
  BY DEF RecordedWhole, LetThroughWhole, Whole, AppliedIds
<1>3. \A q \in Runs : scRun'[q] = scRun[q] \/ scRun'[q].at = "off"
  BY DEF SchemaTyped, NoRun
<1>4. RunsInOrder'
  BY <1>3 DEF RunsInOrder, First
<1> QED BY <1>1, <1>2, <1>4

LEMMA StatementKeeps ==
  ASSUME SchemaInv, NEW r \in Runs, Statement(r)
  PROVE  SchemaInv'
<1> DEFINE i == First(scRun[r].todo)
           k == scRun[r].next
<1>0. SchemaTyped /\ RecordedWhole /\ RunsInOrder /\ LetThroughWhole
  BY DEF SchemaInv
<1>1. /\ scRun[r] \in RunsRecords /\ scRun[r].at = "on" /\ k =< Len(Migrations[i])
      /\ UNCHANGED <<scDisk, scTracker, scSaid>>
  BY <1>0 DEF Statement, SchemaTyped
<1>2. /\ i \in Ids /\ k \in Nat \ {0} /\ Len(Migrations[i]) \in Nat
      /\ scApplied[i] \in 0..Len(Migrations[i]) /\ scApplied[i] >= k - 1
  BY <1>0, <1>1, FirstOfPending DEF RunsInOrder, RunsRecords, SchemaTyped
<1>3. CASE scRun' = [scRun EXCEPT ![r] = NoRun] /\ UNCHANGED scApplied
  BY <1>1, <1>3, StoppedHolds
<1>4. CASE /\ scRun' = [scRun EXCEPT ![r].next = k + 1]
           /\ scApplied' = [scApplied EXCEPT ![i] = IF k > @ THEN k ELSE @]
  <2>1. scApplied'[i] \in 0..Len(Migrations[i]) /\ scApplied'[i] >= k /\ scApplied'[i] >= scApplied[i]
    BY <1>0, <1>1, <1>2, <1>4 DEF SchemaTyped
  <2>2. \A j \in Ids \ {i} : scApplied'[j] = scApplied[j]
    BY <1>0, <1>4 DEF SchemaTyped
  <2>3. DOMAIN scApplied' = Ids
    BY <1>0, <1>4 DEF SchemaTyped
  <2>4. /\ scRun'[r] = [scRun[r] EXCEPT !.next = k + 1]
        /\ \A q \in Runs \ {r} : scRun'[q] = scRun[q]
        /\ scRun' \in [Runs -> RunsRecords]
    <3>1. [scRun[r] EXCEPT !.next = k + 1] \in RunsRecords
      <4>1. k + 1 \in Nat \ {0}
        BY <1>2
      <4> QED BY <1>1, <4>1 DEF RunsRecords
    <3> QED BY <1>0, <1>4, <3>1 DEF SchemaTyped
  <2>5. SchemaTyped'
    <3>1. \A j \in Ids : scApplied'[j] \in 0..Len(Migrations[j])
      BY <1>0, <2>1, <2>2 DEF SchemaTyped
    <3> QED BY <1>0, <1>1, <2>3, <2>4, <3>1 DEF SchemaTyped
  <2>6. \A j \in Ids : scApplied'[j] >= scApplied[j]
    <3>1. \A j \in Ids : scApplied[j] \in Int
      BY <1>0, MigrationsAssumption DEF SchemaTyped, Ids
    <3> QED BY <2>1, <2>2, <3>1
  <2>7. RecordedWhole' /\ LetThroughWhole'
    <3>1. AppliedIds' = AppliedIds /\ AppliedIds \in SUBSET Ids
      BY <1>0, <1>1 DEF AppliedIds, SchemaTyped
    <3>2. RecordedWhole'
      <4>1. Whole(AppliedIds)'
        <5>1. PICK S : S = AppliedIds
          OBVIOUS
        <5>2. Whole(S)'
          BY <1>0, <2>5, <2>6, <3>1, <5>1, WholeStays DEF RecordedWhole
        <5> QED BY <3>1, <5>1, <5>2
      <4> QED BY <4>1 DEF RecordedWhole
    <3>3. LetThroughWhole'
      <4> SUFFICES ASSUME NEW p \in Programs, scSaid[p] \notin {Unasked, Refused}
                   PROVE  Whole(scSaid[p])'
        BY <1>1 DEF LetThroughWhole
      <4>1. PICK S : S = scSaid[p]
        OBVIOUS
      <4>2. S \in SUBSET Ids /\ Whole(S)
        BY <1>0, <4>1 DEF SchemaTyped, LetThroughWhole
      <4>3. Whole(S)'
        BY <1>0, <2>5, <2>6, <4>2, WholeStays
      <4> QED BY <1>1, <4>1, <4>3
    <3> QED BY <3>2, <3>3
  <2>8. RunsInOrder'
    <3> SUFFICES ASSUME NEW q \in Runs
                 PROVE  /\ scRun'[q].at # "off" => scTracker # NoTable /\ scRun'[q].listed \ scRun'[q].todo \subseteq scTracker
                        /\ scRun'[q].at = "on" => scRun'[q].todo # {} /\ scApplied'[First(scRun'[q].todo)] >= scRun'[q].next - 1
                                                   /\ scRun'[q].next - 1 =< Len(Migrations[First(scRun'[q].todo)])
                        /\ scRun'[q].at = "done" => scRun'[q].todo = {}
      BY <1>1 DEF RunsInOrder, First
    <3>1. CASE q = r
      <4>1. /\ scRun'[q].at = "on" /\ scRun'[q].todo = scRun[r].todo /\ scRun'[q].listed = scRun[r].listed
            /\ scRun'[q].next = k + 1
        BY <1>1, <2>4, <3>1 DEF RunsRecords
      <4> QED BY <1>0, <1>1, <1>2, <2>1, <4>1, <3>1 DEF RunsInOrder
    <3>2. CASE q # r
      <4>1. scRun'[q] = scRun[q] /\ scRun[q] \in RunsRecords
        BY <1>0, <2>4, <3>2 DEF SchemaTyped
      <4>2. scRun[q].at = "on" => scApplied'[First(scRun[q].todo)] >= scRun[q].next - 1
        <5> SUFFICES ASSUME scRun[q].at = "on"
                     PROVE  scApplied'[First(scRun[q].todo)] >= scRun[q].next - 1
          OBVIOUS
        <5>1. First(scRun[q].todo) \in Ids /\ Len(Migrations[First(scRun[q].todo)]) \in Nat
          BY <1>0, <4>1, FirstOfPending DEF RunsInOrder, RunsRecords
        <5>2. scApplied[First(scRun[q].todo)] \in Int /\ scApplied'[First(scRun[q].todo)] \in Int /\ scRun[q].next \in Int
          BY <1>0, <2>5, <4>1, <5>1 DEF SchemaTyped, RunsRecords
        <5>3. scApplied[First(scRun[q].todo)] >= scRun[q].next - 1
          BY <1>0 DEF RunsInOrder
        <5> QED BY <2>6, <5>1, <5>2, <5>3
      <4> QED BY <1>0, <4>1, <4>2 DEF RunsInOrder
    <3> QED BY <3>1, <3>2
  <2> QED BY <2>5, <2>7, <2>8 DEF SchemaInv
<1> QED BY <1>3, <1>4 DEF Statement

\* An id is recorded after its last statement, which some run has executed.
LEMMA RecordIdKeeps ==
  ASSUME SchemaInv, NEW r \in Runs, RecordId(r)
  PROVE  SchemaInv'
<1> DEFINE i == First(scRun[r].todo)
           rest == scRun[r].todo \ {i}
<1>0. SchemaTyped /\ RecordedWhole /\ RunsInOrder /\ LetThroughWhole
  BY DEF SchemaInv
<1>1. /\ scRun[r] \in RunsRecords /\ scRun[r].at = "on" /\ scRun[r].next > Len(Migrations[i])
      /\ UNCHANGED <<scDisk, scApplied, scSaid>>
  BY <1>0 DEF RecordId, Recordable, SchemaTyped
<1>2. /\ i \in Ids /\ i \in scRun[r].todo /\ Len(Migrations[i]) \in Nat /\ scRun[r].next \in Nat
      /\ scApplied[i] \in 0..Len(Migrations[i]) /\ scApplied[i] >= scRun[r].next - 1
  BY <1>0, <1>1, FirstOfPending DEF RunsInOrder, RunsRecords, SchemaTyped
<1>3. scApplied[i] = Len(Migrations[i])
  BY <1>1, <1>2
<1>4. scTracker \in SUBSET Ids /\ scTracker # NoTable /\ AppliedIds = scTracker
  BY <1>0, <1>1 DEF SchemaTyped, RunsInOrder, AppliedIds
<1>5. CASE scRun' = [scRun EXCEPT ![r] = NoRun] /\ UNCHANGED scTracker
  BY <1>1, <1>5, StoppedHolds
<1>6. CASE /\ scTracker' = scTracker \cup {i}
           /\ scRun' = [scRun EXCEPT ![r].todo = rest, ![r].next = 1, ![r].at = IF rest = {} THEN "done" ELSE "on"]
  <2>1. /\ scRun'[r] = [scRun[r] EXCEPT !.todo = rest, !.next = 1, !.at = IF rest = {} THEN "done" ELSE "on"]
        /\ \A q \in Runs \ {r} : scRun'[q] = scRun[q]
        /\ scRun' \in [Runs -> RunsRecords]
    <3>1. [scRun[r] EXCEPT !.todo = rest, !.next = 1, !.at = IF rest = {} THEN "done" ELSE "on"] \in RunsRecords
      <4>1. rest \in SUBSET Ids
        BY <1>1 DEF RunsRecords
      <4> HIDE DEF rest
      <4> QED BY <1>1, <4>1, RunMovesOn, Zenon
    <3>2. scRun' = [scRun EXCEPT ![r] = [scRun[r] EXCEPT !.todo = rest, !.next = 1, !.at = IF rest = {} THEN "done" ELSE "on"]]
      <4> HIDE DEF rest
      <4> QED BY <1>0, <1>1, <1>6 DEF SchemaTyped, RunsRecords
    <3> QED BY <1>0, <3>1, <3>2 DEF SchemaTyped
  <2>2. scTracker' \in SUBSET Ids /\ scTracker' # NoTable /\ AppliedIds' = scTracker \cup {i}
    BY <1>2, <1>4, <1>6, MarksAssumption DEF AppliedIds, Ids
  <2>3. SchemaTyped'
    BY <1>0, <1>1, <2>1, <2>2 DEF SchemaTyped
  <2>4. RecordedWhole' /\ LetThroughWhole'
    BY <1>0, <1>1, <1>3, <1>4, <2>2 DEF RecordedWhole, LetThroughWhole, Whole
  <2>5. RunsInOrder'
    <3> SUFFICES ASSUME NEW q \in Runs
                 PROVE  /\ scRun'[q].at # "off" => scTracker' # NoTable /\ scRun'[q].listed \ scRun'[q].todo \subseteq scTracker'
                        /\ scRun'[q].at = "on" => scRun'[q].todo # {} /\ scApplied[First(scRun'[q].todo)] >= scRun'[q].next - 1
                                                   /\ scRun'[q].next - 1 =< Len(Migrations[First(scRun'[q].todo)])
                        /\ scRun'[q].at = "done" => scRun'[q].todo = {}
      BY <1>1 DEF RunsInOrder, First
    <3>1. CASE q = r
      <4>1. /\ scRun'[q].at = (IF rest = {} THEN "done" ELSE "on") /\ scRun'[q].todo = rest
            /\ scRun'[q].listed = scRun[r].listed /\ scRun'[q].next = 1
        BY <1>1, <2>1, <3>1 DEF RunsRecords
      <4>2. rest # {} => scApplied[First(rest)] >= 1 - 1 /\ 1 - 1 =< Len(Migrations[First(rest)])
        <5>1. rest \in SUBSET Ids
          BY <1>1 DEF RunsRecords
        <5> QED BY <1>0, <5>1, NothingDone
      <4>3. scRun[r].listed \ rest \subseteq scTracker'
        BY <1>0, <1>1, <1>6 DEF RunsInOrder
      <4> HIDE DEF rest
      <4> QED BY <2>2, <4>1, <4>2, <4>3
    <3>2. CASE q # r
      <4>1. scRun'[q] = scRun[q] /\ scTracker \subseteq scTracker'
        BY <1>6, <2>1, <3>2
      <4> QED BY <1>0, <2>2, <4>1 DEF RunsInOrder
    <3> QED BY <3>1, <3>2
  <2> QED BY <2>3, <2>4, <2>5 DEF SchemaInv
<1> QED BY <1>5, <1>6 DEF RecordId

LEMMA SchemaStep == SchemaInv /\ [SchemaNext]_scVars => SchemaInv'
<1> SUFFICES ASSUME SchemaInv, [SchemaNext]_scVars
             PROVE  SchemaInv'
  OBVIOUS
<1> USE DEF SchemaInv
<1>1. ASSUME UNCHANGED <<scTracker, scApplied, scRun>>, SchemaTyped', LetThroughWhole'
      PROVE  SchemaInv'
  BY <1>1 DEF RecordedWhole, AppliedIds, Whole, RunsInOrder, First
<1>2. CASE UNCHANGED scVars
  BY <1>1, <1>2 DEF scVars, SchemaTyped, LetThroughWhole, Whole
<1>3. ASSUME NEW S \in SUBSET Ids, Deploy(S)
      PROVE  SchemaInv'
  <2>1. SchemaTyped' /\ LetThroughWhole'
    BY <1>3 DEF Deploy, SchemaTyped, LetThroughWhole, Whole
  <2> QED BY <1>1, <1>3, <2>1 DEF Deploy
<1>4. ASSUME NEW p \in Programs, Ask(p)
      PROVE  SchemaInv'
  <2>1. /\ UNCHANGED <<scDisk, scTracker, scApplied, scRun>>
        /\ scSaid' = [scSaid EXCEPT ![p] = IF AssertSchemaCurrent THEN scDisk ELSE Refused]
    BY <1>4 DEF Ask
  <2>2. SchemaTyped'
    BY <2>1 DEF SchemaTyped
  <2>3. AssertSchemaCurrent => Whole(scDisk)
    BY DEF AssertSchemaCurrent, Pending, RecordedWhole, Whole
  <2>4. LetThroughWhole'
    <3> SUFFICES ASSUME NEW q \in Programs, scSaid'[q] \notin {Unasked, Refused}
                 PROVE  Whole(scSaid'[q])
      BY <2>1 DEF LetThroughWhole, Whole
    <3>1. CASE q = p
      BY <2>1, <2>3, <3>1 DEF SchemaTyped
    <3>2. CASE q # p
      <4>1. scSaid'[q] = scSaid[q]
        BY <2>1, <3>2 DEF SchemaTyped
      <4> QED BY <4>1 DEF LetThroughWhole
    <3> QED BY <3>1, <3>2
  <2> QED BY <1>1, <2>1, <2>2, <2>4
<1>5. ASSUME NEW p \in Programs, Ends(p)
      PROVE  SchemaInv'
  <2>1. SchemaTyped'
    BY <1>5 DEF Ends, SchemaTyped
  <2>2. LetThroughWhole'
    BY <1>5 DEF Ends, SchemaTyped, LetThroughWhole, Whole
  <2> QED BY <1>1, <1>5, <2>1, <2>2 DEF Ends
<1>6. ASSUME NEW r \in Runs, ApplyAll(r) \/ Statement(r) \/ RecordId(r) \/ Killed(r)
      PROVE  SchemaInv'
  BY <1>6, ApplyAllKeeps, StatementKeeps, RecordIdKeeps, StoppedHolds DEF Killed
<1>7. "web" \in Programs /\ "tui" \in Programs /\ "check" \in Programs
  BY DEF Programs
<1> QED BY <1>2, <1>3, <1>4, <1>5, <1>6, <1>7 DEF SchemaNext, Lifespan, TuiMain, Check

\* scripts/migrate.py, db.py: a program that is let through has every statement
\* of every migration it was shipped with, and a run that reports it is done
\* leaves nothing it listed half applied: for any migrations, any number of
\* runs at once, killed anywhere, and whatever is deployed meanwhile.
THEOREM WhatIsServedIsWhole == SchemaSpec => []ServedWhole
<1>1. SchemaInit => SchemaInv
  BY SchemaBegins
<1>2. SchemaInv /\ [SchemaNext]_scVars => SchemaInv'
  BY SchemaStep
<1>3. SchemaInv => ServedWhole
  <2> SUFFICES ASSUME SchemaInv, NEW r \in Runs, scRun[r].at = "done"
               PROVE  Whole(scRun[r].listed) /\ scRun[r].listed \subseteq scTracker
    BY DEF SchemaInv, LetThroughWhole, ServedWhole
  <2>1. scTracker # NoTable /\ scRun[r].listed \subseteq scTracker
    BY DEF SchemaInv, RunsInOrder
  <2> QED BY <2>1 DEF SchemaInv, RecordedWhole, AppliedIds, Whole
<1> QED BY <1>1, <1>2, <1>3, PTL DEF SchemaSpec

(***************************************************************************)
(* Visits: what is shown is what was counted.                              *)
(***************************************************************************)
ViewsTyped ==
    /\ vsDay \in Nat \ {0} /\ vsMinted \in Nat
    /\ vsRow \in Nat \X Nat /\ vsCache \in Nat \X Nat
    /\ vsOpen = NoRequest \/ vsOpen \in Visitors \X Paths
    /\ IsFiniteSet(vsViews)
    /\ \A w \in vsViews :
        /\ w.day \in Nat /\ w.hash = VisitorHash(w.hash[1], w.hash[2], w.day) /\ w.hash[1] \in Nat
        /\ w.hash[2] \in Visitors /\ w.path \in Paths /\ w.suspected = LooksAutomated(w.hash[2])
    /\ vsCame \subseteq Nat \X Visitors \X Paths

\* The salt in use is the row's, and the row's is of the newest day anybody was counted on.
SaltsSettled ==
    /\ vsRow[1] =< vsDay /\ vsCache[1] =< vsDay /\ vsRow[2] =< vsMinted
    /\ vsCache[1] = vsDay => vsCache = vsRow
    /\ vsOpen # NoRequest => vsCache[1] = vsDay
    /\ \A w \in vsViews :
        /\ w.day =< vsRow[1] /\ w.hash[1] =< vsMinted
        /\ w.hash[1] = vsRow[2] \/ w.day < vsRow[1]
        /\ w.day < vsRow[1] => w.hash[1] < vsRow[2]

\* A day has one salt, and a later one a larger one.
SaltsGrow ==
    \A w, x \in vsViews : /\ w.day = x.day => w.hash[1] = x.hash[1]
                          /\ w.day < x.day => w.hash[1] < x.hash[1]

\* Within the days that are kept a view is there for everybody who came, and for nobody else.
ViewsOfThoseWhoCame ==
    \A d \in Nat, v \in Visitors, p \in Paths :
        d >= vsDay - Retention =>
            (<<d, v, p>> \in vsCame <=> \E w \in vsViews : w.day = d /\ w.hash[2] = v /\ w.path = p)

VisitInv == ViewsTyped /\ SaltsSettled /\ SaltsGrow /\ ViewsOfThoseWhoCame

LEMMA VisitsBegin == VisitsInit => VisitInv
  BY FS_EmptySet DEF VisitsInit, VisitInv, ViewsTyped, SaltsSettled, SaltsGrow, ViewsOfThoseWhoCame, Unset, NoSalt

\* Only a new salt, and a new day, are told apart from the rest.
LEMMA SettleKeeps ==
  ASSUME VisitInv, NEW v \in Visitors, NEW p \in Paths, Settle(v, p)
  PROVE  VisitInv'
<1> USE DEF VisitInv
<1>1. /\ vsOpen = NoRequest /\ vsOpen' = <<v, p>> /\ UNCHANGED <<vsDay, vsViews, vsCame>>
      /\ vsMinted' = IF SaltFor(vsDay)[2] > vsMinted THEN SaltFor(vsDay)[2] ELSE vsMinted
      /\ vsRow' = IF vsCache[1] = vsDay THEN vsRow ELSE SaltFor(vsDay)
      /\ vsCache' = SaltFor(vsDay)
  BY DEF Settle
<1>2. SaltsGrow' /\ ViewsOfThoseWhoCame'
  BY <1>1 DEF SaltsGrow, ViewsOfThoseWhoCame
<1>3. vsOpen' \in Visitors \X Paths
  BY <1>1
<1>4. CASE vsCache[1] = vsDay \/ vsRow[1] = vsDay
  <2>1. SaltFor(vsDay) = vsRow /\ vsRow[2] =< vsMinted /\ vsRow[2] \in Nat /\ vsMinted \in Nat
    BY <1>4 DEF SaltFor, FromRow, SaltsSettled, ViewsTyped
  <2>2. vsRow' = vsRow /\ vsCache' = vsRow /\ vsMinted' = vsMinted
    BY <1>1, <2>1
  <2>3. vsRow[1] = vsDay
    BY <1>4 DEF SaltsSettled
  <2>4. ViewsTyped' /\ SaltsSettled'
    BY <1>1, <1>3, <2>2, <2>3 DEF ViewsTyped, SaltsSettled
  <2> QED BY <1>2, <2>4
<1>5. CASE vsCache[1] # vsDay /\ vsRow[1] # vsDay
  <2>1. SaltFor(vsDay) = <<vsDay, vsMinted + 1>>
    BY <1>5 DEF SaltFor, FromRow
  <2>2. vsRow' = <<vsDay, vsMinted + 1>> /\ vsCache' = vsRow' /\ vsMinted' = vsMinted + 1
    BY <1>1, <1>5, <2>1 DEF ViewsTyped
  <2>3. ViewsTyped'
    BY <1>1, <1>3, <2>2 DEF ViewsTyped
  <2>4. \A w \in vsViews : w.day < vsDay /\ w.hash[1] < vsMinted + 1
    BY <1>5 DEF ViewsTyped, SaltsSettled
  <2>5. SaltsSettled'
    BY <1>1, <2>2, <2>4 DEF ViewsTyped, SaltsSettled
  <2> QED BY <1>2, <2>3, <2>5
<1> QED BY <1>4, <1>5

\* A view is counted under the salt of its day.
LEMMA RecordKeeps ==
  ASSUME VisitInv, Record
  PROVE  VisitInv'
<1> DEFINE view == [day |-> vsDay, hash |-> VisitorHash(vsCache[2], vsOpen[1], vsDay), path |-> vsOpen[2],
                    suspected |-> LooksAutomated(vsOpen[1])]
<1> USE DEF VisitInv
<1>1. /\ vsOpen # NoRequest /\ vsOpen' = NoRequest
      /\ vsViews' = vsViews \cup {view} /\ vsCame' = vsCame \cup {<<vsDay, vsOpen[1], vsOpen[2]>>}
      /\ UNCHANGED <<vsDay, vsMinted, vsRow, vsCache>>
  BY DEF Record
<1>2. /\ vsOpen[1] \in Visitors /\ vsOpen[2] \in Paths /\ vsCache = vsRow /\ vsRow[1] = vsDay
      /\ vsRow[2] \in Nat /\ vsRow[2] =< vsMinted /\ vsDay \in Nat
  BY <1>1 DEF ViewsTyped, SaltsSettled
<1>3. /\ view.day = vsDay /\ view.hash = <<vsRow[2], vsOpen[1], vsDay>> /\ view.path = vsOpen[2]
      /\ view.suspected = LooksAutomated(vsOpen[1])
      /\ view.hash[1] = vsRow[2] /\ view.hash[2] = vsOpen[1]
  BY <1>2 DEF VisitorHash
<1>4. IsFiniteSet(vsViews')
  BY <1>1, FS_AddElement DEF ViewsTyped
<1> HIDE DEF view
<1>5. ViewsTyped'
  <2>1. view.hash = VisitorHash(view.hash[1], view.hash[2], view.day)
    BY <1>3 DEF VisitorHash
  <2>2. <<vsDay, vsOpen[1], vsOpen[2]>> \in Nat \X Visitors \X Paths
    BY <1>2
  <2> QED BY <1>1, <1>2, <1>3, <1>4, <2>1, <2>2 DEF ViewsTyped
<1>6. SaltsSettled'
  BY <1>1, <1>2, <1>3 DEF ViewsTyped, SaltsSettled
<1>7. SaltsGrow'
  <2> SUFFICES ASSUME NEW w \in vsViews \cup {view}, NEW x \in vsViews \cup {view}
               PROVE  /\ w.day = x.day => w.hash[1] = x.hash[1]
                      /\ w.day < x.day => w.hash[1] < x.hash[1]
    BY <1>1 DEF SaltsGrow
  <2>1. CASE w \in vsViews /\ x \in vsViews
    BY <2>1 DEF SaltsGrow
  <2>2. CASE w \in vsViews /\ x = view
    BY <1>2, <1>3, <2>2 DEF ViewsTyped, SaltsSettled
  <2>3. CASE w = view /\ x \in vsViews
    BY <1>2, <1>3, <2>3 DEF ViewsTyped, SaltsSettled
  <2>4. CASE w = view /\ x = view
    BY <1>2, <1>3, <2>4
  <2> QED BY <2>1, <2>2, <2>3, <2>4
<1>8. ViewsOfThoseWhoCame'
  <2> SUFFICES ASSUME NEW d \in Nat, NEW v \in Visitors, NEW p \in Paths, d >= vsDay - Retention
               PROVE  <<d, v, p>> \in vsCame' <=> \E w \in vsViews' : w.day = d /\ w.hash[2] = v /\ w.path = p
    BY <1>1 DEF ViewsOfThoseWhoCame
  <2>1. <<d, v, p>> \in vsCame <=> \E w \in vsViews : w.day = d /\ w.hash[2] = v /\ w.path = p
    BY DEF ViewsOfThoseWhoCame
  <2>2. <<d, v, p>> = <<vsDay, vsOpen[1], vsOpen[2]>> <=> view.day = d /\ view.hash[2] = v /\ view.path = p
    BY <1>3
  <2> QED BY <1>1, <2>1, <2>2
<1> QED BY <1>5, <1>6, <1>7, <1>8

LEMMA VisitStep == VisitInv /\ [VisitsNext]_vsVars => VisitInv'
<1> SUFFICES ASSUME VisitInv, [VisitsNext]_vsVars
             PROVE  VisitInv'
  OBVIOUS
<1> USE DEF VisitInv
<1>1. CASE UNCHANGED vsVars
  BY <1>1 DEF vsVars, ViewsTyped, SaltsSettled, SaltsGrow, ViewsOfThoseWhoCame
<1>2. CASE Restart
  <2>1. UNCHANGED <<vsDay, vsMinted, vsRow, vsViews, vsCame>> /\ vsCache' = <<0, 0>> /\ vsOpen' = NoRequest
    BY <1>2 DEF Restart, Unset, NoSalt
  <2>2. ViewsTyped' /\ SaltsSettled'
    BY <2>1 DEF ViewsTyped, SaltsSettled
  <2> QED BY <2>1, <2>2 DEF SaltsGrow, ViewsOfThoseWhoCame
<1>3. CASE Midnight
  <2>1. UNCHANGED <<vsMinted, vsRow, vsCache, vsViews, vsOpen, vsCame>> /\ vsDay' = vsDay + 1 /\ vsOpen = NoRequest
    BY <1>3 DEF Midnight
  <2>2. ViewsTyped'
    BY <2>1 DEF ViewsTyped
  <2>3. SaltsSettled'
    BY <2>1 DEF ViewsTyped, SaltsSettled
  <2>4. ViewsOfThoseWhoCame'
    BY <2>1, VisitsAssumption DEF ViewsTyped, ViewsOfThoseWhoCame
  <2> QED BY <2>1, <2>2, <2>3, <2>4 DEF SaltsGrow
<1>4. CASE Prune
  <2>1. UNCHANGED <<vsDay, vsMinted, vsRow, vsCache, vsOpen, vsCame>> /\ vsViews' = {w \in vsViews : w.day >= vsDay - Retention}
    BY <1>4 DEF Prune
  <2>2. vsViews' \subseteq vsViews /\ IsFiniteSet(vsViews')
    BY <2>1, FS_Subset DEF ViewsTyped
  <2>3. ViewsTyped'
    BY <2>1, <2>2 DEF ViewsTyped
  <2>4. SaltsSettled' /\ SaltsGrow'
    BY <2>1, <2>2 DEF SaltsSettled, SaltsGrow
  <2>5. ViewsOfThoseWhoCame'
    BY <2>1 DEF ViewsOfThoseWhoCame
  <2> QED BY <2>3, <2>4, <2>5
<1> QED BY <1>1, <1>2, <1>3, <1>4, SettleKeeps, RecordKeeps DEF VisitsNext

\* The hashes of a selection of the views are as many as the visitors who came, day by day:
\* within a day a hash stands for one visitor, and of two days no hash is the same.
LEMMA HashesAreVisitors ==
  ASSUME VisitInv, NEW D \in SUBSET Nat, \A d \in D : d >= vsDay - Retention,
         NEW V \in SUBSET Visitors, NEW P \in SUBSET Paths
  PROVE  Cardinality(HashesOf({w \in vsViews : w.day \in D /\ w.hash[2] \in V /\ w.path \in P}))
         = Cardinality({<<c[1], c[2]>> : c \in {d \in vsCame : d[1] \in D /\ d[2] \in V /\ d[3] \in P}})
<1> DEFINE views == {w \in vsViews : w.day \in D /\ w.hash[2] \in V /\ w.path \in P}
           H == HashesOf(views)
           C == {<<c[1], c[2]>> : c \in {d \in vsCame : d[1] \in D /\ d[2] \in V /\ d[3] \in P}}
           visitor == [h \in H |-> <<h[3], h[2]>>]
<1>0. ViewsTyped /\ SaltsGrow /\ ViewsOfThoseWhoCame
  BY DEF VisitInv
<1>1. IsFiniteSet(H)
  <2>1. IsFiniteSet(views)
    BY <1>0, FS_Subset DEF ViewsTyped
  <2> DEFINE hash == [w \in views |-> w.hash]
  <2>2. hash \in Surjection(views, H)
    BY DEF Surjection, HashesOf
  <2> HIDE DEF views, hash, H
  <2> QED BY <2>1, <2>2, FS_Surjection
<1>2. \A h \in H : \E w \in views : h = w.hash /\ h[3] = w.day /\ h[2] = w.hash[2] /\ h = <<h[1], h[2], h[3]>>
  <2> SUFFICES ASSUME NEW w \in views
               PROVE  w.hash[3] = w.day /\ w.hash = <<w.hash[1], w.hash[2], w.hash[3]>>
    BY DEF HashesOf
  <2>1. w.hash = <<w.hash[1], w.hash[2], w.day>>
    BY <1>0 DEF ViewsTyped, VisitorHash
  <2> QED BY <2>1
<1>3. visitor \in [H -> C]
  <2> SUFFICES ASSUME NEW h \in H
               PROVE  <<h[3], h[2]>> \in C
    OBVIOUS
  <2>1. PICK w \in views : h[3] = w.day /\ h[2] = w.hash[2]
    BY <1>2
  <2>2. <<w.day, w.hash[2], w.path>> \in vsCame
    BY <1>0 DEF ViewsTyped, ViewsOfThoseWhoCame
  <2> QED BY <2>1, <2>2
<1>4. \A g, h \in H : visitor[g] = visitor[h] => g = h
  <2> SUFFICES ASSUME NEW g \in H, NEW h \in H, <<g[3], g[2]>> = <<h[3], h[2]>>
               PROVE  g = h
    OBVIOUS
  <2>1. PICK w \in views : g = w.hash /\ g[3] = w.day /\ g = <<g[1], g[2], g[3]>>
    BY <1>2
  <2>2. PICK x \in views : h = x.hash /\ h[3] = x.day /\ h = <<h[1], h[2], h[3]>>
    BY <1>2
  <2>3. g[3] = h[3] /\ g[2] = h[2]
    OBVIOUS
  <2>4. g[1] = h[1]
    BY <1>0, <2>1, <2>2, <2>3 DEF SaltsGrow
  <2> QED BY <2>1, <2>2, <2>3, <2>4
<1>5. \A c \in C : \E h \in H : visitor[h] = c
  <2> SUFFICES ASSUME NEW c \in C
               PROVE  \E h \in H : <<h[3], h[2]>> = c
    OBVIOUS
  <2>1. PICK d \in D, v \in V, p \in P : <<d, v, p>> \in vsCame /\ c = <<d, v>>
    BY <1>0 DEF ViewsTyped
  <2>2. PICK w \in vsViews : w.day = d /\ w.hash[2] = v /\ w.path = p
    <3>1. d \in Nat /\ v \in Visitors /\ p \in Paths /\ d >= vsDay - Retention
      OBVIOUS
    <3> HIDE DEF views, H, C
    <3> QED BY <1>0, <2>1, <3>1 DEF ViewsOfThoseWhoCame
  <2>3. w \in views /\ w.hash \in H
    BY <2>2 DEF HashesOf
  <2>4. w.hash[3] = d
    BY <1>0, <2>2 DEF ViewsTyped, VisitorHash
  <2> QED BY <2>1, <2>2, <2>3, <2>4
<1>6. ExistsBijection(H, C)
  <2> HIDE DEF H, C, visitor
  <2>1. visitor \in Bijection(H, C)
    BY <1>3, <1>4, <1>5, Fun_IsBij
  <2> QED BY <2>1 DEF ExistsBijection
<1> HIDE DEF H, C
<1>7. Cardinality(H) = Cardinality(C)
  BY <1>1, <1>6, FS_Bijection
<1> QED BY <1>7 DEF H, C

LEMMA CountedRight == VisitInv => VisitorsCountedRight
<1> SUFFICES ASSUME VisitInv
             PROVE  VisitorsCountedRight
  OBVIOUS
<1>0. ViewsTyped /\ SaltsSettled /\ SaltsGrow
  BY DEF VisitInv
<1>1. ASSUME NEW since \in vsDay - Retention + 1..vsDay
      PROVE  LET came(V, P) == {<<c[1], c[2]>> : c \in {d \in vsCame : d[1] >= since /\ d[2] \in V /\ d[3] \in P}}
             IN  /\ TotalVisitors(since) = Cardinality(came(Readers, Paths))
                 /\ DailyVisitors(since) = Cardinality({c \in came(Readers, Paths) : c[1] = since})
                 /\ \A p \in Paths : VisitorsOnPath(since, p) = Cardinality(came(Readers, {p}))
                 /\ SuspectedVisitors(since) = Cardinality(came(Crawlers, Paths))
  <2> DEFINE came(V, P) == {<<c[1], c[2]>> : c \in {d \in vsCame : d[1] >= since /\ d[2] \in V /\ d[3] \in P}}
             counted(D, V, P) == {<<c[1], c[2]>> : c \in {d \in vsCame : d[1] \in D /\ d[2] \in V /\ d[3] \in P}}
             seen(D, V, P) == {w \in vsViews : w.day \in D /\ w.hash[2] \in V /\ w.path \in P}
             Since == {d \in Nat : d >= since}
             Day == {d \in Nat : d = since}
  <2>1. since \in Int /\ since > vsDay - Retention /\ vsDay - Retention \in Int
    BY <1>0, VisitsAssumption DEF ViewsTyped
  <2>2. /\ Since \in SUBSET Nat /\ \A d \in Since : d >= vsDay - Retention
        /\ Day \in SUBSET Nat /\ \A d \in Day : d >= vsDay - Retention
    BY <2>1
  <2>3. Readers \in SUBSET Visitors /\ Crawlers \in SUBSET Visitors /\ Paths \in SUBSET Paths
    BY DEF Visitors
  <2>4. /\ came(Readers, Paths) = counted(Since, Readers, Paths)
        /\ came(Crawlers, Paths) = counted(Since, Crawlers, Paths)
        /\ \A p \in Paths : came(Readers, {p}) = counted(Since, Readers, {p})
    BY <1>0 DEF ViewsTyped
  <2>5. {c \in came(Readers, Paths) : c[1] = since} = counted(Day, Readers, Paths)
    BY <1>0, <2>1 DEF ViewsTyped
  <2>6. \A w \in vsViews : /\ w.day \in Nat /\ w.path \in Paths
                           /\ (~w.suspected <=> w.hash[2] \in Readers) /\ (w.suspected <=> w.hash[2] \in Crawlers)
    BY <1>0, VisitsAssumption DEF ViewsTyped, LooksAutomated, Visitors
  <2>7. /\ Human(since) = seen(Since, Readers, Paths)
        /\ {w \in Human(since) : w.day = since} = seen(Day, Readers, Paths)
        /\ \A p \in Paths : {w \in Human(since) : w.path = p} = seen(Since, Readers, {p})
        /\ Suspected(since) = seen(Since, Crawlers, Paths)
    BY <2>1, <2>6 DEF Human, Suspected
  <2>8. ASSUME NEW D \in {Since, Day}, NEW V \in {Readers, Crawlers}, NEW P \in SUBSET Paths
        PROVE  Cardinality(HashesOf(seen(D, V, P))) = Cardinality(counted(D, V, P))
    <3> HIDE DEF Since, Day
    <3>1. /\ D \in SUBSET Nat /\ \A d \in D : d >= vsDay - Retention
          /\ V \in SUBSET Visitors
      BY <2>2, <2>3, <2>8
    <3> QED BY <2>8, <3>1, HashesAreVisitors
  <2> HIDE DEF came, counted, seen, Since, Day
  <2>9. TotalVisitors(since) = Cardinality(came(Readers, Paths))
    BY <2>3, <2>4, <2>7, <2>8 DEF TotalVisitors
  <2>10. DailyVisitors(since) = Cardinality({c \in came(Readers, Paths) : c[1] = since})
    BY <2>3, <2>5, <2>7, <2>8 DEF DailyVisitors
  <2>11. ASSUME NEW p \in Paths
         PROVE  VisitorsOnPath(since, p) = Cardinality(came(Readers, {p}))
    <3>1. {p} \in SUBSET Paths
      OBVIOUS
    <3> QED BY <2>4, <2>7, <2>8, <3>1 DEF VisitorsOnPath
  <2>12. SuspectedVisitors(since) = Cardinality(came(Crawlers, Paths))
    BY <2>3, <2>4, <2>7, <2>8 DEF SuspectedVisitors
  <2> USE DEF came
  <2> QED BY <2>9, <2>10, <2>11, <2>12
<1>2. CountedOnceADay
  BY <1>1, Zenon DEF CountedOnceADay
<1>3. DaysStayApart
  <2>1. ASSUME NEW w \in vsViews, NEW x \in vsViews, w.day # x.day
        PROVE  w.hash[1] # x.hash[1]
    BY <1>0, <2>1 DEF ViewsTyped, SaltsGrow
  <2>2. ASSUME NEW x \in vsViews, x.day = vsDay, NEW w \in vsViews, w.day < vsDay
        PROVE  w.hash[1] # vsRow[2]
    BY <1>0, <2>2 DEF ViewsTyped, SaltsSettled
  <2> QED BY <2>1, <2>2 DEF DaysStayApart
<1> QED BY <1>2, <1>3 DEF VisitorsCountedRight

\* services/analytics.py: for any visitors, pages, days kept and restarts, a reader is
\* counted once a day, on the site and on each page; automated visitors are in the other
\* figure; and nothing that is kept links the visits of two days.
THEOREM VisitorsAreCountedRight == VisitsSpec => []VisitorsCountedRight
<1>1. VisitsInit => VisitInv
  BY VisitsBegin
<1>2. VisitInv /\ [VisitsNext]_vsVars => VisitInv'
  BY VisitStep
<1> QED BY <1>1, <1>2, CountedRight, PTL DEF VisitsSpec

(***************************************************************************)
(* Listings: rows in the order of a query.                                 *)
(***************************************************************************)
\* What ORDER BY needs of an order.
Orders(S, before) ==
    /\ \A x, y \in S : x = y \/ <<x, y>> \in before \/ <<y, x>> \in before
    /\ \A x \in S : <<x, x>> \notin before
    /\ \A x, y, z \in S : <<x, y>> \in before /\ <<y, z>> \in before => <<x, z>> \in before

\* A member of a list has a place of its own, after those of the members before it, and every place a member.
LEMMA Places ==
  ASSUME NEW S, IsFiniteSet(S), NEW before, Orders(S, before)
  PROVE  /\ Cardinality(S) \in Nat
         /\ \A x \in S : IsFiniteSet(Earlier(x, S, before)) /\ Cardinality(Earlier(x, S, before)) \in 0..(Cardinality(S) - 1)
         /\ \A x, y \in S : Cardinality(Earlier(x, S, before)) = Cardinality(Earlier(y, S, before)) => x = y
         /\ \A k \in 1..Cardinality(S) : \E x \in S : Cardinality(Earlier(x, S, before)) = k - 1
<1> DEFINE E(x) == Earlier(x, S, before)
           n == Cardinality(S)
           place == [x \in S |-> Cardinality(E(x)) + 1]
<1>1. n \in Nat
  BY FS_CardinalityType
<1>2. ASSUME NEW x \in S
      PROVE  IsFiniteSet(E(x)) /\ Cardinality(E(x)) \in 0..(n - 1)
  <2>1. E(x) \subseteq S /\ E(x) # S
    BY DEF Orders, Earlier
  <2> HIDE DEF E
  <2>2. IsFiniteSet(E(x)) /\ Cardinality(E(x)) <= n /\ (Cardinality(E(x)) = n => E(x) = S)
    BY <2>1, FS_Subset
  <2>3. Cardinality(E(x)) \in Nat
    BY <2>2, FS_CardinalityType
  <2> QED BY <1>1, <2>1, <2>2, <2>3
<1>3. ASSUME NEW x \in S, NEW y \in S, <<x, y>> \in before
      PROVE  Cardinality(E(x)) < Cardinality(E(y))
  <2>1. E(x) \subseteq E(y) /\ x \in E(y) /\ x \notin E(x)
    BY <1>3 DEF Orders, Earlier
  <2> HIDE DEF E
  <2>2. Cardinality(E(x)) <= Cardinality(E(y)) /\ Cardinality(E(x)) # Cardinality(E(y))
    BY <1>2, <2>1, FS_Subset
  <2> QED BY <1>1, <1>2, <2>2
<1>4. ASSUME NEW x \in S, NEW y \in S, Cardinality(E(x)) = Cardinality(E(y))
      PROVE  x = y
  <2>1. x = y \/ <<x, y>> \in before \/ <<y, x>> \in before
    BY DEF Orders
  <2> HIDE DEF E
  <2> QED BY <2>1, <1>1, <1>2, <1>3, <1>4
<1> HIDE DEF E
<1>5. place \in [S -> 1..n]
  BY <1>1, <1>2
<1>6. place \in Injection(S, 1..n)
  <2>1. ASSUME NEW x \in S, NEW y \in S, place[x] = place[y] PROVE x = y
    BY <1>1, <1>2, <1>4, <2>1
  <2> HIDE DEF place
  <2> QED BY <1>5, <2>1 DEF Injection, IsInjective
<1>7. place \in Surjection(S, 1..n)
  <2>1. IsFiniteSet(1..n) /\ Cardinality(1..n) = n
    BY <1>1, FS_Interval
  <2> HIDE DEF place
  <2> QED BY <1>6, <2>1, FS_Injection
<1>8. ASSUME NEW k \in 1..n PROVE \E x \in S : Cardinality(E(x)) = k - 1
  <2>1. PICK x \in S : place[x] = k
    <3> HIDE DEF place
    <3> QED BY <1>7 DEF Surjection
  <2> QED BY <1>1, <1>2, <2>1
<1> QED BY <1>1, <1>2, <1>4, <1>8 DEF E

\* A listing holds its set's members and no others, and one of them comes before all others.
LEMMA ListingHolds ==
  ASSUME NEW S, IsFiniteSet(S), NEW before, Orders(S, before)
  PROVE  /\ Listing(S, before) \in Seq(S) /\ Len(Listing(S, before)) = Cardinality(S) /\ Cardinality(S) \in Nat
         /\ \A k, l \in 1..Cardinality(S) : Listing(S, before)[k] = Listing(S, before)[l] => k = l
         /\ \A x \in S : Contains(Listing(S, before), x)
         /\ S # {} => \E x \in S : \A y \in S \ {x} : <<x, y>> \in before
<1> DEFINE n == Cardinality(S)
           At(x) == Cardinality(Earlier(x, S, before))
           list == [k \in 1..n |-> CHOOSE x \in S : At(x) = k - 1]
<1>1. /\ n \in Nat
      /\ \A x \in S : At(x) \in 0..(n - 1)
      /\ \A x, y \in S : At(x) = At(y) => x = y
      /\ \A k \in 1..n : \E x \in S : At(x) = k - 1
  BY Places
<1>2. Listing(S, before) = list
  BY DEF Listing
<1>3. S # {} => \E x \in S : \A y \in S \ {x} : <<x, y>> \in before
  <2> SUFFICES ASSUME S # {} PROVE \E x \in S : \A y \in S \ {x} : <<x, y>> \in before
    OBVIOUS
  <2>1. 1 \in 1..n
    <3> HIDE DEF n, At
    <3> QED BY <1>1
  <2>2. PICK x \in S : At(x) = 1 - 1
    <3> HIDE DEF n, At
    <3> QED BY <1>1, <2>1
  <2>3. IsFiniteSet(Earlier(x, S, before)) /\ Cardinality(Earlier(x, S, before)) = 0
    BY <2>2, Places
  <2>4. Earlier(x, S, before) = {}
    BY <2>3, FS_EmptySet
  <2> QED BY <2>4 DEF Orders, Earlier
<1> HIDE DEF n, At
<1>4. \A k \in 1..n : list[k] \in S /\ At(list[k]) = k - 1
  BY <1>1
<1>5. list \in Seq(S) /\ Len(list) = n
  <2>1. list \in [1..n -> S]
    BY <1>4
  <2> HIDE DEF list
  <2> QED BY <1>1, <2>1, SeqDef, LenProperties
<1>6. ASSUME NEW x \in S PROVE \E k \in 1..Len(list) : list[k] = x
  <2>1. At(x) + 1 \in 1..n /\ At(x) \in Nat
    BY <1>1
  <2> HIDE DEF list
  <2>2. list[At(x) + 1] \in S /\ At(list[At(x) + 1]) = At(x)
    BY <1>4, <2>1
  <2>3. list[At(x) + 1] = x
    BY <1>1, <2>2
  <2> QED BY <1>5, <2>1, <2>3
<1>7. ASSUME NEW k \in 1..n, NEW l \in 1..n, list[k] = list[l] PROVE k = l
  <2> HIDE DEF list
  <2>1. k - 1 = l - 1
    BY <1>4, <1>7
  <2> QED BY <1>1, <2>1
<1> HIDE DEF list
<1> QED BY <1>1, <1>2, <1>3, <1>5, <1>6, <1>7 DEF Contains, n

(***************************************************************************)
(* Figures: what is stored is what was read.                               *)
(***************************************************************************)
\* ORDER BY year DESC, and below by period, and filings as a pass queues them, leave no two rows in either order.
LEMMA YearsOrder ==
  ASSUME NEW S, S \subseteq Years
  PROVE  IsFiniteSet(S) /\ Orders(S, {o \in Years \X Years : o[1] > o[2]})
<1>1. IsFiniteSet(S)
  BY FS_Subset, PapersAssumption
<1>2. \A x \in S : x \in Years /\ x \in Int
  BY PapersAssumption
<1>3. \A x, y \in S : <<x, y>> \in {o \in Years \X Years : o[1] > o[2]} <=> x > y
  BY <1>2
<1> QED BY <1>1, <1>2, <1>3 DEF Orders

\* A period is a year and a kind of report.
LEMMA PeriodIs ==
  ASSUME NEW q \in Periods
  PROVE  q = <<q[1], q[2]>> /\ q[1] \in Years /\ q[1] \in Int /\ q[2] \in Kinds
<1>1. PICK y \in Years, k \in Kinds : q = <<y, k>>
  BY DEF Periods
<1> QED BY <1>1, PapersAssumption

\* The reports of an issuer, the latest first.
LEMMA PeriodsOrder ==
  ASSUME NEW S, S \subseteq Periods
  PROVE  IsFiniteSet(S) /\ Orders(S, {o \in Periods \X Periods : Later(o[1], o[2])})
<1>1. IsFiniteSet(S)
  <2>1. IsFiniteSet(Kinds)
    <3>0. IsFiniteSet({"annual"})
      BY FS_Singleton
    <3>1. IsFiniteSet({"annual", "H1"})
      BY <3>0, FS_AddElement
    <3>2. IsFiniteSet({"annual", "H1", "Q1"})
      BY <3>1, FS_AddElement
    <3>3. IsFiniteSet({"annual", "H1", "Q1", "Q3"})
      BY <3>2, FS_AddElement
    <3> QED BY <3>3, FS_AddElement DEF Kinds
  <2>2. IsFiniteSet(Periods)
    BY <2>1, FS_Product, PapersAssumption DEF Periods
  <2> QED BY <2>2, FS_Subset
<1>2. \A x \in S : /\ x \in Periods /\ x = <<x[1], x[2]>> /\ x[1] \in Int /\ x[2] \in Kinds
  BY PeriodIs
<1>3. \A k \in Kinds : KindRank[k] \in 1..5
  BY DEF Kinds, KindRank
<1>4. \A k, l \in Kinds : KindRank[k] = KindRank[l] => k = l
  BY DEF Kinds, KindRank
<1>5. \A x, y \in S : <<x, y>> \in {o \in Periods \X Periods : Later(o[1], o[2])} <=> Later(x, y)
  BY <1>2
<1>6. \A x, y \in S : x = y \/ Later(x, y) \/ Later(y, x)
  <2> SUFFICES ASSUME NEW x \in S, NEW y \in S, ~Later(x, y), ~Later(y, x) PROVE x = y
    OBVIOUS
  <2>1. x[1] = y[1] /\ KindRank[x[2]] = KindRank[y[2]]
    BY <1>2, <1>3 DEF Later
  <2> QED BY <1>2, <1>4, <2>1
<1>7. \A x \in S : ~Later(x, x)
  BY <1>2, <1>3 DEF Later
<1>8. \A x, y, z \in S : Later(x, y) /\ Later(y, z) => Later(x, z)
  BY <1>2, <1>3 DEF Later
<1> QED BY <1>1, <1>5, <1>6, <1>7, <1>8 DEF Orders

\* The filings of an issuer, as a pass queues them.
LEMMA PapersOrder ==
  ASSUME NEW S, S \subseteq Indices
  PROVE  IsFiniteSet(S) /\ Orders(S, Older)
<1>1. Indices = 1..Len(Papers) /\ Len(Papers) \in Nat
  BY PapersAssumption, LenProperties DEF Indices
<1>2. IsFiniteSet(S)
  <2>1. IsFiniteSet(1..Len(Papers))
    BY <1>1, FS_Interval
  <2> QED BY <1>1, <2>1, FS_Subset
<1>3. \A x \in S : x \in Indices /\ x \in Int
  BY <1>1
<1>4. \A x, y \in S : <<x, y>> \in Older <=> x < y
  BY <1>3 DEF Older
<1> QED BY <1>2, <1>3, <1>4 DEF Orders

(***************************************************************************)
(* The rows.                                                               *)
(***************************************************************************)
FiguresTyped ==
    /\ fgRows \in [Periods -> FigureRow \cup {NoRow}]
    /\ DOMAIN fgSegments = Periods /\ DOMAIN fgOwners = Periods /\ DOMAIN fgGiven = Periods
    /\ fgQueue \in Seq(Indices)

\* What was given for a period is what its row and its lists hold, before it has a row too.
GivenIsKept ==
    \A q \in Periods :
        fgGiven[q] = (IF fgRows[q] = NoRow THEN {} ELSE {l \in Lines : fgRows[q].figures[l] # 0})
            \cup (IF fgSegments[q] # <<>> THEN {"segments"} ELSE {})
            \cup (IF fgOwners[q] # <<>> THEN {"owners"} ELSE {})

FiguresInv == FiguresTyped /\ GivenIsKept

\* Nothing is stored and nothing was given.
LEMMA FiguresBegin == FiguresInit => FiguresInv
<1>1. <<>> \in Seq(Indices)
  BY EmptySeq
<1> QED BY <1>1 DEF FiguresInit, FiguresInv, FiguresTyped, GivenIsKept

\* An extract that is usable has a period, and the filing it is of a place in the list.
LEMMA ExtractHasPeriod ==
  ASSUME FiguresTyped, NEW x \in Extracts, fgQueue # <<>>, Usable(Head(fgQueue), x)
  PROVE  /\ Head(fgQueue) \in Indices /\ Tail(fgQueue) \in Seq(Indices)
         /\ PeriodOf(Head(fgQueue), x) \in Periods
         /\ x.figures \in [Lines -> Int]
         /\ PeriodOf(Head(fgQueue), x)[2] = "annual" => Papers[Head(fgQueue)].kind \in {"annual", NoKind}
<1> DEFINE p == Head(fgQueue)
<1>1. p \in Indices /\ Tail(fgQueue) \in Seq(Indices)
  BY HeadTailProperties DEF FiguresTyped
<1>2. Papers[p] \in [year : Years \cup {NoYear}, kind : Kinds \cup {NoKind}, rank : 1..7]
  BY <1>1, PapersAssumption, ElementOfSeq, LenProperties DEF Indices
<1>3. x.year \in Years \cup {NoYear} /\ x.kind \in Kinds \cup {NoKind} /\ x.figures \in [Lines -> Int]
  BY PapersAssumption
<1> HIDE DEF p
<1>4. KindOf(p, x) \in Kinds /\ (KindOf(p, x) = "annual" => Papers[p].kind \in {"annual", NoKind})
  BY <1>2, <1>3, PapersAssumption DEF KindOf, Kinds
<1>5. PeriodOf(p, x)[1] \in Years /\ PeriodOf(p, x)[2] = KindOf(p, x)
  BY <1>2, <1>3 DEF PeriodOf, Usable, p
<1>6. PeriodOf(p, x) \in Periods
  BY <1>4, <1>5 DEF PeriodOf, Periods
<1> QED BY <1>1, <1>3, <1>4, <1>5, <1>6 DEF p

\* store/financials.py, replace_period: what the row and the lists of a period become.
LEMMA PeriodReplaced ==
  ASSUME FiguresTyped, NEW q \in Periods, NEW p \in Indices, NEW x \in Extracts, x.figures \in [Lines -> Int],
         ReplacePeriod(q, p, x)
  PROVE  /\ fgRows' \in [Periods -> FigureRow \cup {NoRow}]
         /\ DOMAIN fgSegments' = Periods /\ DOMAIN fgOwners' = Periods /\ DOMAIN fgGiven' = Periods
         /\ \A r \in Periods \ {q} : /\ fgRows'[r] = fgRows[r] /\ fgSegments'[r] = fgSegments[r]
                                     /\ fgOwners'[r] = fgOwners[r] /\ fgGiven'[r] = fgGiven[r]
         /\ fgRows'[q] # NoRow /\ fgRows'[q].paper = p
         /\ \A l \in Lines : fgRows'[q].figures[l] # 0
                <=> x.figures[l] # 0 \/ (fgRows[q] # NoRow /\ fgRows[q].figures[l] # 0)
         /\ fgSegments'[q] = IF Distinct(x.segments) = <<>> THEN fgSegments[q] ELSE Distinct(x.segments)
         /\ fgOwners'[q] = IF Distinct(x.owners) = <<>> THEN fgOwners[q] ELSE Distinct(x.owners)
         /\ fgGiven'[q] = fgGiven[q] \cup {l \in Lines : x.figures[l] # 0}
                            \cup (IF Distinct(x.segments) # <<>> THEN {"segments"} ELSE {})
                            \cup (IF Distinct(x.owners) # <<>> THEN {"owners"} ELSE {})
<1> DEFINE old == IF fgRows[q] = NoRow THEN [l \in Lines |-> 0] ELSE fgRows[q].figures
           row == [figures |-> Merged(x.figures, old), paper |-> p]
<1>1. old \in [Lines -> Int] /\ (fgRows[q] = NoRow => \A l \in Lines : old[l] = 0) /\ (fgRows[q] # NoRow => old = fgRows[q].figures)
  BY DEF FiguresTyped, FigureRow
<1>2. fgRows' = [fgRows EXCEPT ![q] = row]
  BY DEF ReplacePeriod
<1>3. /\ fgSegments' = IF Distinct(x.segments) = <<>> THEN fgSegments ELSE [fgSegments EXCEPT ![q] = Distinct(x.segments)]
      /\ fgOwners' = IF Distinct(x.owners) = <<>> THEN fgOwners ELSE [fgOwners EXCEPT ![q] = Distinct(x.owners)]
  BY DEF ReplacePeriod
<1>4. fgGiven' = [fgGiven EXCEPT ![q] = @ \cup {l \in Lines : x.figures[l] # 0}
                    \cup {n \in {"segments", "owners"} :
                             IF n = "segments" THEN Distinct(x.segments) # <<>> ELSE Distinct(x.owners) # <<>>}]
  BY DEF ReplacePeriod
<1> HIDE DEF old
<1>5. row \in FigureRow /\ row # NoRow
  BY <1>1, PapersAssumption DEF Merged, FigureRow
<1>6. fgRows' \in [Periods -> FigureRow \cup {NoRow}] /\ fgRows'[q] = row /\ \A r \in Periods \ {q} : fgRows'[r] = fgRows[r]
  BY <1>2, <1>5 DEF FiguresTyped
<1>7. \A l \in Lines : row.figures[l] # 0 <=> x.figures[l] # 0 \/ old[l] # 0
  BY <1>1 DEF Merged
<1>8. /\ DOMAIN fgSegments' = Periods /\ DOMAIN fgOwners' = Periods /\ DOMAIN fgGiven' = Periods
      /\ \A r \in Periods \ {q} : fgSegments'[r] = fgSegments[r] /\ fgOwners'[r] = fgOwners[r] /\ fgGiven'[r] = fgGiven[r]
  BY <1>3, <1>4 DEF FiguresTyped
<1>9. /\ fgSegments'[q] = IF Distinct(x.segments) = <<>> THEN fgSegments[q] ELSE Distinct(x.segments)
      /\ fgOwners'[q] = IF Distinct(x.owners) = <<>> THEN fgOwners[q] ELSE Distinct(x.owners)
  BY <1>3 DEF FiguresTyped
<1>10. fgGiven'[q] = fgGiven[q] \cup {l \in Lines : x.figures[l] # 0}
                       \cup (IF Distinct(x.segments) # <<>> THEN {"segments"} ELSE {})
                       \cup (IF Distinct(x.owners) # <<>> THEN {"owners"} ELSE {})
  BY <1>4 DEF FiguresTyped
<1>11. \A l \in Lines : fgRows'[q].figures[l] # 0 <=> x.figures[l] # 0 \/ (fgRows[q] # NoRow /\ fgRows[q].figures[l] # 0)
  BY <1>1, <1>6, <1>7
<1>12. fgRows'[q] # NoRow /\ fgRows'[q].paper = p
  BY <1>5, <1>6
<1> QED BY <1>6, <1>8, <1>9, <1>10, <1>11, <1>12

\* One step: the invariant, what the tabs show, and what becomes of annual rows.
LEMMA FiguresStep ==
  ASSUME FiguresInv, [FiguresNext]_fgVars
  PROVE  /\ FiguresInv'
         /\ \A q \in Periods : /\ fgRows[q] # NoRow => fgRows'[q] # NoRow
                               /\ fgSegments[q] # <<>> => fgSegments'[q] # <<>>
                               /\ fgOwners[q] # <<>> => fgOwners'[q] # <<>>
         /\ InterimKeepsAnnual
<1>0. FiguresTyped /\ GivenIsKept
  BY DEF FiguresInv
<1>1. ASSUME UNCHANGED <<fgRows, fgSegments, fgOwners, fgGiven>>, fgQueue' \in Seq(Indices)
      PROVE  /\ FiguresInv' /\ InterimKeepsAnnual
             /\ \A q \in Periods : fgRows'[q] = fgRows[q] /\ fgSegments'[q] = fgSegments[q] /\ fgOwners'[q] = fgOwners[q]
  BY <1>0, <1>1 DEF FiguresInv, FiguresTyped, GivenIsKept, InterimKeepsAnnual
<1>2. CASE Pass
  <2>1. fgQueue' \in Seq(Extractable \ fgExtracted) /\ Extractable \ fgExtracted \subseteq Indices
    BY <1>2, PapersOrder, ListingHolds DEF Pass, Extractable
  <2>2. fgQueue' \in Seq(Indices)
    BY <2>1, SeqDef
  <2> QED BY <1>1, <1>2, <2>2 DEF Pass
<1>3. ASSUME NEW x \in Extracts, ExtractPaper(x)
      PROVE  /\ FiguresInv' /\ InterimKeepsAnnual
             /\ \A q \in Periods : /\ fgRows[q] # NoRow => fgRows'[q] # NoRow
                                   /\ fgSegments[q] # <<>> => fgSegments'[q] # <<>>
                                   /\ fgOwners[q] # <<>> => fgOwners'[q] # <<>>
  <2>1. fgQueue # <<>> /\ Usable(Head(fgQueue), x) /\ fgQueue' = Tail(fgQueue)
        /\ ReplacePeriod(PeriodOf(Head(fgQueue), x), Head(fgQueue), x)
    BY <1>3 DEF ExtractPaper
  <2>2. PICK p \in Indices, q \in Periods :
          /\ p = Head(fgQueue) /\ q = PeriodOf(p, x) /\ Tail(fgQueue) \in Seq(Indices) /\ x.figures \in [Lines -> Int]
          /\ q[2] = "annual" => Papers[p].kind \in {"annual", NoKind}
    BY <1>0, <2>1, ExtractHasPeriod
  <2>3. ReplacePeriod(q, p, x)
    BY <2>1, <2>2
  <2> DEFINE segments == Distinct(x.segments)
             owners == Distinct(x.owners)
  <2>4. /\ fgRows' \in [Periods -> FigureRow \cup {NoRow}]
        /\ DOMAIN fgSegments' = Periods /\ DOMAIN fgOwners' = Periods /\ DOMAIN fgGiven' = Periods
        /\ \A r \in Periods \ {q} : /\ fgRows'[r] = fgRows[r] /\ fgSegments'[r] = fgSegments[r]
                                    /\ fgOwners'[r] = fgOwners[r] /\ fgGiven'[r] = fgGiven[r]
        /\ fgRows'[q] # NoRow /\ fgRows'[q].paper = p
        /\ \A l \in Lines : fgRows'[q].figures[l] # 0
               <=> x.figures[l] # 0 \/ (fgRows[q] # NoRow /\ fgRows[q].figures[l] # 0)
        /\ fgSegments'[q] = IF segments = <<>> THEN fgSegments[q] ELSE segments
        /\ fgOwners'[q] = IF owners = <<>> THEN fgOwners[q] ELSE owners
        /\ fgGiven'[q] = fgGiven[q] \cup {l \in Lines : x.figures[l] # 0}
                           \cup (IF segments # <<>> THEN {"segments"} ELSE {})
                           \cup (IF owners # <<>> THEN {"owners"} ELSE {})
    BY <1>0, <2>2, <2>3, PeriodReplaced
  <2> HIDE DEF segments, owners
  <2>5. FiguresTyped'
    BY <2>1, <2>2, <2>4 DEF FiguresTyped
  <2>6. GivenIsKept'
    <3> SUFFICES ASSUME NEW r \in Periods
                 PROVE  fgGiven'[r] = (IF fgRows'[r] = NoRow THEN {} ELSE {l \in Lines : fgRows'[r].figures[l] # 0})
                            \cup (IF fgSegments'[r] # <<>> THEN {"segments"} ELSE {})
                            \cup (IF fgOwners'[r] # <<>> THEN {"owners"} ELSE {})
      BY DEF GivenIsKept
    <3>0. fgGiven[r] = (IF fgRows[r] = NoRow THEN {} ELSE {l \in Lines : fgRows[r].figures[l] # 0})
            \cup (IF fgSegments[r] # <<>> THEN {"segments"} ELSE {})
            \cup (IF fgOwners[r] # <<>> THEN {"owners"} ELSE {})
      BY <1>0 DEF GivenIsKept
    <3>1. CASE r # q
      BY <2>4, <3>0, <3>1
    <3>2. CASE r = q
      <4>1. {l \in Lines : fgRows'[q].figures[l] # 0}
              = {l \in Lines : x.figures[l] # 0} \cup (IF fgRows[q] = NoRow THEN {} ELSE {l \in Lines : fgRows[q].figures[l] # 0})
        BY <2>4
      <4> QED BY <2>4, <3>0, <3>2, <4>1
    <3> QED BY <3>1, <3>2
  <2>7. InterimKeepsAnnual
    <3> SUFFICES ASSUME NEW y \in Years, fgRows'[<<y, "annual">>] # fgRows[<<y, "annual">>]
                 PROVE  Papers[fgRows'[<<y, "annual">>].paper].kind \in {"annual", NoKind}
      BY DEF InterimKeepsAnnual
    <3>1. <<y, "annual">> \in Periods
      BY DEF Periods, Kinds
    <3>2. q = <<y, "annual">>
      BY <2>4, <3>1
    <3> QED BY <2>2, <2>4, <3>2
  <2> QED BY <2>4, <2>5, <2>6, <2>7 DEF FiguresInv
<1>4. CASE ExtractNothing
  <2>1. fgQueue' \in Seq(Indices)
    BY <1>0, <1>4, HeadTailProperties DEF ExtractNothing, FiguresTyped
  <2> QED BY <1>1, <1>4, <2>1 DEF ExtractNothing
<1>5. CASE RecoverShadowed
  BY <1>0, <1>1, <1>5 DEF RecoverShadowed, FiguresTyped
<1>6. CASE RecoverCashflow
  BY <1>0, <1>1, <1>6 DEF RecoverCashflow, FiguresTyped
<1>7. CASE UNCHANGED fgVars
  BY <1>0, <1>1, <1>7 DEF fgVars, FiguresTyped
<1> QED BY <1>2, <1>3, <1>4, <1>5, <1>6, <1>7 DEF FiguresNext

(***************************************************************************)
(* The readers.                                                            *)
(***************************************************************************)
LEMMA NewestIsOf ==
  ASSUME NEW S, S \subseteq Years, S # {}
  PROVE  Newest(S) \in S
<1>1. IsFiniteSet(S) /\ Orders(S, {o \in Years \X Years : o[1] > o[2]})
  BY YearsOrder
<1>2. PICK x \in S : \A y \in S \ {x} : <<x, y>> \in {o \in Years \X Years : o[1] > o[2]}
  BY <1>1, ListingHolds
<1>3. ASSUME NEW y \in S PROVE y =< x
  <2>1. x \in Int /\ y \in Int
    BY PapersAssumption
  <2>2. y # x => x > y
    BY <1>2
  <2> QED BY <2>1, <2>2
<1> QED BY <1>3 DEF Newest

\* The page's references are of the stored periods, and the interim shown is the last of them.
LEMMA PageComposes == FiguresInv => FiguresCompose
<1> SUFFICES ASSUME FiguresInv PROVE FiguresCompose
  OBVIOUS
<1>0. GivenIsKept
  BY DEF FiguresInv
<1> DEFINE stored == {q \in Periods : fgRows[q] # NoRow}
           later == {o \in Periods \X Periods : Later(o[1], o[2])}
<1>1. References \in Seq(stored) /\ \A q \in stored : Contains(References, q)
  <2>1. stored \subseteq Periods
    OBVIOUS
  <2> HIDE DEF stored
  <2>2. IsFiniteSet(stored) /\ Orders(stored, later)
    BY <2>1, PeriodsOrder
  <2> HIDE DEF later
  <2>3. Listing(stored, later) \in Seq(stored) /\ \A q \in stored : Contains(Listing(stored, later), q)
    BY <2>2, ListingHolds
  <2> QED BY <2>3 DEF References, stored, later
<1>2. Series \in Seq(AnnualYears) /\ AnnualYears \subseteq Years
  BY YearsOrder, ListingHolds DEF Series, AnnualYears
<1>3. ASSUME NEW i \in DOMAIN Series PROVE Contains(References, <<Series[i], "annual">>)
  <2>1. Series[i] \in AnnualYears
    BY <1>2, ElementOfSeq, LenProperties
  <2>2. <<Series[i], "annual">> \in stored
    BY <2>1 DEF AnnualYears, Periods, Kinds
  <2> QED BY <1>1, <2>2
<1>4. ASSUME NEW q \in LatestInterim, NEW i \in DOMAIN References
      PROVE  References[i] = q \/ Later(q, References[i])
  <2>1. References[i] \in stored
    BY <1>1, ElementOfSeq, LenProperties
  <2>2. PICK r \in Periods : r = References[i] /\ fgRows[r] # NoRow
    BY <2>1
  <2> DEFINE last == CHOOSE m \in Interims : \A n \in Interims \ {m} : Later(m, n)
  <2>3. Interims # {} /\ q = last /\ ~\E y \in AnnualYears : y >= last[1]
    BY DEF LatestInterim
  <2>4. Interims \subseteq Periods
    BY DEF Interims
  <2>5. \E m \in Interims : \A n \in Interims \ {m} : <<m, n>> \in later
    <3>1. IsFiniteSet(Interims) /\ Orders(Interims, later)
      BY <2>4, PeriodsOrder
    <3>2. Interims # {}
      BY <2>3
    <3> HIDE DEF later, last
    <3> QED BY <3>1, <3>2, ListingHolds
  <2>6. \E m \in Interims : \A n \in Interims \ {m} : Later(m, n)
    BY <2>4, <2>5
  <2>7. last \in Interims /\ \A n \in Interims \ {last} : Later(last, n)
    BY <2>6
  <2> HIDE DEF last
  <2>8. CASE r[2] = "annual"
    <3>1. r = <<r[1], "annual">> /\ r[1] \in Years /\ r[1] \in Int
      BY <2>8, PeriodIs
    <3>2. r[1] \in AnnualYears
      BY <2>2, <3>1 DEF AnnualYears
    <3>3. last[1] \in Int
      BY <2>4, <2>7, PeriodIs
    <3>4. ~(r[1] >= last[1])
      BY <2>3, <3>2
    <3> QED BY <2>2, <2>3, <3>1, <3>3, <3>4 DEF Later
  <2>9. CASE r[2] # "annual"
    <3>1. r \in Interims
      BY <2>2, <2>9 DEF Interims
    <3> QED BY <2>2, <2>3, <2>7, <3>1
  <2> QED BY <2>8, <2>9
<1> QED BY <1>0, <1>3, <1>4 DEF FiguresCompose, GivenIsKept

\* A tab that has data has data after a step that empties no row or list, of another year perhaps.
LEMMA TabsKeep ==
  ASSUME \A q \in Periods : /\ fgRows[q] # NoRow => fgRows'[q] # NoRow
                            /\ fgSegments[q] # <<>> => fgSegments'[q] # <<>>
                            /\ fgOwners[q] # <<>> => fgOwners'[q] # <<>>
  PROVE  TabsKeepData
<1>1. \A y \in Years : <<y, "annual">> \in Periods
  BY DEF Periods, Kinds
<1> DEFINE S == {y \in AnnualYears : fgSegments[<<y, "annual">>] # <<>>}
           O == {y \in AnnualYears : fgOwners[<<y, "annual">>] # <<>>}
<1>2. S \subseteq S' /\ O \subseteq O' /\ S' \subseteq Years /\ O' \subseteq Years
  BY <1>1 DEF AnnualYears
<1>3. SegmentsShown # <<>> => SegmentsShown' # <<>>
  <2> SUFFICES ASSUME SegmentsShown # <<>> PROVE SegmentsShown' # <<>>
    OBVIOUS
  <2>1. S # {}
    BY DEF SegmentsShown
  <2>2. S' # {} /\ Newest(S') \in S'
    BY <1>2, <2>1, NewestIsOf
  <2>3. SegmentsShown' = fgSegments'[<<Newest(S'), "annual">>]
    BY <2>2 DEF SegmentsShown
  <2> QED BY <2>2, <2>3
<1>4. OwnersShown # <<>> => OwnersShown' # <<>>
  <2> SUFFICES ASSUME OwnersShown # <<>> PROVE OwnersShown' # <<>>
    OBVIOUS
  <2>1. O # {}
    BY DEF OwnersShown
  <2>2. O' # {} /\ Newest(O') \in O'
    BY <1>2, <2>1, NewestIsOf
  <2>3. OwnersShown' = fgOwners'[<<Newest(O'), "annual">>]
    BY <2>2 DEF OwnersShown
  <2> QED BY <2>2, <2>3
<1> QED BY <1>3, <1>4 DEF TabsKeepData

\* services/fundamentals.py and store/financials.py: in whatever order the filings of an issuer are extracted,
\* once or again, nothing an extract gave is lost and nothing else is shown, the readers agree, the tabs keep
\* their data and an interim report touches no annual row: for any filings and anything the model reads in them.
THEOREM ExtractsCompose == FiguresSpec => FiguresStand
<1> DEFINE Stands == FiguresCompose' /\ TabsKeepData /\ InterimKeepsAnnual
<1>1. FiguresInv /\ [FiguresNext]_fgVars => FiguresInv'
  BY FiguresStep
<1>2. FiguresInv' => FiguresCompose'
  BY PageComposes, PTL
<1>3. FiguresInv /\ [FiguresNext]_fgVars => Stands
  BY <1>2, FiguresStep, TabsKeep
<1>4. FiguresSpec => [][Stands]_fgVars
  BY <1>1, <1>3, FiguresBegin, PTL DEF FiguresSpec
<1> QED BY <1>4, PTL DEF FiguresStand

(***************************************************************************)
(* Attribution: what a document is and of which period.                    *)
(***************************************************************************)
LEMMA FirstIs ==
  ASSUME NEW pairs, NEW words, DOMAIN pairs \subseteq Int, NEW i \in DOMAIN pairs, pairs[i][1] \in words,
         \A j \in DOMAIN pairs : j < i => pairs[j][1] \notin words
  PROVE  FirstOf(pairs, words) = pairs[i][2]
<1> DEFINE S == {k \in DOMAIN pairs : pairs[k][1] \in words}
<1>1. i \in S /\ S \subseteq Int /\ \A j \in S : i =< j
  OBVIOUS
<1>2. \A k \in S : (\A j \in S : k =< j) => k = i
  BY <1>1
<1>3. (CHOOSE k \in S : \A j \in S : k =< j) = i
  BY <1>1, <1>2
<1> QED BY <1>1, <1>3 DEF FirstOf

\* A table that knows none of the words says nothing.
LEMMA NoneIs ==
  ASSUME NEW pairs, NEW words, \A j \in DOMAIN pairs : pairs[j][1] \notin words
  PROVE  FirstOf(pairs, words) = Nobody
  BY DEF FirstOf

\* Two tables with the same expressions date a document alike, but for a second quarter.
LEMMA DatedAsItsFile ==
  ASSUME NEW d \in Docs, TitlePeriod(d) # Nobody, "trimestre2" \notin Documents[d].words
  PROVE  FilePeriod(d) = TitlePeriod(d)
<1> DEFINE w == Documents[d].words
<1>1. /\ DOMAIN FilePeriods = 1..5
      /\ FilePeriods[1] = <<"semestre1", "H1">> /\ FilePeriods[2] = <<"trimestre1", "Q1">>
      /\ FilePeriods[3] = <<"trimestre3", "Q3">> /\ FilePeriods[4] = <<"exercice", "annual">>
      /\ FilePeriods[5] = <<"year", "annual">>
  BY DEF FilePeriods
<1>2. /\ DOMAIN TitlePeriods = 1..5
      /\ TitlePeriods[1] = <<"semestre1", "H1">> /\ TitlePeriods[2] = <<"trimestre2", "H1">>
      /\ TitlePeriods[3] = <<"trimestre1", "Q1">> /\ TitlePeriods[4] = <<"trimestre3", "Q3">>
      /\ TitlePeriods[5] = <<"exercice", "annual">>
  BY DEF TitlePeriods
<1>3. ASSUME NEW i \in 1..5, NEW j \in 1..5, FilePeriods[i] = TitlePeriods[j], TitlePeriods[j][1] \in w,
             TitlePeriods[j][2] # Nobody,
             \A k \in 1..5 : k < i => FilePeriods[k][1] \notin w,
             \A k \in 1..5 : k < j => TitlePeriods[k][1] \notin w
      PROVE  FilePeriod(d) = TitlePeriod(d)
  <2>1. FirstOf(FilePeriods, w) = FilePeriods[i][2]
    BY <1>1, <1>3, FirstIs
  <2>2. FirstOf(TitlePeriods, w) = TitlePeriods[j][2]
    BY <1>2, <1>3, FirstIs
  <2> QED BY <1>3, <2>1, <2>2 DEF FilePeriod, TitlePeriod
<1>4. Nobody \notin {"annual", "H1", "Q1", "Q3"}
  BY DocumentsAssumption
<1>5. CASE "semestre1" \in w
  <2>1. /\ \A k \in 1..5 : k < 1 => FilePeriods[k][1] \notin w
        /\ \A k \in 1..5 : k < 1 => TitlePeriods[k][1] \notin w
    OBVIOUS
  <2> QED BY <1>1, <1>2, <1>3, <1>4, <1>5, <2>1
<1>6. CASE "semestre1" \notin w /\ "trimestre1" \in w
  <2>1. /\ \A k \in 1..5 : k < 2 => FilePeriods[k][1] \notin w
        /\ \A k \in 1..5 : k < 3 => TitlePeriods[k][1] \notin w
    <3>1. \A k \in 1..5 : (k < 2 => k = 1) /\ (k < 3 => k = 1 \/ k = 2)
      OBVIOUS
    <3> QED BY <1>1, <1>2, <1>6, <3>1
  <2> QED BY <1>1, <1>2, <1>3, <1>4, <1>6, <2>1
<1>7. CASE "semestre1" \notin w /\ "trimestre1" \notin w /\ "trimestre3" \in w
  <2>1. /\ \A k \in 1..5 : k < 3 => FilePeriods[k][1] \notin w
        /\ \A k \in 1..5 : k < 4 => TitlePeriods[k][1] \notin w
    <3>1. \A k \in 1..5 : (k < 3 => k = 1 \/ k = 2) /\ (k < 4 => k = 1 \/ k = 2 \/ k = 3)
      OBVIOUS
    <3> QED BY <1>1, <1>2, <1>7, <3>1
  <2> QED BY <1>1, <1>2, <1>3, <1>4, <1>7, <2>1
<1>8. CASE "semestre1" \notin w /\ "trimestre1" \notin w /\ "trimestre3" \notin w /\ "exercice" \in w
  <2>1. /\ \A k \in 1..5 : k < 4 => FilePeriods[k][1] \notin w
        /\ \A k \in 1..5 : k < 5 => TitlePeriods[k][1] \notin w
    <3>1. \A k \in 1..5 : (k < 4 => k = 1 \/ k = 2 \/ k = 3) /\ (k < 5 => k = 1 \/ k = 2 \/ k = 3 \/ k = 4)
      OBVIOUS
    <3> QED BY <1>1, <1>2, <1>8, <3>1
  <2> QED BY <1>1, <1>2, <1>3, <1>4, <1>8, <2>1
<1>9. CASE "semestre1" \notin w /\ "trimestre1" \notin w /\ "trimestre3" \notin w /\ "exercice" \notin w
  <2>0. \A k \in 1..5 : k = 1 \/ k = 2 \/ k = 3 \/ k = 4 \/ k = 5
    OBVIOUS
  <2>1. FirstOf(TitlePeriods, w) = Nobody
    <3>1. \A k \in 1..5 : TitlePeriods[k][1] \notin w
      BY <1>2, <1>9, <2>0
    <3> QED BY <1>2, <3>1, NoneIs
  <2>2. "year" \in w /\ TitlePeriod(d) = "annual"
    BY <2>1 DEF TitlePeriod
  <2>3. \A k \in 1..5 : k < 5 => FilePeriods[k][1] \notin w
    <3>1. \A k \in 1..5 : k < 5 => k = 1 \/ k = 2 \/ k = 3 \/ k = 4
      OBVIOUS
    <3> QED BY <1>1, <1>9, <3>1
  <2>4. FirstOf(FilePeriods, w) = FilePeriods[5][2]
    <3>1. 5 \in DOMAIN FilePeriods /\ FilePeriods[5][1] \in w
      BY <1>1, <2>2
    <3> QED BY <1>1, <2>3, <3>1, FirstIs
  <2> QED BY <1>1, <2>2, <2>4 DEF FilePeriod
<1> QED BY <1>5, <1>6, <1>7, <1>8, <1>9

(***************************************************************************)
(* The rows of filings.                                                    *)
(***************************************************************************)
\* What a pull and a promotion read a document to be.
PulledRows == {FilingRow("brvm", o[1], o[2], FileType(o[1]), FilePeriod(o[1]), 0) : o \in Docs \X Tickers}
PromotedRows ==
    {FilingRow("sikafinance", o[1], o[2], TitleType(o[1]), TitlePeriod(o[1]), o[3]) : o \in Docs \X Tickers \X Nat}

\* No filing that was there when the promotion looked has the period of a communiqué it takes.
Looked(rows, r) ==
    \A j \in DOMAIN rows : j =< r.seen /\ r.period # Nobody =>
        <<r.ticker, r.type, r.period>> # <<rows[j].ticker, rows[j].type, rows[j].period>>

\* What filings may hold.
Rows == PulledRows \cup PromotedRows

AttributionTyped ==
    /\ atKnown \subseteq Tickers /\ atIndex \subseteq Tickers
    /\ atSlugs \in [Slugs -> Tickers \cup {Nobody, Unseen}]
    /\ atListed \subseteq Docs /\ atNews \subseteq Docs /\ atTodo \in Seq(Docs)
    /\ atRows \in Seq(Rows)
    /\ atHand # NoDocument => atHand \in PromotedRows

\* No document is stored twice of a source, and no communiqué beside a filing its promotion could see.
Apart(rows) ==
    /\ \A i, j \in DOMAIN rows : i # j => <<rows[i].source, rows[i].doc>> # <<rows[j].source, rows[j].doc>>
    /\ \A i \in DOMAIN rows : rows[i].source = "sikafinance" => rows[i].seen < i /\ Looked(rows, rows[i])

\* Rows are only added, so that what a promotion looked at stays where it was until it stores.
RowsApart == Apart(atRows) /\ (atHand # NoDocument => atHand.seen =< Len(atRows) /\ Looked(atRows, atHand))

AttributionInv == AttributionTyped /\ RowsApart

\* What a row holds, by where it is from.
LEMMA RowIs ==
  ASSUME NEW r \in Rows
  PROVE  /\ r.source \in {"brvm", "sikafinance"} /\ r.doc \in Docs /\ r.ticker \in Tickers /\ r.seen \in Nat
         /\ r.source = "brvm" <=> r \in PulledRows
         /\ r.source = "sikafinance" <=> r \in PromotedRows
         /\ r.source = "brvm" => r.type = FileType(r.doc) /\ r.period = FilePeriod(r.doc)
         /\ r.source = "sikafinance" => r.type = TitleType(r.doc) /\ r.period = TitlePeriod(r.doc)
<1>1. CASE r \in PulledRows
  <2>1. PICK d \in Docs, t \in Tickers : r = FilingRow("brvm", d, t, FileType(d), FilePeriod(d), 0)
    BY <1>1 DEF PulledRows
  <2>2. r.source = "brvm" /\ r.doc = d /\ r.ticker = t /\ r.seen = 0 /\ r.type = FileType(d) /\ r.period = FilePeriod(d)
    BY <2>1 DEF FilingRow
  <2>3. r \notin PromotedRows
    BY <2>2 DEF PromotedRows, FilingRow
  <2> QED BY <1>1, <2>2, <2>3
<1>2. CASE r \in PromotedRows
  <2>1. PICK d \in Docs, t \in Tickers, n \in Nat : r = FilingRow("sikafinance", d, t, TitleType(d), TitlePeriod(d), n)
    BY <1>2 DEF PromotedRows
  <2>2. r.source = "sikafinance" /\ r.doc = d /\ r.ticker = t /\ r.seen = n /\ r.type = TitleType(d) /\ r.period = TitlePeriod(d)
    BY <2>1 DEF FilingRow
  <2>3. r \notin PulledRows
    BY <2>2 DEF PulledRows, FilingRow
  <2> QED BY <1>2, <2>2, <2>3
<1> QED BY <1>1, <1>2 DEF Rows

\* The documents of a page, as the site lists them.
LEMMA DocsOrder ==
  /\ Docs = 1..Len(Documents) /\ Len(Documents) \in Nat
  /\ \A S \in SUBSET Docs : IsFiniteSet(S) /\ Orders(S, Sooner) /\ Orders(S, {o \in Docs \X Docs : o[1] > o[2]})
<1>1. Docs = 1..Len(Documents) /\ Len(Documents) \in Nat
  BY DocumentsAssumption, LenProperties DEF Docs
<1>2. IsFiniteSet(1..Len(Documents))
  BY <1>1, FS_Interval
<1>3. ASSUME NEW S \in SUBSET Docs
      PROVE  IsFiniteSet(S) /\ Orders(S, Sooner) /\ Orders(S, {o \in Docs \X Docs : o[1] > o[2]})
  <2>1. IsFiniteSet(S)
    BY <1>1, <1>2, FS_Subset
  <2>2. \A x \in S : x \in Docs /\ x \in Int
    BY <1>1
  <2>3. \A x, y \in S : <<x, y>> \in Sooner <=> x < y
    BY <2>2 DEF Sooner
  <2>4. \A x, y \in S : <<x, y>> \in {o \in Docs \X Docs : o[1] > o[2]} <=> x > y
    BY <2>2
  <2>5. Orders(S, Sooner)
    BY <2>2, <2>3 DEF Orders
  <2>6. Orders(S, {o \in Docs \X Docs : o[1] > o[2]})
    BY <2>2, <2>4 DEF Orders
  <2> QED BY <2>1, <2>5, <2>6
<1> QED BY <1>1, <1>3

\* A name is taken for an issuer the index lists.
LEMMA FuzzyIsKnown ==
  ASSUME NEW K, K \subseteq Tickers, NEW name, NEW t \in Fuzzy(K, name)
  PROVE  t = Nobody \/ t \in K
  BY DEF Fuzzy, Rooted

\* There are no filings.
LEMMA AttributionBegins == AttributionInit => AttributionInv
<1>1. <<>> \in Seq(Docs) /\ <<>> \in Seq(Rows) /\ DOMAIN <<>> = {}
  BY EmptySeq
<1> QED BY <1>1 DEF AttributionInit, AttributionInv, AttributionTyped, RowsApart, Apart

\* Rows are only added: what the promotion looked at is where it was.
LEMMA RowsAdded ==
  ASSUME NEW rows \in Seq(Rows), NEW added \in Seq(Rows)
  PROVE  /\ rows \o added \in Seq(Rows) /\ Len(rows \o added) = Len(rows) + Len(added)
         /\ Len(rows) \in Nat /\ Len(added) \in Nat
         /\ DOMAIN rows = 1..Len(rows) /\ DOMAIN (rows \o added) = 1..(Len(rows) + Len(added))
         /\ \A i \in 1..Len(rows) : (rows \o added)[i] = rows[i]
         /\ \A i \in 1..Len(added) : (rows \o added)[Len(rows) + i] = added[i]
         /\ \A i \in DOMAIN (rows \o added) : i \in 1..Len(rows) \/ \E k \in 1..Len(added) : i = Len(rows) + k
         /\ \A r : r.seen \in Nat /\ r.seen =< Len(rows) /\ Looked(rows, r) => Looked(rows \o added, r)
<1> DEFINE all == rows \o added
<1>1. Len(rows) \in Nat /\ Len(added) \in Nat /\ DOMAIN rows = 1..Len(rows)
  BY LenProperties
<1>2. /\ all \in Seq(Rows) /\ Len(all) = Len(rows) + Len(added)
      /\ \A i \in 1..(Len(rows) + Len(added)) : all[i] = IF i <= Len(rows) THEN rows[i] ELSE added[i - Len(rows)]
  BY ConcatProperties
<1> HIDE DEF all
<1>3. DOMAIN all = 1..(Len(rows) + Len(added))
  BY <1>2, LenProperties
<1>4. /\ \A i \in 1..Len(rows) : all[i] = rows[i]
      /\ \A i \in 1..Len(added) : all[Len(rows) + i] = added[i]
  BY <1>1, <1>2
<1>5. ASSUME NEW i \in DOMAIN all, i \notin 1..Len(rows) PROVE \E k \in 1..Len(added) : i = Len(rows) + k
  <2>1. i - Len(rows) \in 1..Len(added) /\ i = Len(rows) + (i - Len(rows))
    BY <1>1, <1>3, <1>5
  <2> QED BY <2>1
<1>6. ASSUME NEW r, r.seen \in Nat, r.seen =< Len(rows), Looked(rows, r) PROVE Looked(all, r)
  <2>1. \A j \in DOMAIN all : j =< r.seen => j \in DOMAIN rows /\ all[j] = rows[j]
    BY <1>1, <1>3, <1>4, <1>6
  <2> QED BY <1>6, <2>1 DEF Looked
<1> QED BY <1>1, <1>2, <1>3, <1>4, <1>5, <1>6 DEF all

\* services/filings.py, pull_all: the rows of the documents that arrived.
LEMMA PullAdds ==
  ASSUME AttributionInv, Pull
  PROVE  AttributionInv'
<1>0. AttributionTyped /\ RowsApart
  BY DEF AttributionInv
<1>1. PICK resolved \in [Slugs -> Tickers \cup {Nobody}] :
        /\ atSlugs' = Remember(resolved)
        /\ \E arrived \in SUBSET UNION {{d \in IssuerPages(s) : ~Stored("brvm", d)} :
                                        s \in {r \in Slugs : resolved[r] \in atKnown}} :
            atRows' = atRows \o [i \in 1..Cardinality(arrived) |->
                LET d == Listing(arrived, Sooner)[i]
                IN  FilingRow("brvm", d, resolved[Documents[d].slug], FileType(d), FilePeriod(d), 0)]
        /\ UNCHANGED <<sitesVars, promoVars>>
  BY DEF Pull
<1>2. PICK arrived \in SUBSET UNION {{d \in IssuerPages(s) : ~Stored("brvm", d)} :
                                     s \in {r \in Slugs : resolved[r] \in atKnown}} :
            atRows' = atRows \o [i \in 1..Cardinality(arrived) |->
                LET d == Listing(arrived, Sooner)[i]
                IN  FilingRow("brvm", d, resolved[Documents[d].slug], FileType(d), FilePeriod(d), 0)]
  BY <1>1
<1> DEFINE n == Cardinality(arrived)
           list == Listing(arrived, Sooner)
           Made(d) == FilingRow("brvm", d, resolved[Documents[d].slug], FileType(d), FilePeriod(d), 0)
           added == [i \in 1..n |-> Made(list[i])]
<1>3. \A d \in arrived : d \in Docs /\ ~Stored("brvm", d) /\ resolved[Documents[d].slug] \in Tickers
  BY <1>0 DEF IssuerPages, AttributionTyped
<1>4. atRows' = atRows \o added
  BY <1>2
<1>5. /\ list \in Seq(arrived) /\ Len(list) = n /\ n \in Nat
      /\ \A k, l \in 1..n : list[k] = list[l] => k = l
  <2>1. arrived \in SUBSET Docs
    BY <1>3
  <2> QED BY <2>1, DocsOrder, ListingHolds
<1> HIDE DEF list, n
<1>6. \A k \in 1..n : list[k] \in arrived
  BY <1>5, LenProperties, ElementOfSeq
<1>7. \A d \in arrived : Made(d) \in Rows /\ Made(d).source = "brvm" /\ Made(d).doc = d
  <2> SUFFICES ASSUME NEW d \in arrived PROVE Made(d) \in Rows /\ Made(d).source = "brvm" /\ Made(d).doc = d
    OBVIOUS
  <2>1. Made(d) \in PulledRows
    <3>1. <<d, resolved[Documents[d].slug]>> \in Docs \X Tickers
      BY <1>3
    <3> QED BY <3>1 DEF PulledRows
  <2> QED BY <2>1 DEF Rows, FilingRow
<1> HIDE DEF Made
<1>8. added \in Seq(Rows) /\ Len(added) = n /\ \A k \in 1..n : added[k] = Made(list[k])
  <2>1. added \in [1..n -> Rows]
    BY <1>6, <1>7
  <2>2. \A k \in 1..n : added[k] = Made(list[k])
    OBVIOUS
  <2> HIDE DEF added
  <2> QED BY <1>5, <2>1, <2>2, SeqDef, LenProperties
<1> HIDE DEF added
<1>9. atRows \in Seq(Rows)
  BY <1>0 DEF AttributionTyped
<1>10. \A k \in 1..n : added[k].source = "brvm" /\ added[k].doc = list[k] /\ ~Stored("brvm", list[k])
  BY <1>3, <1>6, <1>7, <1>8
<1>11. \A k \in 1..n, j \in DOMAIN atRows : <<added[k].source, added[k].doc>> # <<atRows[j].source, atRows[j].doc>>
  BY <1>10 DEF Stored
<1>12. \A k, l \in 1..n : k # l => added[k].doc # added[l].doc
  BY <1>5, <1>10
<1>13. Apart(atRows')
  <2> DEFINE N == Len(atRows)
  <2>1. /\ N \in Nat /\ DOMAIN atRows = 1..N
        /\ \A i \in DOMAIN atRows' : i \in 1..N \/ \E k \in 1..n : i = N + k
        /\ \A i \in 1..N : atRows'[i] = atRows[i]
        /\ \A k \in 1..n : atRows'[N + k] = added[k]
        /\ \A r : r.seen \in Nat /\ r.seen =< N /\ Looked(atRows, r) => Looked(atRows', r)
    BY <1>4, <1>8, <1>9, RowsAdded
  <2>2. ASSUME NEW i \in DOMAIN atRows', NEW j \in DOMAIN atRows', i # j
        PROVE  <<atRows'[i].source, atRows'[i].doc>> # <<atRows'[j].source, atRows'[j].doc>>
    <3>1. CASE i \in 1..N /\ j \in 1..N
      BY <1>0, <2>1, <2>2, <3>1 DEF RowsApart, Apart
    <3>2. ASSUME NEW k \in 1..n, i = N + k, j \in 1..N
          PROVE  <<atRows'[i].source, atRows'[i].doc>> # <<atRows'[j].source, atRows'[j].doc>>
      BY <1>11, <2>1, <3>2
    <3>3. ASSUME NEW k \in 1..n, j = N + k, i \in 1..N
          PROVE  <<atRows'[i].source, atRows'[i].doc>> # <<atRows'[j].source, atRows'[j].doc>>
      BY <1>11, <2>1, <3>3
    <3>4. ASSUME NEW k \in 1..n, NEW l \in 1..n, i = N + k, j = N + l
          PROVE  <<atRows'[i].source, atRows'[i].doc>> # <<atRows'[j].source, atRows'[j].doc>>
      BY <1>12, <2>1, <2>2, <3>4
    <3> QED BY <2>1, <3>1, <3>2, <3>3, <3>4
  <2>3. ASSUME NEW i \in DOMAIN atRows', atRows'[i].source = "sikafinance"
        PROVE  atRows'[i].seen < i /\ Looked(atRows', atRows'[i])
    <3>1. i \in 1..N /\ atRows'[i] = atRows[i] /\ atRows[i] \in Rows
      BY <1>9, <1>10, <2>1, <2>3, ElementOfSeq
    <3>2. atRows[i].seen \in Nat /\ atRows[i].seen < i /\ Looked(atRows, atRows[i])
      BY <1>0, <2>1, <2>3, <3>1, RowIs DEF RowsApart, Apart
    <3> QED BY <2>1, <3>1, <3>2
  <2> QED BY <2>2, <2>3 DEF Apart
<1>14. RowsApart'
  <2>1. atHand' = atHand
    BY <1>1 DEF promoVars
  <2>2. ASSUME atHand # NoDocument PROVE atHand.seen =< Len(atRows') /\ Looked(atRows', atHand)
    <3>1. atHand.seen \in Nat /\ atHand.seen =< Len(atRows) /\ Looked(atRows, atHand)
      BY <1>0, <2>2, RowIs DEF RowsApart, AttributionTyped, Rows
    <3>2. /\ Len(atRows) \in Nat /\ Len(added) \in Nat /\ Len(atRows \o added) = Len(atRows) + Len(added)
          /\ Looked(atRows \o added, atHand)
      BY <1>8, <1>9, <3>1, RowsAdded
    <3> QED BY <1>4, <3>1, <3>2
  <2> QED BY <1>13, <2>1, <2>2 DEF RowsApart
<1>15. atSlugs' \in [Slugs -> Tickers \cup {Nobody, Unseen}]
  BY <1>0, <1>1 DEF Remember, AttributionTyped
<1>16. atRows' \in Seq(Rows)
  BY <1>4, <1>8, <1>9, RowsAdded
<1>17. AttributionTyped'
  BY <1>0, <1>1, <1>15, <1>16 DEF AttributionTyped, sitesVars, promoVars
<1> QED BY <1>14, <1>17 DEF AttributionInv

\* A promotion that looks for a filing of a communiqué's period: it takes it only when there is none.
LEMMA LookKeeps ==
  ASSUME AttributionInv, PromoteLook
  PROVE  AttributionInv'
<1>0. AttributionTyped /\ RowsApart
  BY DEF AttributionInv
<1> DEFINE d == Head(atTodo)
<1>1. d \in Docs /\ Tail(atTodo) \in Seq(Docs)
  BY <1>0, HeadTailProperties DEF PromoteLook, AttributionTyped
<1>2. PICK t \in Fuzzy(atIndex, Documents[d].issuer) :
        atHand' = IF \/ TitleType(d) = Nobody \/ t = Nobody
                     \/ Stored("sikafinance", d) \/ Covered(t, TitleType(d), TitlePeriod(d))
                  THEN NoDocument
                  ELSE FilingRow("sikafinance", d, t, TitleType(d), TitlePeriod(d), Len(atRows))
  BY DEF PromoteLook
<1> HIDE DEF d
<1>3. t = Nobody \/ t \in Tickers
  BY <1>0, <1>2, FuzzyIsKnown DEF AttributionTyped
<1>4. UNCHANGED <<sitesVars, atSlugs, atRows, atIndex>> /\ atTodo' = Tail(atTodo)
  BY DEF PromoteLook
<1>5. ASSUME atHand' # NoDocument
      PROVE  atHand' \in PromotedRows /\ atHand'.seen = Len(atRows) /\ Looked(atRows, atHand')
  <2>1. t \in Tickers /\ atHand' = FilingRow("sikafinance", d, t, TitleType(d), TitlePeriod(d), Len(atRows))
        /\ ~Covered(t, TitleType(d), TitlePeriod(d))
    BY <1>2, <1>3, <1>5
  <2>2. Len(atRows) \in Nat
    BY <1>0, LenProperties DEF AttributionTyped
  <2>3. <<d, t, Len(atRows)>> \in Docs \X Tickers \X Nat
    BY <1>1, <2>1, <2>2
  <2>4. atHand' \in PromotedRows
    BY <2>1, <2>3 DEF PromotedRows
  <2>5. /\ atHand'.seen = Len(atRows) /\ atHand'.ticker = t
        /\ atHand'.type = TitleType(d) /\ atHand'.period = TitlePeriod(d)
    BY <2>1 DEF FilingRow
  <2>6. Looked(atRows, atHand')
    BY <2>1, <2>5 DEF Looked, Covered
  <2> QED BY <2>4, <2>5, <2>6
<1>6. Len(atRows) \in Nat
  BY <1>0, LenProperties DEF AttributionTyped
<1>7. RowsApart'
  BY <1>0, <1>4, <1>5, <1>6 DEF RowsApart
<1>8. AttributionTyped'
  BY <1>0, <1>1, <1>4, <1>5 DEF AttributionTyped, sitesVars, d
<1> QED BY <1>7, <1>8 DEF AttributionInv

\* A promotion that stores what it took, which a pull may have overtaken.
LEMMA StoreKeeps ==
  ASSUME AttributionInv, PromoteStore
  PROVE  AttributionInv'
<1>0. AttributionTyped /\ RowsApart
  BY DEF AttributionInv
<1>1. /\ atHand # NoDocument /\ atHand' = NoDocument
      /\ \/ atRows' = atRows
         \/ ~Stored("sikafinance", atHand.doc) /\ atRows' = Append(atRows, atHand)
      /\ UNCHANGED <<sitesVars, atSlugs, atIndex, atTodo>>
  BY DEF PromoteStore
<1>2. CASE atRows' = atRows
  BY <1>0, <1>1, <1>2 DEF AttributionInv, AttributionTyped, RowsApart, sitesVars
<1>3. CASE ~Stored("sikafinance", atHand.doc) /\ atRows' = Append(atRows, atHand)
  <2>1. atRows \in Seq(Rows) /\ atHand \in Rows /\ atHand \in PromotedRows
    BY <1>0, <1>1 DEF AttributionTyped, Rows
  <2>2. /\ atHand.source = "sikafinance" /\ atHand.seen \in Nat
        /\ atHand.seen =< Len(atRows) /\ Looked(atRows, atHand)
    BY <1>0, <1>1, <2>1, RowIs DEF RowsApart
  <2> DEFINE N == Len(atRows)
  <2>3. /\ atRows' \in Seq(Rows) /\ Len(atRows') = N + 1 /\ N \in Nat
        /\ \A i \in 1..N : atRows'[i] = atRows[i]
        /\ atRows'[N + 1] = atHand
        /\ DOMAIN atRows = 1..N /\ DOMAIN atRows' = 1..(N + 1)
    BY <1>3, <2>1, AppendProperties, LenProperties
  <2>4. ASSUME NEW r, r.seen \in Nat, r.seen =< N, Looked(atRows, r) PROVE Looked(atRows', r)
    <3>1. \A j \in DOMAIN atRows' : j =< r.seen => j \in DOMAIN atRows /\ atRows'[j] = atRows[j]
      BY <2>3, <2>4
    <3> QED BY <2>4, <3>1 DEF Looked
  <2>5. ASSUME NEW i \in 1..N PROVE <<atRows[i].source, atRows[i].doc>> # <<atHand.source, atHand.doc>>
    BY <1>3, <2>2, <2>3 DEF Stored
  <2>6. ASSUME NEW i \in DOMAIN atRows', NEW j \in DOMAIN atRows', i # j
        PROVE  <<atRows'[i].source, atRows'[i].doc>> # <<atRows'[j].source, atRows'[j].doc>>
    <3>1. i \in 1..N \/ i = N + 1
      BY <2>3
    <3>2. j \in 1..N \/ j = N + 1
      BY <2>3
    <3>3. CASE i \in 1..N /\ j \in 1..N
      BY <1>0, <2>3, <2>6, <3>3 DEF RowsApart, Apart
    <3> QED BY <2>3, <2>5, <2>6, <3>1, <3>2, <3>3
  <2>7. ASSUME NEW i \in DOMAIN atRows', atRows'[i].source = "sikafinance"
        PROVE  atRows'[i].seen < i /\ Looked(atRows', atRows'[i])
    <3>1. CASE i \in 1..N
      <4>1. atRows'[i] = atRows[i] /\ atRows[i] \in Rows
        BY <2>1, <2>3, <3>1, ElementOfSeq
      <4>2. atRows[i].seen \in Nat /\ atRows[i].seen < i /\ Looked(atRows, atRows[i])
        BY <1>0, <2>3, <2>7, <3>1, <4>1, RowIs DEF RowsApart, Apart
      <4> QED BY <2>3, <2>4, <3>1, <4>1, <4>2
    <3>2. CASE i = N + 1
      BY <2>2, <2>3, <2>4, <3>2
    <3> QED BY <2>3, <3>1, <3>2
  <2>8. Apart(atRows')
    BY <2>6, <2>7 DEF Apart
  <2> QED BY <1>0, <1>1, <2>3, <2>8 DEF AttributionInv, AttributionTyped, RowsApart, sitesVars
<1> QED BY <1>1, <1>2, <1>3

\* Every step keeps the rows apart.
LEMMA AttributionStep == AttributionInv /\ [AttributionNext]_atVars => AttributionInv'
<1> SUFFICES ASSUME AttributionInv, [AttributionNext]_atVars PROVE AttributionInv'
  OBVIOUS
<1>0. AttributionTyped /\ RowsApart
  BY DEF AttributionInv
<1>1. ASSUME UNCHANGED <<atRows, atHand>>, AttributionTyped' PROVE AttributionInv'
  BY <1>0, <1>1 DEF AttributionInv, RowsApart
<1>2. ASSUME NEW S \in SUBSET Tickers, MeetEquities(S) PROVE AttributionInv'
  BY <1>0, <1>1, <1>2 DEF MeetEquities, AttributionTyped, promoVars
<1>3. ASSUME NEW d \in Docs, List(d) \/ Announced(d) PROVE AttributionInv'
  BY <1>0, <1>1, <1>3 DEF List, Announced, AttributionTyped, promoVars
<1>4. ASSUME NEW s \in Slugs, NEW t \in Tickers, Override(s, t) PROVE AttributionInv'
  BY <1>0, <1>1, <1>4 DEF Override, AttributionTyped, promoVars, sitesVars
<1>5. CASE PromoteStart
  <2> DEFINE left == {d \in atNews : ~Stored("sikafinance", d)}
  <2>1. left \in SUBSET Docs
    BY <1>0 DEF AttributionTyped
  <2>2. atTodo' = Listing(left, {o \in Docs \X Docs : o[1] > o[2]})
    BY <1>5 DEF PromoteStart
  <2> HIDE DEF left
  <2>3. atTodo' \in Seq(left)
    BY <2>1, <2>2, DocsOrder, ListingHolds
  <2>4. atTodo' \in Seq(Docs)
    BY <2>1, <2>3, SeqDef
  <2> QED BY <1>0, <1>1, <1>5, <2>4 DEF PromoteStart, AttributionTyped, sitesVars
<1>6. CASE UNCHANGED atVars
  BY <1>0, <1>1, <1>6 DEF atVars, AttributionTyped
<1> QED BY <1>2, <1>3, <1>4, <1>5, <1>6, PullAdds, LookKeeps, StoreKeeps DEF AttributionNext

\* Rows that are apart are stored once.
LEMMA StoredOnce == AttributionInv => ReportStoredOnce
<1> SUFFICES ASSUME AttributionInv PROVE ReportStoredOnce
  OBVIOUS
<1>0. AttributionTyped /\ RowsApart /\ Apart(atRows)
  BY DEF AttributionInv, RowsApart
<1>1. \A i \in DOMAIN atRows : i \in Int /\ atRows[i] \in Rows
  BY <1>0, LenProperties, ElementOfSeq DEF AttributionTyped
<1>2. ASSUME NEW i \in DOMAIN atRows, NEW j \in DOMAIN atRows, i # j, atRows[i].source = "sikafinance", j =< atRows[i].seen
      PROVE  /\ atRows[i].period # Nobody =>
                  <<atRows[i].ticker, atRows[i].type, atRows[i].period>> # <<atRows[j].ticker, atRows[j].type, atRows[j].period>>
             /\ atRows[i].doc = atRows[j].doc /\ atRows[i].ticker = atRows[j].ticker => ~DatedAlike(atRows[i].doc)
  <2>1. Looked(atRows, atRows[i])
    BY <1>0, <1>2 DEF Apart
  <2>2. atRows[i].period # Nobody =>
          <<atRows[i].ticker, atRows[i].type, atRows[i].period>> # <<atRows[j].ticker, atRows[j].type, atRows[j].period>>
    BY <1>2, <2>1 DEF Looked
  <2>3. ASSUME atRows[i].doc = atRows[j].doc, atRows[i].ticker = atRows[j].ticker, DatedAlike(atRows[i].doc) PROVE FALSE
    <3> DEFINE d == atRows[i].doc
    <3>1. atRows[j].source = "brvm"
      <4>1. atRows[j].source # "sikafinance"
        BY <1>0, <1>2, <2>3 DEF Apart
      <4> QED BY <1>1, <4>1, RowIs
    <3>2. /\ d \in Docs /\ atRows[i].type = TitleType(d) /\ atRows[i].period = TitlePeriod(d)
          /\ atRows[j].type = FileType(d) /\ atRows[j].period = FilePeriod(d)
      BY <1>1, <1>2, <2>3, <3>1, RowIs
    <3> HIDE DEF d
    <3>3. TitlePeriod(d) # Nobody /\ TitleType(d) = FileType(d) /\ FilePeriod(d) = TitlePeriod(d)
      BY <2>3, <3>2, DatedAsItsFile DEF DatedAlike, d
    <3> QED BY <2>2, <2>3, <3>2, <3>3
  <2> QED BY <2>2, <2>3
<1> QED BY <1>0, <1>2 DEF ReportStoredOnce, Apart

\* What a name that ends in a country is taken for.
LEMMA CountryTold ==
  ASSUME NamesTellCountries, NEW s \in Slugs, Country(DisplayOf[s]) # Nobody, NEW K, K \subseteq Tickers,
         NEW t \in Fuzzy(K, DisplayOf[s]), t \in Tickers
  PROVE  IndexedCountry(t) = Country(DisplayOf[s])
<1> DEFINE name == DisplayOf[s]
<1>1. t # Nobody
  BY DocumentsAssumption
<1>2. CASE NameOf[t] = name
  BY <1>2 DEF IndexedCountry
<1>3. name # <<t>>
  BY DEF NamesTellCountries
<1>4. CASE t \in Rooted(K, name)
  BY <1>4 DEF Rooted
<1>5. CASE IsPrefix(name, NameOf[t]) \/ IsPrefix(NameOf[t], name)
  BY <1>5 DEF NamesTellCountries
<1> QED BY <1>1, <1>2, <1>3, <1>4, <1>5 DEF Fuzzy

\* A pull resolves an issuer it has no ticker for, and keeps the others.
LEMMA IssuerKeeps ==
  ASSUME NamesTellCountries, AttributionInv, [AttributionNext]_atVars
  PROVE  IssuerKeepsTicker
<1> SUFFICES ASSUME NEW s \in Slugs
             PROVE  /\ atSlugs[s] \in Tickers => atSlugs'[s] = atSlugs[s]
                    /\ atSlugs[s] = Unseen /\ atSlugs'[s] \in Tickers /\ Country(DisplayOf[s]) # Nobody =>
                        IndexedCountry(atSlugs'[s]) = Country(DisplayOf[s])
  BY DEF IssuerKeepsTicker
<1>0. /\ atSlugs \in [Slugs -> Tickers \cup {Nobody, Unseen}] /\ atKnown \subseteq Tickers
      /\ Unseen \notin Tickers /\ Nobody \notin Tickers /\ Nobody # Unseen
  BY DocumentsAssumption DEF AttributionInv, AttributionTyped, Unseen
<1>1. CASE atSlugs' = atSlugs
  BY <1>0, <1>1
<1>2. CASE Pull
  <2>1. PICK resolved \in [Slugs -> Tickers \cup {Nobody}] :
          resolved[s] \in ResolveTicker(s) /\ atSlugs' = Remember(resolved)
    BY <1>2 DEF Pull
  <2>2. atSlugs'[s] = IF resolved[s] # Nobody \/ atSlugs[s] = Unseen THEN resolved[s] ELSE atSlugs[s]
    BY <2>1 DEF Remember
  <2>3. CASE atSlugs[s] \in Tickers
    BY <1>0, <2>1, <2>2, <2>3 DEF ResolveTicker
  <2>4. CASE atSlugs[s] = Unseen
    <3>1. ResolveTicker(s) = IF ManualOf[s] # Nobody THEN {ManualOf[s]} ELSE Fuzzy(atKnown, DisplayOf[s])
      BY <1>0, <2>4 DEF ResolveTicker
    <3>2. ASSUME resolved[s] \in Tickers, Country(DisplayOf[s]) # Nobody
          PROVE  IndexedCountry(resolved[s]) = Country(DisplayOf[s])
      <4>1. CASE ManualOf[s] # Nobody
        BY <2>1, <3>1, <3>2, <4>1 DEF NamesTellCountries
      <4>2. CASE ManualOf[s] = Nobody
        BY <1>0, <2>1, <3>1, <3>2, <4>2, CountryTold
      <4> QED BY <4>1, <4>2
    <3> QED BY <1>0, <2>2, <2>4, <3>2
  <2> QED BY <2>3, <2>4
<1>3. ASSUME NEW q \in Slugs, NEW t \in Tickers, Override(q, t)
      PROVE  /\ atSlugs[s] \in Tickers => atSlugs'[s] = atSlugs[s]
             /\ atSlugs[s] = Unseen /\ atSlugs'[s] \in Tickers /\ Country(DisplayOf[s]) # Nobody =>
                 IndexedCountry(atSlugs'[s]) = Country(DisplayOf[s])
  BY <1>0, <1>3 DEF Override
<1>4. CASE \/ \E S \in SUBSET Tickers : MeetEquities(S)
           \/ \E d \in Docs : List(d) \/ Announced(d)
           \/ PromoteStart \/ PromoteLook \/ PromoteStore \/ UNCHANGED atVars
  BY <1>1, <1>4 DEF MeetEquities, List, Announced, PromoteStart, PromoteLook, PromoteStore, atVars
<1> QED BY <1>2, <1>3, <1>4 DEF AttributionNext

\* services/filings.py: an issuer keeps its ticker and is not taken for its group's company of another country,
\* and no communiqué is stored beside a filing of its period that the promotion could see, nor twice: for any
\* equities, issuers and documents, in whatever order they come, provided that the lists of names are not
\* ambiguous themselves (NamesTellCountries).
THEOREM DocumentsAreAttributed == NamesTellCountries => (AttributionSpec => FilingsAttributed)
<1> SUFFICES ASSUME NamesTellCountries PROVE AttributionSpec => FilingsAttributed
  OBVIOUS
<1>1. AttributionInit => AttributionInv
  BY AttributionBegins
<1>2. AttributionInv /\ [AttributionNext]_atVars => AttributionInv'
  BY AttributionStep
<1>3. AttributionInv' => ReportStoredOnce'
  BY StoredOnce, PTL
<1>4. AttributionInv /\ [AttributionNext]_atVars => IssuerKeepsTicker /\ ReportStoredOnce'
  BY <1>2, <1>3, IssuerKeeps
<1> QED BY <1>1, <1>2, <1>4, PTL DEF AttributionSpec, FilingsAttributed

(***************************************************************************)
(* Issuers: nobody is forgotten and nothing known is lost.                 *)
(***************************************************************************)
PeerRow == [ticker : Equities, self : {FALSE}]
Queued(r, e) == \E k \in 1..Len(isQueue[r]) : isQueue[r][k] = e

IssuersTyped ==
    /\ isNow \in Int /\ isDue \in Int
    /\ isRows \in [Equities -> Security \cup {Blank}]
    /\ isQueue \in [Passes -> Seq(Equities)] /\ isEnrich \in Seq(Equities)
    /\ isAsked \in [Equities -> Int]
    /\ isPeers \in [Equities -> [at : Int \cup {Blank}, rows : Seq(PeerRow)]]

\* What a row holds of its sector and its stamp, and that a list names rows that are there.
RowsRight ==
    /\ \A e \in Known : /\ isRows[e].sector \in {Blank, Sector[e]}
                        /\ isRows[e].stamp = Blank \/ isRows[e].stamp =< isAsked[e]
                        /\ isAsked[e] =< isNow
    /\ \A r \in Passes : \A k \in 1..Len(isQueue[r]) : isQueue[r][k] \in Known
    /\ \A k \in 1..Len(isEnrich) : isEnrich[k] \in Known

\* The weekly run asks for one equity after another, and is through before the next is due.
RunOnTime ==
    /\ isDue - Week =< isNow /\ isNow =< isDue
    /\ isQueue["weekly"] # <<>> => isNow + Len(isQueue["weekly"]) =< isDue - Week + PassLength

\* What the last run did not list was asked for less than a week before it; what it listed, before the run before.
AskedInTime ==
    \A e \in Known : isAsked[e] >= isDue - 2 * Week \/ (Queued("weekly", e) /\ isAsked[e] >= isDue - 3 * Week)

\* A peers page that is cached lists others, each once.
CacheRight ==
    \A e \in Equities :
        /\ \A i, j \in DOMAIN isPeers[e].rows : i # j => isPeers[e].rows[i].ticker # isPeers[e].rows[j].ticker
        /\ \A i \in DOMAIN isPeers[e].rows : isPeers[e].rows[i].ticker # e

RefreshInv == IssuersTyped /\ RowsRight /\ RunOnTime /\ AskedInTime
IssuersInv == RefreshInv /\ CacheRight /\ PeersReadTrue

\* The assumptions, as numbers.
LEMMA IssuersNumbers ==
  /\ Week \in Nat /\ PassLength \in Nat /\ PassLength < Week /\ Blank \notin Int /\ Blank \notin Security
  /\ IsFiniteSet(Equities) /\ \A e \in Equities : e \in Int /\ Sector[e] # Blank
  BY IssuersAssumption, FS_CardinalityType DEF PassLength

\* A list of equities in the order of their tickers.
LEMMA TickersOrder ==
  ASSUME NEW S, S \subseteq Equities
  PROVE  /\ IsFiniteSet(S) /\ Listing(S, ByTicker) \in Seq(S) /\ Len(Listing(S, ByTicker)) = Cardinality(S)
         /\ Cardinality(S) \in Nat /\ Cardinality(S) =< PassLength
         /\ \A k, l \in 1..Cardinality(S) : Listing(S, ByTicker)[k] = Listing(S, ByTicker)[l] => k = l
         /\ \A k \in 1..Cardinality(S) : Listing(S, ByTicker)[k] \in S
         /\ \A x \in S : \E k \in 1..Cardinality(S) : Listing(S, ByTicker)[k] = x
<1>1. IsFiniteSet(S) /\ Cardinality(S) =< PassLength
  BY IssuersNumbers, FS_Subset DEF PassLength
<1>2. Orders(S, ByTicker)
  <2>1. \A x, y \in S : <<x, y>> \in ByTicker <=> x < y
    BY DEF ByTicker
  <2>2. \A x \in S : x \in Int
    BY IssuersNumbers
  <2> QED BY <2>1, <2>2 DEF Orders
<1>3. /\ Listing(S, ByTicker) \in Seq(S) /\ Len(Listing(S, ByTicker)) = Cardinality(S) /\ Cardinality(S) \in Nat
      /\ \A k, l \in 1..Cardinality(S) : Listing(S, ByTicker)[k] = Listing(S, ByTicker)[l] => k = l
      /\ \A x \in S : Contains(Listing(S, ByTicker), x)
  BY <1>1, <1>2, ListingHolds
<1>4. \A k \in 1..Cardinality(S) : Listing(S, ByTicker)[k] \in S
  BY <1>3, ElementOfSeq
<1> QED BY <1>1, <1>3, <1>4 DEF Contains

\* The tables start empty, and the first weekly run is at once or in a week.
LEMMA IssuersBegin == IssuersInit => IssuersInv
<1> SUFFICES ASSUME IssuersInit PROVE IssuersInv
  OBVIOUS
<1>1. <<>> \in Seq(Equities) /\ Len(<<>>) = 0 /\ <<>> \in Seq(PeerRow)
  BY EmptySeq
<1>2. Known = {}
  BY DEF IssuersInit, Known
<1>3. IssuersTyped
  BY <1>1, IssuersNumbers DEF IssuersInit, IssuersTyped
<1>4. RowsRight /\ AskedInTime
  BY <1>1, <1>2 DEF IssuersInit, RowsRight, AskedInTime
<1>5. RunOnTime
  BY IssuersNumbers DEF IssuersInit, RunOnTime, Passes
<1>6. CacheRight
  BY DEF IssuersInit, CacheRight
<1>7. PeersReadTrue
  BY DEF IssuersInit, PeersReadTrue
<1> QED BY <1>3, <1>4, <1>5, <1>6, <1>7 DEF IssuersInv, RefreshInv

\* A snapshot meets an equity it may know already.
LEMMA MeetKeeps ==
  ASSUME RefreshInv, NEW e \in Equities, MeetEquity(e)
  PROVE  RefreshInv' /\ KnowledgeGrows
<1>0. IssuersTyped /\ RowsRight /\ RunOnTime /\ AskedInTime
  BY DEF RefreshInv
<1> DEFINE blank == [sector |-> Blank, facts |-> {}, stamp |-> Blank]
<1>1. blank \in Security /\ blank # Blank
  BY IssuersNumbers DEF Security
<1>2. Upsert(e) \in Security /\ Upsert(e) # Blank
  BY <1>0, <1>1 DEF Upsert, IssuersTyped
<1>3. /\ isRows' \in [Equities -> Security \cup {Blank}] /\ isAsked' \in [Equities -> Int]
      /\ \A x \in Equities \ {e} : isRows'[x] = isRows[x] /\ isAsked'[x] = isAsked[x]
      /\ isRows'[e] = Upsert(e) /\ e \in Known'
      /\ isAsked'[e] = IF e \in Known THEN isAsked[e] ELSE isNow
  BY <1>0, <1>2 DEF MeetEquity, IssuersTyped, Known
<1>4. Known' = Known \cup {e}
  BY <1>3 DEF Known
<1>5. e \in Known => isRows'[e] = isRows[e]
  BY <1>3 DEF Upsert, Known
<1>6. e \notin Known => isRows'[e] = blank
  BY <1>3 DEF Upsert, Known
<1>7. IssuersTyped'
  BY <1>0, <1>3 DEF IssuersTyped, MeetEquity
<1>8. RowsRight'
  <2>1. ASSUME NEW x \in Known'
        PROVE  /\ isRows'[x].sector \in {Blank, Sector[x]}
               /\ isRows'[x].stamp = Blank \/ isRows'[x].stamp =< isAsked'[x]
               /\ isAsked'[x] =< isNow'
    <3>0. isNow' = isNow /\ isNow \in Int
      BY <1>0 DEF MeetEquity, IssuersTyped
    <3>1. CASE x \in Known
      BY <1>0, <1>3, <1>5, <3>0, <3>1 DEF RowsRight, Known
    <3>2. CASE x \notin Known
      BY <1>3, <1>4, <1>6, <2>1, <3>0, <3>2
    <3> QED BY <3>1, <3>2
  <2> QED BY <1>0, <1>4, <2>1 DEF RowsRight, MeetEquity
<1>9. RunOnTime'
  BY <1>0 DEF RunOnTime, MeetEquity
<1>10. AskedInTime'
  <2>1. ASSUME NEW x \in Known', x \notin Known PROVE isAsked'[x] >= isDue - 2 * Week
    BY <1>0, <1>3, <1>4, <2>1, IssuersNumbers DEF RunOnTime, IssuersTyped
  <2>2. ASSUME NEW x \in Known PROVE isAsked'[x] = isAsked[x]
    BY <1>3, <2>2 DEF Known
  <2> QED BY <1>0, <1>4, <2>1, <2>2 DEF AskedInTime, MeetEquity, Queued
<1>11. KnowledgeGrows
  <2>1. \A x \in Known : isRows'[x] = isRows[x]
    BY <1>3, <1>5 DEF Known
  <2> QED BY <1>4, <2>1 DEF KnowledgeGrows
<1> QED BY <1>7, <1>8, <1>9, <1>10, <1>11 DEF RefreshInv

\* Time passes with no refresh under way.
LEMMA WaitKeeps ==
  ASSUME RefreshInv, Wait
  PROVE  RefreshInv' /\ KnowledgeGrows
<1>0. IssuersTyped /\ RowsRight /\ RunOnTime /\ AskedInTime
  BY DEF RefreshInv
<1>1. isNow' = isNow + 1 /\ isNow < isDue /\ isQueue["weekly"] = <<>>
  BY DEF Wait, TimePasses, Passes
<1>2. Known' = Known
  BY DEF Wait, Known
<1>3. IssuersTyped' /\ AskedInTime'
  BY <1>0, <1>1, <1>2 DEF IssuersTyped, AskedInTime, Queued, Wait
<1>5. RowsRight'
  <2>1. \A e \in Known : isAsked[e] \in Int
    BY <1>0 DEF IssuersTyped, Known
  <2>2. \A e \in Known : isAsked[e] =< isNow + 1
    BY <1>0, <2>1 DEF IssuersTyped, RowsRight
  <2> QED BY <1>0, <1>1, <1>2, <2>2 DEF RowsRight, Wait
<1>4. RunOnTime'
  BY <1>0, <1>1, IssuersNumbers DEF RunOnTime, IssuersTyped, Wait
<1> QED BY <1>2, <1>3, <1>4, <1>5 DEF RefreshInv, KnowledgeGrows, Wait

\* The weekly run starts: what it does not list was stamped, so asked for, less than a week ago.
LEMMA WeeklyKeeps ==
  ASSUME RefreshInv, WeeklyRefresh
  PROVE  RefreshInv' /\ KnowledgeGrows
<1>0. IssuersTyped /\ RowsRight /\ RunOnTime /\ AskedInTime
  BY DEF RefreshInv
<1> DEFINE list == Listing(Stale, ByTicker)
<1>1. Stale \subseteq Equities /\ Stale \subseteq Known
  BY DEF Stale, Known
<1>2. /\ list \in Seq(Stale) /\ Len(list) =< PassLength /\ Len(list) \in Nat
      /\ \A k \in 1..Len(list) : list[k] \in Stale
      /\ \A x \in Stale : \E k \in 1..Len(list) : list[k] = x
  BY <1>1, TickersOrder
<1> HIDE DEF list
<1>3. list \in Seq(Equities)
  <2>1. \A k \in 1..Len(list) : list[k] \in Equities
    BY <1>1, <1>2
  <2> QED BY <1>1, <1>2, <2>1, SeqDef, LenProperties
<1>4. /\ isQueue' = [isQueue EXCEPT !["weekly"] = list] /\ isNow = isDue /\ isDue' = isDue + Week
      /\ UNCHANGED <<isNow, isRows, isEnrich, isAsked, isPeers>>
  BY DEF WeeklyRefresh, list
<1>5. isQueue'["weekly"] = list /\ isQueue'["manual"] = isQueue["manual"]
  BY <1>0, <1>4 DEF IssuersTyped, Passes
<1>6. Known' = Known
  BY <1>4 DEF Known
<1>7. IssuersTyped'
  <2>1. isDue' \in Int
    BY <1>0, <1>4, IssuersNumbers DEF IssuersTyped
  <2>2. isQueue' \in [Passes -> Seq(Equities)]
    BY <1>0, <1>3, <1>4 DEF IssuersTyped
  <2> QED BY <1>0, <1>4, <2>1, <2>2 DEF IssuersTyped
<1>8. RowsRight'
  <2>1. \A e \in Known' : /\ isRows'[e].sector \in {Blank, Sector[e]}
                          /\ isRows'[e].stamp = Blank \/ isRows'[e].stamp =< isAsked'[e]
                          /\ isAsked'[e] =< isNow'
    BY <1>0, <1>4, <1>6 DEF RowsRight
  <2>2. \A k \in 1..Len(isQueue'["weekly"]) : isQueue'["weekly"][k] \in Known'
    BY <1>1, <1>2, <1>5, <1>6
  <2>3. \A k \in 1..Len(isQueue'["manual"]) : isQueue'["manual"][k] \in Known'
    BY <1>0, <1>5, <1>6 DEF RowsRight, Passes
  <2> QED BY <1>0, <1>4, <1>6, <2>1, <2>2, <2>3 DEF RowsRight, Passes
<1>9. RunOnTime'
  BY <1>0, <1>2, <1>4, <1>5, IssuersNumbers DEF RunOnTime, IssuersTyped
<1>10. AskedInTime'
  <2> SUFFICES ASSUME NEW e \in Known
               PROVE  \/ isAsked[e] >= isDue' - 2 * Week
                      \/ (\E k \in 1..Len(list) : list[k] = e) /\ isAsked[e] >= isDue' - 3 * Week
    BY <1>4, <1>5, <1>6 DEF AskedInTime, Queued
  <2>0. isAsked[e] \in Int /\ isDue \in Int /\ isNow \in Int /\ Week \in Nat
    BY <1>0, IssuersNumbers DEF IssuersTyped, Known
  <2>1. CASE e \in Stale
    <3>1. \E k \in 1..Len(list) : list[k] = e
      BY <1>2, <2>1
    <3>2. ~Queued("weekly", e)
      BY DEF WeeklyRefresh, Queued
    <3>3. isAsked[e] >= isDue - 2 * Week
      BY <1>0, <3>2 DEF AskedInTime
    <3> QED BY <1>4, <2>0, <3>1, <3>3
  <2>2. CASE e \notin Stale
    <3>1. isRows[e].stamp # Blank /\ ~(isNow - isRows[e].stamp > Week)
      BY <2>2 DEF Stale, Age
    <3>2. isRows[e].stamp \in Int /\ isRows[e].stamp =< isAsked[e]
      <4>1. isRows[e] \in Security
        BY <1>0 DEF IssuersTyped, Known
      <4> QED BY <1>0, <3>1, <4>1 DEF RowsRight, Security
    <3> QED BY <1>4, <2>0, <3>1, <3>2
  <2> QED BY <2>1, <2>2
<1> QED BY <1>4, <1>6, <1>7, <1>8, <1>9, <1>10 DEF RefreshInv, KnowledgeGrows

\* A refresh by hand starts, and leaves the weekly list alone.
LEMMA ManualKeeps ==
  ASSUME RefreshInv, ManualRefresh
  PROVE  RefreshInv' /\ KnowledgeGrows
<1>0. IssuersTyped /\ RowsRight /\ RunOnTime /\ AskedInTime
  BY DEF RefreshInv
<1> DEFINE list == Listing(Stale, ByTicker)
<1>1. Stale \subseteq Equities /\ Stale \subseteq Known
  BY DEF Stale, Known
<1>2. /\ list \in Seq(Stale) /\ Len(list) \in Nat
      /\ \A k \in 1..Len(list) : list[k] \in Stale
  BY <1>1, TickersOrder
<1> HIDE DEF list
<1>3. list \in Seq(Equities)
  <2>1. \A k \in 1..Len(list) : list[k] \in Equities
    BY <1>1, <1>2
  <2> QED BY <1>1, <1>2, <2>1, SeqDef, LenProperties
<1>4. isQueue' = [isQueue EXCEPT !["manual"] = list] /\ UNCHANGED <<isNow, isDue, isRows, isEnrich, isAsked, isPeers>>
  BY DEF ManualRefresh, list
<1>5. isQueue'["manual"] = list /\ isQueue'["weekly"] = isQueue["weekly"]
  BY <1>0, <1>4 DEF IssuersTyped, Passes
<1>6. Known' = Known
  BY <1>4 DEF Known
<1>7. IssuersTyped'
  BY <1>0, <1>3, <1>4 DEF IssuersTyped
<1>8. RowsRight'
  BY <1>0, <1>1, <1>2, <1>4, <1>5, <1>6 DEF RowsRight, Passes
<1>9. RunOnTime' /\ AskedInTime'
  BY <1>0, <1>4, <1>5, <1>6 DEF RunOnTime, AskedInTime, Queued
<1> QED BY <1>4, <1>6, <1>7, <1>8, <1>9 DEF RefreshInv, KnowledgeGrows

\* One fetch of every pass under way: the weekly list gets shorter as time passes.
LEMMA RefreshKeeps ==
  ASSUME RefreshInv, RefreshNext
  PROVE  RefreshInv' /\ KnowledgeGrows
<1>0. IssuersTyped /\ RowsRight /\ RunOnTime /\ AskedInTime
  BY DEF RefreshInv
<1>1. /\ isNow' = isNow + 1 /\ isNow < isDue /\ isNow \in Int /\ isDue \in Int
      /\ UNCHANGED <<isDue, isEnrich, isPeers>>
      /\ isAsked' = [e \in Equities |-> IF e \in Current THEN isNow' ELSE isAsked[e]]
      /\ isQueue' = [r \in Passes |-> IF isQueue[r] = <<>> THEN <<>> ELSE Tail(isQueue[r])]
  BY <1>0 DEF RefreshNext, TimePasses, IssuersTyped
<1>2a. PICK answered \in SUBSET Current : \E given \in [answered -> FactsPage] :
        isRows' = [e \in Equities |-> IF e \in answered THEN UpdateFacts(e, given[e]) ELSE isRows[e]]
  BY DEF RefreshNext
<1>2. PICK given \in [answered -> FactsPage] :
        isRows' = [e \in Equities |-> IF e \in answered THEN UpdateFacts(e, given[e]) ELSE isRows[e]]
  BY <1>2a
<1>3. ASSUME NEW r \in Passes, isQueue[r] # <<>>
      PROVE  /\ isQueue[r] \in Seq(Equities) /\ Len(isQueue[r]) \in Nat /\ Len(isQueue[r]) > 0
             /\ Tail(isQueue[r]) \in Seq(Equities) /\ Len(Tail(isQueue[r])) = Len(isQueue[r]) - 1
             /\ \A k \in 1..Len(Tail(isQueue[r])) : Tail(isQueue[r])[k] = isQueue[r][k + 1]
             /\ Head(isQueue[r]) = isQueue[r][1] /\ Head(isQueue[r]) \in Known
  <2>1. isQueue[r] \in Seq(Equities)
    BY <1>0 DEF IssuersTyped
  <2>2. Len(isQueue[r]) \in Nat /\ Len(isQueue[r]) > 0
    BY <1>3, <2>1, LenProperties, EmptySeq
  <2>3. Head(isQueue[r]) = isQueue[r][1]
    BY <1>3, <2>1
  <2>4. isQueue[r][1] \in Known
    BY <1>0, <2>2 DEF RowsRight
  <2> QED BY <1>3, <2>1, <2>2, <2>3, <2>4, HeadTailProperties
<1>4. Current \subseteq Known /\ Known \subseteq Equities
  BY <1>3 DEF Current, Known
<1>5. ASSUME NEW e \in answered
      PROVE  /\ isRows'[e] \in Security /\ isRows'[e].sector = isRows[e].sector /\ isRows'[e].stamp = isNow'
             /\ isRows[e].facts \subseteq isRows'[e].facts
  <2>1. isRows[e] \in Security /\ e \in Equities
    BY <1>0, <1>4 DEF IssuersTyped, Known
  <2>2. isRows'[e] = [isRows[e] EXCEPT !.facts = isRows[e].facts \cup given[e], !.stamp = isNow']
    BY <1>2, <2>1 DEF UpdateFacts, Coalesced
  <2>3. given[e] \subseteq Facts /\ isRows[e].facts \subseteq Facts
    BY <1>2, <2>1 DEF FactsPage, Security
  <2>4. isNow' \in Int
    BY <1>1
  <2> QED BY <2>1, <2>2, <2>3, <2>4 DEF Security
<1>6. \A e \in Equities \ answered : isRows'[e] = isRows[e]
  BY <1>2
<1>7. isRows' \in [Equities -> Security \cup {Blank}]
  <2>1. \A e \in Equities : isRows'[e] \in Security \cup {Blank}
    BY <1>0, <1>5, <1>6 DEF IssuersTyped
  <2> QED BY <1>2, <2>1
<1>8. Known' = Known
  <2>1. ASSUME NEW e \in Equities PROVE isRows'[e] # Blank <=> isRows[e] # Blank
    <3>1. CASE e \in answered
      BY <1>4, <1>5, <3>1, IssuersNumbers DEF Known
    <3> QED BY <1>6, <3>1
  <2> QED BY <2>1 DEF Known
<1>9. \A e \in Equities : /\ isAsked'[e] \in Int
                          /\ e \in Current => isAsked'[e] = isNow'
                          /\ e \notin Current => isAsked'[e] = isAsked[e]
  BY <1>0, <1>1 DEF IssuersTyped
<1>10. \A r \in Passes : /\ isQueue'[r] \in Seq(Equities)
                         /\ isQueue[r] = <<>> => isQueue'[r] = <<>>
                         /\ isQueue[r] # <<>> => isQueue'[r] = Tail(isQueue[r])
  BY <1>1, <1>3, EmptySeq
<1>11. IssuersTyped'
  <2>1. isQueue' \in [Passes -> Seq(Equities)]
    BY <1>1, <1>10
  <2>2. isAsked' \in [Equities -> Int]
    BY <1>1, <1>9
  <2> QED BY <1>0, <1>1, <1>7, <2>1, <2>2 DEF IssuersTyped
<1>12. RowsRight'
  <2>1. ASSUME NEW e \in Known
        PROVE  /\ isRows'[e].sector \in {Blank, Sector[e]}
               /\ isRows'[e].stamp = Blank \/ isRows'[e].stamp =< isAsked'[e]
               /\ isAsked'[e] =< isNow'
    <3>0. e \in Equities /\ isAsked[e] \in Int /\ isAsked[e] =< isNow
      BY <1>0 DEF Known, IssuersTyped, RowsRight
    <3>1. CASE e \in answered
      <4>1. isRows'[e].sector = isRows[e].sector /\ isRows'[e].stamp = isNow' /\ isAsked'[e] = isNow'
        BY <1>2, <1>5, <1>9, <3>0, <3>1
      <4>2. isRows[e].sector \in {Blank, Sector[e]} /\ isNow' \in Int
        BY <1>0, <1>1 DEF RowsRight
      <4> QED BY <4>1, <4>2
    <3>2. CASE e \notin answered /\ e \notin Current
      <4>1. isRows'[e] = isRows[e] /\ isAsked'[e] = isAsked[e]
        BY <1>6, <1>9, <3>0, <3>2
      <4>2. isAsked[e] =< isNow'
        BY <1>1, <3>0
      <4> QED BY <1>0, <4>1, <4>2 DEF RowsRight
    <3>3. CASE e \notin answered /\ e \in Current
      <4>1. isRows'[e] = isRows[e] /\ isAsked'[e] = isNow + 1
        BY <1>1, <1>6, <1>9, <3>0, <3>3
      <4>2. isRows[e].stamp = Blank \/ (isRows[e].stamp \in Int /\ isRows[e].stamp =< isNow)
        <5>1. isRows[e] \in Security
          BY <1>0 DEF IssuersTyped, Known
        <5> QED BY <1>0, <1>1, <3>0, <5>1 DEF RowsRight, Security
      <4> QED BY <1>0, <1>1, <4>1, <4>2 DEF RowsRight
    <3> QED BY <3>1, <3>2, <3>3
  <2>2. ASSUME NEW r \in Passes, NEW k \in 1..Len(isQueue'[r]) PROVE isQueue'[r][k] \in Known
    <3>1. CASE isQueue[r] = <<>>
      BY <1>10, <2>2, <3>1, EmptySeq
    <3>2. CASE isQueue[r] # <<>>
      <4>0. isQueue'[r] = Tail(isQueue[r])
        BY <1>10, <3>2
      <4>1. k + 1 \in 1..Len(isQueue[r]) /\ isQueue'[r][k] = isQueue[r][k + 1]
        BY <1>3, <2>2, <3>2, <4>0
      <4> QED BY <1>0, <4>1 DEF RowsRight
    <3> QED BY <3>1, <3>2
  <2> QED BY <1>0, <1>1, <1>8, <2>1, <2>2 DEF RowsRight
<1>13. RunOnTime'
  <2>0. Len(isQueue'["weekly"]) \in Int
    BY <1>10, LenProperties DEF Passes
  <2>1. isQueue'["weekly"] # <<>> => /\ isQueue["weekly"] # <<>> /\ Len(isQueue["weekly"]) \in Nat
                                     /\ Len(isQueue'["weekly"]) = Len(isQueue["weekly"]) - 1
    BY <1>3, <1>10 DEF Passes
  <2>2. isDue - Week =< isNow' /\ isNow' =< isDue
    BY <1>0, <1>1, IssuersNumbers DEF RunOnTime
  <2>3. isQueue'["weekly"] # <<>> => isNow' + Len(isQueue'["weekly"]) = isNow + Len(isQueue["weekly"])
    <3> DEFINE was == Len(isQueue["weekly"])
               left == Len(isQueue'["weekly"])
    <3>1. isQueue'["weekly"] # <<>> => left = was - 1 /\ was \in Nat
      BY <2>1
    <3>2. isNow \in Int /\ isNow' = isNow + 1
      BY <1>1
    <3> HIDE DEF was, left
    <3>3. isQueue'["weekly"] # <<>> => isNow' + left = isNow + was
      BY <3>1, <3>2
    <3> QED BY <3>3 DEF was, left
  <2> QED BY <1>0, <1>1, <2>1, <2>2, <2>3 DEF RunOnTime
<1>14. AskedInTime'
  <2> SUFFICES ASSUME NEW e \in Known
               PROVE  \/ isAsked'[e] >= isDue - 2 * Week
                      \/ /\ \E k \in 1..Len(isQueue'["weekly"]) : isQueue'["weekly"][k] = e
                         /\ isAsked'[e] >= isDue - 3 * Week
    BY <1>1, <1>8 DEF AskedInTime, Queued
  <2>0. e \in Equities
    BY DEF Known
  <2>1. CASE e \in Current
    BY <1>0, <1>1, <1>9, <2>0, <2>1, IssuersNumbers DEF RunOnTime
  <2>2. CASE e \notin Current
    <3>1. ASSUME NEW k \in 1..Len(isQueue["weekly"]), isQueue["weekly"][k] = e
          PROVE  \E l \in 1..Len(isQueue'["weekly"]) : isQueue'["weekly"][l] = e
      <4>1. isQueue["weekly"] # <<>>
        BY <3>1, EmptySeq
      <4>2. k # 1
        BY <1>3, <2>2, <3>1, <4>1 DEF Current, Passes
      <4>3. k - 1 \in 1..Len(isQueue'["weekly"]) /\ isQueue'["weekly"][k - 1] = e
        <5>1. isQueue'["weekly"] = Tail(isQueue["weekly"]) /\ "weekly" \in Passes
          BY <1>10, <4>1 DEF Passes
        <5> QED BY <1>3, <3>1, <4>1, <4>2, <5>1
      <4> QED BY <4>3
    <3> QED BY <1>0, <1>9, <2>0, <2>2, <3>1 DEF AskedInTime, Queued
  <2> QED BY <2>1, <2>2
<1>15. KnowledgeGrows
  <2> SUFFICES ASSUME NEW e \in Known
               PROVE  isRows[e].facts \subseteq isRows'[e].facts /\ isRows'[e].sector = isRows[e].sector
    BY <1>8 DEF KnowledgeGrows
  <2> QED BY <1>4, <1>5, <1>6
<1> QED BY <1>11, <1>12, <1>13, <1>14, <1>15 DEF RefreshInv

\* The enrichment starts.
LEMMA EnrichStartKeeps ==
  ASSUME RefreshInv, EnrichStart
  PROVE  RefreshInv' /\ KnowledgeGrows
<1>0. IssuersTyped /\ RowsRight /\ RunOnTime /\ AskedInTime
  BY DEF RefreshInv
<1> DEFINE list == Listing(MissingSector, ByTicker)
<1>1. MissingSector \subseteq Equities /\ MissingSector \subseteq Known
  BY DEF MissingSector, Known
<1>2. list \in Seq(MissingSector) /\ Len(list) \in Nat /\ \A k \in 1..Len(list) : list[k] \in MissingSector
  BY <1>1, TickersOrder
<1> HIDE DEF list
<1>3. list \in Seq(Equities)
  <2>1. \A k \in 1..Len(list) : list[k] \in Equities
    BY <1>1, <1>2
  <2> QED BY <1>1, <1>2, <2>1, SeqDef, LenProperties
<1>4. isEnrich' = list /\ UNCHANGED <<isNow, isRows, isDue, isQueue, isAsked, isPeers>>
  BY DEF EnrichStart, list
<1>5. Known' = Known
  BY <1>4 DEF Known
<1>6. IssuersTyped'
  BY <1>0, <1>3, <1>4 DEF IssuersTyped
<1>7. RowsRight'
  BY <1>0, <1>1, <1>2, <1>4, <1>5 DEF RowsRight
<1>8. RunOnTime' /\ AskedInTime'
  BY <1>0, <1>4, <1>5 DEF RunOnTime, AskedInTime, Queued
<1> QED BY <1>4, <1>5, <1>6, <1>7, <1>8 DEF RefreshInv, KnowledgeGrows

\* The enrichment fills in one sector, where none was known.
LEMMA EnrichNextKeeps ==
  ASSUME RefreshInv, EnrichNext
  PROVE  RefreshInv' /\ KnowledgeGrows
<1>0. IssuersTyped /\ RowsRight /\ RunOnTime /\ AskedInTime
  BY DEF RefreshInv
<1> DEFINE e == Head(isEnrich)
<1>1. /\ isEnrich \in Seq(Equities) /\ isEnrich # <<>> /\ Len(isEnrich) \in Nat /\ Len(isEnrich) > 0
      /\ Tail(isEnrich) \in Seq(Equities) /\ Len(Tail(isEnrich)) = Len(isEnrich) - 1
      /\ \A k \in 1..Len(Tail(isEnrich)) : Tail(isEnrich)[k] = isEnrich[k + 1]
      /\ e = isEnrich[1]
  <2>1. isEnrich \in Seq(Equities) /\ isEnrich # <<>>
    BY <1>0 DEF IssuersTyped, EnrichNext
  <2>2. Len(isEnrich) \in Nat /\ Len(isEnrich) > 0
    BY <2>1, LenProperties, EmptySeq
  <2> QED BY <2>1, <2>2, HeadTailProperties
<1>2. e \in Known /\ e \in Equities
  BY <1>0, <1>1 DEF RowsRight, Known
<1> HIDE DEF e
<1>3. /\ isEnrich' = Tail(isEnrich) /\ UNCHANGED <<isNow, isDue, isQueue, isAsked, isPeers>>
      /\ \E sector \in {Blank, Sector[e]} :
            isRows' = IF sector = Blank THEN isRows ELSE [isRows EXCEPT ![e].sector = sector]
  BY DEF EnrichNext, SectorFound, e
<1>4. isRows[e] \in Security
  BY <1>0, <1>2 DEF IssuersTyped, Known
<1>5. /\ isRows' \in [Equities -> Security \cup {Blank}]
      /\ \A x \in Equities \ {e} : isRows'[x] = isRows[x]
      /\ isRows'[e] \in Security /\ isRows'[e].sector \in {isRows[e].sector, Sector[e]}
      /\ isRows'[e].facts = isRows[e].facts /\ isRows'[e].stamp = isRows[e].stamp
  <2>1. CASE isRows' = isRows
    BY <1>0, <1>4, <2>1 DEF IssuersTyped
  <2>2. CASE isRows' = [isRows EXCEPT ![e].sector = Sector[e]]
    <3>1. [isRows[e] EXCEPT !.sector = Sector[e]] \in Security
      BY <1>2, <1>4 DEF Security
    <3>2. isRows' = [isRows EXCEPT ![e] = [isRows[e] EXCEPT !.sector = Sector[e]]]
      BY <2>2
    <3>3. isRows'[e] = [isRows[e] EXCEPT !.sector = Sector[e]]
      BY <1>0, <1>2, <3>2 DEF IssuersTyped
    <3>4. isRows' \in [Equities -> Security \cup {Blank}] /\ \A x \in Equities \ {e} : isRows'[x] = isRows[x]
      BY <1>0, <1>2, <3>1, <3>2 DEF IssuersTyped
    <3> QED BY <1>4, <3>1, <3>3, <3>4 DEF Security
  <2> QED BY <1>3, <2>1, <2>2
<1>6. Known' = Known
  <2>1. \A x \in Equities : isRows'[x] # Blank <=> isRows[x] # Blank
    BY <1>2, <1>5, IssuersNumbers DEF Known
  <2> QED BY <2>1 DEF Known
<1>7. IssuersTyped'
  BY <1>0, <1>1, <1>3, <1>5 DEF IssuersTyped
<1>8. RowsRight'
  <2>1. ASSUME NEW x \in Known
        PROVE  isRows'[x].sector \in {Blank, Sector[x]} /\ isRows'[x].stamp = isRows[x].stamp
    BY <1>0, <1>5, <2>1 DEF RowsRight, Known
  <2>2. \A k \in 1..Len(isEnrich') : isEnrich'[k] \in Known
    <3> SUFFICES ASSUME NEW k \in 1..Len(Tail(isEnrich)) PROVE Tail(isEnrich)[k] \in Known
      BY <1>3
    <3>1. k + 1 \in 1..Len(isEnrich)
      BY <1>1
    <3> QED BY <1>0, <1>1, <3>1 DEF RowsRight
  <2> QED BY <1>0, <1>3, <1>6, <2>1, <2>2 DEF RowsRight
<1>9. RunOnTime' /\ AskedInTime'
  BY <1>0, <1>3, <1>6 DEF RunOnTime, AskedInTime, Queued
<1>10. KnowledgeGrows
  <2> SUFFICES ASSUME NEW x \in Known
               PROVE  /\ isRows[x].facts \subseteq isRows'[x].facts
                      /\ isRows[x].sector # Blank => isRows'[x].sector = isRows[x].sector
    BY <1>6 DEF KnowledgeGrows
  <2> QED BY <1>0, <1>5 DEF Known, RowsRight
<1> QED BY <1>7, <1>8, <1>9, <1>10 DEF RefreshInv

\* A page of peers is fetched and cached.
LEMMA FetchPeersKeeps ==
  ASSUME IssuersInv, NEW e \in Equities, FetchPeers(e)
  PROVE  IssuersInv' /\ KnowledgeGrows
<1>0. IssuersTyped /\ RowsRight /\ RunOnTime /\ AskedInTime /\ CacheRight /\ PeersReadTrue
  BY DEF IssuersInv, RefreshInv
<1>1. PICK S \in SUBSET (Equities \ {e}) : isPeers' = [isPeers EXCEPT ![e] = [at |-> isNow, rows |-> PageRows(S)]]
  BY DEF FetchPeers, PeersPage, Competitors, SectorPage
<1>2. UNCHANGED <<isNow, isRows, isDue, isQueue, isEnrich, isAsked, isView>>
  BY DEF FetchPeers
<1> DEFINE list == Listing(S, ByTicker)
           rows == PageRows(S)
           c == Cardinality(S)
<1>3. /\ c \in Nat /\ \A k \in 1..c : list[k] \in S
      /\ \A k, l \in 1..c : list[k] = list[l] => k = l
  BY TickersOrder
<1>4. rows = [i \in 1..c |-> [ticker |-> list[i], self |-> FALSE]]
  BY DEF PageRows
<1> HIDE DEF list, rows, c
<1>5. /\ rows \in Seq(PeerRow) /\ DOMAIN rows = 1..c
      /\ \A i \in DOMAIN rows : rows[i].ticker = list[i]
  <2>1. rows \in [1..c -> PeerRow]
    BY <1>3, <1>4 DEF PeerRow
  <2> QED BY <1>3, <1>4, <2>1, SeqDef
<1>6. [at |-> isNow, rows |-> rows] \in [at : Int \cup {Blank}, rows : Seq(PeerRow)]
  BY <1>0, <1>5 DEF IssuersTyped
<1>7. /\ isPeers' \in [Equities -> [at : Int \cup {Blank}, rows : Seq(PeerRow)]]
      /\ isPeers'[e].rows = rows /\ \A x \in Equities \ {e} : isPeers'[x] = isPeers[x]
  BY <1>0, <1>1, <1>6 DEF IssuersTyped, rows
<1>8. IssuersTyped'
  BY <1>0, <1>2, <1>7 DEF IssuersTyped
<1>9. Known' = Known
  BY <1>2 DEF Known
<1>10. RefreshInv' /\ KnowledgeGrows
  BY <1>0, <1>2, <1>8, <1>9 DEF RefreshInv, RowsRight, RunOnTime, AskedInTime, Queued, KnowledgeGrows
<1>11. CacheRight'
  <2>1. ASSUME NEW x \in Equities
        PROVE  /\ \A i, j \in DOMAIN isPeers'[x].rows : i # j => isPeers'[x].rows[i].ticker # isPeers'[x].rows[j].ticker
               /\ \A i \in DOMAIN isPeers'[x].rows : isPeers'[x].rows[i].ticker # x
    <3>1. CASE x = e
      <4>1. isPeers'[x].rows = rows
        BY <1>7, <3>1
      <4>2. \A i, j \in DOMAIN rows : i # j => rows[i].ticker # rows[j].ticker
        BY <1>3, <1>5
      <4>3. \A i \in DOMAIN rows : rows[i].ticker # x
        <5>1. \A k \in 1..c : list[k] \in Equities \ {e}
          BY <1>3
        <5> QED BY <1>5, <3>1, <5>1
      <4> QED BY <4>1, <4>2, <4>3
    <3>2. CASE x # e
      BY <1>0, <1>7, <3>2 DEF CacheRight
    <3> QED BY <3>1, <3>2
  <2> QED BY <2>1 DEF CacheRight
<1>12. PeersReadTrue'
  BY <1>0, <1>2 DEF PeersReadTrue
<1> QED BY <1>10, <1>11, <1>12 DEF IssuersInv

\* The Peers table is shown from the cache.
LEMMA ViewPeersKeeps ==
  ASSUME IssuersInv, NEW e \in Equities, ViewPeers(e)
  PROVE  IssuersInv' /\ KnowledgeGrows
<1>0. IssuersTyped /\ RowsRight /\ RunOnTime /\ AskedInTime /\ CacheRight /\ PeersReadTrue
  BY DEF IssuersInv, RefreshInv
<1> DEFINE page == isPeers[e].rows
           rows == WithSelf(e, page)
<1>1. isPeers' = isPeers
  BY <1>0 DEF ViewPeers, CacheAfter, IssuersTyped
<1>2. /\ isView' = [of |-> e, rows |-> rows, samples |-> Samples(rows)]
      /\ UNCHANGED <<isNow, isRows, isDue, isQueue, isEnrich, isAsked>>
  BY DEF ViewPeers
<1>3. page \in Seq(PeerRow) /\ Len(page) \in Nat /\ DOMAIN page = 1..Len(page)
  <2>1. page \in Seq(PeerRow)
    BY <1>0 DEF IssuersTyped
  <2> QED BY <2>1, LenProperties
<1>4. /\ \A i \in DOMAIN page : page[i].ticker # e /\ page[i].self = FALSE
      /\ \A i, j \in DOMAIN page : i # j => page[i].ticker # page[j].ticker
  <2>1. \A i \in DOMAIN page : page[i] \in PeerRow
    BY <1>3, ElementOfSeq
  <2> QED BY <1>0, <2>1 DEF CacheRight, PeerRow
<1>5. Known' = Known
  BY <1>2 DEF Known
<1>6. RefreshInv' /\ KnowledgeGrows /\ CacheRight'
  BY <1>0, <1>1, <1>2, <1>5 DEF RefreshInv, IssuersTyped, RowsRight, RunOnTime, AskedInTime, Queued, KnowledgeGrows, CacheRight
<1>7. /\ \A i, j \in DOMAIN rows : i # j => rows[i].ticker # rows[j].ticker
      /\ Samples(rows) = {i \in DOMAIN rows : rows[i].ticker # e}
  <2> HIDE DEF page
  <2>1. CASE e \notin Known
    BY <1>4, <2>1 DEF WithSelf, Samples
  <2>2. CASE e \in Known
    <3> DEFINE own == [ticker |-> e, self |-> TRUE]
               N == Len(page)
    <3>1. /\ DOMAIN rows = 1..(N + 1) /\ rows[N + 1] = own /\ \A i \in 1..N : rows[i] = page[i]
      BY <1>3, <2>2 DEF WithSelf
    <3>2. own.ticker = e /\ own.self = TRUE
      OBVIOUS
    <3> HIDE DEF rows, own, N
    <3>3. N \in Nat /\ DOMAIN page = 1..N
      BY <1>3 DEF N
    <3>4. \A i \in DOMAIN rows : i \in 1..N \/ i = N + 1
      BY <3>1, <3>3
    <3>5. \A i \in DOMAIN rows : (~rows[i].self) <=> rows[i].ticker # e
      BY <1>4, <3>1, <3>2, <3>3, <3>4
    <3>6. \A i, j \in DOMAIN rows : i # j => rows[i].ticker # rows[j].ticker
      BY <1>4, <3>1, <3>2, <3>3, <3>4
    <3> QED BY <3>5, <3>6 DEF Samples
  <2> QED BY <2>1, <2>2
<1>8. PeersReadTrue'
  BY <1>2, <1>7 DEF PeersReadTrue
<1> QED BY <1>6, <1>8 DEF IssuersInv

\* Every step keeps the invariant, and loses nothing known.
LEMMA IssuersStep ==
  ASSUME IssuersInv, [IssuersNext]_isVars
  PROVE  IssuersInv' /\ KnowledgeGrows
<1>0. RefreshInv
  BY DEF IssuersInv
<1>1. ASSUME \/ \E e \in Equities : MeetEquity(e)
             \/ Wait \/ WeeklyRefresh \/ ManualRefresh \/ RefreshNext \/ EnrichStart \/ EnrichNext
      PROVE  IssuersInv' /\ KnowledgeGrows
  <2>1. RefreshInv' /\ KnowledgeGrows
    BY <1>0, <1>1, MeetKeeps, WaitKeeps, WeeklyKeeps, ManualKeeps, RefreshKeeps, EnrichStartKeeps, EnrichNextKeeps
  <2>2. UNCHANGED <<isPeers, isView>>
    BY <1>1 DEF MeetEquity, Wait, WeeklyRefresh, ManualRefresh, RefreshNext, EnrichStart, EnrichNext
  <2> QED BY <2>1, <2>2 DEF IssuersInv, CacheRight, PeersReadTrue
<1>2. CASE UNCHANGED isVars
  <2>1. Known' = Known
    BY <1>2 DEF isVars, Known
  <2> QED BY <1>2, <2>1 DEF isVars, IssuersInv, RefreshInv, IssuersTyped, RowsRight, RunOnTime, AskedInTime, Queued, CacheRight,
                            PeersReadTrue, KnowledgeGrows
<1> QED BY <1>1, <1>2, FetchPeersKeeps, ViewPeersKeeps DEF IssuersNext

\* Nobody waits longer than two weeks and a pass.
LEMMA NobodyForgotten == IssuersInv => AskedEveryFortnight
<1> SUFFICES ASSUME IssuersInv, NEW e \in Known PROVE isNow - isAsked[e] =< 2 * Week + PassLength
  BY DEF AskedEveryFortnight
<1>1. RunOnTime /\ AskedInTime /\ IssuersTyped
  BY DEF IssuersInv, RefreshInv
<1>2. isNow \in Int /\ isDue \in Int /\ isAsked[e] \in Int /\ isNow =< isDue
  BY <1>1 DEF IssuersTyped, Known, RunOnTime
<1>3. CASE isAsked[e] >= isDue - 2 * Week
  BY <1>2, <1>3, IssuersNumbers
<1>4. CASE Queued("weekly", e) /\ isAsked[e] >= isDue - 3 * Week
  <2>1. isQueue["weekly"] # <<>> /\ Len(isQueue["weekly"]) \in Nat
    <3>1. isQueue["weekly"] \in Seq(Equities)
      BY <1>1 DEF IssuersTyped, Passes
    <3> QED BY <1>4, <3>1, EmptySeq, LenProperties DEF Queued
  <2>2. isNow + Len(isQueue["weekly"]) =< isDue - Week + PassLength
    BY <1>1, <2>1 DEF RunOnTime
  <2> QED BY <1>2, <1>4, <2>1, <2>2, IssuersNumbers
<1> QED BY <1>1, <1>3, <1>4 DEF AskedInTime

\* services/company_facts.py, enrichment.py, company.py: whatever refreshes are started by hand beside the weekly
\* run, and whatever the sites answer, no fact or sector is lost, no equity waits longer than two weeks and a
\* pass to be asked for, and the Peers table has everybody once: for any equities and sectors.
THEOREM IssuersAreKept == IssuersSpec => IssuersReadTrue
<1> DEFINE Reads == KnowledgeGrows /\ AskedEveryFortnight' /\ PeersReadTrue'
<1>1. IssuersInv /\ [IssuersNext]_isVars => IssuersInv'
  BY IssuersStep
<1>2. IssuersInv' => AskedEveryFortnight' /\ PeersReadTrue'
  <2>1. IssuersInv => AskedEveryFortnight /\ PeersReadTrue
    BY NobodyForgotten DEF IssuersInv
  <2> QED BY <2>1, PTL
<1>3. IssuersInv /\ [IssuersNext]_isVars => Reads
  BY <1>1, <1>2, IssuersStep
<1>4. IssuersSpec => [][Reads]_isVars
  BY <1>1, <1>3, IssuersBegin, PTL DEF IssuersSpec
<1> QED BY <1>4, PTL DEF IssuersReadTrue

=============================================================================
