---------------------------- MODULE SignInProofs ----------------------------
(***************************************************************************)
(* Theorems about SignIn, for every set of addresses and of requests in    *)
(* flight, and every value of the limits, the clock and the bounds.        *)
(***************************************************************************)
EXTENDS SignIn, FiniteSetTheorems, WellFoundedInduction, TLAPS

(***************************************************************************)
(* The two choices of the model are of elements that exist.                *)
(***************************************************************************)
\* A set of natural numbers that is not empty has a least element.
LEMMA LeastExists ==
  ASSUME NEW S \in SUBSET Nat, S # {}
  PROVE  \E m \in S : \A n \in S : m =< n
<1>1. IsWellFoundedOn(OpToRel(<, Nat), Nat)
  BY NatLessThanWellFounded
<1>2. PICK m \in S : \A n \in S : <<n, m>> \notin OpToRel(<, Nat)
  BY <1>1, WFMin, Zenon
<1>3. \A n \in S : ~(n < m)
  BY <1>2 DEF OpToRel
<1> QED BY <1>3

\* The account of a user: MIN(account_id) over the memberships.
LEMMA LeastIsMember ==
  ASSUME NEW S \in SUBSET Nat, S # {}
  PROVE  Least(S) \in S
  BY LeastExists DEF Least

\* ORDER BY created_utc DESC, rowid DESC LIMIT 1 finds a row when there is one.
LEMMA NewestIsMember ==
  ASSUME NEW S \in SUBSET Challenges, S # {}, made \in [Challenges -> Moments]
  PROVE  Newest(S) \in S
<1> DEFINE Ages == {MaxClock - made[c] : c \in S}
<1>1. MaxClock \in Nat /\ MaxChallenges \in Nat
  BY SignInAssumption
<1>2. \A c \in S : made[c] \in Nat /\ made[c] =< MaxClock /\ c \in Nat /\ c =< MaxChallenges
  BY <1>1 DEF Moments, Challenges
<1>3. Ages \in SUBSET Nat /\ Ages # {}
  BY <1>1, <1>2
<1>4. PICK age \in Ages : \A n \in Ages : age =< n
  BY <1>3, LeastExists
<1>5. PICK a \in S : age = MaxClock - made[a]
  BY <1>4
<1>6. \A d \in S : made[d] =< made[a]
  BY <1>1, <1>2, <1>4, <1>5
<1> DEFINE Late == {c \in S : made[c] = made[a]}
           Gaps == {MaxChallenges - c : c \in Late}
<1>7. Gaps \in SUBSET Nat /\ Gaps # {}
  BY <1>1, <1>2, <1>5
<1>8. PICK gap \in Gaps : \A n \in Gaps : gap =< n
  BY <1>7, LeastExists
<1>9. PICK c \in Late : gap = MaxChallenges - c
  BY <1>8
<1>10. ASSUME NEW d \in Late
       PROVE  d =< c
  <2>1. MaxChallenges - d \in Gaps /\ d \in Nat /\ c \in Nat
    BY <1>2
  <2>2. gap =< MaxChallenges - d
    BY <1>8, <2>1
  <2> QED BY <1>1, <1>9, <2>1, <2>2
<1>11. \A d \in S : made[d] < made[c] \/ (made[d] = made[c] /\ d =< c)
  BY <1>2, <1>6, <1>9, <1>10
<1> QED BY <1>9, <1>11 DEF Newest

(***************************************************************************)
(* Typing.                                                                 *)
(***************************************************************************)
Past == {"find", "user", "account", "member", "session"}    \* steps of a request that consumed its row


\* What the rows and the requests in flight owe each other beyond their types: a row to be
\* written has an address, and one sent has been written; a completion has the address of
\* its row, and from the account on that address is a user's.
AsksBacked ==
    /\ \A a \in Asks : askPc[a] = "mint" => askEmail[a] \in Emails
    /\ \A a \in Asks : askPc[a] = "send" => askRow[a] # 0
    /\ \A c \in 1..minted : address[c] \in Emails
    /\ \A c \in Challenges : c > minted => compared[c] = 0

CompletionsBacked ==
    /\ \A p \in Proofs : pc[p] # "idle" => who[p] \in Emails
    /\ \A p \in Proofs : pc[p] \in {"account", "member", "session"} => who[p] \in users

Typed == SignTypeOK /\ AsksBacked /\ CompletionsBacked

LEMMA BoundsAreNumbers ==
  /\ MaxClock \in Nat /\ MaxChallenges \in Nat /\ MaxAborts \in Nat /\ MaxAccounts \in Nat \ {0}
  /\ Ttl \in Nat \ {0} /\ SessionTtl \in Nat \ {0} /\ Hour \in Nat \ {0} /\ Day \in Nat \ {0}
  /\ HourCap \in Nat \ {0} /\ DayCap \in Nat \ {0} /\ MaxAttempts \in Nat \ {0} /\ Hour =< Day
  BY SignInAssumption

LEMMA TypingInit == SignInit => Typed
  BY BoundsAreNumbers, SignInAssumption
     DEF SignInit, Typed, SignTypeOK, AsksBacked, CompletionsBacked, TokensTyped, AccountsTyped, AsksTyped,
         CompletionsTyped, Challenges, Accounts, Owner, Moments, Sessions, Steps

\* A request that leaves disturbs no other, whatever its last statement added to the tables.
LEMMA LeaveTyping ==
  ASSUME CompletionsTyped, CompletionsBacked, NEW p \in Proofs, Leave(p), opened' = opened, minted' = minted,
         opened \in Nat, minted \in Nat,
         \A c \in 1..minted : used[c] => used'[c], users \subseteq users'
  PROVE  CompletionsTyped' /\ CompletionsBacked'
<1> USE DEF Leave, Go, Hold
<1>1. pc' \in [Proofs -> Steps] /\ hand' \in [Proofs -> 0..minted]
  BY DEF CompletionsTyped, Steps
<1>2. who' \in [Proofs -> Emails \cup {NoOne}] /\ home' \in [Proofs -> 0..opened]
  BY DEF CompletionsTyped
<1>3. ASSUME NEW q \in Proofs
      PROVE  /\ pc'[q] = "idle" <=> hand'[q] = 0
             /\ pc'[q] \in {"member", "session"} => home'[q] # 0
             /\ pc'[q] \in Past => used'[hand'[q]]
             /\ pc'[q] # "idle" => who'[q] \in Emails
             /\ pc'[q] \in {"account", "member", "session"} => who'[q] \in users'
  <2>1. CASE q = p
    BY <2>1 DEF CompletionsTyped, Past
  <2>2. CASE q # p
    BY <2>2 DEF CompletionsTyped, CompletionsBacked, Past
  <2> QED BY <2>1, <2>2
<1> QED BY <1>1, <1>2, <1>3 DEF CompletionsTyped, CompletionsBacked, Past

\* A request that goes on to its next step keeps its row and its address.
LEMMA GoTyping ==
  ASSUME CompletionsTyped, CompletionsBacked, NEW p \in Proofs, NEW step \in Steps \ {"idle"}, Go(p, step),
         pc[p] # "idle", UNCHANGED <<hand, who, minted>>, home' \in [Proofs -> 0..opened'],
         \A q \in Proofs \ {p} : home'[q] = home[q],
         step \in {"member", "session"} => home'[p] # 0,
         step \in Past => used'[hand[p]],
         step \in {"account", "member", "session"} => who[p] \in users',
         minted \in Nat, \A c \in 1..minted : used[c] => used'[c], users \subseteq users'
  PROVE  CompletionsTyped' /\ CompletionsBacked'
<1> USE DEF Go
<1>1. pc' \in [Proofs -> Steps] /\ hand' \in [Proofs -> 0..minted] /\ who' \in [Proofs -> Emails \cup {NoOne}]
  BY DEF CompletionsTyped
<1>2. ASSUME NEW q \in Proofs
      PROVE  /\ pc'[q] = "idle" <=> hand'[q] = 0
             /\ pc'[q] \in {"member", "session"} => home'[q] # 0
             /\ pc'[q] \in Past => used'[hand'[q]]
             /\ pc'[q] # "idle" => who'[q] \in Emails
             /\ pc'[q] \in {"account", "member", "session"} => who'[q] \in users'
  <2>1. CASE q = p
    BY <2>1 DEF CompletionsTyped, CompletionsBacked
  <2>2. CASE q # p
    BY <2>2 DEF CompletionsTyped, CompletionsBacked, Past
  <2> QED BY <2>1, <2>2
<1> QED BY <1>1, <1>2 DEF CompletionsTyped, CompletionsBacked, Past

\* The requests for a challenge, and what the rest of the program does to the tables.
LEMMA AskTyping ==
  ASSUME Typed, Tick \/ (\E a \in Asks : Ask(a)) \/ Logout \/ Purge \/ ClaimOwner
  PROVE  Typed'
<1> USE BoundsAreNumbers DEF tokenVars, accountVars, askVars, proofVars, history, Typed, SignTypeOK
<1>1. CASE Tick
  <2>1. TokensTyped'
    BY <1>1 DEF Tick, TokensTyped, Moments
  <2> QED BY <1>1, <2>1 DEF Tick, AccountsTyped, AsksTyped, CompletionsTyped, AsksBacked, CompletionsBacked
<1>2. ASSUME NEW a \in Asks, Ask(a)
      PROVE  Typed'
  <2>1. CASE AskCheck(a)
    <3>1. AsksTyped' /\ AsksBacked'
      BY <2>1 DEF AskCheck, AsksTyped, AsksBacked, TokensTyped
    <3> QED BY <2>1, <3>1 DEF AskCheck, TokensTyped, AccountsTyped, CompletionsTyped, CompletionsBacked
  <2>2. CASE AskMint(a)
    <3> DEFINE c == minted + 1
    <3>1. c \in Challenges /\ minted' = c /\ minted' \in 0..MaxChallenges /\ minted \in Nat
      BY <2>2 DEF AskMint, TokensTyped, Challenges
    <3>2. address' \in [Challenges -> Emails \cup {NoOne}] /\ made' \in [Challenges -> Moments]
      BY <2>2, <3>1 DEF AskMint, TokensTyped, AsksTyped
    <3>3. askNow[a] + Ttl \in 0..MaxClock + Ttl
      BY DEF AsksTyped, Moments
    <3>4. expires' \in [Challenges -> 0..MaxClock + Ttl]
      BY <2>2, <3>1, <3>3 DEF AskMint, TokensTyped
    <3>5. stored' \subseteq 1..minted' /\ mailed' \subseteq 1..minted'
      BY <2>2, <3>1 DEF AskMint, TokensTyped
    <3>6. TokensTyped'
      BY <2>2, <3>1, <3>2, <3>4, <3>5 DEF AskMint, TokensTyped
    <3>7. AsksTyped'
      BY <2>2, <3>1 DEF AskMint, AsksTyped
    <3>8. \A d \in 1..minted' : address'[d] \in Emails
      <4> TAKE d \in 1..minted'
      <4>1. d \in Challenges /\ (d = c \/ d \in 1..minted)
        BY <3>1 DEF Challenges
      <4>2. address'[d] = IF d = c THEN askEmail[a] ELSE address[d]
        BY <2>2, <4>1 DEF AskMint, TokensTyped
      <4>3. askEmail[a] \in Emails
        BY <2>2 DEF AskMint, AsksBacked
      <4> QED BY <4>1, <4>2, <4>3 DEF AsksBacked
    <3>9. AsksBacked'
      BY <2>2, <3>1, <3>8 DEF AskMint, AsksBacked, AsksTyped, Challenges
    <3>10. CompletionsTyped'
      BY <2>2, <3>1 DEF AskMint, CompletionsTyped
    <3> QED BY <2>2, <3>6, <3>7, <3>9, <3>10 DEF AskMint, AccountsTyped, CompletionsBacked
  <2>3. CASE AskSend(a)
    <3>1. minted \in Nat /\ askRow[a] \in 1..minted
      BY <2>3 DEF AskSend, AsksTyped, AsksBacked, TokensTyped
    <3>2. TokensTyped'
      BY <2>3, <3>1 DEF AskSend, TokensTyped
    <3>3. AsksTyped' /\ AsksBacked'
      BY <2>3, <3>1 DEF AskSend, AsksTyped, AsksBacked, Moments
    <3> QED BY <2>3, <3>2, <3>3 DEF AskSend, AccountsTyped, CompletionsTyped, CompletionsBacked
  <2> QED BY <1>2, <2>1, <2>2, <2>3 DEF Ask
<1>3. CASE Logout
  BY <1>3 DEF Logout, TokensTyped, AccountsTyped, AsksTyped, CompletionsTyped, AsksBacked, CompletionsBacked
<1>4. CASE Purge
  BY <1>4 DEF Purge, TokensTyped, AccountsTyped, AsksTyped, CompletionsTyped, AsksBacked, CompletionsBacked
<1>5. CASE ClaimOwner
  <2>1. AccountsTyped'
    BY <1>5, SignInAssumption DEF ClaimOwner, AccountsTyped, Accounts, Owner
  <2> QED BY <1>5, <2>1 DEF ClaimOwner, TokensTyped, AsksTyped, CompletionsTyped, AsksBacked, CompletionsBacked
<1> QED BY <1>1, <1>2, <1>3, <1>4, <1>5

\* The completions, up to the statement that consumes the row.
LEMMA ReadTyping ==
  ASSUME Typed, NEW p \in Proofs, LinkRead(p) \/ CodeRead(p) \/ Bump(p) \/ Burn(p) \/ Consume(p) \/ Stop(p)
  PROVE  Typed'
<1> USE BoundsAreNumbers DEF tokenVars, accountVars, askVars, proofVars, history, Typed, SignTypeOK
<1>0. minted \in Nat /\ opened \in Nat /\ 1..minted \subseteq Challenges
  BY DEF TokensTyped, AccountsTyped, Challenges, Accounts
<1>1. ASSUME NEW c \in 1..minted, NEW e \in Emails, NEW step \in {"consume", "bump"}, pc[p] = "idle",
             Go(p, step), Hold(p, c), who' = [who EXCEPT ![p] = e], UNCHANGED <<tokenVars, accountVars, home>>
      PROVE  CompletionsTyped' /\ CompletionsBacked'
  BY <1>0, <1>1 DEF Go, Hold, CompletionsTyped, CompletionsBacked, Steps
<1>2. CASE LinkRead(p)
  <2>1. PICK c \in mailed : Live(c) /\ Hold(p, c) /\ who' = [who EXCEPT ![p] = address[c]]
    BY <1>2 DEF LinkRead
  <2>2. c \in 1..minted /\ address[c] \in Emails
    BY <2>1 DEF TokensTyped, AsksBacked
  <2>3. CompletionsTyped' /\ CompletionsBacked'
    BY <1>1, <1>2, <2>1, <2>2 DEF LinkRead
  <2> QED BY <1>2, <2>3 DEF LinkRead, TokensTyped, AccountsTyped, AsksTyped, AsksBacked
<1>3. CASE CodeRead(p)
  <2>1. PICK e \in {x \in Emails : LiveFor(x) # {}} :
          LET c == Newest(LiveFor(e))
          IN /\ Hold(p, c) /\ who' = [who EXCEPT ![p] = e]
             /\ compared' = [compared EXCEPT ![c] = @ + 1]
             /\ \E right \in BOOLEAN : Go(p, IF right THEN "consume" ELSE "bump")
    BY <1>3 DEF CodeRead
  <2> DEFINE c == Newest(LiveFor(e))
  <2>2. LiveFor(e) \in SUBSET Challenges /\ LiveFor(e) \subseteq 1..minted /\ LiveFor(e) # {}
    BY <1>0, <2>1 DEF LiveFor, TokensTyped
  <2>3. c \in 1..minted
    BY <2>2, NewestIsMember DEF TokensTyped
  <2>4. PICK step \in {"consume", "bump"} : Go(p, step)
    BY <2>1
  <2>5. CompletionsTyped' /\ CompletionsBacked'
    <3> HIDE DEF c
    <3> QED BY <1>1, <1>3, <2>1, <2>3, <2>4 DEF CodeRead, c
  <2>6. compared' \in [Challenges -> Nat] /\ \A d \in Challenges : d > minted => compared'[d] = 0
    <3> HIDE DEF c
    <3>1. compared' = [compared EXCEPT ![c] = @ + 1]
      BY <2>1 DEF c
    <3> QED BY <1>0, <2>3, <3>1 DEF AsksBacked
  <2> QED BY <1>3, <2>5, <2>6 DEF CodeRead, TokensTyped, AccountsTyped, AsksTyped, AsksBacked
<1>4. CASE Bump(p)
  <2>1. hand[p] \in 1..minted
    BY <1>0, <1>4 DEF Bump, CompletionsTyped
  <2>2. TokensTyped'
    BY <1>0, <1>4, <2>1 DEF Bump, TokensTyped
  <2>3. CASE Go(p, "burn") /\ UNCHANGED <<hand, who, home>>
    BY <1>0, <1>4, <2>2, <2>3, GoTyping DEF Bump, CompletionsTyped, AccountsTyped, AsksTyped, AsksBacked, Steps, Past
  <2>4. CASE Leave(p)
    BY <1>0, <1>4, <2>2, <2>4, LeaveTyping DEF Bump, AccountsTyped, AsksTyped, AsksBacked
  <2> QED BY <1>4, <2>3, <2>4 DEF Bump
<1>5. CASE Burn(p)
  <2>1. hand[p] \in 1..minted
    BY <1>0, <1>5 DEF Burn, CompletionsTyped
  <2>2. TokensTyped' /\ \A c \in 1..minted : used[c] => used'[c]
    BY <1>0, <1>5, <2>1 DEF Burn, TokensTyped
  <2> QED BY <1>0, <1>5, <2>2, LeaveTyping DEF Burn, AccountsTyped, AsksTyped, AsksBacked
<1>6. CASE Consume(p)
  <2>1. hand[p] \in 1..minted
    BY <1>0, <1>6 DEF Consume, CompletionsTyped
  <2>2. CASE Claims(hand[p])
    <3>1. used' = [used EXCEPT ![hand[p]] = TRUE] /\ Go(p, "find") /\ UNCHANGED <<hand, who, home>>
      BY <1>6, <2>2 DEF Consume
    <3>2. TokensTyped' /\ used'[hand[p]] /\ \A c \in 1..minted : used[c] => used'[c]
      BY <1>0, <1>6, <2>1, <3>1 DEF Consume, TokensTyped
    <3>3. CompletionsTyped' /\ CompletionsBacked'
      BY <1>0, <1>6, <3>1, <3>2, GoTyping DEF Consume, CompletionsTyped, Steps, Past
    <3> QED BY <1>6, <3>2, <3>3 DEF Consume, AccountsTyped, AsksTyped, AsksBacked
  <2>3. CASE ~Claims(hand[p])
    BY <1>0, <1>6, <2>3, LeaveTyping DEF Consume, TokensTyped, AccountsTyped, AsksTyped, AsksBacked
  <2> QED BY <2>2, <2>3
<1>7. CASE Stop(p)
  <2>1. aborts' \in 0..MaxAborts
    BY <1>7 DEF Stop
  <2> QED BY <1>0, <1>7, <2>1, LeaveTyping DEF Stop, TokensTyped, AccountsTyped, AsksTyped, AsksBacked
<1> QED BY <1>2, <1>3, <1>4, <1>5, <1>6, <1>7

\* The completions, from the consumed row to the session.
LEMMA EnterTyping ==
  ASSUME Typed, NEW p \in Proofs,
         FindUser(p) \/ CreateUser(p) \/ CreateAccount(p) \/ AddMember(p) \/ CreateSession(p)
  PROVE  Typed'
<1> USE BoundsAreNumbers DEF tokenVars, accountVars, askVars, proofVars, history, Typed, SignTypeOK
<1>0. /\ minted \in Nat /\ opened \in Nat /\ 1..minted \subseteq Challenges
      /\ pc[p] # "idle" /\ hand[p] \in 1..minted /\ used[hand[p]] /\ who[p] \in Emails
  <2>1. minted \in Nat /\ opened \in Nat /\ 1..minted \subseteq Challenges
    BY DEF TokensTyped, AccountsTyped, Challenges, Accounts
  <2>2. pc[p] \in Past
    BY DEF FindUser, CreateUser, CreateAccount, AddMember, CreateSession, Past
  <2> QED BY <2>1, <2>2 DEF CompletionsTyped, CompletionsBacked, Past
<1>1. CASE FindUser(p)
  <2>1. CASE who[p] \notin users
    BY <1>0, <1>1, <2>1, GoTyping
       DEF FindUser, TokensTyped, AccountsTyped, AsksTyped, CompletionsTyped, AsksBacked, Steps, Past
  <2>2. CASE who[p] \in users /\ AccountsOf(who[p]) = {}
    BY <1>0, <1>1, <2>2, GoTyping
       DEF FindUser, TokensTyped, AccountsTyped, AsksTyped, CompletionsTyped, AsksBacked, Steps, Past
  <2>3. CASE who[p] \in users /\ AccountsOf(who[p]) # {}
    <3> DEFINE k == Least(AccountsOf(who[p]))
    <3>1. Go(p, "session") /\ home' = [home EXCEPT ![p] = k]
      BY <1>1, <2>3 DEF FindUser
    <3>2. AccountsOf(who[p]) \in SUBSET Nat
      BY DEF AccountsOf, Accounts
    <3>3. k \in AccountsOf(who[p])
      BY <2>3, <3>2, LeastIsMember
    <3>4. k \in 1..opened
      <4> HIDE DEF k
      <4>1. k \in Nat \ {0} /\ <<who[p], k>> \in members
        BY <3>3 DEF AccountsOf, Accounts
      <4>2. <<who[p], k>>[2] =< opened
        BY <4>1 DEF AccountsTyped
      <4> QED BY <1>0, <4>1, <4>2
    <3> HIDE DEF k
    <3>5. CompletionsTyped' /\ CompletionsBacked'
      BY <1>0, <1>1, <2>3, <3>1, <3>4, GoTyping DEF FindUser, CompletionsTyped, Steps, Past
    <3> QED BY <1>1, <3>5 DEF FindUser, TokensTyped, AccountsTyped, AsksTyped, AsksBacked
  <2> QED BY <2>1, <2>2, <2>3
<1>2. CASE CreateUser(p)
  <2>1. AccountsTyped'
    BY <1>0, <1>2 DEF CreateUser, AccountsTyped
  <2>2. CompletionsTyped' /\ CompletionsBacked'
    <3>1. CASE who[p] \in users
      BY <1>0, <1>2, <3>1, LeaveTyping DEF CreateUser
    <3>2. CASE who[p] \notin users
      BY <1>0, <1>2, <3>2, GoTyping DEF CreateUser, CompletionsTyped, Steps, Past
    <3> QED BY <3>1, <3>2
  <2> QED BY <1>2, <2>1, <2>2 DEF CreateUser, TokensTyped, AsksTyped, AsksBacked
<1>3. CASE CreateAccount(p)
  <2>1. AccountsTyped' /\ opened' = opened + 1
    BY <1>0, <1>3 DEF CreateAccount, AccountsTyped, Accounts
  <2>2. home' \in [Proofs -> 0..opened'] /\ home'[p] # 0 /\ who[p] \in users
    BY <1>0, <1>3 DEF CreateAccount, CompletionsTyped, CompletionsBacked
  <2>3. CompletionsTyped' /\ CompletionsBacked'
    BY <1>0, <1>3, <2>1, <2>2, GoTyping DEF CreateAccount, CompletionsTyped, Steps, Past
  <2> QED BY <1>3, <2>1, <2>3 DEF CreateAccount, TokensTyped, AsksTyped, AsksBacked
<1>4. CASE AddMember(p)
  <2>1. home[p] \in 1..opened /\ who[p] \in users
    BY <1>0, <1>4 DEF AddMember, CompletionsTyped, CompletionsBacked
  <2>2. AccountsTyped'
    BY <1>0, <1>4, <2>1 DEF AddMember, AccountsTyped, Accounts
  <2>3. CompletionsTyped' /\ CompletionsBacked'
    BY <1>0, <1>4, <2>1, GoTyping DEF AddMember, CompletionsTyped, Steps, Past
  <2> QED BY <1>4, <2>2, <2>3 DEF AddMember, TokensTyped, AsksTyped, AsksBacked
<1>5. CASE CreateSession(p)
  <2>1. home[p] \in Accounts
    BY <1>0, <1>5 DEF CreateSession, CompletionsTyped, AccountsTyped, Accounts
  <2>2. clock + SessionTtl \in 0..MaxClock + SessionTtl
    BY DEF TokensTyped, Moments
  <2>3. AccountsTyped'
    BY <1>0, <1>5, <2>1, <2>2 DEF CreateSession, AccountsTyped, Sessions
  <2>4. granted' \in [Challenges -> Nat]
    BY <1>0, <1>5 DEF CreateSession
  <2>5. CompletionsTyped' /\ CompletionsBacked'
    BY <1>0, <1>5, LeaveTyping DEF CreateSession
  <2> QED BY <1>5, <2>3, <2>4, <2>5 DEF CreateSession, TokensTyped, AsksTyped, AsksBacked
<1> QED BY <1>1, <1>2, <1>3, <1>4, <1>5

LEMMA TypingStep ==
  ASSUME Typed, [SignNext]_signVars
  PROVE  Typed'
<1>1. CASE SignNext
  BY <1>1, AskTyping, ReadTyping, EnterTyping DEF SignNext, Complete
<1>2. CASE UNCHANGED signVars
  BY <1>2 DEF signVars, tokenVars, accountVars, askVars, proofVars, history, Typed, SignTypeOK, TokensTyped,
              AccountsTyped, AsksTyped, CompletionsTyped, AsksBacked, CompletionsBacked
<1> QED BY <1>1, <1>2

LEMMA AlwaysTyped == SignSpec => []Typed
<1>1. SignInit => Typed
  BY TypingInit
<1>2. Typed /\ [SignNext]_signVars => Typed'
  BY TypingStep
<1> QED BY <1>1, <1>2, PTL DEF SignSpec

\* Every reachable state is well typed: a request in flight holds a row, and one past the
\* consuming UPDATE a row that is consumed; a membership names a user and an account that are there.
THEOREM SignInTypeCorrect == SignSpec => []SignTypeOK
<1>1. Typed => SignTypeOK
  BY DEF Typed
<1> QED BY <1>1, AlwaysTyped, PTL

(***************************************************************************)
(* One session per challenge.                                              *)
(***************************************************************************)
\* Whoever is past the consuming UPDATE is the only one past it with this row, and no session
\* has been made of the row yet.  OneSessionPerChallenge alone is not inductive: it says
\* nothing of two requests that are both about to create their session.
OneHolder ==
    /\ \A p \in Proofs : pc[p] \in Past => granted[hand[p]] = 0
    /\ \A p, q \in Proofs : pc[p] \in Past /\ pc[q] \in Past /\ hand[p] = hand[q] => p = q
    /\ \A c \in Challenges : granted[c] =< 1 /\ (granted[c] = 1 => used[c])

\* A step of one completion leaves the others where they are.
OthersStay(p) ==
    \A q \in Proofs \ {p} : pc'[q] = pc[q] /\ hand'[q] = hand[q] /\ who'[q] = who[q] /\ home'[q] = home[q]

LEMMA OthersUntouched ==
  ASSUME Typed, NEW p \in Proofs, Complete(p)
  PROVE  OthersStay(p)
<1> USE DEF Typed, SignTypeOK, CompletionsTyped, OthersStay, Go, Hold, Leave
<1>1. CASE LinkRead(p) BY <1>1 DEF LinkRead
<1>2. CASE CodeRead(p) BY <1>2 DEF CodeRead
<1>3. CASE Bump(p) BY <1>3 DEF Bump
<1>4. CASE Burn(p) BY <1>4 DEF Burn
<1>5. CASE Consume(p) BY <1>5 DEF Consume
<1>6. CASE FindUser(p) BY <1>6 DEF FindUser
<1>7. CASE CreateUser(p) BY <1>7 DEF CreateUser
<1>8. CASE CreateAccount(p) BY <1>8 DEF CreateAccount
<1>9. CASE AddMember(p) BY <1>9 DEF AddMember
<1>10. CASE CreateSession(p) BY <1>10 DEF CreateSession
<1>11. CASE Stop(p) BY <1>11 DEF Stop
<1> QED BY <1>1, <1>2, <1>3, <1>4, <1>5, <1>6, <1>7, <1>8, <1>9, <1>10, <1>11 DEF Complete

\* The row of a request past the UPDATE is one of the table, and consumed.
LEMMA HeldRowIsUsed ==
  ASSUME Typed, NEW p \in Proofs, pc[p] # "idle"
  PROVE  hand[p] \in Challenges /\ (pc[p] \in Past => used[hand[p]])
<1>1. hand[p] # 0 /\ hand[p] \in 0..minted /\ minted \in 0..MaxChallenges
  BY DEF Typed, SignTypeOK, TokensTyped, CompletionsTyped
<1>2. hand[p] \in Challenges
  BY <1>1, BoundsAreNumbers DEF Challenges
<1> QED BY <1>2 DEF Typed, SignTypeOK, CompletionsTyped, Past

LEMMA OneHolderStep ==
  ASSUME Typed, OneHolder, [SignNext]_signVars
  PROVE  OneHolder'
<1> USE DEF tokenVars, accountVars, askVars, proofVars, history
<1>1. CASE (\E a \in Asks : Ask(a)) \/ Logout \/ Purge \/ ClaimOwner \/ Tick \/ UNCHANGED signVars
  <2>1. UNCHANGED <<pc, hand, used, granted>>
    BY <1>1 DEF Ask, AskCheck, AskMint, AskSend, Logout, Purge, ClaimOwner, Tick, signVars
  <2> QED BY <2>1 DEF OneHolder
<1>2. ASSUME NEW p \in Proofs, Complete(p)
      PROVE  OneHolder'
  <2>0. OthersStay(p)
    BY <1>2, OthersUntouched
  <2>1. CASE LinkRead(p) \/ CodeRead(p) \/ Bump(p) \/ Stop(p)
    <3>1. pc'[p] \notin Past
      BY <2>1 DEF LinkRead, CodeRead, Bump, Stop, Go, Leave, Past, Typed, SignTypeOK, CompletionsTyped
    <3>2. UNCHANGED <<granted, used>>
      BY <2>1 DEF LinkRead, CodeRead, Bump, Stop
    <3> QED BY <2>0, <3>1, <3>2 DEF OneHolder, OthersStay
  <2>2. CASE Burn(p)
    <3>1. pc'[p] \notin Past /\ UNCHANGED granted
      BY <2>2 DEF Burn, Go, Leave, Past, Typed, SignTypeOK, CompletionsTyped
    <3>2. \A c \in Challenges : used[c] => used'[c]
      BY <2>2 DEF Burn, Typed, SignTypeOK, TokensTyped
    <3> QED BY <2>0, <3>1, <3>2 DEF OneHolder, OthersStay
  <2>3. CASE Consume(p) /\ ~Claims(hand[p])
    <3>1. pc'[p] \notin Past /\ UNCHANGED <<granted, used>>
      BY <2>3 DEF Consume, Go, Leave, Past, Typed, SignTypeOK, CompletionsTyped
    <3> QED BY <2>0, <3>1 DEF OneHolder, OthersStay
  <2>4. CASE Consume(p) /\ Claims(hand[p])
    <3> DEFINE c == hand[p]
    <3>1. c \in Challenges /\ ~used[c]
      BY <2>4, HeldRowIsUsed DEF Consume, Claims
    <3>2. UNCHANGED <<granted, hand>> /\ used' = [used EXCEPT ![c] = TRUE]
      BY <2>4 DEF Consume
    <3>3. granted[c] = 0
      BY <3>1 DEF OneHolder, Typed, SignTypeOK
    <3>4. \A q \in Proofs \ {p} : pc'[q] \in Past => hand'[q] # c
      <4> TAKE q \in Proofs \ {p}
      <4> HAVE pc'[q] \in Past
      <4>1. pc[q] \in Past /\ hand'[q] = hand[q]
        BY <2>0 DEF OthersStay
      <4>2. used[hand[q]]
        BY <4>1, HeldRowIsUsed DEF Past
      <4> QED BY <3>1, <4>1, <4>2
    <3>5. \A q \in Proofs : pc'[q] \in Past => granted'[hand'[q]] = 0
      BY <2>0, <3>2, <3>3 DEF OneHolder, OthersStay
    <3>6. \A q, r \in Proofs : pc'[q] \in Past /\ pc'[r] \in Past /\ hand'[q] = hand'[r] => q = r
      BY <2>0, <3>2, <3>4 DEF OneHolder, OthersStay
    <3>7. \A d \in Challenges : used[d] => used'[d]
      BY <3>1, <3>2 DEF Typed, SignTypeOK, TokensTyped
    <3>8. \A d \in Challenges : granted'[d] =< 1 /\ (granted'[d] = 1 => used'[d])
      BY <3>2, <3>7 DEF OneHolder
    <3> QED BY <3>5, <3>6, <3>8 DEF OneHolder
  <2>5. CASE FindUser(p) \/ CreateUser(p) \/ CreateAccount(p) \/ AddMember(p)
    <3>1. pc[p] \in Past /\ UNCHANGED <<granted, used>>
      BY <2>5 DEF FindUser, CreateUser, CreateAccount, AddMember, Past
    <3>2. (pc'[p] \in Past /\ hand'[p] = hand[p]) \/ pc'[p] \notin Past
      BY <2>5 DEF FindUser, CreateUser, CreateAccount, AddMember, Go, Hold, Leave, Past, Typed, SignTypeOK, CompletionsTyped
    <3> QED BY <2>0, <3>1, <3>2 DEF OneHolder, OthersStay
  <2>6. CASE CreateSession(p)
    <3> DEFINE c == hand[p]
    <3>1. c \in Challenges /\ used[c] /\ granted[c] = 0 /\ pc[p] \in Past
      BY <2>6, HeldRowIsUsed DEF CreateSession, Past, OneHolder
    <3>2. granted' = [granted EXCEPT ![c] = @ + 1] /\ UNCHANGED used /\ pc'[p] \notin Past
      BY <2>6 DEF CreateSession, Leave, Go, Past, Typed, SignTypeOK, CompletionsTyped
    <3>3. granted'[c] = 1 /\ \A d \in Challenges \ {c} : granted'[d] = granted[d]
      BY <3>1, <3>2 DEF Typed, SignTypeOK
    <3>4. \A q \in Proofs : pc'[q] \in Past => q # p /\ pc[q] \in Past /\ hand'[q] = hand[q] /\ hand[q] # c
      BY <2>0, <3>1, <3>2 DEF OneHolder, OthersStay
    <3>5. \A q \in Proofs : pc'[q] \in Past => granted'[hand'[q]] = 0
      <4> TAKE q \in Proofs
      <4> HAVE pc'[q] \in Past
      <4>1. hand[q] \in Challenges \ {c}
        BY <3>4, HeldRowIsUsed DEF Past
      <4> QED BY <3>3, <3>4, <4>1 DEF OneHolder
    <3>6. \A q, r \in Proofs : pc'[q] \in Past /\ pc'[r] \in Past /\ hand'[q] = hand'[r] => q = r
      BY <3>4 DEF OneHolder
    <3>7. \A d \in Challenges : granted'[d] =< 1 /\ (granted'[d] = 1 => used'[d])
      BY <3>1, <3>2, <3>3 DEF OneHolder
    <3> QED BY <3>5, <3>6, <3>7 DEF OneHolder
  <2> QED BY <1>2, <2>1, <2>2, <2>3, <2>4, <2>5, <2>6 DEF Complete
<1> QED BY <1>1, <1>2 DEF SignNext

\* A challenge earns at most one session, however many requests hold its link and its code at
\* once and wherever they stop: the UPDATE that consumes the row lets one of them through.
THEOREM ChallengeEarnsOneSession == SignSpec => []OneSessionPerChallenge
<1>1. SignInit => OneHolder
  BY DEF SignInit, OneHolder, Past
<1>2. Typed /\ OneHolder /\ [SignNext]_signVars => OneHolder'
  BY OneHolderStep
<1>3. OneHolder => OneSessionPerChallenge
  BY DEF OneHolder, OneSessionPerChallenge
<1> QED BY <1>1, <1>2, <1>3, AlwaysTyped, PTL DEF SignSpec

(***************************************************************************)
(* Every session is housed.                                                *)
(***************************************************************************)
\* A request about to create its session has read or written the membership it names.
Housed ==
    /\ SessionsAreHoused
    /\ \A p \in Proofs : pc[p] = "session" => <<who[p], home[p]>> \in members

LEMMA HousedStep ==
  ASSUME Typed, Housed, [SignNext]_signVars
  PROVE  Housed'
<1> USE DEF tokenVars, accountVars, askVars, proofVars, history
<1>1. CASE (\E a \in Asks : Ask(a)) \/ Tick \/ UNCHANGED signVars
  <2>1. UNCHANGED <<pc, who, home, sessions, members>>
    BY <1>1 DEF Ask, AskCheck, AskMint, AskSend, Tick, signVars
  <2> QED BY <2>1 DEF Housed, SessionsAreHoused
<1>2. CASE Logout \/ Purge \/ ClaimOwner
  <2>1. UNCHANGED <<pc, who, home>> /\ sessions' \subseteq sessions /\ members \subseteq members'
    BY <1>2 DEF Logout, Purge, ClaimOwner
  <2> QED BY <2>1 DEF Housed, SessionsAreHoused
<1>3. ASSUME NEW p \in Proofs, Complete(p)
      PROVE  Housed'
  <2>0. OthersStay(p)
    BY <1>3, OthersUntouched
  <2>1. CASE LinkRead(p) \/ CodeRead(p) \/ Bump(p) \/ Burn(p) \/ Consume(p) \/ CreateUser(p)
             \/ CreateAccount(p) \/ Stop(p)
    <3>1. pc'[p] # "session" /\ UNCHANGED <<sessions, members>>
      BY <2>1 DEF LinkRead, CodeRead, Bump, Burn, Consume, CreateUser, CreateAccount, Stop, Go, Leave,
                  Typed, SignTypeOK, CompletionsTyped
    <3> QED BY <2>0, <3>1 DEF Housed, SessionsAreHoused, OthersStay
  <2>2. CASE FindUser(p)
    <3>1. pc'[p] = "session" => <<who[p], home'[p]>> \in members
      <4> HAVE pc'[p] = "session"
      <4> DEFINE k == Least(AccountsOf(who[p]))
      <4>1. AccountsOf(who[p]) # {} /\ home' = [home EXCEPT ![p] = k]
        BY <2>2 DEF FindUser, Go, Typed, SignTypeOK, CompletionsTyped
      <4>2. AccountsOf(who[p]) \in SUBSET Nat
        BY DEF AccountsOf, Accounts
      <4>3. k \in AccountsOf(who[p])
        BY <4>1, <4>2, LeastIsMember
      <4> QED BY <4>1, <4>3 DEF AccountsOf, Typed, SignTypeOK, CompletionsTyped
    <3> QED BY <2>0, <2>2, <3>1 DEF FindUser, Housed, SessionsAreHoused, OthersStay
  <2>3. CASE AddMember(p)
    <3>1. members' = members \cup {<<who[p], home[p]>>} /\ UNCHANGED <<sessions, who, home>>
      BY <2>3 DEF AddMember
    <3> QED BY <2>0, <3>1 DEF Housed, SessionsAreHoused, OthersStay
  <2>4. CASE CreateSession(p)
    <3>1. <<who[p], home[p]>> \in members /\ UNCHANGED members
      BY <2>4 DEF CreateSession, Housed
    <3>2. \A s \in sessions' : s \in sessions \/ (s.user = who[p] /\ s.account = home[p])
      BY <2>4 DEF CreateSession
    <3>3. pc'[p] # "session"
      BY <2>4 DEF CreateSession, Leave, Go, Typed, SignTypeOK, CompletionsTyped
    <3> QED BY <2>0, <3>1, <3>2, <3>3 DEF Housed, SessionsAreHoused, OthersStay
  <2> QED BY <1>3, <2>1, <2>2, <2>3, <2>4 DEF Complete
<1> QED BY <1>1, <1>2, <1>3 DEF SignNext

\* Every session acts on an account its user belongs to, also after sign-ins that stopped
\* between the user, the account and the membership.
THEOREM SessionsHaveHomes == SignSpec => []SessionsAreHoused
<1>1. SignInit => Housed
  BY DEF SignInit, Housed, SessionsAreHoused
<1>2. Typed /\ Housed /\ [SignNext]_signVars => Housed'
  BY HousedStep
<1>3. Housed => SessionsAreHoused
  BY DEF Housed
<1> QED BY <1>1, <1>2, <1>3, AlwaysTyped, PTL DEF SignSpec

(***************************************************************************)
(* The limits: codes compared with one challenge, mails sent.              *)
(***************************************************************************)
\* The requests that may still count, or use up, what they compared with challenge c.
Undecided(c) == {p \in Proofs : hand[p] = c /\ pc[p] \in {"bump", "consume"}}

\* While a challenge can still be guessed at, every code compared with it is in its row, with
\* a request under way, or was lost with one that stopped.
GuessesCounted ==
    \A c \in Challenges : c \in stored /\ ~used[c] =>
        compared[c] =< attempts[c] + Cardinality(Undecided(c)) + aborts

LEMMA ProofsAreFinite == IsFiniteSet(Proofs) /\ Cardinality(Proofs) \in Nat
  BY SignInAssumption, FS_CardinalityType

LEMMA UndecidedCount ==
  ASSUME NEW c
  PROVE  /\ IsFiniteSet(Undecided(c)) /\ Cardinality(Undecided(c)) \in Nat
         /\ IsFiniteSet(Undecided(c)') /\ Cardinality(Undecided(c)') \in Nat
         /\ Cardinality(Undecided(c)) =< Cardinality(Proofs)
<1>1. IsFiniteSet(Proofs)
  BY ProofsAreFinite
<1>2. Undecided(c) \in SUBSET Proofs /\ Undecided(c)' \in SUBSET Proofs
  BY DEF Undecided
<1>3. IsFiniteSet(Undecided(c)) /\ IsFiniteSet(Undecided(c)') /\ Cardinality(Undecided(c)) =< Cardinality(Proofs)
  BY <1>1, <1>2, FS_Subset
<1> QED BY <1>1, <1>3, FS_CardinalityType

\* A step of request p takes at most p out of, or into, the undecided requests of a challenge.
LEMMA UndecidedSteps ==
  ASSUME NEW p \in Proofs, NEW c, OthersStay(p)
  PROVE  /\ Cardinality(Undecided(c)') >= Cardinality(Undecided(c)) - 1
         /\ p \notin Undecided(c) => Cardinality(Undecided(c)') >= Cardinality(Undecided(c))
         /\ p \in Undecided(c)' => Cardinality(Undecided(c)') >= Cardinality(Undecided(c))
         /\ p \notin Undecided(c) /\ p \in Undecided(c)' => Cardinality(Undecided(c)') = Cardinality(Undecided(c)) + 1
<1>1. Undecided(c)' \ {p} = Undecided(c) \ {p}
  BY DEF Undecided, OthersStay
<1>2. Cardinality(Undecided(c) \ {p}) = IF p \in Undecided(c) THEN Cardinality(Undecided(c)) - 1
                                                           ELSE Cardinality(Undecided(c))
  BY UndecidedCount, FS_RemoveElement
<1>3. Cardinality(Undecided(c)' \ {p}) = IF p \in Undecided(c)' THEN Cardinality(Undecided(c)') - 1
                                                             ELSE Cardinality(Undecided(c)')
  BY UndecidedCount, FS_RemoveElement
<1> QED BY <1>1, <1>2, <1>3, UndecidedCount

Counted == GuessesBounded /\ GuessesCounted

LEMMA CountedInit == SignInit => Counted
<1> SUFFICES ASSUME SignInit PROVE Counted
  OBVIOUS
<1>1. stored = {} /\ \A c \in Challenges : compared[c] = 0
  BY DEF SignInit
<1>2. Cardinality(Proofs) \in Nat /\ aborts = 0
  BY SignInAssumption, FS_CardinalityType DEF SignInit
<1> QED BY <1>1, <1>2, BoundsAreNumbers DEF Counted, GuessesBounded, GuessesCounted

\* What only takes challenges away, counts up or adds a new one leaves the balance.
LEMMA CountedElsewhere ==
  ASSUME Typed, Counted, (\E a \in Asks : Ask(a)) \/ Logout \/ Purge \/ ClaimOwner \/ Tick \/ UNCHANGED signVars
  PROVE  Counted'
<1> USE DEF tokenVars, accountVars, askVars, proofVars, history
<1>1. UNCHANGED <<pc, hand, used, attempts, compared, aborts>>
  BY DEF Ask, AskCheck, AskMint, AskSend, Logout, Purge, ClaimOwner, Tick, signVars
<1>2. \A c \in Challenges : Undecided(c)' = Undecided(c)
  BY <1>1 DEF Undecided
<1>3. \A c \in Challenges : c \in stored' => c \in stored \/ compared[c] = 0
  <2>1. stored' \subseteq stored \/ \E a \in Asks : AskMint(a)
    BY DEF Ask, AskCheck, AskMint, AskSend, Logout, Purge, ClaimOwner, Tick, signVars
  <2>2. ASSUME NEW a \in Asks, AskMint(a)
        PROVE  \A c \in Challenges : c \in stored' => c \in stored \/ compared[c] = 0
    <3>1. stored' = stored \cup {minted + 1} /\ minted + 1 \in Challenges /\ minted \in Nat
      BY <2>2 DEF AskMint, Typed, SignTypeOK, TokensTyped
    <3>2. compared[minted + 1] = 0
      BY <3>1 DEF Typed, AsksBacked
    <3> QED BY <3>1, <3>2
  <2> QED BY <2>1, <2>2
<1>4. GuessesCounted'
  <2> SUFFICES ASSUME NEW c \in Challenges, c \in stored', ~used[c]
               PROVE  compared[c] =< attempts[c] + Cardinality(Undecided(c)) + aborts
    BY <1>1, <1>2 DEF GuessesCounted
  <2>1. CASE c \in stored
    BY <2>1 DEF Counted, GuessesCounted
  <2>2. CASE compared[c] = 0
    BY <2>2, UndecidedCount DEF Typed, SignTypeOK, TokensTyped
  <2> QED BY <1>3, <2>1, <2>2
<1> QED BY <1>1, <1>4 DEF Counted, GuessesBounded

LEMMA CountedStep ==
  ASSUME Typed, Counted, [SignNext]_signVars
  PROVE  Counted'
<1> USE DEF tokenVars, accountVars, askVars, proofVars, history
<1>1. ASSUME NEW p \in Proofs, Complete(p)
      PROVE  Counted'
  <2>0. OthersStay(p)
    BY <1>1, OthersUntouched
  <2>1. /\ compared \in [Challenges -> Nat] /\ attempts \in [Challenges -> Nat] /\ used \in [Challenges -> BOOLEAN]
        /\ aborts \in Nat /\ pc \in [Proofs -> Steps] /\ hand \in [Proofs -> 0..minted]
    BY BoundsAreNumbers DEF Typed, SignTypeOK, TokensTyped, CompletionsTyped
  <2>2. ASSUME UNCHANGED <<compared, aborts, attempts, stored>>, \A c \in Challenges : used[c] => used'[c],
               \A c \in Challenges : c \in stored /\ ~used'[c] => p \notin Undecided(c) \/ p \in Undecided(c)'
        PROVE  Counted'
    <3> SUFFICES ASSUME NEW c \in Challenges, c \in stored, ~used'[c]
                 PROVE  compared[c] =< attempts[c] + Cardinality(Undecided(c)') + aborts
      BY <2>2 DEF Counted, GuessesBounded, GuessesCounted
    <3>1. Cardinality(Undecided(c)') >= Cardinality(Undecided(c))
      BY <2>0, <2>2, UndecidedSteps
    <3>2. compared[c] =< attempts[c] + Cardinality(Undecided(c)) + aborts
      BY <2>2 DEF Counted, GuessesCounted
    <3> QED BY <2>1, <3>1, <3>2, UndecidedCount
  <2>3. CASE LinkRead(p)
    <3>1. \A c \in Challenges : p \notin Undecided(c)
      BY <2>3 DEF LinkRead, Undecided
    <3> QED BY <2>2, <2>3, <3>1 DEF LinkRead
  <2>4. CASE CodeRead(p)
    <3>1. PICK e \in {x \in Emails : LiveFor(x) # {}} :
            LET c == Newest(LiveFor(e))
            IN /\ attempts[c] < MaxAttempts
               /\ Hold(p, c)
               /\ compared' = [compared EXCEPT ![c] = @ + 1]
               /\ \E right \in BOOLEAN : Go(p, IF right THEN "consume" ELSE "bump")
      BY <2>4 DEF CodeRead
    <3>2. LiveFor(e) \in SUBSET Challenges /\ LiveFor(e) # {}
      <4>1. 1..minted \subseteq Challenges
        BY BoundsAreNumbers DEF Typed, SignTypeOK, TokensTyped, Challenges
      <4> QED BY <3>1, <4>1 DEF LiveFor, Typed, SignTypeOK, TokensTyped
    <3>3. Newest(LiveFor(e)) \in LiveFor(e)
      BY <3>2, NewestIsMember DEF Typed, SignTypeOK, TokensTyped
    <3>4. PICK c \in Challenges : c = Newest(LiveFor(e)) /\ c \in stored /\ ~used[c]
      BY <3>2, <3>3 DEF LiveFor, Live
    <3>5. attempts[c] < MaxAttempts /\ Hold(p, c) /\ compared' = [compared EXCEPT ![c] = @ + 1]
      BY <3>1, <3>4
    <3>6. pc'[p] \in {"bump", "consume"}
      BY <2>1, <3>1 DEF Go
    <3>7. hand'[p] = c /\ pc[p] = "idle" /\ UNCHANGED <<attempts, used, stored, aborts>>
      BY <2>1, <2>4, <3>5 DEF Hold, CodeRead
    <3>8. p \in Undecided(c)' /\ \A d \in Challenges : p \notin Undecided(d)
      BY <3>6, <3>7 DEF Undecided
    <3>9. compared[c] =< attempts[c] + Cardinality(Undecided(c)) + aborts
      BY <3>4 DEF Counted, GuessesCounted
    <3>10. Cardinality(Undecided(c)') = Cardinality(Undecided(c)) + 1
      BY <2>0, <3>8, UndecidedSteps
    <3>11. Cardinality(Undecided(c)) =< Cardinality(Proofs) - 1
      <4>1. Undecided(c) \in SUBSET (Proofs \ {p}) /\ IsFiniteSet(Proofs \ {p})
        BY <3>8, ProofsAreFinite, FS_RemoveElement, <3>4 DEF Undecided
      <4>2. Cardinality(Undecided(c)) =< Cardinality(Proofs \ {p})
        BY <4>1, FS_Subset
      <4>3. Cardinality(Proofs \ {p}) = Cardinality(Proofs) - 1
        BY ProofsAreFinite, FS_RemoveElement
      <4> QED BY <4>2, <4>3
    <3>12. GuessesBounded'
      <4> SUFFICES ASSUME NEW d \in Challenges
                   PROVE  compared'[d] =< MaxAttempts + Cardinality(Proofs) - 1 + aborts
        BY <3>7 DEF GuessesBounded
      <4>1. CASE d = c
        <5>1. compared'[d] = compared[c] + 1
          BY <2>1, <3>4, <3>5, <4>1
        <5> QED BY <2>1, <3>4, <3>5, <3>9, <3>11, <5>1, BoundsAreNumbers, UndecidedCount, ProofsAreFinite
      <4>2. CASE d # c
        BY <2>1, <3>5, <4>2 DEF Counted, GuessesBounded
      <4> QED BY <4>1, <4>2
    <3>13. GuessesCounted'
      <4> SUFFICES ASSUME NEW d \in Challenges, d \in stored, ~used[d]
                   PROVE  compared'[d] =< attempts[d] + Cardinality(Undecided(d)') + aborts
        BY <3>7 DEF GuessesCounted
      <4>1. CASE d = c
        <5>1. compared'[d] = compared[c] + 1
          BY <2>1, <3>4, <3>5, <4>1
        <5> QED BY <2>1, <3>4, <3>9, <3>10, <4>1, <5>1, UndecidedCount
      <4>2. CASE d # c
        <5>1. compared'[d] = compared[d] /\ compared[d] =< attempts[d] + Cardinality(Undecided(d)) + aborts
          BY <2>1, <3>5, <4>2 DEF Counted, GuessesCounted
        <5>2. Cardinality(Undecided(d)') >= Cardinality(Undecided(d))
          BY <2>0, <3>8, UndecidedSteps
        <5> QED BY <2>1, <5>1, <5>2, UndecidedCount
      <4> QED BY <4>1, <4>2
    <3> QED BY <3>12, <3>13 DEF Counted
  <2>5. CASE Bump(p)
    <3> DEFINE c == hand[p]
    <3>1. c \in Challenges
      BY <2>5, HeldRowIsUsed DEF Bump
    <3>2. UNCHANGED <<compared, aborts, stored, used>> /\ attempts' = [attempts EXCEPT ![c] = @ + 1]
      BY <2>5 DEF Bump
    <3>3. GuessesCounted'
      <4> SUFFICES ASSUME NEW d \in Challenges, d \in stored, ~used[d]
                   PROVE  compared[d] =< attempts'[d] + Cardinality(Undecided(d)') + aborts
        BY <3>2 DEF GuessesCounted
      <4>0. compared[d] =< attempts[d] + Cardinality(Undecided(d)) + aborts
        BY DEF Counted, GuessesCounted
      <4>1. CASE d = c
        <5>1. attempts'[d] = attempts[d] + 1 /\ Cardinality(Undecided(d)') >= Cardinality(Undecided(d)) - 1
          BY <2>0, <2>1, <3>2, <4>1, UndecidedSteps
        <5> QED BY <2>1, <4>0, <5>1, UndecidedCount
      <4>2. CASE d # c
        <5>1. attempts'[d] = attempts[d] /\ Cardinality(Undecided(d)') >= Cardinality(Undecided(d))
          BY <2>0, <2>1, <3>2, <4>2, UndecidedSteps DEF Undecided
        <5> QED BY <2>1, <4>0, <5>1, UndecidedCount
      <4> QED BY <4>1, <4>2
    <3> QED BY <3>2, <3>3 DEF Counted, GuessesBounded
  <2>6. CASE Burn(p)
    <3>1. \A c \in Challenges : p \notin Undecided(c)
      BY <2>6 DEF Burn, Undecided
    <3> QED BY <2>1, <2>2, <2>6, <3>1 DEF Burn
  <2>7. CASE Consume(p)
    <3>1. UNCHANGED <<compared, aborts, attempts, stored>> /\ \A c \in Challenges : used[c] => used'[c]
      BY <2>1, <2>7 DEF Consume
    <3>2. \A c \in Challenges : c \in stored /\ ~used'[c] => p \notin Undecided(c)
      <4>1. hand[p] \in Challenges
        BY <2>7, HeldRowIsUsed DEF Consume
      <4>2. CASE Claims(hand[p])
        <5>1. used'[hand[p]]
          BY <2>1, <2>7, <4>1, <4>2 DEF Consume
        <5> QED BY <5>1 DEF Undecided
      <4>3. CASE ~Claims(hand[p])
        BY <3>1, <4>1, <4>3 DEF Claims, Undecided
      <4> QED BY <4>2, <4>3
    <3> QED BY <2>2, <3>1, <3>2
  <2>8. CASE FindUser(p) \/ CreateUser(p) \/ CreateAccount(p) \/ AddMember(p) \/ CreateSession(p)
    <3>1. \A c \in Challenges : p \notin Undecided(c)
      BY <2>8 DEF FindUser, CreateUser, CreateAccount, AddMember, CreateSession, Undecided
    <3>2. UNCHANGED <<compared, aborts, attempts, stored, used>>
      BY <2>8 DEF FindUser, CreateUser, CreateAccount, AddMember, CreateSession
    <3> QED BY <2>2, <3>1, <3>2
  <2>9. CASE Stop(p)
    <3>1. UNCHANGED <<compared, attempts, stored, used>> /\ aborts' = aborts + 1
      BY <2>9 DEF Stop
    <3>2. GuessesCounted'
      <4> SUFFICES ASSUME NEW d \in Challenges, d \in stored, ~used[d]
                   PROVE  compared[d] =< attempts[d] + Cardinality(Undecided(d)') + aborts + 1
        BY <2>1, <3>1, UndecidedCount DEF GuessesCounted
      <4>1. compared[d] =< attempts[d] + Cardinality(Undecided(d)) + aborts
        BY DEF Counted, GuessesCounted
      <4>2. Cardinality(Undecided(d)') >= Cardinality(Undecided(d)) - 1
        BY <2>0, UndecidedSteps
      <4> QED BY <2>1, <4>1, <4>2, UndecidedCount
    <3>3. GuessesBounded'
      <4> SUFFICES ASSUME NEW d \in Challenges
                   PROVE  compared[d] =< MaxAttempts + Cardinality(Proofs) - 1 + (aborts + 1)
        BY <3>1 DEF GuessesBounded
      <4>1. compared[d] =< MaxAttempts + Cardinality(Proofs) - 1 + aborts
        BY DEF Counted, GuessesBounded
      <4> QED BY <2>1, <4>1, BoundsAreNumbers, ProofsAreFinite
    <3> QED BY <3>2, <3>3 DEF Counted
  <2> QED BY <1>1, <2>3, <2>4, <2>5, <2>6, <2>7, <2>8, <2>9 DEF Complete
<1> QED BY <1>1, CountedElsewhere DEF SignNext

\* The requests that were counted and whose row is not written yet.
Counting == {a \in Asks : askPc[a] = "mint"}

\* The rows of the last day are all there: the purge keeps them.
LedgerKept == \A c \in 1..minted : made[c] >= clock - Day => c \in stored

\* The mails of a window, with those about to be recorded, stay within its cap.
Within(window, cap) == SentSince(clock - window) + Cardinality(Counting) =< cap + Cardinality(Asks) - 1

SentBounded == LedgerKept /\ Within(Hour, HourCap) /\ Within(Day, DayCap)

SentRows(t) == {c \in 1..minted : made[c] >= t}

LEMMA AsksAreFinite ==
  /\ IsFiniteSet(Asks) /\ Cardinality(Asks) \in Nat
  /\ IsFiniteSet(Counting) /\ Cardinality(Counting) \in Nat /\ Cardinality(Counting) =< Cardinality(Asks)
<1>1. IsFiniteSet(Asks)
  BY SignInAssumption
<1>2. Counting \in SUBSET Asks
  BY DEF Counting
<1>3. IsFiniteSet(Counting) /\ Cardinality(Counting) =< Cardinality(Asks)
  BY <1>1, <1>2, FS_Subset
<1> QED BY <1>1, <1>3, FS_CardinalityType

LEMMA SentRowsAreFinite ==
  ASSUME NEW t, minted \in Nat
  PROVE  IsFiniteSet(SentRows(t)) /\ Cardinality(SentRows(t)) \in Nat
<1>1. IsFiniteSet(1..minted)
  BY FS_Interval
<1>2. SentRows(t) \in SUBSET (1..minted)
  BY DEF SentRows
<1>3. IsFiniteSet(SentRows(t))
  BY <1>1, <1>2, FS_Subset
<1> QED BY <1>3, FS_CardinalityType

\* The three kinds of step: a request is counted, a row is written, and anything else.
LEMMA CountedWithin ==
  ASSUME Typed, LedgerKept, NEW a \in Asks, AskCheck(a), NEW window \in Nat, window =< Day, NEW cap \in Nat \ {0},
         CountRecent(clock - window) < cap
  PROVE  Within(window, cap)'
<1>1. minted \in Nat /\ stored \subseteq 1..minted /\ made \in [Challenges -> Moments] /\ clock \in Nat
  BY BoundsAreNumbers DEF Typed, SignTypeOK, TokensTyped, Moments
<1>2. {c \in stored : made[c] >= clock - window} = SentRows(clock - window)
  <2>1. \A c \in 1..minted : made[c] \in Nat
    BY <1>1, BoundsAreNumbers DEF Typed, SignTypeOK, TokensTyped, Challenges, Moments
  <2>2. \A c \in 1..minted : made[c] >= clock - window => c \in stored
    BY <1>1, <2>1, BoundsAreNumbers DEF LedgerKept
  <2> QED BY <1>1, <2>2 DEF SentRows
<1>3. SentSince(clock - window)' = Cardinality(SentRows(clock - window))
  BY DEF AskCheck, tokenVars, SentSince, SentRows
<1>4. Cardinality(Counting') =< Cardinality(Asks) /\ Cardinality(Counting') \in Nat
  <2>1. Counting' \in SUBSET Asks
    BY DEF Counting
  <2> QED BY <2>1, AsksAreFinite, FS_Subset, FS_CardinalityType
<1>5. Cardinality(SentRows(clock - window)) < cap
  BY <1>2 DEF CountRecent
<1> QED BY <1>1, <1>3, <1>4, <1>5, SentRowsAreFinite, AsksAreFinite DEF Within

LEMMA WrittenWithin ==
  ASSUME Typed, NEW a \in Asks, AskMint(a), NEW window \in Nat, NEW cap \in Nat, Within(window, cap)
  PROVE  Within(window, cap)'
<1> DEFINE c == minted + 1
           T == clock - window
<1>1. /\ minted \in Nat /\ clock \in Nat /\ c \in Challenges
      /\ made \in [Challenges -> Moments] /\ made' = [made EXCEPT ![c] = clock] /\ minted' = c /\ clock' = clock
  BY BoundsAreNumbers DEF AskMint, Typed, SignTypeOK, TokensTyped, Moments
<1>2. SentRows(T)' = SentRows(T) \cup {c}
  <2>1. made'[c] = clock /\ \A d \in 1..minted : d \in Challenges /\ d # c /\ made'[d] = made[d]
    BY <1>1, BoundsAreNumbers DEF Challenges
  <2>2. 1..minted' = (1..minted) \cup {c} /\ clock >= T
    BY <1>1
  <2>3. SentRows(T)' = {d \in 1..minted' : made'[d] >= T}
    BY <1>1 DEF SentRows
  <2> QED BY <2>1, <2>2, <2>3 DEF SentRows
<1>3. c \notin SentRows(T)
  BY <1>1 DEF SentRows
<1>4. Cardinality(SentRows(T)') = Cardinality(SentRows(T)) + 1 /\ Cardinality(SentRows(T)) \in Nat
  BY <1>1, <1>2, <1>3, SentRowsAreFinite, FS_AddElement
<1>5. Counting' = Counting \ {a} /\ a \in Counting
  BY DEF AskMint, Counting, Typed, SignTypeOK, AsksTyped
<1>6. Cardinality(Counting') = Cardinality(Counting) - 1
  BY <1>5, AsksAreFinite, FS_RemoveElement
<1>7. SentSince(T) = Cardinality(SentRows(T)) /\ SentSince(clock - window)' = Cardinality(SentRows(T)')
  BY <1>1 DEF SentSince, SentRows
<1> QED BY <1>4, <1>6, <1>7, AsksAreFinite DEF Within

LEMMA OthersWithin ==
  ASSUME Typed, NEW window \in Nat, NEW cap \in Nat, Within(window, cap),
         UNCHANGED <<minted, made>>, clock' \in Nat, clock' >= clock, Counting' = Counting
  PROVE  Within(window, cap)'
<1>1. minted \in Nat /\ clock \in Nat /\ \A c \in 1..minted : made[c] \in Nat
  BY BoundsAreNumbers DEF Typed, SignTypeOK, TokensTyped, Moments, Challenges
<1>2. SentRows(clock - window)' \in SUBSET SentRows(clock - window)
  BY <1>1 DEF SentRows
<1>3. Cardinality(SentRows(clock - window)') =< Cardinality(SentRows(clock - window))
  BY <1>1, <1>2, SentRowsAreFinite, FS_Subset
<1>4. Cardinality(SentRows(clock - window)') \in Nat /\ Cardinality(SentRows(clock - window)) \in Nat
  BY <1>1, <1>2, SentRowsAreFinite, FS_Subset, FS_CardinalityType
<1> QED BY <1>3, <1>4, AsksAreFinite DEF Within, SentSince, SentRows

LEMMA SentStep ==
  ASSUME Typed, SentBounded, [SignNext]_signVars
  PROVE  SentBounded'
<1> USE DEF tokenVars, accountVars, askVars, proofVars, history
<1>0. /\ minted \in Nat /\ clock \in Nat /\ stored \subseteq 1..minted
      /\ \A c \in 1..minted : c \in Challenges /\ made[c] \in Nat
  BY BoundsAreNumbers DEF Typed, SignTypeOK, TokensTyped, Moments, Challenges
<1>1. ASSUME NEW a \in Asks, AskCheck(a)
      PROVE  SentBounded'
  <2>1. CountRecent(clock - Hour) < HourCap /\ CountRecent(clock - Day) < DayCap
    BY <1>1 DEF AskCheck, MayAsk
  <2>2. Within(Hour, HourCap)' /\ Within(Day, DayCap)'
    BY <1>1, <2>1, CountedWithin, BoundsAreNumbers DEF SentBounded
  <2> QED BY <1>1, <2>2 DEF AskCheck, SentBounded, LedgerKept
<1>2. ASSUME NEW a \in Asks, AskMint(a)
      PROVE  SentBounded'
  <2>1. Within(Hour, HourCap)' /\ Within(Day, DayCap)'
    BY <1>2, WrittenWithin, BoundsAreNumbers DEF SentBounded
  <2>2. LedgerKept'
    <3> SUFFICES ASSUME NEW c \in 1..minted', made'[c] >= clock' - Day
                 PROVE  c \in stored'
      BY DEF LedgerKept
    <3>1. stored' = stored \cup {minted + 1} /\ minted' = minted + 1 /\ clock' = clock
      BY <1>2 DEF AskMint
    <3>2. CASE c = minted + 1
      BY <3>1, <3>2
    <3>3. CASE c # minted + 1
      <4>1. c \in 1..minted /\ made'[c] = made[c]
        BY <1>0, <1>2, <3>1, <3>3 DEF AskMint, Typed, SignTypeOK, TokensTyped
      <4> QED BY <3>1, <4>1 DEF SentBounded, LedgerKept
    <3> QED BY <3>2, <3>3
  <2> QED BY <2>1, <2>2 DEF SentBounded
<1>3. CASE \/ \E a \in Asks : AskSend(a)
           \/ \E p \in Proofs : Complete(p)
           \/ Logout \/ Purge \/ ClaimOwner \/ Tick \/ UNCHANGED signVars
  <2>1. UNCHANGED <<minted, made>> /\ clock' \in {clock, clock + 1}
    BY <1>3 DEF AskSend, Complete, LinkRead, CodeRead, Bump, Burn, Consume, FindUser, CreateUser, CreateAccount,
                AddMember, CreateSession, Stop, Logout, Purge, ClaimOwner, Tick, signVars
  <2>2. Counting' = Counting
    <3>1. CASE UNCHANGED askPc
      BY <3>1 DEF Counting
    <3>2. ASSUME NEW a \in Asks, AskSend(a)
          PROVE  Counting' = Counting
      BY <3>2 DEF AskSend, Counting, Typed, SignTypeOK, AsksTyped
    <3> QED BY <1>3, <3>1, <3>2
            DEF Complete, LinkRead, CodeRead, Bump, Burn, Consume, FindUser, CreateUser, CreateAccount,
                AddMember, CreateSession, Stop, Logout, Purge, ClaimOwner, Tick, signVars
  <2>3. clock' \in Nat /\ clock' >= clock
    BY <1>0, <2>1
  <2>4. Within(Hour, HourCap)' /\ Within(Day, DayCap)'
    BY <2>1, <2>2, <2>3, OthersWithin, BoundsAreNumbers DEF SentBounded
  <2>5. \A c \in stored : made[c] >= clock - Day => c \in stored'
    BY <1>3 DEF AskSend, Complete, LinkRead, CodeRead, Bump, Burn, Consume, FindUser, CreateUser, CreateAccount,
                AddMember, CreateSession, Stop, Logout, Purge, KeepSince, ClaimOwner, Tick, signVars
  <2>6. LedgerKept'
    BY <1>0, <2>1, <2>3, <2>5, BoundsAreNumbers DEF SentBounded, LedgerKept
  <2> QED BY <2>4, <2>6 DEF SentBounded
<1> QED BY <1>1, <1>2, <1>3 DEF SignNext, Ask

LEMMA SentInit == SignInit => SentBounded
<1> SUFFICES ASSUME SignInit PROVE SentBounded
  OBVIOUS
<1>1. Counting = {} /\ minted = 0
  BY DEF SignInit, Counting
<1>2. SentRows(clock - Hour) = {} /\ SentRows(clock - Day) = {}
  BY <1>1 DEF SentRows
<1> QED BY <1>1, <1>2, FS_EmptySet, AsksAreFinite, BoundsAreNumbers DEF SentBounded, LedgerKept, Within, SentSince, SentRows

\* However many requests compare codes or ask for mails at once, and wherever they stop: codes
\* compared with a challenge exceed the limit by at most the requests that compared at the same
\* time and those that stopped; mails of any hour and of any day exceed their caps by at most
\* the requests that were counted at the same time.
THEOREM LimitsAreHeld == SignSpec => []LimitsHeld
<1>1. SignInit => Counted /\ SentBounded
  BY CountedInit, SentInit
<1>2. Typed /\ Counted /\ SentBounded /\ [SignNext]_signVars => Counted' /\ SentBounded'
  BY CountedStep, SentStep
<1>3. Typed /\ Counted /\ SentBounded => LimitsHeld
  <2> SUFFICES ASSUME Typed, Counted, SentBounded PROVE LimitsHeld
    OBVIOUS
  <2>1. minted \in Nat
    BY BoundsAreNumbers DEF Typed, SignTypeOK, TokensTyped
  <2>2. SentSince(clock - Hour) \in Nat /\ SentSince(clock - Day) \in Nat
    BY <2>1, SentRowsAreFinite DEF SentSince, SentRows
  <2> QED BY <2>2, AsksAreFinite, BoundsAreNumbers DEF Counted, SentBounded, Within, LimitsHeld, SendCapsHeld
<1> QED BY <1>1, <1>2, <1>3, AlwaysTyped, PTL DEF SignSpec

=============================================================================
