------------------------------- MODULE SignIn -------------------------------
(***************************************************************************)
(* Sign-in by mailed challenge (services/auth.py, store/auth.py and the    *)
(* user and account part of store/accounts.py): a link and a code per      *)
(* challenge, single use, a limit on wrong codes, limits on mails sent,    *)
(* and the user, account and membership rows the first sign-in creates.    *)
(*                                                                         *)
(* The web server runs requests on a thread pool, each on a connection of  *)
(* its own, so every committed statement of a request is a step.           *)
(***************************************************************************)
EXTENDS Integers, FiniteSets

CONSTANTS
    Emails,
    Asks, Proofs,     \* requests for a challenge, and completions of one, in flight at once
    Claimed,          \* addresses the operator may attach to the owner account
    MaxChallenges, MaxAccounts, MaxClock, MaxAborts,    \* bounds
    MaxPerHour, HourCap, DayCap,    \* per address; all addresses, per hour and per day
    MaxAttempts,      \* wrong codes before a challenge is burned
    Ttl, Hour, Day, SessionTtl,     \* in ticks of the clock
    NoOne             \* not an address

ASSUME SignInAssumption ==
    /\ NoOne \notin Emails /\ Claimed \subseteq Emails
    /\ IsFiniteSet(Asks) /\ IsFiniteSet(Proofs)
    /\ {MaxChallenges, MaxClock, MaxAborts} \subseteq Nat
    /\ {MaxAccounts, MaxPerHour, HourCap, DayCap, MaxAttempts, Ttl, Hour, Day, SessionTtl} \subseteq Nat \ {0}
    /\ Ttl =< Hour /\ Hour =< Day

Challenges == 1..MaxChallenges    \* rows of login_tokens in the order of their rowid
Accounts == 1..MaxAccounts
Owner == 1                        \* DEFAULT_ACCOUNT_ID, there since migration 0017

VARIABLES
    clock,
    minted,                                   \* how many challenges there have been
    address, made, expires, attempts, used,   \* login_tokens
    stored, mailed,                           \* rows still there; mails that arrived
    users, members, opened,                   \* users; account_members; how many accounts rows
    sessions,                                 \* live rows of sessions, by the challenge that earned them
    askPc, askEmail, askNow, askRow,          \* each request_login
    pc, hand, who, home,                      \* each completion: its challenge, address and account
    aborts, granted, compared                 \* history: sessions per challenge, codes compared per challenge

tokenVars == <<minted, address, made, expires, attempts, used, stored, mailed>>
accountVars == <<users, members, opened>>
askVars == <<askPc, askEmail, askNow, askRow>>
proofVars == <<pc, hand, who, home>>
history == <<aborts, granted, compared>>
signVars == <<clock, tokenVars, accountVars, sessions, askVars, proofVars, history>>

Moments == 0..MaxClock
Sessions == [challenge : Challenges, user : Emails, account : Accounts, until : 0..MaxClock + SessionTtl]
Steps == {"idle", "bump", "burn", "consume", "find", "user", "account", "member", "session"}

TokensTyped ==
    /\ clock \in Moments /\ minted \in 0..MaxChallenges
    /\ address \in [Challenges -> Emails \cup {NoOne}] /\ made \in [Challenges -> Moments]
    /\ expires \in [Challenges -> 0..MaxClock + Ttl] /\ attempts \in [Challenges -> Nat]
    /\ used \in [Challenges -> BOOLEAN] /\ stored \subseteq 1..minted /\ mailed \subseteq 1..minted

AccountsTyped ==
    /\ users \subseteq Emails /\ members \subseteq users \X Accounts /\ opened \in Accounts
    /\ \A m \in members : m[2] =< opened
    /\ sessions \subseteq Sessions

AsksTyped ==
    /\ askPc \in [Asks -> {"idle", "mint", "send"}] /\ askEmail \in [Asks -> Emails \cup {NoOne}]
    /\ askNow \in [Asks -> Moments] /\ askRow \in [Asks -> 0..minted]

CompletionsTyped ==
    /\ pc \in [Proofs -> Steps] /\ hand \in [Proofs -> 0..minted]
    /\ who \in [Proofs -> Emails \cup {NoOne}] /\ home \in [Proofs -> 0..opened]
    /\ \A p \in Proofs :
          /\ pc[p] = "idle" <=> hand[p] = 0
          /\ pc[p] \in {"member", "session"} => home[p] # 0
          /\ pc[p] \in {"find", "user", "account", "member", "session"} => used[hand[p]]

SignTypeOK ==
    /\ TokensTyped /\ AccountsTyped /\ AsksTyped /\ CompletionsTyped
    /\ aborts \in 0..MaxAborts /\ granted \in [Challenges -> Nat] /\ compared \in [Challenges -> Nat]

SignInit ==
    /\ clock = 0 /\ minted = 0
    /\ address = [c \in Challenges |-> NoOne] /\ made = [c \in Challenges |-> 0]
    /\ expires = [c \in Challenges |-> 0] /\ attempts = [c \in Challenges |-> 0]
    /\ used = [c \in Challenges |-> FALSE] /\ stored = {} /\ mailed = {}
    /\ users = {} /\ members = {} /\ opened = Owner /\ sessions = {}
    /\ askPc = [a \in Asks |-> "idle"] /\ askEmail = [a \in Asks |-> NoOne] /\ askNow = [a \in Asks |-> 0]
    /\ askRow = [a \in Asks |-> 0]
    /\ pc = [p \in Proofs |-> "idle"] /\ hand = [p \in Proofs |-> 0]
    /\ who = [p \in Proofs |-> NoOne] /\ home = [p \in Proofs |-> 0]
    /\ aborts = 0 /\ granted = [c \in Challenges |-> 0] /\ compared = [c \in Challenges |-> 0]

Tick ==
    /\ clock < MaxClock /\ clock' = clock + 1
    /\ UNCHANGED <<tokenVars, accountVars, sessions, askVars, proofVars, history>>

(***************************************************************************)
(* request_login: count, mint, mail.                                       *)
(***************************************************************************)
CountRecent(since) == Cardinality({c \in stored : made[c] >= since})
CountRecentForEmail(e, since) == Cardinality({c \in stored : address[c] = e /\ made[c] >= since})

MayAsk(e) ==
    /\ CountRecentForEmail(e, clock - Hour) < MaxPerHour
    /\ CountRecent(clock - Hour) < HourCap
    /\ CountRecent(clock - Day) < DayCap

\* The three counts are separate SELECTs.  Counting at the first covers them: rows that come
\* in between only make the later counts larger, that is, refuse more.
AskCheck(a) ==
    /\ askPc[a] = "idle"
    /\ \E e \in Emails :
          /\ MayAsk(e)
          /\ askEmail' = [askEmail EXCEPT ![a] = e]
    /\ askPc' = [askPc EXCEPT ![a] = "mint"]
    /\ askNow' = [askNow EXCEPT ![a] = clock]
    /\ UNCHANGED <<clock, tokenVars, accountVars, sessions, askRow, proofVars, history>>

\* create_login_token stamps the row itself; the expiry was computed before the counts.
AskMint(a) ==
    LET c == minted + 1
    IN /\ askPc[a] = "mint" /\ c \in Challenges
       /\ minted' = c
       /\ address' = [address EXCEPT ![c] = askEmail[a]]
       /\ made' = [made EXCEPT ![c] = clock]
       /\ expires' = [expires EXCEPT ![c] = askNow[a] + Ttl]
       /\ stored' = stored \cup {c}
       /\ askPc' = [askPc EXCEPT ![a] = "send"] /\ askRow' = [askRow EXCEPT ![a] = c]
       /\ UNCHANGED <<clock, attempts, used, mailed, accountVars, sessions, askEmail, askNow, proofVars, history>>

\* The mail arrives or not; the row stays, and counts, either way.
AskSend(a) ==
    /\ askPc[a] = "send"
    /\ \E arrived \in {{}, {askRow[a]}} : mailed' = mailed \cup arrived
    /\ askPc' = [askPc EXCEPT ![a] = "idle"] /\ askRow' = [askRow EXCEPT ![a] = 0]
    /\ askEmail' = [askEmail EXCEPT ![a] = NoOne] /\ askNow' = [askNow EXCEPT ![a] = 0]
    /\ UNCHANGED <<clock, minted, address, made, expires, attempts, used, stored, accountVars, sessions,
                   proofVars, history>>

(***************************************************************************)
(* complete_with_token and complete_with_code.                             *)
(***************************************************************************)
Live(c) == c \in stored /\ ~used[c] /\ expires[c] > clock
LiveFor(e) == {c \in stored : address[c] = e /\ Live(c)}
Newest(S) == CHOOSE c \in S : \A d \in S : made[d] < made[c] \/ (made[d] = made[c] /\ d =< c)

Go(p, step) == pc' = [pc EXCEPT ![p] = step]
Hold(p, c) == hand' = [hand EXCEPT ![p] = c]

Leave(p) ==
    /\ Go(p, "idle") /\ Hold(p, 0)
    /\ who' = [who EXCEPT ![p] = NoOne] /\ home' = [home EXCEPT ![p] = 0]

\* The GET behind a link only looks (peek_token); this is the POST of its button.
LinkRead(p) ==
    /\ pc[p] = "idle"
    /\ \E c \in mailed : Live(c) /\ Hold(p, c) /\ who' = [who EXCEPT ![p] = address[c]]
    /\ Go(p, "consume")
    /\ UNCHANGED <<clock, tokenVars, accountVars, sessions, askVars, home, history>>

\* A code is compared with the newest live challenge of the address only.
CodeRead(p) ==
    /\ pc[p] = "idle"
    /\ \E e \in {x \in Emails : LiveFor(x) # {}} :
          LET c == Newest(LiveFor(e))
          IN /\ attempts[c] < MaxAttempts
             /\ Hold(p, c) /\ who' = [who EXCEPT ![p] = e]
             /\ compared' = [compared EXCEPT ![c] = @ + 1]
             /\ \E right \in BOOLEAN : (right => c \in mailed) /\ Go(p, IF right THEN "consume" ELSE "bump")
    /\ UNCHANGED <<clock, tokenVars, accountVars, sessions, askVars, home, aborts, granted>>

\* Mutant of Bump: every request writes one more than the count it compared under.
BumpOnce(p) ==
    /\ pc[p] = "bump"
    /\ attempts' = [attempts EXCEPT ![hand[p]] = 1]
    /\ IF attempts'[hand[p]] >= MaxAttempts
         THEN Go(p, "burn") /\ UNCHANGED <<hand, who, home>>
         ELSE Leave(p)
    /\ UNCHANGED <<clock, minted, address, made, expires, used, stored, mailed, accountVars, sessions,
                   askVars, history>>

\* The UPDATE counts in the database; the count that decides on burning is read after it.
Bump(p) ==
    /\ pc[p] = "bump"
    /\ attempts' = [attempts EXCEPT ![hand[p]] = @ + 1]
    /\ IF hand[p] \in stored /\ attempts'[hand[p]] >= MaxAttempts
         THEN Go(p, "burn") /\ UNCHANGED <<hand, who, home>>
         ELSE Leave(p)
    /\ UNCHANGED <<clock, minted, address, made, expires, used, stored, mailed, accountVars, sessions,
                   askVars, history>>

Burn(p) ==
    /\ pc[p] = "burn"
    /\ used' = [used EXCEPT ![hand[p]] = TRUE]
    /\ Leave(p)
    /\ UNCHANGED <<clock, minted, address, made, expires, attempts, stored, mailed, accountVars, sessions,
                   askVars, history>>

\* Mutant of Claims: the row is taken whether or not another request took it first.
ClaimsAlways(c) == c \in stored

\* UPDATE ... WHERE consumed_utc IS NULL: whether this request is the one that consumed the row.
Claims(c) == c \in stored /\ ~used[c]

Consume(p) ==
    /\ pc[p] = "consume"
    /\ IF Claims(hand[p])
         THEN /\ used' = [used EXCEPT ![hand[p]] = TRUE]
              /\ Go(p, "find") /\ UNCHANGED <<hand, who, home>>
         ELSE UNCHANGED used /\ Leave(p)
    /\ UNCHANGED <<clock, minted, address, made, expires, attempts, stored, mailed, accountVars, sessions,
                   askVars, history>>

(***************************************************************************)
(* ensure_user_with_account, then the session.                             *)
(***************************************************************************)
AccountsOf(e) == {k \in Accounts : <<e, k>> \in members}
Least(S) == CHOOSE k \in S : \A j \in S : k =< j

\* Mutant of FindUser: a user without an account gets the default one.
FindUserDefault(p) ==
    /\ pc[p] = "find"
    /\ IF who[p] \notin users
         THEN Go(p, "user") /\ UNCHANGED home
         ELSE Go(p, "session") /\ home' = [home EXCEPT ![p] = Least(AccountsOf(who[p]) \cup {Owner})]
    /\ UNCHANGED <<clock, tokenVars, accountVars, sessions, askVars, hand, who, history>>

\* A user without an account is given a new one; the lowest id wins otherwise.
FindUser(p) ==
    /\ pc[p] = "find"
    /\ CASE who[p] \notin users -> Go(p, "user") /\ UNCHANGED home
         [] who[p] \in users /\ AccountsOf(who[p]) = {} -> Go(p, "account") /\ UNCHANGED home
         [] OTHER -> Go(p, "session") /\ home' = [home EXCEPT ![p] = Least(AccountsOf(who[p]))]
    /\ UNCHANGED <<clock, tokenVars, accountVars, sessions, askVars, hand, who, history>>

\* The unique index on the address refuses the second of two: that request ends in an error.
CreateUser(p) ==
    /\ pc[p] = "user"
    /\ users' = users \cup {who[p]}
    /\ IF who[p] \in users THEN Leave(p) ELSE Go(p, "account") /\ UNCHANGED <<hand, who, home>>
    /\ UNCHANGED <<clock, tokenVars, members, opened, sessions, askVars, history>>

CreateAccount(p) ==
    /\ pc[p] = "account" /\ opened < MaxAccounts
    /\ opened' = opened + 1 /\ home' = [home EXCEPT ![p] = opened + 1]
    /\ Go(p, "member")
    /\ UNCHANGED <<clock, tokenVars, users, members, sessions, askVars, hand, who, history>>

AddMember(p) ==
    /\ pc[p] = "member"
    /\ members' = members \cup {<<who[p], home[p]>>}
    /\ Go(p, "session")
    /\ UNCHANGED <<clock, tokenVars, users, opened, sessions, askVars, hand, who, home, history>>

CreateSession(p) ==
    /\ pc[p] = "session"
    /\ sessions' = sessions \cup {[challenge |-> hand[p], user |-> who[p], account |-> home[p],
                                   until |-> clock + SessionTtl]}
    /\ granted' = [granted EXCEPT ![hand[p]] = @ + 1]
    /\ Leave(p)
    /\ UNCHANGED <<clock, tokenVars, accountVars, askVars, aborts, compared>>

\* A request stops between two commits: what it committed stays.
Stop(p) ==
    /\ pc[p] # "idle" /\ aborts < MaxAborts
    /\ aborts' = aborts + 1
    /\ Leave(p)
    /\ UNCHANGED <<clock, tokenVars, accountVars, sessions, askVars, granted, compared>>

(***************************************************************************)
(* Afterwards.                                                             *)
(***************************************************************************)
Logout ==
    /\ \E s \in sessions : sessions' = sessions \ {s}
    /\ UNCHANGED <<clock, tokenVars, accountVars, askVars, proofVars, history>>

\* Mutant of KeepSince: what has expired is of no more use.
KeepSinceNow == clock

\* _SEND_LEDGER_HOURS: the rows are also the ledger of the daily cap.
KeepSince == clock - Day

Purge ==
    /\ sessions' = {s \in sessions : s.until > clock}
    /\ stored' = {c \in stored : (expires[c] > clock /\ ~used[c]) \/ made[c] >= KeepSince}
    /\ UNCHANGED <<clock, minted, address, made, expires, attempts, used, mailed, accountVars,
                   askVars, proofVars, history>>

\* attach_user_to_account, run by the operator on a site that is not open yet.
ClaimOwner ==
    /\ \E e \in Claimed : users' = users \cup {e} /\ members' = members \cup {<<e, Owner>>}
    /\ UNCHANGED <<clock, tokenVars, opened, sessions, askVars, proofVars, history>>

Ask(a) == AskCheck(a) \/ AskMint(a) \/ AskSend(a)

Complete(p) ==
    \/ LinkRead(p) \/ CodeRead(p) \/ Bump(p) \/ Burn(p) \/ Consume(p)
    \/ FindUser(p) \/ CreateUser(p) \/ CreateAccount(p) \/ AddMember(p) \/ CreateSession(p)
    \/ Stop(p)

SignNext ==
    \/ \E a \in Asks : Ask(a)
    \/ \E p \in Proofs : Complete(p)
    \/ Logout \/ Purge \/ ClaimOwner \/ Tick

SignSpec == SignInit /\ [][SignNext]_signVars

(***************************************************************************)
(* Properties                                                              *)
(***************************************************************************)
\* A challenge earns at most one session, however many requests present its link and its
\* code at the same time (_consume_and_grant's consume-first order).
OneSessionPerChallenge == \A c \in Challenges : granted[c] =< 1

GuessesBounded ==
    \A c \in Challenges : compared[c] =< MaxAttempts + Cardinality(Proofs) - 1 + aborts

SentSince(t) == Cardinality({c \in 1..minted : made[c] >= t})
SendCapsHeld ==
    /\ SentSince(clock - Hour) =< HourCap + Cardinality(Asks) - 1
    /\ SentSince(clock - Day) =< DayCap + Cardinality(Asks) - 1

\* Codes compared with one challenge stay within the limit, but for the requests that were
\* past the check when it was reached and those that stopped before they counted: the count
\* lives in the row, not in the request.  Mails sent within any hour and any day stay within
\* the caps, but for the requests that were counted before a mail in flight was recorded;
\* the nightly purge takes nothing off.
LimitsHeld == GuessesBounded /\ SendCapsHeld

\* Every session acts on an account its user belongs to, also when an earlier sign-in of the
\* address stopped between its user, account and membership rows.
SessionsAreHoused == \A s \in sessions : <<s.user, s.account>> \in members

=============================================================================
