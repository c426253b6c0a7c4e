------------------------------- MODULE Sessions -------------------------------
(***************************************************************************)
(* Sign-in sessions, from the rows of auth_sessions to the tabs of one     *)
(* browser: sign-in, the rotation of the refresh token, sign-out, a        *)
(* customer's password reset and an account's deactivation on the server;  *)
(* the shared cookie, the in-memory access tokens, the single-flight       *)
(* refresh with its one retry, and the bootstrap of a page on the client.  *)
(*                                                                         *)
(* A refresh token, its row and the access token issued with it have one   *)
(* name, the session.  An exchange with the server is three steps: sent,   *)
(* handled there, answered; a refresh is handled in two, since its         *)
(* transaction holds the row between the claim and the commit.             *)
(***************************************************************************)
EXTENDS Integers

CONSTANTS
    Users,
    Sessions,       \* bound: the rows ever created
    Tabs,           \* tabs of one browser: they share its cookies
    Calls,          \* requests in progress
    PageOf,         \* the tab that makes a request
    MaxChanges,     \* bound: resets and (de)activations of an account
    NetworkFails,   \* whether an exchange may fail or lose its answer
    None

ASSUME NamesAssumption ==
    /\ None \notin Users \union Sessions \union Tabs
    /\ PageOf \in [Calls -> Tabs]
    /\ MaxChanges \in Nat
    /\ NetworkFails \in BOOLEAN

VARIABLES
    account,    \* users: is_active, and the version of the password
    session,    \* auth_sessions
    holder,     \* the tab whose refresh transaction holds the row
    resetting,  \* the rows a reset's statement found live, while it runs; else None
    stale,      \* sessions whose access token has expired
    adrift,     \* live sessions with a refresh on its way that no page awaits
    cookie,     \* refresh_token in the browser
    tab,        \* auth slice and access token of a page
    refresh,    \* the page's inFlightRefresh
    sign,       \* the page's login or logout request
    call        \* any other request

vars == <<account, session, holder, resetting, stale, adrift, cookie, tab, refresh, sign, call>>
server == <<account, session, holder, resetting>>
requests == <<refresh, sign, call>>

MaybeSession == Sessions \union {None}
Versions == 0..MaxChanges

Account == [active : BOOLEAN, version : Versions, changes : Versions]
\* root: the sign-in a session descends from; version: the password shown then.
Row == [state : {"none", "live", "dead"}, user : Users \union {None},
        root : MaybeSession, version : Versions]
NoRow == [state |-> "none", user |-> None, root |-> None, version |-> 0]

Page == [status : {"unknown", "authenticated", "unauthenticated"},
         user : Users \union {None}, token : MaybeSession]
NewPage == [status |-> "unknown", user |-> None, token |-> None]

Refresh == [stage : {"idle", "sent", "claimed", "ok", "refused", "failed"},
            with : MaybeSession, new : MaybeSession]
NoRefresh == [stage |-> "idle", with |-> None, new |-> None]

Sign == [stage : {"idle", "login", "verified", "signed", "logout", "out", "failed"},
         user : Users \union {None}, version : Versions, with : MaybeSession]
NoSign == [stage |-> "idle", user |-> None, version |-> 0, with |-> None]

Call == [stage : {"idle", "sent", "ok", "refused", "failed", "waiting"},
         me : BOOLEAN, retry : BOOLEAN, token : MaybeSession]
NoCall == [stage |-> "idle", me |-> FALSE, retry |-> FALSE, token |-> None]

Live == {s \in Sessions : session[s].state = "live"}
Unused == {s \in Sessions : session[s].state = "none"}
UserOf(s) == session[s].user

\* A refresh that finds its row spent changes nothing, whenever it arrives.
DropSpent == adrift' = {s \in adrift : session'[s].state = "live"}

Init ==
    /\ account = [u \in Users |-> [active |-> TRUE, version |-> 0, changes |-> 0]]
    /\ session = [s \in Sessions |-> NoRow]
    /\ holder = [s \in Sessions |-> None]
    /\ resetting = [u \in Users |-> None]
    /\ stale = {}
    /\ adrift = {}
    /\ cookie = None
    /\ tab = [t \in Tabs |-> NewPage]
    /\ refresh = [t \in Tabs |-> NoRefresh]
    /\ sign = [t \in Tabs |-> NoSign]
    /\ call = [c \in Calls |-> NoCall]

-----------------------------------------------------------------------------
(* Accounts and time.                                                       *)

\* An administrator deactivates or reactivates the account; no session is touched.
SetActive(u, active) ==
    /\ account[u].active # active
    /\ account[u].changes < MaxChanges
    /\ account' = [account EXCEPT ![u].active = active, ![u].changes = @ + 1]
    /\ UNCHANGED <<session, holder, resetting, stale, adrift, cookie, tab, requests>>

\* The reset of a portal password: its updateMany reads the rows it will
\* revoke, then waits for each of them that a refresh holds.
StartReset(u) ==
    /\ account[u].changes < MaxChanges
    /\ resetting[u] = None
    /\ resetting' = [resetting EXCEPT ![u] = {s \in Live : UserOf(s) = u}]
    /\ account' = [account EXCEPT ![u].changes = @ + 1]
    /\ UNCHANGED <<session, holder, stale, adrift, cookie, tab, requests>>

CommitReset(u) ==
    /\ resetting[u] # None
    /\ \A s \in resetting[u] : holder[s] = None
    /\ session' = [s \in Sessions |->
                      IF s \in resetting[u] THEN [session[s] EXCEPT !.state = "dead"]
                                            ELSE session[s]]
    /\ account' = [account EXCEPT ![u].version = @ + 1]
    /\ resetting' = [resetting EXCEPT ![u] = None]
    /\ DropSpent
    /\ UNCHANGED <<holder, stale, cookie, tab, requests>>

\* expires_at passes, for every later statement that compares it with now.
SessionExpires(s) ==
    /\ s \in Live
    /\ holder[s] = None
    /\ session' = [session EXCEPT ![s].state = "dead"]
    /\ DropSpent
    /\ UNCHANGED <<account, holder, resetting, stale, cookie, tab, requests>>

\* Fifteen minutes pass for a token some page holds.
TokenExpires(s) ==
    /\ s \notin stale
    /\ \E t \in Tabs : tab[t].token = s
    /\ stale' = stale \union {s}
    /\ UNCHANGED <<server, adrift, cookie, tab, requests>>

-----------------------------------------------------------------------------
(* refreshSession: one transaction.                                         *)

MayConsume(s) == s \in Live /\ holder[s] = None

\* A page's refresh that is sent and that the server has not begun.
OnTheWay(t) == {s \in Live : refresh[t].stage = "sent" /\ s = refresh[t].with}

Claim(t) ==
    /\ refresh[t].stage = "sent"
    /\ MayConsume(refresh[t].with)
    /\ holder' = [holder EXCEPT ![refresh[t].with] = t]
    /\ refresh' = [refresh EXCEPT ![t].stage = "claimed"]
    /\ UNCHANGED <<account, session, resetting, stale, adrift, cookie, tab, sign, call>>

\* No cookie, or no row matches: 401 and nothing changed.
ClaimNothing(t) ==
    /\ refresh[t].stage = "sent"
    /\ refresh[t].with \notin Live
    /\ refresh' = [refresh EXCEPT ![t].stage = "refused"]
    /\ UNCHANGED <<server, stale, adrift, cookie, tab, sign, call>>

Successor(s) == [session[s] EXCEPT !.state = "live"]

\* Mutant: the consumed token is left valid.
Unspent(s) == session

Spent(s) == [session EXCEPT ![s].state = "dead"]

Rotate(t) ==
    LET old == refresh[t].with IN
    /\ refresh[t].stage = "claimed"
    /\ account[UserOf(old)].active
    /\ \E new \in Unused :
          /\ session' = [Spent(old) EXCEPT ![new] = Successor(old)]
          /\ refresh' = [refresh EXCEPT ![t].stage = "ok", ![t].new = new]
    /\ holder' = [holder EXCEPT ![old] = None]
    /\ DropSpent
    /\ UNCHANGED <<account, resetting, stale, cookie, tab, sign, call>>

\* An inactive account: the session stays revoked and nothing replaces it.
RevokeOnly(t) ==
    LET old == refresh[t].with IN
    /\ refresh[t].stage = "claimed"
    /\ ~account[UserOf(old)].active
    /\ session' = Spent(old)
    /\ holder' = [holder EXCEPT ![old] = None]
    /\ refresh' = [refresh EXCEPT ![t].stage = "refused"]
    /\ DropSpent
    /\ UNCHANGED <<account, resetting, stale, cookie, tab, sign, call>>

\* The connection breaks before the server has begun, which it may yet do; or
\* the answer never arrives, or is a 5xx.
RefreshFails(t) ==
    /\ NetworkFails
    /\ refresh[t].stage \in {"sent", "ok", "refused"}
    /\ refresh' = [refresh EXCEPT ![t].stage = "failed"]
    /\ adrift' = adrift \union OnTheWay(t)
    /\ UNCHANGED <<server, stale, cookie, tab, sign, call>>

\* What was left on the way is served after all, and nobody is told.  For an
\* inactive account, or a sign-out, that is the end of the row: SessionExpires.
ServeAdrift(s) ==
    /\ s \in adrift
    /\ MayConsume(s)
    /\ account[UserOf(s)].active
    /\ \E new \in Unused : session' = [Spent(s) EXCEPT ![new] = Successor(s)]
    /\ DropSpent
    /\ UNCHANGED <<account, holder, resetting, stale, cookie, tab, requests>>

-----------------------------------------------------------------------------
(* The requests of a page.                                                  *)

CallsOf(t) == {c \in Calls : PageOf[c] = t}

\* Mutant: only one of the requests that wait is woken.
FirstWaiting(t) ==
    LET all == {c \in CallsOf(t) : call[c].stage = "waiting"} IN
    {c \in all : c = CHOOSE first \in all : TRUE}

Waiting(t) == {c \in CallsOf(t) : call[c].stage = "waiting"}

\* AuthBootstrapBoundary while the status is unknown (one query, deduplicated),
\* any page afterwards.
Send(c) ==
    LET page == tab[PageOf[c]] IN
    /\ call[c].stage = "idle"
    /\ \/ page.status = "unknown" /\ \A d \in CallsOf(PageOf[c]) : call[d].stage = "idle"
       \/ page.status = "authenticated"
    /\ call' = [call EXCEPT ![c] = [stage |-> "sent", me |-> page.status = "unknown",
                                    retry |-> FALSE, token |-> page.token]]
    /\ UNCHANGED <<server, stale, adrift, cookie, tab, refresh, sign>>

\* authenticate: the token is checked, then the user is read again.
Authentic(s) == s # None /\ s \notin stale /\ account[UserOf(s)].active

Serve(c) ==
    /\ call[c].stage = "sent"
    /\ call' = [call EXCEPT ![c].stage = IF Authentic(call[c].token) THEN "ok" ELSE "refused"]
    /\ UNCHANGED <<server, stale, adrift, cookie, tab, refresh, sign>>

CallFails(c) ==
    /\ NetworkFails
    /\ call[c].stage \in {"sent", "ok", "refused"}
    /\ call' = [call EXCEPT ![c].stage = "failed"]
    /\ UNCHANGED <<server, stale, adrift, cookie, tab, refresh, sign>>

SignedOut(page) == [page EXCEPT !.status = "unauthenticated", !.user = None]

\* A good answer, or an error that is not a 401: the identity of /auth/me is
\* kept, an error changes nothing.
Finish(c) ==
    LET t == PageOf[c]
        u == UserOf(call[c].token) IN
    /\ call[c].stage \in {"ok", "failed"}
    /\ call' = [call EXCEPT ![c] = NoCall]
    /\ IF call[c].stage = "ok" /\ call[c].me
          THEN tab' = [tab EXCEPT ![t].status = "authenticated", ![t].user = u]
          ELSE UNCHANGED tab
    /\ UNCHANGED <<server, stale, adrift, cookie, refresh, sign>>

\* The first 401 starts the page's refresh; later ones wait for the same.
AwaitRefresh(c) ==
    LET t == PageOf[c] IN
    /\ call[c].stage = "refused" /\ ~call[c].retry
    /\ call' = [call EXCEPT ![c].stage = "waiting"]
    /\ IF refresh[t].stage = "idle"
          THEN refresh' = [refresh EXCEPT ![t] = [stage |-> "sent", with |-> cookie, new |-> None]]
          ELSE UNCHANGED refresh
    /\ UNCHANGED <<server, stale, adrift, cookie, tab, sign>>

\* A 401 on the retry ends the session of the page.
GiveUp(c) ==
    /\ call[c].stage = "refused" /\ call[c].retry
    /\ call' = [call EXCEPT ![c] = NoCall]
    /\ tab' = [tab EXCEPT ![PageOf[c]] = SignedOut(@)]
    /\ UNCHANGED <<server, stale, adrift, cookie, refresh, sign>>

\* The new cookie and token arrive; everyone who waited retries once.
Refreshed(t) ==
    LET new == refresh[t].new IN
    /\ refresh[t].stage = "ok"
    /\ refresh' = [refresh EXCEPT ![t] = NoRefresh]
    /\ cookie' = new
    /\ tab' = [tab EXCEPT ![t].token = new]
    /\ call' = [c \in Calls |->
                   IF c \in Waiting(t)
                      THEN [call[c] EXCEPT !.stage = "sent", !.retry = TRUE, !.token = new]
                      ELSE call[c]]
    /\ UNCHANGED <<server, stale, adrift, sign>>

\* Any other outcome drops the token and signs the page out.
RefreshRefused(t) ==
    /\ refresh[t].stage \in {"refused", "failed"}
    /\ refresh' = [refresh EXCEPT ![t] = NoRefresh]
    /\ tab' = [tab EXCEPT ![t] = [SignedOut(@) EXCEPT !.token = None]]
    /\ call' = [c \in Calls |-> IF c \in Waiting(t) THEN NoCall ELSE call[c]]
    /\ UNCHANGED <<server, stale, adrift, cookie, sign>>

\* A reload forgets the page and its requests.  What the server has begun it
\* ends, so a claimed refresh is first answered and then forgotten; what it has
\* not begun it may yet serve.
Reload(t) ==
    /\ tab[t].status # "unknown"
    /\ refresh[t].stage # "claimed"
    /\ sign[t].stage # "verified"
    /\ tab' = [tab EXCEPT ![t] = NewPage]
    /\ refresh' = [refresh EXCEPT ![t] = NoRefresh]
    /\ sign' = [sign EXCEPT ![t] = NoSign]
    /\ call' = [c \in Calls |-> IF PageOf[c] = t THEN NoCall ELSE call[c]]
    /\ adrift' = adrift \union OnTheWay(t)
    /\ UNCHANGED <<server, stale, cookie>>

-----------------------------------------------------------------------------
(* Signing in and out.                                                      *)

Login(t, u) ==
    /\ tab[t].status = "unauthenticated"
    /\ sign[t].stage = "idle"
    /\ sign' = [sign EXCEPT ![t] = [stage |-> "login", user |-> u, version |-> 0, with |-> None]]
    /\ UNCHANGED <<server, stale, adrift, cookie, tab, refresh, call>>

\* login reads the user, and compares the password it read.
Verify(t) ==
    LET u == sign[t].user IN
    /\ sign[t].stage = "login"
    /\ sign' = IF account[u].active
                  THEN [sign EXCEPT ![t].stage = "verified", ![t].version = account[u].version]
                  ELSE [sign EXCEPT ![t].stage = "failed"]
    /\ UNCHANGED <<server, stale, adrift, cookie, tab, refresh, call>>

\* createAuthSession, in a transaction of its own.
CreateSession(t) ==
    /\ sign[t].stage = "verified"
    /\ \E new \in Unused :
          /\ session' = [session EXCEPT ![new] = [state |-> "live", user |-> sign[t].user,
                                                  root |-> new, version |-> sign[t].version]]
          /\ sign' = [sign EXCEPT ![t].stage = "signed", ![t].with = new]
    /\ UNCHANGED <<account, holder, resetting, stale, adrift, cookie, tab, refresh, call>>

SignedIn(t) ==
    /\ sign[t].stage = "signed"
    /\ sign' = [sign EXCEPT ![t] = NoSign]
    /\ cookie' = sign[t].with
    /\ tab' = [tab EXCEPT ![t] = [status |-> "authenticated", user |-> sign[t].user,
                                  token |-> sign[t].with]]
    /\ UNCHANGED <<server, stale, adrift, refresh, call>>

Logout(t) ==
    /\ tab[t].status = "authenticated"
    /\ sign[t].stage = "idle"
    /\ sign' = [sign EXCEPT ![t] = [stage |-> "logout", user |-> None, version |-> 0, with |-> cookie]]
    /\ UNCHANGED <<server, stale, adrift, cookie, tab, refresh, call>>

\* logout revokes the row of the cookie it was sent with, if it is live.
Revoke(t) ==
    LET s == sign[t].with IN
    /\ sign[t].stage = "logout"
    /\ s \in Live => holder[s] = None
    /\ session' = IF s \in Live THEN Spent(s) ELSE session
    /\ sign' = [sign EXCEPT ![t].stage = "out"]
    /\ DropSpent
    /\ UNCHANGED <<account, holder, resetting, stale, cookie, tab, refresh, call>>

LoggedOut(t) ==
    /\ sign[t].stage = "out"
    /\ sign' = [sign EXCEPT ![t] = NoSign]
    /\ cookie' = None
    /\ tab' = [tab EXCEPT ![t] = [SignedOut(@) EXCEPT !.token = None]]
    /\ UNCHANGED <<server, stale, adrift, refresh, call>>

SignFails(t) ==
    /\ NetworkFails
    /\ sign[t].stage \in {"login", "signed", "logout", "out"}
    /\ sign' = [sign EXCEPT ![t].stage = "failed"]
    /\ UNCHANGED <<server, stale, adrift, cookie, tab, refresh, call>>

\* A failed login changes nothing; a failed logout has dropped the token.
\* The page still shows what it showed.
SignFailed(t) ==
    /\ sign[t].stage = "failed"
    /\ sign' = [sign EXCEPT ![t] = NoSign]
    /\ tab' = IF sign[t].user = None THEN [tab EXCEPT ![t].token = None] ELSE tab
    /\ UNCHANGED <<server, stale, adrift, cookie, refresh, call>>

-----------------------------------------------------------------------------
Next ==
    \/ \E u \in Users : \/ \E active \in BOOLEAN : SetActive(u, active)
                        \/ StartReset(u) \/ CommitReset(u)
    \/ \E s \in Sessions : SessionExpires(s) \/ TokenExpires(s) \/ ServeAdrift(s)
    \/ \E t \in Tabs :
          \/ Claim(t) \/ ClaimNothing(t) \/ Rotate(t) \/ RevokeOnly(t) \/ RefreshFails(t)
          \/ Refreshed(t) \/ RefreshRefused(t) \/ Reload(t)
          \/ \E u \in Users : Login(t, u)
          \/ Verify(t) \/ CreateSession(t) \/ SignedIn(t)
          \/ Logout(t) \/ Revoke(t) \/ LoggedOut(t) \/ SignFails(t) \/ SignFailed(t)
    \/ \E c \in Calls :
          Send(c) \/ Serve(c) \/ CallFails(c) \/ Finish(c) \/ AwaitRefresh(c) \/ GiveUp(c)

Spec == Init /\ [][Next]_vars

-----------------------------------------------------------------------------
\* The types; the page shows a user exactly while it is authenticated.
TypeOK ==
    /\ account \in [Users -> Account]
    /\ session \in [Sessions -> Row]
    /\ holder \in [Sessions -> Tabs \union {None}]
    /\ resetting \in [Users -> (SUBSET Sessions) \union {None}]
    /\ stale \in SUBSET Sessions
    /\ adrift \in SUBSET Sessions
    /\ cookie \in MaybeSession
    /\ tab \in [Tabs -> Page]
    /\ \A t \in Tabs : tab[t].status = "authenticated" <=> tab[t].user # None
    /\ refresh \in [Tabs -> Refresh]
    /\ sign \in [Tabs -> Sign]
    /\ call \in [Calls -> Call]

\* However many tabs refresh one cookie at once, and whatever answers are lost,
\* a sign-in never has two sessions alive: a token is exchanged only once.
OneLivePerSignIn ==
    \A s1, s2 \in Live : session[s1].root = session[s2].root => s1 = s2

\* Every request a page makes ends, also those that wait for another's refresh.
EveryRequestEnds ==
    \A c \in Calls : call[c].stage # "idle" ~> (call[c].stage = "idle" \/ Unused = {})

=============================================================================
