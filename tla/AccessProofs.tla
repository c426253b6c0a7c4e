------------------------------ MODULE AccessProofs ------------------------------
(***************************************************************************)
(* Proofs about who may sign in, and what for: Sessions, ManagementAccess  *)
(* and PortalAccounts, for any number of accounts, sessions, tabs, roles,  *)
(* customers, logins and requests.                                         *)
(*                                                                         *)
(* Sessions: the inductive invariant is Traceable.  Every name in a page,  *)
(* in a request or in the cookie is that of a row that was written, a row  *)
(* descends from a sign-in that was written, and a refresh that claimed a  *)
(* row still holds it, alive.                                              *)
(*                                                                         *)
(* Accounts: an active administrator remains as long as no update promotes *)
(* or reactivates; then the read before the transaction can only be stale  *)
(* in the harmless direction, and SERIALIZABLE isolation does the rest.    *)
(*                                                                         *)
(* Roles: replacements are never merged; a transaction either sees what it *)
(* replaces, or one that committed beside it has read and written the same *)
(* role, and the two antidependencies abort it.                            *)
(*                                                                         *)
(* Portal logins: every login has one customer.  The updates are READ      *)
(* COMMITTED, and all that keeps them apart is the condition of the one    *)
(* statement that links.                                                   *)
(***************************************************************************)
EXTENDS Sessions, ManagementAccess, PortalAccounts, TLAPS

-----------------------------------------------------------------------------
(* Sessions. *)

Issued(s) == s \in Sessions /\ session[s].state # "none"
MaybeWritten(s) == s = None \/ Issued(s)

RowsTraceable ==
    \A s \in Sessions : Issued(s) => UserOf(s) \in Users /\ Issued(session[s].root)

RefreshTraceable(t) ==
    /\ MaybeWritten(refresh[t].with)
    /\ refresh[t].stage = "ok" => Issued(refresh[t].new)
    /\ refresh[t].stage = "claimed" =>
          refresh[t].with \in Live /\ holder[refresh[t].with] = t

SignTraceable(t) ==
    /\ MaybeWritten(sign[t].with)
    /\ sign[t].stage = "signed" => Issued(sign[t].with)
    /\ sign[t].stage \in {"login", "verified", "signed"} => sign[t].user \in Users

CallTraceable(c) ==
    /\ MaybeWritten(call[c].token)
    /\ call[c].stage = "ok" => Issued(call[c].token)

ResetTraceable(u) ==
    /\ account[u].version <= account[u].changes
    /\ resetting[u] # None =>
          /\ account[u].version < account[u].changes
          /\ \A s \in resetting[u] : Issued(s)

Named ==
    /\ RowsTraceable
    /\ MaybeWritten(cookie)
    /\ \A t \in Tabs : MaybeWritten(tab[t].token) /\ RefreshTraceable(t) /\ SignTraceable(t)
    /\ \A c \in Calls : CallTraceable(c)
    /\ \A u \in Users : ResetTraceable(u)

Traceable == TypeOK /\ Named /\ OneLivePerSignIn

-----------------------------------------------------------------------------
(* Types.                                                                   *)

\* What the parts of a state have for types.
LEMMA Parts ==
    ASSUME TypeOK
    PROVE  /\ \A t \in Tabs : refresh[t] \in Refresh /\ tab[t] \in Page /\ sign[t] \in Sign
           /\ \A c \in Calls : call[c] \in Call /\ PageOf[c] \in Tabs
           /\ \A u \in Users : account[u] \in Account
           /\ \A s \in Sessions : session[s] \in Row
BY NamesAssumption DEF TypeOK

LEMMA InitTypeOK == Init => TypeOK
<1> SUFFICES ASSUME Init PROVE TypeOK
    OBVIOUS
<1> USE NamesAssumption
<1>1. account \in [Users -> Account] /\ resetting \in [Users -> (SUBSET Sessions) \union {None}]
    BY DEF Init, Account, Versions
<1>2. session \in [Sessions -> Row] /\ holder \in [Sessions -> Tabs \union {None}]
    BY DEF Init, Row, NoRow, MaybeSession, Versions
<1>3. /\ tab \in [Tabs -> Page]
      /\ \A t \in Tabs : tab[t].status = "authenticated" <=> tab[t].user # None
    BY DEF Init, Page, NewPage, MaybeSession
<1>4. refresh \in [Tabs -> Refresh]
    BY DEF Init, Refresh, NoRefresh, MaybeSession
<1>5. sign \in [Tabs -> Sign]
    BY DEF Init, Sign, NoSign, MaybeSession, Versions
<1>6. call \in [Calls -> Call]
    BY DEF Init, Call, NoCall, MaybeSession
<1> QED
    BY <1>1, <1>2, <1>3, <1>4, <1>5, <1>6 DEF Init, TypeOK, MaybeSession

LEMMA StepTypeOK == TypeOK /\ Named /\ [Next]_vars => TypeOK'
<1> SUFFICES ASSUME TypeOK, Named, [Next]_vars
             PROVE  TypeOK'
    OBVIOUS
<1> USE NamesAssumption, Parts
<1>1. ASSUME NEW u \in Users, NEW active \in BOOLEAN, SetActive(u, active)
      PROVE  TypeOK'
    <2>1. account' \in [Users -> Account]
        BY <1>1 DEF TypeOK, SetActive, Account, Versions
    <2> QED
        BY <1>1, <2>1 DEF TypeOK, SetActive, server, requests
<1>2. ASSUME NEW u \in Users, StartReset(u)
      PROVE  TypeOK'
    <2>1. account' \in [Users -> Account]
        BY <1>2 DEF TypeOK, StartReset, Account, Versions
    <2>2. resetting' \in [Users -> (SUBSET Sessions) \union {None}]
        BY <1>2 DEF TypeOK, StartReset, Live
    <2> QED
        BY <1>2, <2>1, <2>2 DEF TypeOK, StartReset, server, requests
<1>3. ASSUME NEW u \in Users, CommitReset(u)
      PROVE  TypeOK'
    <2>1. account' \in [Users -> Account]
        <3>1. account[u].version + 1 \in Versions
            BY <1>3 DEF CommitReset, Named, ResetTraceable, Account, Versions
        <3> QED
            BY <1>3, <3>1 DEF TypeOK, CommitReset, Account
    <2>2. session' \in [Sessions -> Row]
        BY <1>3 DEF TypeOK, CommitReset, Row, MaybeSession
    <2>3. resetting' \in [Users -> (SUBSET Sessions) \union {None}]
        BY <1>3 DEF TypeOK, CommitReset
    <2> QED
        BY <1>3, <2>1, <2>2, <2>3 DEF TypeOK, CommitReset, DropSpent, server, requests
<1>4. ASSUME NEW s \in Sessions, SessionExpires(s)
      PROVE  TypeOK'
    <2>1. session' \in [Sessions -> Row]
        BY <1>4 DEF TypeOK, SessionExpires, Row, MaybeSession
    <2> QED
        BY <1>4, <2>1 DEF TypeOK, SessionExpires, DropSpent, server, requests
<1>5. ASSUME NEW s \in Sessions, TokenExpires(s)
      PROVE  TypeOK'
    <2>1. stale' \in SUBSET Sessions
        BY <1>5 DEF TypeOK, TokenExpires
    <2> QED
        BY <1>5, <2>1 DEF TypeOK, TokenExpires, server, requests
<1>6. ASSUME NEW t \in Tabs, Claim(t)
      PROVE  TypeOK'
    <2>1. holder' \in [Sessions -> Tabs \union {None}]
        BY <1>6 DEF TypeOK, Claim, MayConsume, Live
    <2>2. refresh' \in [Tabs -> Refresh]
        BY <1>6 DEF TypeOK, Claim, Refresh, NoRefresh, MaybeSession
    <2> QED
        BY <1>6, <2>1, <2>2 DEF TypeOK, Claim, server, requests
<1>7. ASSUME NEW t \in Tabs, ClaimNothing(t)
      PROVE  TypeOK'
    <2>1. refresh' \in [Tabs -> Refresh]
        BY <1>7 DEF TypeOK, ClaimNothing, Refresh, NoRefresh, MaybeSession
    <2> QED
        BY <1>7, <2>1 DEF TypeOK, ClaimNothing, server, requests
<1>8. ASSUME NEW t \in Tabs, Rotate(t)
      PROVE  TypeOK'
    <2>1. session' \in [Sessions -> Row]
        <3>1. refresh[t].with \in Sessions
            BY <1>8 DEF Rotate, Named, RefreshTraceable, Live
        <3>2. Successor(refresh[t].with) \in Row
            BY <3>1 DEF Successor, Row
        <3>3. Spent(refresh[t].with) \in [Sessions -> Row]
            BY <3>1 DEF Spent, Row, TypeOK
        <3> QED
            BY <1>8, <3>2, <3>3 DEF Rotate, Unused
    <2>2. refresh' \in [Tabs -> Refresh]
        <3>1. PICK new \in Unused : refresh' = [refresh EXCEPT ![t].stage = "ok", ![t].new = new]
            BY <1>8 DEF Rotate
        <3>2. [refresh[t] EXCEPT !.stage = "ok", !.new = new] \in Refresh
            BY DEF Refresh, MaybeSession, Unused
        <3> QED
            BY <3>1, <3>2 DEF TypeOK
    <2>3. holder' \in [Sessions -> Tabs \union {None}]
        BY <1>8 DEF TypeOK, Rotate
    <2> QED
        BY <1>8, <2>1, <2>2, <2>3 DEF TypeOK, Rotate, DropSpent, server, requests
<1>9. ASSUME NEW t \in Tabs, RevokeOnly(t)
      PROVE  TypeOK'
    <2>1. session' \in [Sessions -> Row]
        BY <1>9 DEF TypeOK, RevokeOnly, Row, MaybeSession, Spent
    <2>2. refresh' \in [Tabs -> Refresh]
        BY <1>9 DEF TypeOK, RevokeOnly, Refresh, NoRefresh, MaybeSession
    <2>3. holder' \in [Sessions -> Tabs \union {None}]
        BY <1>9 DEF TypeOK, RevokeOnly
    <2> QED
        BY <1>9, <2>1, <2>2, <2>3 DEF TypeOK, RevokeOnly, DropSpent, server, requests
<1>10. ASSUME NEW t \in Tabs, RefreshFails(t)
       PROVE  TypeOK'
    <2>1. refresh' \in [Tabs -> Refresh]
        BY <1>10 DEF TypeOK, RefreshFails, Refresh, NoRefresh, MaybeSession
    <2> QED
        BY <1>10, <2>1 DEF TypeOK, RefreshFails, OnTheWay, Live, server, requests
<1>11. ASSUME NEW t \in Tabs, Refreshed(t)
       PROVE  TypeOK'
    <2>1. refresh' \in [Tabs -> Refresh]
        BY <1>11 DEF TypeOK, Refreshed, Refresh, NoRefresh, MaybeSession
    <2>2. cookie' \in MaybeSession
        BY <1>11 DEF TypeOK, Refreshed, MaybeSession, Refresh
    <2>3. /\ tab' \in [Tabs -> Page]
          /\ \A p \in Tabs : tab'[p].status = "authenticated" <=> tab'[p].user # None
        BY <1>11 DEF TypeOK, Refreshed, Page, NewPage, MaybeSession, Refresh
    <2>4. call' \in [Calls -> Call]
        <3>1. refresh[t].new \in MaybeSession
            BY DEF Refresh
        <3>2. \A d \in Calls : [call[d] EXCEPT !.stage = "sent", !.retry = TRUE,
                                            !.token = refresh[t].new] \in Call
            BY <3>1 DEF Call
        <3> QED
            BY <1>11, <3>2 DEF Refreshed
    <2> QED
        BY <1>11, <2>1, <2>2, <2>3, <2>4 DEF TypeOK, Refreshed, server, requests
<1>12. ASSUME NEW t \in Tabs, RefreshRefused(t)
       PROVE  TypeOK'
    <2>1. refresh' \in [Tabs -> Refresh]
        BY <1>12 DEF TypeOK, RefreshRefused, Refresh, NoRefresh, MaybeSession
    <2>2. /\ tab' \in [Tabs -> Page]
          /\ \A p \in Tabs : tab'[p].status = "authenticated" <=> tab'[p].user # None
        BY <1>12 DEF TypeOK, RefreshRefused, Page, NewPage, MaybeSession, SignedOut
    <2>3. call' \in [Calls -> Call]
        BY <1>12 DEF TypeOK, RefreshRefused, Call, NoCall, MaybeSession
    <2> QED
        BY <1>12, <2>1, <2>2, <2>3 DEF TypeOK, RefreshRefused, server, requests
<1>13. ASSUME NEW t \in Tabs, Reload(t)
       PROVE  TypeOK'
    <2>1. refresh' \in [Tabs -> Refresh]
        BY <1>13 DEF TypeOK, Reload, Refresh, NoRefresh, MaybeSession
    <2>2. /\ tab' \in [Tabs -> Page]
          /\ \A p \in Tabs : tab'[p].status = "authenticated" <=> tab'[p].user # None
        BY <1>13 DEF TypeOK, Reload, Page, NewPage, MaybeSession
    <2>3. sign' \in [Tabs -> Sign]
        BY <1>13 DEF TypeOK, Reload, Sign, NoSign, MaybeSession, Versions
    <2>4. call' \in [Calls -> Call]
        BY <1>13 DEF TypeOK, Reload, Call, NoCall, MaybeSession
    <2> QED
        BY <1>13, <2>1, <2>2, <2>3, <2>4 DEF TypeOK, Reload, OnTheWay, Live, server, requests
<1>14. ASSUME NEW t \in Tabs, NEW u \in Users, Login(t, u)
       PROVE  TypeOK'
    <2>1. sign' \in [Tabs -> Sign]
        BY <1>14 DEF TypeOK, Login, Sign, NoSign, MaybeSession, Versions
    <2> QED
        BY <1>14, <2>1 DEF TypeOK, Login, server, requests
<1>15. ASSUME NEW t \in Tabs, Verify(t)
       PROVE  TypeOK'
    <2>1. sign' \in [Tabs -> Sign]
        <3>1. account[sign[t].user].version \in Versions
            BY <1>15 DEF Verify, Named, SignTraceable, Account
        <3>2. [sign[t] EXCEPT !.stage = "verified",
                              !.version = account[sign[t].user].version] \in Sign
            BY <3>1 DEF Sign
        <3>3. [sign[t] EXCEPT !.stage = "failed"] \in Sign
            BY DEF Sign
        <3> QED
            BY <1>15, <3>2, <3>3 DEF TypeOK, Verify
    <2> QED
        BY <1>15, <2>1 DEF TypeOK, Verify, server, requests
<1>16. ASSUME NEW t \in Tabs, CreateSession(t)
       PROVE  TypeOK'
    <2>1. session' \in [Sessions -> Row]
        BY <1>16 DEF Named, TypeOK, CreateSession, Row, MaybeSession, Sign, SignTraceable, Unused
    <2>2. sign' \in [Tabs -> Sign]
        <3>1. PICK new \in Unused : sign' = [sign EXCEPT ![t].stage = "signed", ![t].with = new]
            BY <1>16 DEF CreateSession
        <3>2. [sign[t] EXCEPT !.stage = "signed", !.with = new] \in Sign
            BY DEF Sign, MaybeSession, Unused
        <3> QED
            BY <3>1, <3>2 DEF TypeOK
    <2> QED
        BY <1>16, <2>1, <2>2 DEF TypeOK, CreateSession, server, requests
<1>17. ASSUME NEW t \in Tabs, SignedIn(t)
       PROVE  TypeOK'
    <2>1. sign' \in [Tabs -> Sign]
        BY <1>17 DEF TypeOK, SignedIn, Sign, NoSign, MaybeSession, Versions
    <2>2. cookie' \in MaybeSession
        BY <1>17 DEF TypeOK, SignedIn, MaybeSession, Sign
    <2>3. /\ tab' \in [Tabs -> Page]
          /\ \A p \in Tabs : tab'[p].status = "authenticated" <=> tab'[p].user # None
        BY <1>17 DEF Named, TypeOK, SignedIn, Page, NewPage, MaybeSession, Sign, SignTraceable
    <2> QED
        BY <1>17, <2>1, <2>2, <2>3 DEF TypeOK, SignedIn, server, requests
<1>18. ASSUME NEW t \in Tabs, Logout(t)
       PROVE  TypeOK'
    <2>1. sign' \in [Tabs -> Sign]
        BY <1>18 DEF TypeOK, Logout, Sign, NoSign, MaybeSession, Versions
    <2> QED
        BY <1>18, <2>1 DEF TypeOK, Logout, server, requests
<1>19. ASSUME NEW t \in Tabs, Revoke(t)
       PROVE  TypeOK'
    <2>1. session' \in [Sessions -> Row]
        BY <1>19 DEF TypeOK, Revoke, Row, MaybeSession, Spent, Live
    <2>2. sign' \in [Tabs -> Sign]
        BY <1>19 DEF TypeOK, Revoke, Sign, NoSign, MaybeSession
    <2> QED
        BY <1>19, <2>1, <2>2 DEF TypeOK, Revoke, DropSpent, server, requests
<1>20. ASSUME NEW t \in Tabs, LoggedOut(t)
       PROVE  TypeOK'
    <2>1. sign' \in [Tabs -> Sign]
        BY <1>20 DEF TypeOK, LoggedOut, Sign, NoSign, MaybeSession, Versions
    <2>2. cookie' \in MaybeSession
        BY <1>20 DEF TypeOK, LoggedOut, MaybeSession
    <2>3. /\ tab' \in [Tabs -> Page]
          /\ \A p \in Tabs : tab'[p].status = "authenticated" <=> tab'[p].user # None
        BY <1>20 DEF TypeOK, LoggedOut, Page, NewPage, MaybeSession, SignedOut
    <2> QED
        BY <1>20, <2>1, <2>2, <2>3 DEF TypeOK, LoggedOut, server, requests
<1>21. ASSUME NEW t \in Tabs, SignFails(t)
       PROVE  TypeOK'
    <2>1. sign' \in [Tabs -> Sign]
        BY <1>21 DEF TypeOK, SignFails, Sign, NoSign, MaybeSession
    <2> QED
        BY <1>21, <2>1 DEF TypeOK, SignFails, server, requests
<1>22. ASSUME NEW t \in Tabs, SignFailed(t)
       PROVE  TypeOK'
    <2>1. sign' \in [Tabs -> Sign]
        BY <1>22 DEF TypeOK, SignFailed, Sign, NoSign, MaybeSession, Versions
    <2>2. /\ tab' \in [Tabs -> Page]
          /\ \A p \in Tabs : tab'[p].status = "authenticated" <=> tab'[p].user # None
        BY <1>22 DEF TypeOK, SignFailed, Page, NewPage, MaybeSession
    <2> QED
        BY <1>22, <2>1, <2>2 DEF TypeOK, SignFailed, server, requests
<1>23. ASSUME NEW c \in Calls, Send(c)
       PROVE  TypeOK'
    <2>1. call' \in [Calls -> Call]
        BY <1>23 DEF TypeOK, Send, Call, NoCall, MaybeSession, Page
    <2> QED
        BY <1>23, <2>1 DEF TypeOK, Send, server, requests
<1>24. ASSUME NEW c \in Calls, Serve(c)
       PROVE  TypeOK'
    <2>1. call' \in [Calls -> Call]
        BY <1>24 DEF TypeOK, Serve, Call, NoCall, MaybeSession
    <2> QED
        BY <1>24, <2>1 DEF TypeOK, Serve, server, requests
<1>25. ASSUME NEW c \in Calls, CallFails(c)
       PROVE  TypeOK'
    <2>1. call' \in [Calls -> Call]
        BY <1>25 DEF TypeOK, CallFails, Call, NoCall, MaybeSession
    <2> QED
        BY <1>25, <2>1 DEF TypeOK, CallFails, server, requests
<1>26. ASSUME NEW c \in Calls, Finish(c)
       PROVE  TypeOK'
    <2>1. call' \in [Calls -> Call]
        BY <1>26 DEF TypeOK, Finish, Call, NoCall, MaybeSession
    <2>2. /\ tab' \in [Tabs -> Page]
          /\ \A p \in Tabs : tab'[p].status = "authenticated" <=> tab'[p].user # None
        BY <1>26
           DEF Named, TypeOK, Finish, Page, NewPage, MaybeSession, CallTraceable,
               RowsTraceable, Issued, UserOf
    <2> QED
        BY <1>26, <2>1, <2>2 DEF TypeOK, Finish, server, requests
<1>27. ASSUME NEW c \in Calls, AwaitRefresh(c)
       PROVE  TypeOK'
    <2>1. call' \in [Calls -> Call]
        BY <1>27 DEF TypeOK, AwaitRefresh, Call, NoCall, MaybeSession
    <2>2. refresh' \in [Tabs -> Refresh]
        BY <1>27 DEF TypeOK, AwaitRefresh, Refresh, NoRefresh, MaybeSession
    <2> QED
        BY <1>27, <2>1, <2>2 DEF TypeOK, AwaitRefresh, server, requests
<1>28. ASSUME NEW c \in Calls, GiveUp(c)
       PROVE  TypeOK'
    <2>1. call' \in [Calls -> Call]
        BY <1>28 DEF TypeOK, GiveUp, Call, NoCall, MaybeSession
    <2>2. /\ tab' \in [Tabs -> Page]
          /\ \A p \in Tabs : tab'[p].status = "authenticated" <=> tab'[p].user # None
        BY <1>28 DEF TypeOK, GiveUp, Page, NewPage, MaybeSession, SignedOut
    <2> QED
        BY <1>28, <2>1, <2>2 DEF TypeOK, GiveUp, server, requests
<1>29. ASSUME NEW s \in Sessions, ServeAdrift(s)
       PROVE  TypeOK'
    <2>1. session' \in [Sessions -> Row]
        <3>1. Successor(s) \in Row
            BY DEF Successor, Row
        <3>2. Spent(s) \in [Sessions -> Row]
            BY DEF Spent, Row, TypeOK
        <3> QED
            BY <1>29, <3>1, <3>2 DEF ServeAdrift, Unused
    <2> QED
        BY <1>29, <2>1 DEF TypeOK, ServeAdrift, DropSpent, server, requests
<1>30. CASE UNCHANGED vars
    BY <1>30 DEF TypeOK, vars
<1> QED
    BY <1>1, <1>2, <1>3, <1>4, <1>5, <1>6, <1>7, <1>8, <1>9, <1>10, <1>11, <1>12, <1>13,
       <1>14, <1>15, <1>16, <1>17, <1>18, <1>19, <1>20, <1>21, <1>22, <1>23, <1>24, <1>25,
       <1>26, <1>27, <1>28, <1>29, <1>30
       DEF Next

-----------------------------------------------------------------------------
(* Names.                                                                   *)

LEMMA InitNamed == Init => Named
BY NamesAssumption
   DEF Init, Named, RowsTraceable, RefreshTraceable, SignTraceable, CallTraceable, ResetTraceable,
       Issued, MaybeWritten, NoRow, NewPage, NoRefresh, NoSign, NoCall

\* A written row stays written, with its user and its root; a new one has both.
LEMMA RowsStay ==
    ASSUME TypeOK, Named, [Next]_vars
    PROVE  /\ \A s \in Sessions : session[s].state # "none" => session'[s].state # "none"
           /\ RowsTraceable'
<1> USE NamesAssumption, Parts
<1>1. ASSUME UNCHANGED session
      PROVE  RowsTraceable'
    BY <1>1 DEF Named, RowsTraceable, Issued, UserOf
<1> DEFINE Kept == \A r \in Sessions :
        /\ session'[r].user = session[r].user /\ session'[r].root = session[r].root
        /\ session[r].state # "none" => session'[r].state # "none"
        /\ session[r].state = "none" => session'[r].state = "none"
<1>0. Kept => RowsTraceable'
    BY DEF Named, RowsTraceable, Issued, UserOf
<1>2. ASSUME NEW u \in Users, CommitReset(u)
      PROVE  Kept
    BY <1>2 DEF CommitReset, TypeOK, Row, Named, ResetTraceable, Issued
<1>3. ASSUME NEW s \in Sessions, session[s].state # "none", session' = Spent(s)
      PROVE  Kept
    BY <1>3 DEF Spent, TypeOK, Row
<1>4. ASSUME NEW old \in Live, NEW new \in Unused,
             session' = [Spent(old) EXCEPT ![new] = Successor(old)]
      PROVE  /\ \A s \in Sessions : session[s].state # "none" => session'[s].state # "none"
             /\ RowsTraceable'
    <2>1. /\ old \in Sessions /\ new \in Sessions /\ new # old
          /\ session[old].state = "live" /\ session[new].state = "none"
        BY DEF Unused, Live
    <2>2. /\ session'[new] = [session[old] EXCEPT !.state = "live"]
          /\ session'[old] = [session[old] EXCEPT !.state = "dead"]
          /\ \A r \in Sessions \ {new, old} : session'[r] = session[r]
        BY <1>4, <2>1 DEF Spent, Successor, TypeOK
    <2>3. /\ session'[new].state = "live" /\ session'[old].state = "dead"
          /\ session'[new].user = session[old].user /\ session'[new].root = session[old].root
          /\ session'[old].user = session[old].user /\ session'[old].root = session[old].root
        BY <2>1, <2>2 DEF Row
    <2>4. \A s \in Sessions : session[s].state # "none" => session'[s].state # "none"
        BY <2>1, <2>2, <2>3
    <2>5. \A s \in Sessions : session[s].state # "none" =>
              session'[s].user = session[s].user /\ session'[s].root = session[s].root
        BY <2>1, <2>2, <2>3
    <2>6. \A s \in Sessions : session[s].state # "none" =>
              /\ session[s].user \in Users /\ session[s].root \in Sessions
              /\ session[session[s].root].state # "none"
        BY DEF Named, RowsTraceable, Issued, UserOf
    <2>7. \A s \in Sessions \ {new} : session'[s].state # "none" => session[s].state # "none"
        BY <2>1, <2>2, <2>3
    <2> QED
        BY <2>1, <2>3, <2>4, <2>5, <2>6, <2>7 DEF RowsTraceable, Issued, UserOf
<1>5. ASSUME NEW t \in Tabs, CreateSession(t)
      PROVE  /\ \A s \in Sessions : session[s].state # "none" => session'[s].state # "none"
             /\ RowsTraceable'
    <2>1. sign[t].user \in Users
        BY <1>5 DEF CreateSession, Named, SignTraceable
    <2>2. PICK new \in Unused :
              session' = [session EXCEPT ![new] = [state |-> "live", user |-> sign[t].user,
                                                   root |-> new, version |-> sign[t].version]]
        BY <1>5 DEF CreateSession
    <2> QED
        BY <2>1, <2>2 DEF Unused, TypeOK, Row, Named, RowsTraceable, Issued, UserOf
<1>6. ASSUME NEW s \in Sessions, SessionExpires(s)
      PROVE  session[s].state # "none" /\ session' = Spent(s)
    BY <1>6 DEF SessionExpires, Spent, Live
<1>7. ASSUME NEW t \in Tabs, RevokeOnly(t)
      PROVE  /\ refresh[t].with \in Sessions /\ session[refresh[t].with].state # "none"
             /\ session' = Spent(refresh[t].with)
    BY <1>7 DEF RevokeOnly, Named, RefreshTraceable, Live
<1>8. ASSUME NEW t \in Tabs, Revoke(t)
      PROVE  \/ UNCHANGED session
             \/ /\ sign[t].with \in Sessions /\ session[sign[t].with].state # "none"
                /\ session' = Spent(sign[t].with)
    <2>1. CASE sign[t].with \in Live
        BY <1>8, <2>1 DEF Revoke, Live
    <2>2. CASE sign[t].with \notin Live
        BY <1>8, <2>2 DEF Revoke
    <2> QED
        BY <2>1, <2>2
<1>9. ASSUME NEW t \in Tabs, Rotate(t)
      PROVE  /\ refresh[t].with \in Live
             /\ \E new \in Unused :
                   session' = [Spent(refresh[t].with) EXCEPT ![new] = Successor(refresh[t].with)]
    BY <1>9 DEF Rotate, Named, RefreshTraceable
<1>10. ASSUME NEW s \in Sessions, ServeAdrift(s)
       PROVE  /\ s \in Live
              /\ \E new \in Unused : session' = [Spent(s) EXCEPT ![new] = Successor(s)]
    BY <1>10 DEF ServeAdrift, MayConsume
<1> QED
    BY <1>0, <1>1, <1>2, <1>3, <1>4, <1>5, <1>6, <1>7, <1>8, <1>9, <1>10
       DEF Next, vars, server, requests, SetActive, StartReset, TokenExpires, Claim,
           ClaimNothing, RefreshFails, Refreshed, RefreshRefused, Reload, Login, Verify,
           SignedIn, Logout, LoggedOut, SignFails, SignFailed, Send, Serve, CallFails,
           Finish, AwaitRefresh, GiveUp

LEMMA StepNamed == TypeOK /\ Named /\ [Next]_vars => Named'
<1> SUFFICES ASSUME TypeOK, Named, [Next]_vars
             PROVE  Named'
    OBVIOUS
<1> USE NamesAssumption, Parts, RowsStay
<1> USE DEF Issued, MaybeWritten, server, requests
<1>1. ASSUME NEW u \in Users, NEW active \in BOOLEAN, SetActive(u, active)
      PROVE  Named'
    <2>1. \A v \in Users : ResetTraceable(v)'
        BY <1>1 DEF Named, TypeOK, SetActive, ResetTraceable, Account
    <2> QED
        BY <1>1, <2>1
           DEF Named, SetActive, RefreshTraceable, SignTraceable, CallTraceable,
               ResetTraceable, Live
<1>2. ASSUME NEW u \in Users, StartReset(u)
      PROVE  Named'
    <2>1. \A v \in Users : ResetTraceable(v)'
        <3>1. resetting'[u] = {s \in Live : UserOf(s) = u} /\ resetting[u] = None
            BY <1>2 DEF StartReset, TypeOK
        <3>2. \A v \in Users \ {u} : resetting'[v] = resetting[v] /\ account'[v] = account[v]
            BY <1>2 DEF StartReset, TypeOK
        <3>3. /\ account'[u].version = account[u].version
              /\ account'[u].changes = account[u].changes + 1
            BY <1>2 DEF StartReset, TypeOK, Account
        <3>4. account[u].version \in Int /\ account[u].changes \in Int
            BY DEF Account, Versions
        <3>5. session' = session
            BY <1>2 DEF StartReset
        <3>6. ASSUME NEW v \in Users \ {u}
              PROVE  ResetTraceable(v)'
            BY <3>2, <3>5, <3>6 DEF Named, ResetTraceable
        <3>7. ResetTraceable(u)'
            BY <3>1, <3>3, <3>4, <3>5 DEF Named, ResetTraceable, Live
        <3> QED
            BY <3>6, <3>7
    <2> QED
        BY <1>2, <2>1
           DEF Named, StartReset, RefreshTraceable, SignTraceable, CallTraceable,
               ResetTraceable, Live
<1>3. ASSUME NEW u \in Users, CommitReset(u)
      PROVE  Named'
    <2>1. \A v \in Users : ResetTraceable(v)'
        BY <1>3 DEF Named, TypeOK, CommitReset, ResetTraceable, Account, Versions
    <2>2. \A p \in Tabs : RefreshTraceable(p)'
        BY <1>3 DEF Named, TypeOK, CommitReset, RefreshTraceable, NoRefresh, Live
    <2> QED
        BY <1>3, <2>1, <2>2
           DEF Named, CommitReset, RefreshTraceable, SignTraceable, CallTraceable,
               ResetTraceable, Live
<1>4. ASSUME NEW s \in Sessions, SessionExpires(s)
      PROVE  Named'
    <2>1. \A p \in Tabs : RefreshTraceable(p)'
        BY <1>4 DEF Named, TypeOK, SessionExpires, RefreshTraceable, NoRefresh, Live
    <2> QED
        BY <1>4, <2>1
           DEF Named, SessionExpires, RefreshTraceable, SignTraceable, CallTraceable,
               ResetTraceable, Live
<1>5. ASSUME NEW s \in Sessions, TokenExpires(s)
      PROVE  Named'
    <2> QED
        BY <1>5
           DEF Named, TokenExpires, RefreshTraceable, SignTraceable, CallTraceable,
               ResetTraceable, Live
<1>6. ASSUME NEW t \in Tabs, Claim(t)
      PROVE  Named'
    <2>1. \A p \in Tabs : RefreshTraceable(p)'
        BY <1>6 DEF Named, TypeOK, Claim, RefreshTraceable, NoRefresh, MayConsume, Live
    <2> QED
        BY <1>6, <2>1
           DEF Named, Claim, RefreshTraceable, SignTraceable, CallTraceable, ResetTraceable,
               Live
<1>7. ASSUME NEW t \in Tabs, ClaimNothing(t)
      PROVE  Named'
    <2>1. \A p \in Tabs : RefreshTraceable(p)'
        BY <1>7 DEF Named, TypeOK, ClaimNothing, RefreshTraceable, NoRefresh, Live
    <2> QED
        BY <1>7, <2>1
           DEF Named, ClaimNothing, RefreshTraceable, SignTraceable, CallTraceable,
               ResetTraceable, Live
<1>8. ASSUME NEW t \in Tabs, Rotate(t)
      PROVE  Named'
    <2>1. \A p \in Tabs : RefreshTraceable(p)'
        <3> DEFINE old == refresh[t].with
        <3>1. PICK new \in Unused :
                 /\ session' = [Spent(old) EXCEPT ![new] = Successor(old)]
                 /\ refresh' = [refresh EXCEPT ![t].stage = "ok", ![t].new = new]
            BY <1>8 DEF Rotate
        <3>2. old \in Live /\ holder[old] = t
            BY <1>8 DEF Rotate, Named, RefreshTraceable
        <3>3. /\ session'[new].state = "live"
              /\ \A r \in Sessions \ {new, old} : session'[r] = session[r]
            BY <3>1, <3>2 DEF Spent, Successor, TypeOK, Unused, Live, Row
        <3>4. RefreshTraceable(t)'
            BY <3>1, <3>3 DEF Named, RefreshTraceable, TypeOK, Unused, Refresh
        <3>5. ASSUME NEW p \in Tabs \ {t}
              PROVE  RefreshTraceable(p)'
            <4>1. refresh'[p] = refresh[p] /\ RefreshTraceable(p)
                BY <3>1, <3>5 DEF TypeOK, Named
            <4>2. ASSUME refresh[p].stage = "claimed"
                  PROVE  refresh[p].with \in Live' /\ holder'[refresh[p].with] = p
                <5>1. refresh[p].with \in Live /\ holder[refresh[p].with] = p
                    BY <4>1, <4>2 DEF RefreshTraceable
                <5>2. refresh[p].with \in Sessions \ {new, old}
                    BY <5>1, <3>2, <3>5 DEF Live, Unused
                <5> QED
                    BY <5>1, <5>2, <3>3, <1>8 DEF Rotate, Live, TypeOK
            <4> QED
                BY <4>1, <4>2 DEF RefreshTraceable
        <3> QED
            BY <3>4, <3>5
    <2>2. UNCHANGED <<cookie, tab, sign, call, resetting, account>>
        BY <1>8 DEF Rotate
    <2> QED
        BY <2>1, <2>2 DEF Named, SignTraceable, CallTraceable, ResetTraceable
<1>9. ASSUME NEW t \in Tabs, RevokeOnly(t)
      PROVE  Named'
    <2>1. \A p \in Tabs : RefreshTraceable(p)'
        BY <1>9 DEF Named, TypeOK, RevokeOnly, RefreshTraceable, NoRefresh, Spent, Live
    <2> QED
        BY <1>9, <2>1
           DEF Named, RevokeOnly, RefreshTraceable, SignTraceable, CallTraceable,
               ResetTraceable, Live
<1>10. ASSUME NEW t \in Tabs, RefreshFails(t)
       PROVE  Named'
    <2>1. \A p \in Tabs : RefreshTraceable(p)'
        BY <1>10 DEF Named, TypeOK, RefreshFails, RefreshTraceable, NoRefresh, Live
    <2> QED
        BY <1>10, <2>1
           DEF Named, RefreshFails, RefreshTraceable, SignTraceable, CallTraceable,
               ResetTraceable, Live
<1>11. ASSUME NEW t \in Tabs, Refreshed(t)
       PROVE  Named'
    <2>1. \A p \in Tabs : RefreshTraceable(p)'
        BY <1>11 DEF Named, TypeOK, Refreshed, RefreshTraceable, NoRefresh, Live
    <2>2. MaybeWritten(cookie)'
        BY <1>11 DEF Named, TypeOK, Refreshed, RefreshTraceable
    <2>3. \A p \in Tabs : MaybeWritten(tab[p].token)'
        BY <1>11 DEF Named, TypeOK, Refreshed, Page, NewPage, RefreshTraceable
    <2>4. \A d \in Calls : CallTraceable(d)'
        <3>1. Issued(refresh[t].new) /\ session' = session
            BY <1>11 DEF Named, Refreshed, RefreshTraceable
        <3>2. ASSUME NEW d \in Calls, d \in Waiting(t)
              PROVE  call'[d].stage = "sent" /\ call'[d].token = refresh[t].new
            BY <1>11, <3>2 DEF Refreshed, Call
        <3>3. ASSUME NEW d \in Calls, d \notin Waiting(t)
              PROVE  call'[d] = call[d]
            BY <1>11, <3>3 DEF Refreshed
        <3> QED
            BY <3>1, <3>2, <3>3 DEF Named, CallTraceable
    <2>5. UNCHANGED <<sign, session, resetting, account>>
        BY <1>11 DEF Refreshed
    <2> QED
        BY <2>1, <2>2, <2>3, <2>4, <2>5 DEF Named, SignTraceable, ResetTraceable
<1>12. ASSUME NEW t \in Tabs, RefreshRefused(t)
       PROVE  Named'
    <2>1. \A p \in Tabs : RefreshTraceable(p)'
        BY <1>12 DEF Named, TypeOK, RefreshRefused, RefreshTraceable, NoRefresh, Live
    <2>2. \A p \in Tabs : MaybeWritten(tab[p].token)'
        BY <1>12 DEF Named, TypeOK, RefreshRefused, Page, NewPage, SignedOut
    <2>3. \A d \in Calls : CallTraceable(d)'
        BY <1>12 DEF Named, TypeOK, RefreshRefused, CallTraceable, NoCall
    <2> QED
        BY <1>12, <2>1, <2>2, <2>3
           DEF Named, RefreshRefused, RefreshTraceable, SignTraceable, CallTraceable,
               ResetTraceable, Live
<1>13. ASSUME NEW t \in Tabs, Reload(t)
       PROVE  Named'
    <2>1. \A p \in Tabs : RefreshTraceable(p)'
        BY <1>13 DEF Named, TypeOK, Reload, RefreshTraceable, NoRefresh, Live
    <2>2. \A p \in Tabs : SignTraceable(p)'
        BY <1>13 DEF Named, TypeOK, Reload, SignTraceable, NoSign
    <2>3. \A p \in Tabs : MaybeWritten(tab[p].token)'
        BY <1>13 DEF Named, TypeOK, Reload, Page, NewPage
    <2>4. \A d \in Calls : CallTraceable(d)'
        BY <1>13 DEF Named, TypeOK, Reload, CallTraceable, NoCall
    <2> QED
        BY <1>13, <2>1, <2>2, <2>3, <2>4
           DEF Named, Reload, RefreshTraceable, SignTraceable, CallTraceable,
               ResetTraceable, Live
<1>14. ASSUME NEW t \in Tabs, NEW u \in Users, Login(t, u)
       PROVE  Named'
    <2>1. \A p \in Tabs : SignTraceable(p)'
        BY <1>14 DEF Named, TypeOK, Login, SignTraceable, NoSign
    <2> QED
        BY <1>14, <2>1
           DEF Named, Login, RefreshTraceable, SignTraceable, CallTraceable, ResetTraceable,
               Live
<1>15. ASSUME NEW t \in Tabs, Verify(t)
       PROVE  Named'
    <2>1. \A p \in Tabs : SignTraceable(p)'
        BY <1>15 DEF Named, TypeOK, Verify, SignTraceable, NoSign
    <2> QED
        BY <1>15, <2>1
           DEF Named, Verify, RefreshTraceable, SignTraceable, CallTraceable,
               ResetTraceable, Live
<1>16. ASSUME NEW t \in Tabs, CreateSession(t)
       PROVE  Named'
    <2>1. \A p \in Tabs : SignTraceable(p)'
        BY <1>16 DEF Named, TypeOK, CreateSession, SignTraceable, NoSign, Unused
    <2>2. \A p \in Tabs : RefreshTraceable(p)'
        BY <1>16 DEF Named, TypeOK, CreateSession, RefreshTraceable, NoRefresh, Unused, Live
    <2>3. UNCHANGED <<cookie, tab, refresh, call, resetting, account>>
        BY <1>16 DEF CreateSession
    <2> QED
        BY <2>1, <2>2, <2>3 DEF Named, CallTraceable, ResetTraceable
<1>17. ASSUME NEW t \in Tabs, SignedIn(t)
       PROVE  Named'
    <2>1. \A p \in Tabs : SignTraceable(p)'
        BY <1>17 DEF Named, TypeOK, SignedIn, SignTraceable, NoSign
    <2>2. MaybeWritten(cookie)'
        BY <1>17 DEF Named, TypeOK, SignedIn, SignTraceable
    <2>3. \A p \in Tabs : MaybeWritten(tab[p].token)'
        BY <1>17 DEF Named, TypeOK, SignedIn, Page, NewPage, SignTraceable
    <2> QED
        BY <1>17, <2>1, <2>2, <2>3
           DEF Named, SignedIn, RefreshTraceable, SignTraceable, CallTraceable,
               ResetTraceable, Live
<1>18. ASSUME NEW t \in Tabs, Logout(t)
       PROVE  Named'
    <2>1. \A p \in Tabs : SignTraceable(p)'
        BY <1>18 DEF Named, TypeOK, Logout, SignTraceable, NoSign
    <2> QED
        BY <1>18, <2>1
           DEF Named, Logout, RefreshTraceable, SignTraceable, CallTraceable,
               ResetTraceable, Live
<1>19. ASSUME NEW t \in Tabs, Revoke(t)
       PROVE  Named'
    <2>1. \A p \in Tabs : SignTraceable(p)'
        BY <1>19 DEF Named, TypeOK, Revoke, SignTraceable, NoSign, Spent, Live
    <2>2. \A p \in Tabs : RefreshTraceable(p)'
        BY <1>19 DEF Named, TypeOK, Revoke, RefreshTraceable, NoRefresh, Spent, Live
    <2> QED
        BY <1>19, <2>1, <2>2
           DEF Named, Revoke, RefreshTraceable, SignTraceable, CallTraceable,
               ResetTraceable, Live
<1>20. ASSUME NEW t \in Tabs, LoggedOut(t)
       PROVE  Named'
    <2>1. \A p \in Tabs : SignTraceable(p)'
        BY <1>20 DEF Named, TypeOK, LoggedOut, SignTraceable, NoSign
    <2>2. MaybeWritten(cookie)'
        BY <1>20 DEF Named, TypeOK, LoggedOut
    <2>3. \A p \in Tabs : MaybeWritten(tab[p].token)'
        BY <1>20 DEF Named, TypeOK, LoggedOut, Page, NewPage, SignedOut
    <2> QED
        BY <1>20, <2>1, <2>2, <2>3
           DEF Named, LoggedOut, RefreshTraceable, SignTraceable, CallTraceable,
               ResetTraceable, Live
<1>21. ASSUME NEW t \in Tabs, SignFails(t)
       PROVE  Named'
    <2>1. \A p \in Tabs : SignTraceable(p)'
        BY <1>21 DEF Named, TypeOK, SignFails, SignTraceable, NoSign
    <2> QED
        BY <1>21, <2>1
           DEF Named, SignFails, RefreshTraceable, SignTraceable, CallTraceable,
               ResetTraceable, Live
<1>22. ASSUME NEW t \in Tabs, SignFailed(t)
       PROVE  Named'
    <2>1. \A p \in Tabs : SignTraceable(p)'
        BY <1>22 DEF Named, TypeOK, SignFailed, SignTraceable, NoSign
    <2>2. \A p \in Tabs : MaybeWritten(tab[p].token)'
        BY <1>22 DEF Named, TypeOK, SignFailed, Page, NewPage
    <2> QED
        BY <1>22, <2>1, <2>2
           DEF Named, SignFailed, RefreshTraceable, SignTraceable, CallTraceable,
               ResetTraceable, Live
<1>23. ASSUME NEW c \in Calls, Send(c)
       PROVE  Named'
    <2>1. \A d \in Calls : CallTraceable(d)'
        BY <1>23 DEF Named, TypeOK, Send, CallTraceable, NoCall
    <2> QED
        BY <1>23, <2>1
           DEF Named, Send, RefreshTraceable, SignTraceable, CallTraceable, ResetTraceable,
               Live
<1>24. ASSUME NEW c \in Calls, Serve(c)
       PROVE  Named'
    <2>1. \A d \in Calls : CallTraceable(d)'
        BY <1>24 DEF Named, TypeOK, Serve, CallTraceable, NoCall, Authentic
    <2> QED
        BY <1>24, <2>1
           DEF Named, Serve, RefreshTraceable, SignTraceable, CallTraceable, ResetTraceable,
               Live
<1>25. ASSUME NEW c \in Calls, CallFails(c)
       PROVE  Named'
    <2>1. \A d \in Calls : CallTraceable(d)'
        BY <1>25 DEF Named, TypeOK, CallFails, CallTraceable, NoCall
    <2> QED
        BY <1>25, <2>1
           DEF Named, CallFails, RefreshTraceable, SignTraceable, CallTraceable,
               ResetTraceable, Live
<1>26. ASSUME NEW c \in Calls, Finish(c)
       PROVE  Named'
    <2>1. \A d \in Calls : CallTraceable(d)'
        BY <1>26 DEF Named, TypeOK, Finish, CallTraceable, NoCall
    <2>2. \A p \in Tabs : MaybeWritten(tab[p].token)'
        BY <1>26 DEF Named, TypeOK, Finish, Page, NewPage
    <2> QED
        BY <1>26, <2>1, <2>2
           DEF Named, Finish, RefreshTraceable, SignTraceable, CallTraceable,
               ResetTraceable, Live
<1>27. ASSUME NEW c \in Calls, AwaitRefresh(c)
       PROVE  Named'
    <2>1. \A d \in Calls : CallTraceable(d)'
        BY <1>27 DEF Named, TypeOK, AwaitRefresh, CallTraceable, NoCall
    <2>2. \A p \in Tabs : RefreshTraceable(p)'
        BY <1>27 DEF Named, TypeOK, AwaitRefresh, RefreshTraceable, NoRefresh, Live
    <2> QED
        BY <1>27, <2>1, <2>2
           DEF Named, AwaitRefresh, RefreshTraceable, SignTraceable, CallTraceable,
               ResetTraceable, Live
<1>28. ASSUME NEW c \in Calls, GiveUp(c)
       PROVE  Named'
    <2>1. \A d \in Calls : CallTraceable(d)'
        BY <1>28 DEF Named, TypeOK, GiveUp, CallTraceable, NoCall
    <2>2. \A p \in Tabs : MaybeWritten(tab[p].token)'
        BY <1>28 DEF Named, TypeOK, GiveUp, Page, NewPage, SignedOut
    <2> QED
        BY <1>28, <2>1, <2>2
           DEF Named, GiveUp, RefreshTraceable, SignTraceable, CallTraceable,
               ResetTraceable, Live
<1>29. ASSUME NEW s \in Sessions, ServeAdrift(s)
       PROVE  Named'
    <2>1. \A p \in Tabs : RefreshTraceable(p)'
        <3>1. PICK new \in Unused : session' = [Spent(s) EXCEPT ![new] = Successor(s)]
            BY <1>29 DEF ServeAdrift
        <3>2. holder[s] = None
            BY <1>29 DEF ServeAdrift, MayConsume
        <3>3. \A r \in Sessions \ {new, s} : session'[r] = session[r]
            BY <3>1 DEF Spent, TypeOK
        <3>4. UNCHANGED <<refresh, holder>>
            BY <1>29 DEF ServeAdrift
        <3> SUFFICES ASSUME NEW p \in Tabs
                     PROVE  RefreshTraceable(p)'
            OBVIOUS
        <3>5. RefreshTraceable(p)
            BY DEF Named
        <3>6. ASSUME refresh[p].stage = "claimed"
              PROVE  refresh[p].with \in Live'
            <4>1. refresh[p].with \in Live /\ holder[refresh[p].with] = p
                BY <3>5, <3>6 DEF RefreshTraceable
            <4>2. refresh[p].with \in Sessions \ {new, s}
                BY <4>1, <3>2 DEF Live, Unused
            <4> QED
                BY <4>1, <4>2, <3>3 DEF Live
        <3> QED
            BY <3>4, <3>5, <3>6 DEF RefreshTraceable
    <2>2. UNCHANGED <<cookie, tab, sign, call, resetting, account>>
        BY <1>29 DEF ServeAdrift
    <2> QED
        BY <2>1, <2>2 DEF Named, SignTraceable, CallTraceable, ResetTraceable
<1>30. CASE UNCHANGED vars
    BY <1>30 DEF vars, Named, RefreshTraceable, SignTraceable, CallTraceable, ResetTraceable, Live
<1> QED
    BY <1>1, <1>2, <1>3, <1>4, <1>5, <1>6, <1>7, <1>8, <1>9, <1>10, <1>11, <1>12, <1>13,
       <1>14, <1>15, <1>16, <1>17, <1>18, <1>19, <1>20, <1>21, <1>22, <1>23, <1>24, <1>25,
       <1>26, <1>27, <1>28, <1>29, <1>30
       DEF Next

-----------------------------------------------------------------------------
(* The theorems.                                                            *)

\* A rotation spends the one live session of its sign-in before it adds another.
LEMMA StepOneLive == TypeOK /\ Named /\ OneLivePerSignIn /\ [Next]_vars => OneLivePerSignIn'
<1> SUFFICES ASSUME TypeOK, Named, OneLivePerSignIn, [Next]_vars
             PROVE  OneLivePerSignIn'
    OBVIOUS
<1> USE Parts
<1> DEFINE Fewer == \A s \in Sessions :
        s \in Live' => s \in Live /\ session'[s].root = session[s].root
<1>0. Fewer => OneLivePerSignIn'
    BY DEF OneLivePerSignIn, Live
<1>1. UNCHANGED session => Fewer
    BY DEF Live
<1>2. ASSUME NEW s \in Sessions, session' = Spent(s)
      PROVE  Fewer
    BY <1>2 DEF Spent, TypeOK, Row, Live
<1>3. ASSUME NEW u \in Users, CommitReset(u)
      PROVE  Fewer
    BY <1>3 DEF CommitReset, TypeOK, Row, Live
<1>4. ASSUME NEW old \in Live, NEW new \in Unused,
             session' = [Spent(old) EXCEPT ![new] = Successor(old)]
      PROVE  OneLivePerSignIn'
    <2>1. /\ old \in Sessions /\ new \in Sessions /\ new # old
          /\ session[old].state = "live"
        BY DEF Unused, Live
    <2>2. /\ session'[new].root = session[old].root
          /\ session'[old].state = "dead"
          /\ \A r \in Sessions \ {new, old} : session'[r] = session[r]
        BY <1>4, <2>1 DEF Spent, Successor, TypeOK, Row
    <2>3. \A r \in Live' \ {new} : r \in Live /\ r # old /\ session'[r].root = session[r].root
        BY <2>2 DEF Live
    <2>4. \A r \in Live : session[r].root = session[old].root => r = old
        BY DEF OneLivePerSignIn
    <2> QED
        BY <2>2, <2>3, <2>4 DEF OneLivePerSignIn
<1>5. ASSUME NEW t \in Tabs, CreateSession(t)
      PROVE  OneLivePerSignIn'
    <2>1. PICK new \in Unused :
              session' = [session EXCEPT ![new] = [state |-> "live", user |-> sign[t].user,
                                                   root |-> new, version |-> sign[t].version]]
        BY <1>5 DEF CreateSession
    <2>2. /\ session'[new].root = new /\ session[new].state = "none"
          /\ \A r \in Sessions \ {new} : session'[r] = session[r]
        BY <2>1 DEF Unused, TypeOK
    <2>3. \A r \in Live' \ {new} : r \in Live /\ session'[r].root = session[r].root
        BY <2>2 DEF Live
    <2>4. \A r \in Live : session[r].root # new
        BY <2>2 DEF Named, RowsTraceable, Issued, Live
    <2> QED
        BY <2>2, <2>3, <2>4 DEF OneLivePerSignIn
<1>6. ASSUME NEW s \in Sessions, SessionExpires(s)
      PROVE  session' = Spent(s)
    BY <1>6 DEF SessionExpires, Spent
<1>7. ASSUME NEW t \in Tabs, RevokeOnly(t)
      PROVE  refresh[t].with \in Sessions /\ session' = Spent(refresh[t].with)
    BY <1>7 DEF RevokeOnly, Named, RefreshTraceable, Live
<1>8. ASSUME NEW t \in Tabs, Revoke(t)
      PROVE  \/ session' = session
             \/ sign[t].with \in Sessions /\ session' = Spent(sign[t].with)
    <2>1. CASE sign[t].with \in Live
        BY <1>8, <2>1 DEF Revoke, Live
    <2>2. CASE sign[t].with \notin Live
        BY <1>8, <2>2 DEF Revoke
    <2> QED
        BY <2>1, <2>2
<1>9. ASSUME NEW t \in Tabs, Rotate(t)
      PROVE  /\ refresh[t].with \in Live
             /\ \E new \in Unused :
                   session' = [Spent(refresh[t].with) EXCEPT ![new] = Successor(refresh[t].with)]
    BY <1>9 DEF Rotate, Named, RefreshTraceable
<1>10. ASSUME NEW s \in Sessions, ServeAdrift(s)
       PROVE  /\ s \in Live
              /\ \E new \in Unused : session' = [Spent(s) EXCEPT ![new] = Successor(s)]
    BY <1>10 DEF ServeAdrift, MayConsume
<1> QED
    BY <1>0, <1>1, <1>2, <1>3, <1>4, <1>5, <1>6, <1>7, <1>8, <1>9, <1>10
       DEF Next, vars, server, requests, SetActive, StartReset, TokenExpires, Claim,
           ClaimNothing, RefreshFails, Refreshed, RefreshRefused, Reload, Login, Verify,
           SignedIn, Logout, LoggedOut, SignFails, SignFailed, Send, Serve, CallFails,
           Finish, AwaitRefresh, GiveUp

LEMMA InitOneLive == Init => OneLivePerSignIn
BY DEF Init, OneLivePerSignIn, Live, NoRow

LEMMA AlwaysTraceable == Spec => []Traceable
<1>1. Init => Traceable
    BY InitTypeOK, InitNamed, InitOneLive DEF Traceable
<1>2. Traceable /\ [Next]_vars => Traceable'
    BY StepTypeOK, StepNamed, StepOneLive DEF Traceable
<1> QED
    BY <1>1, <1>2, PTL DEF Spec

\* The types of the sessions, and a page shows a user exactly while it is signed in.
THEOREM SessionTypes == Spec => []TypeOK
BY AlwaysTraceable, PTL DEF Traceable

\* However many tabs and requests refresh one cookie, a sign-in has at most one
\* live session: refreshSession exchanges a token only once.
THEOREM RotatesOnce == Spec => []OneLivePerSignIn
BY AlwaysTraceable, PTL DEF Traceable

-----------------------------------------------------------------------------
(* Accounts, roles and portal logins. *)

NoRestores == \A c \in Changes : c.role # ADMIN /\ c.active # "on"

\* The update would take an administrator away.
Loses(q) ==
    LET r == update[q] IN
    /\ r.input.id \in Administrators
    /\ r.input.role # Absent \/ r.input.active = "off"

\* A read administrator was seen as one.
ReadIsTrue(q) ==
    LET r == update[q] IN
    r.stage = "read" =>
        /\ r.input \in AskedChanges
        /\ employee[r.input.id] # NoEmployee
        /\ r.input.id \in Administrators => r.existing.role = ADMIN /\ r.existing.active

\* An update that would take one away has counted another, who is still there
\* or was taken away by an update that counted too.
CountedAnother(q) ==
    LET r == update[q] IN
    r.stage = "open" =>
        /\ r.input \in Change
        /\ r.input.role # ADMIN /\ r.input.active # "on"
        /\ employee[r.input.id] # NoEmployee
        /\ r.tx.writes = {r.input.id}
        /\ Loses(q) =>
              /\ r.tx.reads = Accounts
              /\ \E o \in Accounts \ {r.input.id} :
                    \/ o \in Administrators
                    \/ \E c \in DoneUpdate : /\ <<c, c>> \in r.tx.beside
                                       /\ c.reads = Accounts /\ o \in c.writes

AccountsInductive ==
    /\ AccountsTypeOK
    /\ AdministratorRemains
    /\ \A q \in Updates : ReadIsTrue(q) /\ CountedAnother(q)

LEMMA Types == NoEmployee \in Employee /\ NewUpdate \in Update /\ EndedUpdate \in Update
BY DEF NoEmployee, Employee, NewUpdate, EndedUpdate, Update, NotBegun

\* The initial state.
LEMMA AccountsInitInductive == AccountsInit => AccountsInductive
<1> SUFFICES ASSUME AccountsInit PROVE AccountsInductive
    OBVIOUS
<1>1. AccountsTypeOK
    <2>1. [role |-> ADMIN, active |-> TRUE] \in Employee
        BY RolesAssumption DEF Employee
    <2>2. employee \in [Accounts -> Employee]
        BY <2>1, Types DEF AccountsInit
    <2>3. update \in [Updates -> Update]
        BY Types DEF AccountsInit
    <2> QED
        BY <2>2, <2>3 DEF AccountsTypeOK
<1>2. \A q \in Updates : ReadIsTrue(q) /\ CountedAnother(q)
    BY DEF AccountsInit, ReadIsTrue, CountedAnother, NewUpdate
<1> QED
    BY <1>1, <1>2 DEF AccountsInit, AccountsInductive, AdministratorRemains

\* A new account takes nobody's access away, and is nobody's target.
LEMMA CreateKeeps ==
    ASSUME AccountsInductive, NEW u \in Accounts, NEW role \in ManagementRoles, createEmployee(u, role)
    PROVE  AccountsInductive'
<1> DEFINE new == [role |-> role, active |-> TRUE]
<1>1. /\ employee[u] = NoEmployee
      /\ employee' = [employee EXCEPT ![u] = new]
      /\ update' = update
      /\ new \in Employee
    BY DEF createEmployee, Employee
<1>2. AccountsTypeOK'
    BY <1>1 DEF AccountsInductive, AccountsTypeOK
<1>3. \A o \in Accounts : o \in Administrators => o \in Administrators'
    BY <1>1, RolesAssumption DEF Administrators, NoEmployee, AccountsInductive, AccountsTypeOK, ADMIN
<1>4. AdministratorRemains'
    BY <1>3 DEF AccountsInductive, AdministratorRemains, Administrators
<1>5. ASSUME NEW o \in Accounts, o # u
      PROVE  employee'[o] = employee[o] /\ (o \in Administrators <=> o \in Administrators')
    BY <1>1, <1>5 DEF Administrators, AccountsInductive, AccountsTypeOK
<1>6. new # NoEmployee
    BY RolesAssumption DEF NoEmployee
<1>7. ASSUME NEW q \in Updates PROVE ReadIsTrue(q)' /\ CountedAnother(q)'
    <2>1. update'[q] = update[q] /\ ReadIsTrue(q) /\ CountedAnother(q)
        BY <1>1 DEF AccountsInductive
    <2>2. ReadIsTrue(q)'
        <3> SUFFICES ASSUME update[q].stage = "read" PROVE ReadIsTrue(q)'
            BY <2>1 DEF ReadIsTrue
        <3>1. update[q].input \in AskedChanges /\ update[q].input.id \in Accounts /\ update[q].input.id # u
            BY <2>1, <1>1 DEF ReadIsTrue, AskedChanges, Change
        <3> QED
            BY <3>1, <2>1, <1>5 DEF ReadIsTrue
    <2>3. CountedAnother(q)'
        <3> SUFFICES ASSUME update[q].stage = "open" PROVE CountedAnother(q)'
            BY <2>1 DEF CountedAnother
        <3>1. update[q].input.id \in Accounts /\ update[q].input.id # u
            BY <2>1, <1>1 DEF CountedAnother, Change
        <3>2. Loses(q)' => Loses(q)
            BY <3>1, <2>1, <1>5 DEF Loses
        <3> QED
            BY <3>1, <3>2, <2>1, <1>3, <1>5 DEF CountedAnother
    <2> QED
        BY <2>2, <2>3
<1> QED
    BY <1>2, <1>4, <1>7 DEF AccountsInductive

\* A step that leaves the accounts and the other requests alone.
LEMMA OthersKeep ==
    ASSUME AccountsInductive, UNCHANGED employee, NEW p \in Updates, update'[p] = update[p]
    PROVE  ReadIsTrue(p)' /\ CountedAnother(p)'
<1>1. Administrators' = Administrators
    BY DEF Administrators
<1>2. ReadIsTrue(p) /\ CountedAnother(p)
    BY DEF AccountsInductive
<1>3. Loses(p)' <=> Loses(p)
    BY <1>1 DEF Loses
<1> QED
    BY <1>1, <1>2, <1>3 DEF ReadIsTrue, CountedAnother

LEMMA ReadEmployeeKeeps ==
    ASSUME AccountsInductive, NEW q \in Updates, NEW input \in AskedChanges, NEW actor, ReadEmployee(q, input, actor)
    PROVE  AccountsInductive'
<1> DEFINE r == [NewUpdate EXCEPT !.stage = "read", !.input = input, !.existing = employee[input.id]]
<1>1. /\ update' = [update EXCEPT ![q] = r]
      /\ employee' = employee
      /\ input.id \in Accounts /\ employee[input.id] # NoEmployee
    BY DEF ReadEmployee, Employed
<1>2. r \in Update
    BY <1>1, Types DEF AccountsInductive, AccountsTypeOK, Update, NewUpdate, AskedChanges
<1>3. AccountsTypeOK'
    BY <1>1, <1>2 DEF AccountsInductive, AccountsTypeOK
<1>4. AdministratorRemains'
    BY <1>1 DEF AccountsInductive, AdministratorRemains, Administrators
<1>5. ASSUME NEW p \in Updates PROVE ReadIsTrue(p)' /\ CountedAnother(p)'
    <2>1. CASE p = q
        <3>1. update'[p] = r /\ r.stage = "read" /\ r.input = input /\ r.existing = employee[input.id]
            BY <2>1, <1>1 DEF AccountsInductive, AccountsTypeOK, NewUpdate
        <3> QED
            BY <3>1, <1>1 DEF ReadIsTrue, CountedAnother, Administrators
    <2>2. CASE p # q
        BY <2>2, <1>1, OthersKeep DEF AccountsInductive, AccountsTypeOK
    <2> QED
        BY <2>1, <2>2
<1> QED
    BY <1>3, <1>4, <1>5 DEF AccountsInductive

\* The count finds another administrator, or the update ends.
LEMMA BeginUpdateKeeps ==
    ASSUME NoRestores, AccountsInductive, NEW q \in Updates, BeginUpdate(q)
    PROVE  AccountsInductive'
<1> DEFINE r == update[q]
           tx == [reads |-> IF LosingAdminAccess(r) THEN Accounts ELSE {r.input.id},
                  writes |-> {r.input.id}, beside |-> {}]
           open == [stage |-> "open", input |-> Set(r), existing |-> NoEmployee, tx |-> tx]
<1>1. /\ r.stage = "read" /\ r \in Update
      /\ LosingAdminAccess(r) => OtherActiveAdmins(r) # {}
      /\ update' = [update EXCEPT ![q] = open]
      /\ employee' = employee
    BY DEF BeginUpdate, AccountsInductive, AccountsTypeOK
<1>2. /\ r.input \in AskedChanges /\ r.input \in Change /\ r.input.id \in Accounts
      /\ employee[r.input.id] # NoEmployee
      /\ r.input.id \in Administrators => r.existing.role = ADMIN /\ r.existing.active
    BY <1>1 DEF AccountsInductive, ReadIsTrue, AskedChanges, Change
<1>3. PICK c \in Changes : r.input.role = c.role /\ r.input.active = c.active
    BY <1>2 DEF AskedChanges
<1>4. r.input.role # ADMIN /\ r.input.active # "on"
    BY <1>3 DEF NoRestores
<1>5. /\ Set(r) \in Change /\ Set(r).id = r.input.id /\ Set(r).active = r.input.active
      /\ Set(r).role # ADMIN /\ (Set(r).role # Absent => RoleChange(r))
    BY <1>2, <1>4, RolesAssumption DEF Set, Change, RoleChange
<1>6. open \in Update
    BY <1>2, <1>5, Types DEF Update
<1>7. AccountsTypeOK'
    BY <1>1, <1>6 DEF AccountsInductive, AccountsTypeOK
<1>8. AdministratorRemains'
    BY <1>1 DEF AccountsInductive, AdministratorRemains, Administrators
<1>9. ASSUME NEW p \in Updates PROVE ReadIsTrue(p)' /\ CountedAnother(p)'
    <2>1. CASE p = q
        <3>1. update'[p] = open /\ Administrators' = Administrators
            BY <2>1, <1>1 DEF AccountsInductive, AccountsTypeOK, Administrators
        <3>2. Loses(p)' => LosingAdminAccess(r)
            BY <3>1, <1>2, <1>4, <1>5 DEF Loses, LosingAdminAccess, WantsDeactivate
        <3>3. LosingAdminAccess(r) => \E o \in Accounts \ {r.input.id} : o \in Administrators
            BY <1>1 DEF OtherActiveAdmins, Administrators
        <3>4. /\ open.stage = "open" /\ open.input = Set(r)
              /\ open.tx.writes = {r.input.id}
              /\ LosingAdminAccess(r) => open.tx.reads = Accounts
            OBVIOUS
        <3>5. ReadIsTrue(p)'
            BY <3>1, <3>4 DEF ReadIsTrue
        <3>6. CountedAnother(p)'
            BY <3>1, <3>2, <3>3, <3>4, <1>1, <1>2, <1>4, <1>5 DEF CountedAnother
        <3> QED
            BY <3>5, <3>6
    <2>2. CASE p # q
        BY <2>2, <1>1, OthersKeep DEF AccountsInductive, AccountsTypeOK
    <2> QED
        BY <2>1, <2>2
<1> QED
    BY <1>7, <1>8, <1>9 DEF AccountsInductive

\* Whoever takes an administrator away leaves the one it counted: a transaction
\* that took that one away beside it has read and been read.
LEMMA CommitLeavesAnother ==
    ASSUME AccountsInductive, NEW q \in Updates, CommitUpdate(q), Loses(q)
    PROVE  \E o \in Accounts \ {update[q].input.id} : o \in Administrators
<1> DEFINE r == update[q]
<1>1. /\ r.stage = "open" /\ MayCommit(r.tx) /\ r.input.id \in Accounts
      /\ r.tx.reads = Accounts /\ r.tx.writes = {r.input.id}
    BY DEF CommitUpdate, MayUpdate, AccountsInductive, CountedAnother, Change
<1>2. PICK o \in Accounts \ {r.input.id} :
          \/ o \in Administrators
          \/ \E c \in DoneUpdate : <<c, c>> \in r.tx.beside /\ c.reads = Accounts /\ o \in c.writes
    BY <1>1 DEF AccountsInductive, CountedAnother
<1>3. ASSUME NEW c \in DoneUpdate, <<c, c>> \in r.tx.beside, c.reads = Accounts, o \in c.writes
      PROVE  FALSE
    <2>1. Missed(r.tx, c) /\ MissedBy(r.tx, c)
        BY <1>1, <1>2, <1>3 DEF Missed, MissedBy
    <2> QED
        BY <2>1, <1>1, <1>3 DEF MayCommit, Dangerous
<1> QED
    BY <1>2, <1>3

LEMMA CommitUpdateKeeps ==
    ASSUME AccountsInductive, NEW q \in Updates, CommitUpdate(q)
    PROVE  AccountsInductive'
<1> DEFINE r == update[q]
           id == r.input.id
           done == Committed(r.tx)
<1>1. /\ r.stage = "open" /\ r \in Update
      /\ r.input \in Change /\ id \in Accounts
      /\ r.input.role # ADMIN /\ r.input.active # "on"
      /\ employee[id] # NoEmployee
      /\ r.tx.writes = {id}
      /\ Loses(q) => r.tx.reads = Accounts
    BY DEF CommitUpdate, AccountsInductive, AccountsTypeOK, CountedAnother, Change
<1>2. /\ employee' = [employee EXCEPT ![id] = Written(employee[id], r.input)]
      /\ update' = [p \in Updates |->
            IF p = q THEN EndedUpdate
            ELSE IF update[p].stage = "open"
            THEN [update[p] EXCEPT !.tx.beside = With(@, done)]
            ELSE update[p]]
    BY DEF CommitUpdate
<1>3. Written(employee[id], r.input) \in Employee /\ Written(employee[id], r.input) # NoEmployee
    BY <1>1, RolesAssumption DEF Written, Employee, NoEmployee, Change, AccountsInductive, AccountsTypeOK
<1>4. done \in DoneUpdate /\ done.writes = {id} /\ (Loses(q) => done.reads = Accounts)
    BY <1>1 DEF Committed, DoneUpdate, Update
<1>5. ASSUME NEW p \in Updates, update[p].stage = "open"
      PROVE  [update[p] EXCEPT !.tx.beside = With(@, done)] \in Update
    <2>1. With(update[p].tx.beside, done) \in SUBSET (DoneUpdate \X DoneUpdate)
        BY <1>4 DEF AccountsInductive, AccountsTypeOK, Update, With
    <2> QED
        BY <2>1 DEF AccountsInductive, AccountsTypeOK, Update
<1>6. AccountsTypeOK'
    <2>1. employee' \in [Accounts -> Employee]
        BY <1>2, <1>3 DEF AccountsInductive, AccountsTypeOK
    <2>2. update' \in [Updates -> Update]
        BY <1>2, <1>5, Types DEF AccountsInductive, AccountsTypeOK
    <2> QED
        BY <2>1, <2>2 DEF AccountsTypeOK
<1>7. ASSUME NEW o \in Accounts
      PROVE  /\ o # id => employee'[o] = employee[o]
             /\ o \in Administrators' => o \in Administrators
             /\ o \in Administrators /\ o \notin Administrators' => o = id /\ Loses(q)
    <2>1. CASE o # id
        BY <2>1, <1>2 DEF Administrators, AccountsInductive, AccountsTypeOK
    <2>2. CASE o = id
        <3>1. employee'[id] = Written(employee[id], r.input)
            BY <1>1, <1>2 DEF AccountsInductive, AccountsTypeOK
        <3>2. /\ employee'[id].role = IF r.input.role = Absent THEN employee[id].role ELSE r.input.role
              /\ employee'[id].active = IF r.input.active = Absent THEN employee[id].active
                                   ELSE r.input.active = "on"
            BY <3>1 DEF Written
        <3>3. r.input.active \in {"off", Absent} /\ Absent # "on" /\ ADMIN # Absent
            BY <1>1, RolesAssumption DEF Change
        <3>4. id \in Administrators' => id \in Administrators
            BY <3>2, <3>3, <1>1 DEF Administrators
        <3>5. id \in Administrators /\ ~Loses(q) => id \in Administrators'
            BY <3>2, <3>3, <1>1 DEF Administrators, Loses
        <3> QED
            BY <2>2, <3>4, <3>5
    <2> QED
        BY <2>1, <2>2
<1>8. AdministratorRemains'
    <2>1. CASE Loses(q)
        <3>1. PICK o \in Accounts \ {id} : o \in Administrators
            BY <2>1, CommitLeavesAnother
        <3>2. o \in Administrators'
            BY <3>1, <1>7
        <3> QED
            BY <3>2 DEF AdministratorRemains
    <2>2. CASE ~Loses(q)
        <3>1. PICK o \in Administrators : TRUE
            BY DEF AccountsInductive, AdministratorRemains
        <3>2. o \in Administrators'
            BY <2>2, <3>1, <1>7 DEF Administrators
        <3> QED
            BY <3>2 DEF AdministratorRemains
    <2> QED
        BY <2>1, <2>2
<1>9. ASSUME NEW o \in Accounts, employee[o] # NoEmployee PROVE employee'[o] # NoEmployee
    BY <1>9, <1>1, <1>2, <1>3 DEF AccountsInductive, AccountsTypeOK
<1>10. ASSUME NEW p \in Updates PROVE ReadIsTrue(p)'
    <2> SUFFICES ASSUME update'[p].stage = "read" PROVE ReadIsTrue(p)'
        BY DEF ReadIsTrue
    <2>1. p # q /\ update[p].stage = "read" /\ update'[p] = update[p]
        BY <1>2, <1>5 DEF EndedUpdate, NewUpdate, Update
    <2>2. ReadIsTrue(p) /\ update[p].input.id \in Accounts
        BY <2>1 DEF AccountsInductive, ReadIsTrue, AskedChanges, Change
    <2> QED
        BY <2>1, <2>2, <1>7, <1>9 DEF ReadIsTrue
<1>11. ASSUME NEW p \in Updates PROVE CountedAnother(p)'
    <2> DEFINE s == update[p]
    <2> SUFFICES ASSUME update'[p].stage = "open" PROVE CountedAnother(p)'
        BY DEF CountedAnother
    <2>1. p # q /\ s.stage = "open" /\ update'[p] = [s EXCEPT !.tx.beside = With(@, done)]
        BY <1>2 DEF EndedUpdate, NewUpdate
    <2>2. /\ update'[p].stage = "open"
          /\ update'[p].input = s.input
          /\ update'[p].tx.reads = s.tx.reads
          /\ update'[p].tx.writes = s.tx.writes
          /\ update'[p].tx.beside = With(s.tx.beside, done)
        BY <2>1 DEF AccountsInductive, AccountsTypeOK, Update
    <2>3. CountedAnother(p) /\ s.input.id \in Accounts
        BY <2>1 DEF AccountsInductive, CountedAnother, Change
    <2>4. Loses(p)' => Loses(p)
        BY <2>2, <2>3, <1>7 DEF Loses
    <2>5. ASSUME Loses(p)
          PROVE  \E o \in Accounts \ {s.input.id} :
                    \/ o \in Administrators'
                    \/ \E c \in DoneUpdate : /\ <<c, c>> \in With(s.tx.beside, done)
                                       /\ c.reads = Accounts /\ o \in c.writes
        <3>1. PICK o \in Accounts \ {s.input.id} :
                    \/ o \in Administrators
                    \/ \E c \in DoneUpdate : <<c, c>> \in s.tx.beside /\ c.reads = Accounts /\ o \in c.writes
            BY <2>1, <2>3, <2>5 DEF CountedAnother
        <3>2. CASE o \in Administrators /\ o \notin Administrators'
            <4>1. done.reads = Accounts /\ o \in done.writes
                BY <3>2, <1>4, <1>7
            <4>2. <<done, done>> \in With(s.tx.beside, done)
                BY DEF With
            <4> QED
                BY <4>1, <4>2, <1>4, <3>1
        <3>3. CASE o \in Administrators'
            BY <3>1, <3>3
        <3>4. CASE \E c \in DoneUpdate : <<c, c>> \in s.tx.beside /\ c.reads = Accounts /\ o \in c.writes
            BY <3>1, <3>4 DEF With
        <3> QED
            BY <3>1, <3>2, <3>3, <3>4
    <2> QED
        BY <2>1, <2>2, <2>3, <2>4, <2>5, <1>9 DEF CountedAnother
<1> QED
    BY <1>6, <1>8, <1>10, <1>11 DEF AccountsInductive

LEMMA AbortUpdateKeeps ==
    ASSUME AccountsInductive, NEW q \in Updates, AbortUpdate(q)
    PROVE  AccountsInductive'
<1>1. update' = [update EXCEPT ![q] = EndedUpdate] /\ employee' = employee
    BY DEF AbortUpdate
<1>2. AccountsTypeOK'
    BY <1>1, Types DEF AccountsInductive, AccountsTypeOK
<1>3. AdministratorRemains'
    BY <1>1 DEF AccountsInductive, AdministratorRemains, Administrators
<1>4. ASSUME NEW p \in Updates PROVE ReadIsTrue(p)' /\ CountedAnother(p)'
    <2>1. CASE p = q
        <3>1. update'[p].stage = "ended"
            BY <2>1, <1>1 DEF AccountsInductive, AccountsTypeOK, EndedUpdate, NewUpdate
        <3> QED
            BY <3>1 DEF ReadIsTrue, CountedAnother
    <2>2. CASE p # q
        BY <2>2, <1>1, OthersKeep DEF AccountsInductive, AccountsTypeOK
    <2> QED
        BY <2>1, <2>2
<1> QED
    BY <1>2, <1>3, <1>4 DEF AccountsInductive

\* Every step keeps the invariant.
LEMMA AccountsNextInductive == NoRestores /\ AccountsInductive /\ [AccountsNext]_accountsVars => AccountsInductive'
<1> SUFFICES ASSUME NoRestores, AccountsInductive, [AccountsNext]_accountsVars PROVE AccountsInductive'
    OBVIOUS
<1>1. ASSUME NEW u \in Accounts, NEW role \in ManagementRoles, createEmployee(u, role) PROVE AccountsInductive'
    BY <1>1, CreateKeeps
<1>2. ASSUME NEW q \in Updates, NEW input \in AskedChanges, NEW actor \in Employed, ReadEmployee(q, input, actor)
      PROVE  AccountsInductive'
    BY <1>2, ReadEmployeeKeeps
<1>3. ASSUME NEW q \in Updates, BeginUpdate(q) PROVE AccountsInductive'
    BY <1>3, BeginUpdateKeeps
<1>4. ASSUME NEW q \in Updates, CommitUpdate(q) PROVE AccountsInductive'
    BY <1>4, CommitUpdateKeeps
<1>5. ASSUME NEW q \in Updates, AbortUpdate(q) PROVE AccountsInductive'
    BY <1>5, AbortUpdateKeeps
<1>6. CASE UNCHANGED accountsVars
    <2>1. employee' = employee /\ update' = update
        BY <1>6 DEF accountsVars
    <2>2. AccountsTypeOK' /\ AdministratorRemains'
        BY <2>1 DEF AccountsInductive, AccountsTypeOK, AdministratorRemains, Administrators
    <2> QED
        BY <2>1, <2>2, OthersKeep DEF AccountsInductive
<1> QED
    BY <1>1, <1>2, <1>3, <1>4, <1>5, <1>6 DEF AccountsNext

-----------------------------------------------------------------------------
\* Demotions and deactivations at the same time, however many, leave an active
\* administrator: the rule of updateEmployee, where no update restores one.
THEOREM DemotionsLeaveOne == NoRestores => (AccountsSpec => [](AccountsTypeOK /\ AdministratorRemains))
<1> SUFFICES ASSUME NoRestores PROVE AccountsSpec => [](AccountsTypeOK /\ AdministratorRemains)
    OBVIOUS
<1>1. AccountsInductive /\ [AccountsNext]_accountsVars => AccountsInductive'
    BY AccountsNextInductive
<1>2. AccountsInductive => AccountsTypeOK /\ AdministratorRemains
    BY DEF AccountsInductive
<1> QED
    BY AccountsInitInductive, <1>1, <1>2, PTL DEF AccountsSpec

-----------------------------------------------------------------------------
OfRole(r) == {r} \X Permissions

\* What an open replacement may count on.
SeesOrConflicts(q) ==
    LET r == replacement[q] IN
    r.stage = "open" =>
        /\ r.role \in ManagementRoles
        /\ r.tx.reads = OfRole(r.role)
        /\ r.tx.writes = {r.role} \X (r.previous \union r.next)
        /\ \/ granted[r.role] = r.previous
           \/ \E c \in DoneReplacement : /\ <<c, c>> \in r.tx.beside
                             /\ c.reads = OfRole(r.role)
                             /\ c.writes \cap OfRole(r.role) # {}

RolesInductive ==
    /\ RolesTypeOK
    /\ NeverMerged
    /\ \A q \in Replacements : SeesOrConflicts(q)

\* The initial state.
LEMMA RolesInitInductive == RolesInit => RolesInductive
<1> SUFFICES ASSUME RolesInit PROVE RolesInductive
    OBVIOUS
<1>1. NewReplacement \in Replacement
    BY DEF NewReplacement, Replacement, NotBegun
<1>2. RolesTypeOK
    BY <1>1 DEF RolesInit, RolesTypeOK, Entry
<1>3. NeverMerged
    BY DEF RolesInit, NeverMerged
<1>4. \A q \in Replacements : SeesOrConflicts(q)
    BY DEF RolesInit, SeesOrConflicts, NewReplacement
<1> QED
    BY <1>2, <1>3, <1>4 DEF RolesInductive

\* BeginReplacement reads the set it will replace.
LEMMA BeginReplacementKeeps ==
    ASSUME RolesInductive, NEW q \in Replacements, NEW role \in ManagementRoles, NEW next \in SUBSET Catalog,
           BeginReplacement(q, role, next)
    PROVE  RolesInductive'
<1> DEFINE t == [reads |-> {role} \X Permissions,
                 writes |-> {role} \X (granted[role] \union next), beside |-> {}]
           r == [stage |-> "open", role |-> role, next |-> next, previous |-> granted[role], tx |-> t]
<1>1. /\ replacement' = [replacement EXCEPT ![q] = r]
      /\ UNCHANGED <<granted, audited>>
    BY DEF BeginReplacement
<1>2. r \in Replacement
    BY DEF BeginReplacement, Assignable, RolesInductive, RolesTypeOK, Replacement, Rows
<1>3. RolesTypeOK'
    BY <1>1, <1>2 DEF RolesInductive, RolesTypeOK
<1>4. NeverMerged'
    BY <1>1 DEF RolesInductive, NeverMerged
<1>5. ASSUME NEW p \in Replacements PROVE SeesOrConflicts(p)'
    <2>1. CASE p = q
        <3>1. replacement'[p] = r
            BY <2>1, <1>1 DEF RolesInductive, RolesTypeOK
        <3> QED
            BY <3>1, <1>1 DEF SeesOrConflicts, OfRole
    <2>2. CASE p # q
        <3>1. replacement'[p] = replacement[p]
            BY <2>2, <1>1 DEF RolesInductive, RolesTypeOK
        <3> QED
            BY <3>1, <1>1 DEF RolesInductive, SeesOrConflicts
    <2> QED
        BY <2>1, <2>2
<1> QED
    BY <1>3, <1>4, <1>5 DEF RolesInductive

\* The heart: a replacement that commits changes nothing, or replaces exactly the
\* set it has read.
LEMMA CommitSeesWhatItReplaces ==
    ASSUME RolesInductive, NEW q \in Replacements, CommitReplacement(q)
    PROVE  LET r == replacement[q] IN
           \/ r.previous = {} /\ r.next = {}
           \/ granted[r.role] = r.previous
<1> DEFINE r == replacement[q]
<1>1. /\ r.stage = "open"
      /\ SeesOrConflicts(q)
      /\ r \in Replacement
    BY DEF CommitReplacement, RolesInductive, RolesTypeOK
<1>2. SUFFICES ASSUME r.previous \union r.next # {}, granted[r.role] # r.previous
               PROVE  FALSE
    OBVIOUS
<1>3. PICK c \in DoneReplacement : /\ <<c, c>> \in r.tx.beside
                        /\ c.reads = OfRole(r.role)
                        /\ c.writes \cap OfRole(r.role) # {}
    BY <1>1, <1>2 DEF SeesOrConflicts
<1>4. Missed(r.tx, c)
    BY <1>1, <1>3 DEF SeesOrConflicts, Missed
<1>5. MissedBy(r.tx, c)
    <2>1. PICK p \in Permissions : p \in r.previous \union r.next
        BY <1>1, <1>2 DEF Replacement
    <2>2. <<r.role, p>> \in c.reads /\ <<r.role, p>> \in r.tx.writes
        BY <2>1, <1>1, <1>3 DEF SeesOrConflicts, OfRole
    <2> QED
        BY <2>2, <1>3 DEF MissedBy
<1> QED
    BY <1>3, <1>4, <1>5 DEF CommitReplacement, MayReplace, MayCommit, Dangerous

\* CommitReplacement keeps the invariant: the others remember a transaction that read and,
\* if it changed the role, wrote it.
LEMMA CommitReplacementKeeps ==
    ASSUME RolesInductive, NEW q \in Replacements, CommitReplacement(q)
    PROVE  RolesInductive'
<1> DEFINE r == replacement[q]
           done == Committed(r.tx)
<1>1. /\ r.stage = "open"
      /\ SeesOrConflicts(q)
      /\ r \in Replacement
      /\ r.role \in ManagementRoles
    BY DEF CommitReplacement, RolesInductive, RolesTypeOK, SeesOrConflicts
<1>2. /\ r.previous \in SUBSET Permissions
      /\ r.next \in SUBSET Permissions
      /\ r.tx.reads \in SUBSET Rows
      /\ r.tx.writes \in SUBSET Rows
    BY <1>1 DEF Replacement
<1>3. \/ r.previous = {} /\ r.next = {}
      \/ granted[r.role] = r.previous
    BY CommitSeesWhatItReplaces
<1>4. done \in DoneReplacement
    BY <1>2 DEF Committed, DoneReplacement
<1>5. /\ granted' = [granted EXCEPT ![r.role] = (granted[r.role] \ r.previous) \union r.next]
      /\ granted' \in [ManagementRoles -> SUBSET Permissions]
    BY <1>1, <1>2 DEF CommitReplacement, Replaced, RolesInductive, RolesTypeOK
<1>6. audited' = IF r.previous = r.next THEN audited
                 ELSE [audited EXCEPT ![r.role] = [previous |-> r.previous, next |-> r.next]]
    BY DEF CommitReplacement
<1>7. audited' \in [ManagementRoles -> Entry]
    BY <1>1, <1>2, <1>6 DEF RolesInductive, RolesTypeOK, Entry
<1>8. ASSUME NEW p \in Replacements
      PROVE  /\ replacement'[p] \in Replacement
             /\ replacement'[p].stage = "open" => p # q /\ replacement[p].stage = "open"
                  /\ replacement'[p] = [replacement[p] EXCEPT !.tx.beside = With(@, done)]
    <2>1. replacement[p] \in Replacement /\ EndedReplacement \in Replacement /\ EndedReplacement.stage = "ended"
        BY DEF RolesInductive, RolesTypeOK, NewReplacement, EndedReplacement, Replacement, NotBegun
    <2>2. replacement'[p] = IF p = q THEN EndedReplacement
                        ELSE IF replacement[p].stage = "open"
                        THEN [replacement[p] EXCEPT !.tx.beside = With(@, done)]
                        ELSE replacement[p]
        BY DEF CommitReplacement
    <2>3. With(replacement[p].tx.beside, done) \in SUBSET (DoneReplacement \X DoneReplacement)
        BY <2>1, <1>4 DEF Replacement, With
    <2>4. [replacement[p] EXCEPT !.tx.beside = With(@, done)] \in Replacement
        BY <2>1, <2>3 DEF Replacement
    <2> QED
        BY <2>1, <2>2, <2>4
<1>9. RolesTypeOK'
    <2>1. replacement' \in [Replacements -> Replacement]
        BY <1>8 DEF CommitReplacement
    <2> QED
        BY <2>1, <1>5, <1>7 DEF RolesTypeOK
<1>10. NeverMerged'
    <2> SUFFICES ASSUME NEW role \in ManagementRoles PROVE granted'[role] = audited'[role].next
        BY DEF NeverMerged
    <2>1. granted[role] = audited[role].next
        BY DEF RolesInductive, NeverMerged
    <2>2. CASE role # r.role
        BY <2>1, <2>2, <1>5, <1>6 DEF RolesInductive, RolesTypeOK
    <2>3. CASE role = r.role /\ r.previous = r.next
        BY <2>1, <2>3, <1>1, <1>3, <1>5, <1>6 DEF RolesInductive, RolesTypeOK
    <2>4. CASE role = r.role /\ r.previous # r.next
        BY <2>4, <1>1, <1>3, <1>5, <1>6 DEF RolesInductive, RolesTypeOK
    <2> QED
        BY <2>2, <2>3, <2>4
<1>11. ASSUME NEW p \in Replacements PROVE SeesOrConflicts(p)'
    <2> DEFINE s == replacement[p]
    <2>1. SUFFICES ASSUME replacement'[p].stage = "open" PROVE SeesOrConflicts(p)'
        BY DEF SeesOrConflicts
    <2>2. /\ s.stage = "open"
          /\ s \in Replacement
          /\ SeesOrConflicts(p)
          /\ replacement'[p] = [s EXCEPT !.tx.beside = With(@, done)]
        BY <2>1, <1>8 DEF RolesInductive, RolesTypeOK
    <2>3. /\ replacement'[p].role = s.role
          /\ replacement'[p].next = s.next
          /\ replacement'[p].previous = s.previous
          /\ replacement'[p].tx.reads = s.tx.reads
          /\ replacement'[p].tx.writes = s.tx.writes
          /\ replacement'[p].tx.beside = With(s.tx.beside, done)
        BY <2>2 DEF Replacement
    <2>4. \/ granted'[s.role] = s.previous
          \/ \E c \in DoneReplacement : /\ <<c, c>> \in With(s.tx.beside, done)
                            /\ c.reads = OfRole(s.role)
                            /\ c.writes \cap OfRole(s.role) # {}
        <3>1. CASE granted'[s.role] = granted[s.role]
            BY <3>1, <2>2 DEF SeesOrConflicts, With
        <3>2. CASE granted'[s.role] # granted[s.role]
            <4>1. s.role = r.role /\ r.previous \union r.next # {}
                BY <3>2, <1>1, <1>5, <2>2 DEF SeesOrConflicts, RolesInductive, RolesTypeOK
            <4>2. PICK x \in Permissions : x \in r.previous \union r.next
                BY <4>1, <1>2
            <4>3. done.reads = OfRole(s.role) /\ <<r.role, x>> \in done.writes
                BY <4>1, <4>2, <1>1 DEF Committed, SeesOrConflicts
            <4>4. done.writes \cap OfRole(s.role) # {}
                BY <4>1, <4>2, <4>3 DEF OfRole
            <4> QED
                BY <1>4, <4>3, <4>4 DEF With
        <3> QED
            BY <3>1, <3>2
    <2> QED
        BY <2>2, <2>3, <2>4 DEF SeesOrConflicts
<1> QED
    BY <1>9, <1>10, <1>11 DEF RolesInductive

\* An aborted replacement is forgotten.
LEMMA AbortReplacementKeeps ==
    ASSUME RolesInductive, NEW q \in Replacements, AbortReplacement(q)
    PROVE  RolesInductive'
<1>1. EndedReplacement \in Replacement
    BY DEF NewReplacement, EndedReplacement, Replacement, NotBegun
<1>2. RolesTypeOK'
    BY <1>1 DEF AbortReplacement, RolesInductive, RolesTypeOK
<1>3. NeverMerged'
    BY DEF AbortReplacement, RolesInductive, NeverMerged
<1>4. ASSUME NEW p \in Replacements PROVE SeesOrConflicts(p)'
    <2>1. CASE p = q
        <3>1. replacement'[p].stage = "ended"
            BY <2>1 DEF AbortReplacement, RolesInductive, RolesTypeOK, EndedReplacement, NewReplacement
        <3> QED
            BY <3>1 DEF SeesOrConflicts
    <2>2. CASE p # q
        <3>1. replacement'[p] = replacement[p] /\ UNCHANGED <<granted, audited>>
            BY <2>2 DEF AbortReplacement, RolesInductive, RolesTypeOK
        <3> QED
            BY <3>1 DEF RolesInductive, SeesOrConflicts
    <2> QED
        BY <2>1, <2>2
<1> QED
    BY <1>2, <1>3, <1>4 DEF RolesInductive

\* Every step keeps the invariant.
LEMMA RolesNextInductive == RolesInductive /\ [RolesNext]_rolesVars => RolesInductive'
<1> SUFFICES ASSUME RolesInductive, [RolesNext]_rolesVars PROVE RolesInductive'
    OBVIOUS
<1>1. ASSUME NEW q \in Replacements, NEW role \in ManagementRoles, NEW next \in SUBSET Catalog,
             BeginReplacement(q, role, next)
      PROVE RolesInductive'
    BY <1>1, BeginReplacementKeeps
<1>2. ASSUME NEW q \in Replacements, CommitReplacement(q) PROVE RolesInductive'
    BY <1>2, CommitReplacementKeeps
<1>3. ASSUME NEW q \in Replacements, AbortReplacement(q) PROVE RolesInductive'
    BY <1>3, AbortReplacementKeeps
<1>4. CASE UNCHANGED rolesVars
    BY <1>4 DEF rolesVars, RolesInductive, RolesTypeOK, NeverMerged, SeesOrConflicts
<1> QED
    BY <1>1, <1>2, <1>3, <1>4 DEF RolesNext

LEMMA RolesAlwaysInductive == RolesSpec => []RolesInductive
BY RolesInitInductive, RolesNextInductive, PTL DEF RolesSpec

-----------------------------------------------------------------------------
\* A role has the permissions of the last audited replacement, whatever
\* requests replace them at the same time.
THEOREM ReplacementsNeverMerge == RolesSpec => [](RolesTypeOK /\ NeverMerged)
<1>1. RolesInductive => RolesTypeOK /\ NeverMerged
    BY DEF RolesInductive
<1> QED
    BY <1>1, RolesAlwaysInductive, PTL

\* Every audited replacement names the set it replaced.
THEOREM AuditChains == RolesSpec => AuditIsAChain
<1> DEFINE Chain == \A r \in ManagementRoles : audited'[r] # audited[r] => audited'[r].previous = granted[r]
<1>1. RolesInductive /\ [RolesNext]_rolesVars => [Chain]_rolesVars
    <2> SUFFICES ASSUME RolesInductive, RolesNext, NEW role \in ManagementRoles, audited'[role] # audited[role]
                 PROVE  audited'[role].previous = granted[role]
        OBVIOUS
    <2>1. PICK q \in Replacements : CommitReplacement(q)
        BY DEF RolesNext, BeginReplacement, AbortReplacement
    <2> DEFINE r == replacement[q]
    <2>2. r.previous # r.next /\ r.role \in ManagementRoles
        BY <2>1 DEF CommitReplacement, RolesInductive, SeesOrConflicts
    <2>3. audited' = [audited EXCEPT ![r.role] = [previous |-> r.previous, next |-> r.next]]
        BY <2>1, <2>2 DEF CommitReplacement
    <2>4. role = r.role /\ audited'[role].previous = r.previous
        BY <2>2, <2>3 DEF RolesInductive, RolesTypeOK
    <2>5. granted[r.role] = r.previous
        BY <2>1, <2>2, CommitSeesWhatItReplaces
    <2> QED
        BY <2>4, <2>5
<1> QED
    BY <1>1, RolesAlwaysInductive, PTL DEF RolesSpec, AuditIsAChain

-----------------------------------------------------------------------------
(* Portal logins.                                                          *)

PortalRequest == {New, Ended} \union [stage : {"read"}, input : Input, existing : Customer]

\* What a request read of a linked login is still so: a link is for good.
StillLinked(r) ==
    r.stage = "read" =>
        /\ customer[r.input.id].exists
        /\ r.existing.portal # Null => r.existing.portal = customer[r.input.id].portal
        /\ Accepted(r)

PortalInductive ==
    /\ PortalTypeOK /\ LoginsAreOwned
    /\ request \in [Requests -> PortalRequest]
    /\ \A c \in Customers : ~customer[c].exists => customer[c].portal = Null
    /\ \A q \in Requests : StillLinked(request[q])

\* The links of the customers and who has a login, unchanged.
SameLinks ==
    /\ \A c \in Customers : customer'[c].portal = customer[c].portal
    /\ UnusedLogins' = UnusedLogins

LEMMA SameLinksKeepOwners ==
    ASSUME LoginsAreOwned, SameLinks
    PROVE  LoginsAreOwned'
BY DEF LoginsAreOwned, SameLinks

\* u becomes the login of c, neither of which had the other.
Links(c, u) ==
    /\ u \in UnusedLogins /\ u # Null
    /\ customer[c].portal = Null
    /\ customer'[c].portal = u
    /\ \A d \in Customers \ {c} : customer'[d].portal = customer[d].portal
    /\ UnusedLogins' = UnusedLogins \ {u}

LEMMA LinkKeepsOwners ==
    ASSUME LoginsAreOwned, NEW c \in Customers, NEW u \in Logins, Links(c, u)
    PROVE  LoginsAreOwned'
<1>1. \A d \in Customers : customer'[d].portal # Null => customer'[d].portal \notin UnusedLogins'
    BY DEF LoginsAreOwned, Links
<1>2. ASSUME NEW v \in Logins \ UnusedLogins'
      PROVE  \E d \in Customers :
                 customer'[d].portal = v /\ \A e \in Customers \ {d} : customer'[e].portal # v
    <2>1. CASE v = u
        <3>1. \A e \in Customers \ {c} : customer'[e].portal # u
            BY DEF LoginsAreOwned, Links
        <3> QED
            BY <2>1, <3>1 DEF Links
    <2>2. CASE v # u
        <3>1. v \in Logins \ UnusedLogins /\ v # Null
            BY <1>2, <2>2, NullAssumption DEF Links
        <3>2. PICK d \in Customers :
                  customer[d].portal = v /\ \A e \in Customers \ {d} : customer[e].portal # v
            BY <3>1 DEF LoginsAreOwned
        <3>3. d # c
            BY <3>1, <3>2 DEF Links
        <3> QED
            BY <2>2, <3>2, <3>3 DEF Links
    <2> QED
        BY <2>1, <2>2
<1> QED
    BY <1>1, <1>2 DEF LoginsAreOwned


\* Types and the uniqueness of emails when u gets an email nobody else has.
LEMMA NewEmail ==
    ASSUME PortalTypeOK, NEW u \in Logins, NEW e \in Email,
           e = Null \/ \A v \in Logins \ {u} : login[v] # e,
           login' = [login EXCEPT ![u] = e]
    PROVE  /\ login' \in [Logins -> Email]
           /\ \A u1, u2 \in Logins \ UnusedLogins' : login'[u1] = login'[u2] => u1 = u2
<1>1. login' \in [Logins -> Email] /\ \A v \in Logins : login'[v] = IF v = u THEN e ELSE login[v]
    BY DEF PortalTypeOK
<1>2. UnusedLogins' = {v \in Logins : login'[v] = Null}
    BY DEF UnusedLogins
<1>3. ASSUME NEW u1 \in Logins \ UnusedLogins', NEW u2 \in Logins \ UnusedLogins', login'[u1] = login'[u2]
      PROVE  u1 = u2
    BY <1>1, <1>2, <1>3 DEF PortalTypeOK, UnusedLogins
<1> QED
    BY <1>1, <1>3

LEMMA PortalStarts == PortalInit => PortalInductive
<1> SUFFICES ASSUME PortalInit PROVE PortalInductive
    OBVIOUS
<1>1. NoCustomer \in Customer
    BY DEF NoCustomer, Customer, Email
<1>2. PortalTypeOK
    BY <1>1 DEF PortalInit, PortalTypeOK, UnusedLogins, Email
<1>3. LoginsAreOwned
    BY DEF PortalInit, LoginsAreOwned, UnusedLogins, NoCustomer
<1>4. request \in [Requests -> PortalRequest] /\ \A q \in Requests : StillLinked(request[q])
    BY DEF PortalInit, PortalRequest, StillLinked, New
<1>5. \A c \in Customers : ~customer[c].exists => customer[c].portal = Null
    BY DEF PortalInit, NoCustomer
<1> QED
    BY <1>2, <1>3, <1>4, <1>5 DEF PortalInductive

LEMMA CreateCustomerKeeps ==
    ASSUME PortalInductive,
           NEW c \in Customers, NEW email \in Email, NEW password \in BOOLEAN,
           createCustomer(c, email, password)
    PROVE  PortalInductive'
<1>1. ~customer[c].exists /\ customer[c].portal = Null /\ request' = request
    BY DEF createCustomer, PortalInductive
<1>2. ASSUME NEW u \in Logins \union {Null},
             customer' = [customer EXCEPT ![c] =
                [exists |-> TRUE, active |-> TRUE, email |-> email, portal |-> u]]
      PROVE  /\ customer' \in [Customers -> Customer]
             /\ customer'[c].portal = u /\ customer'[c].exists
             /\ \A d \in Customers \ {c} : customer'[d] = customer[d]
    <2>1. [exists |-> TRUE, active |-> TRUE, email |-> email, portal |-> u] \in Customer
        BY DEF Customer
    <2> QED
        BY <1>2, <2>1 DEF PortalInductive, PortalTypeOK
<1>3. ASSUME NEW u \in Logins \union {Null}, customer'[c].portal = u, customer'[c].exists,
             \A d \in Customers \ {c} : customer'[d] = customer[d]
      PROVE  /\ request' \in [Requests -> PortalRequest]
             /\ \A d \in Customers : ~customer'[d].exists => customer'[d].portal = Null
             /\ \A q \in Requests : StillLinked(request[q])'
    <2>1. \A d \in Customers : ~customer'[d].exists => customer'[d].portal = Null
        BY <1>3 DEF PortalInductive
    <2>2. ASSUME NEW q \in Requests, request[q].stage = "read"
          PROVE  request[q].input.id \in Customers \ {c}
        BY <1>1, <2>2 DEF PortalInductive, StillLinked, PortalRequest, New, Ended, Input
    <2> QED
        BY <1>1, <1>3, <2>1, <2>2 DEF PortalInductive, StillLinked
<1>4. CASE /\ login' = login
           /\ customer' = [customer EXCEPT ![c] =
                [exists |-> TRUE, active |-> TRUE, email |-> email, portal |-> Null]]
    <2>1. PortalTypeOK'
        BY <1>2, <1>4 DEF PortalInductive, PortalTypeOK, UnusedLogins
    <2>2. SameLinks
        BY <1>1, <1>2, <1>4 DEF SameLinks, UnusedLogins
    <2>3. LoginsAreOwned'
        BY <2>2, SameLinksKeepOwners DEF PortalInductive
    <2> QED
        BY <1>2, <1>3, <1>4, <2>1, <2>3 DEF PortalInductive
<1>5. ASSUME NEW u \in UnusedLogins, email # Null, ~Taken(email),
             login' = [login EXCEPT ![u] = email],
             customer' = [customer EXCEPT ![c] =
                [exists |-> TRUE, active |-> TRUE, email |-> email, portal |-> u]]
      PROVE  PortalInductive'
    <2>0. u \in Logins /\ u # Null
        BY NullAssumption DEF UnusedLogins
    <2>1. PortalTypeOK'
        BY <1>2, <1>5, <2>0, NewEmail DEF PortalInductive, PortalTypeOK, Taken
    <2>2. UnusedLogins' = UnusedLogins \ {u}
        BY <1>5, <2>0 DEF UnusedLogins, PortalInductive, PortalTypeOK
    <2>3. Links(c, u)
        BY <1>1, <1>2, <1>5, <2>0, <2>2 DEF Links
    <2>4. LoginsAreOwned'
        BY <2>0, <2>3, LinkKeepsOwners DEF PortalInductive
    <2> QED
        BY <1>2, <1>3, <1>5, <2>0, <2>1, <2>4 DEF PortalInductive
<1> QED
    BY <1>4, <1>5 DEF createCustomer


LEMMA ReadKeeps ==
    ASSUME PortalInductive, NEW q \in Requests, NEW input \in Input, Read(q, input)
    PROVE  PortalInductive'
<1> DEFINE r == [stage |-> "read", input |-> input, existing |-> customer[input.id]]
<1>1. r \in PortalRequest
    BY DEF PortalRequest, Input, PortalInductive, PortalTypeOK
<1>2. /\ customer' = customer /\ login' = login
      /\ request' = [request EXCEPT ![q] = r]
      /\ customer[input.id].exists /\ Accepted(r)
    BY DEF Read
<1>3. StillLinked(r)'
    BY <1>2 DEF StillLinked, Accepted, Grants, ResultingEmail
<1>4. \A p \in Requests : StillLinked(request[p])'
    <2> SUFFICES ASSUME NEW p \in Requests PROVE StillLinked(request[p])'
        OBVIOUS
    <2>1. request'[p] = IF p = q THEN r ELSE request[p]
        BY <1>2 DEF PortalInductive
    <2>2. StillLinked(request[p])
        BY DEF PortalInductive
    <2> QED
        BY <1>2, <1>3, <2>1, <2>2 DEF StillLinked
<1>5. SameLinks /\ PortalTypeOK'
    BY <1>2 DEF SameLinks, PortalInductive, PortalTypeOK, UnusedLogins
<1>6. LoginsAreOwned'
    BY <1>5, SameLinksKeepOwners DEF PortalInductive
<1> QED
    BY <1>1, <1>2, <1>4, <1>5, <1>6 DEF PortalInductive

\* What an update does to the row of its customer, whatever portal it leaves.
LEMMA RowUpdated ==
    ASSUME NEW row \in Customer, NEW input \in Input
    PROVE  /\ Updated(row, input) \in Customer
           /\ Updated(row, input).portal = row.portal
           /\ Updated(row, input).exists = row.exists
BY DEF Updated, Customer, Input, Email

\* A request that ends, and what it leaves of the others.
LEMMA EndedKeeps ==
    ASSUME PortalInductive, NEW q \in Requests, request' = [request EXCEPT ![q] = Ended],
           \A c \in Customers :
               /\ customer'[c].exists = customer[c].exists
               /\ customer[c].portal # Null => customer'[c].portal = customer[c].portal
    PROVE  /\ request' \in [Requests -> PortalRequest]
           /\ \A p \in Requests : StillLinked(request[p])'
<1>1. request' \in [Requests -> PortalRequest]
    BY DEF PortalInductive, PortalRequest
<1>2. ASSUME NEW p \in Requests PROVE StillLinked(request[p])'
    <2>1. CASE p = q
        BY <2>1 DEF PortalInductive, StillLinked, Ended
    <2>2. CASE p # q
        <3>1. request'[p] = request[p] /\ StillLinked(request[p]) /\ request[p] \in PortalRequest
            BY <2>2 DEF PortalInductive
        <3>2. request[p].stage = "read" => request[p].input.id \in Customers
            BY <3>1 DEF PortalRequest, New, Ended, Input
        <3> QED
            BY <3>1, <3>2 DEF StillLinked, Accepted, Grants, ResultingEmail
    <2> QED
        BY <2>1, <2>2
<1> QED
    BY <1>1, <1>2

LEMMA ReadRequest ==
    ASSUME PortalInductive, NEW q \in Requests, request[q].stage = "read"
    PROVE  /\ request[q].input \in Input /\ request[q].input.id \in Customers
           /\ request[q].existing \in Customer
           /\ StillLinked(request[q])
           /\ customer[request[q].input.id] \in Customer
BY DEF PortalInductive, PortalRequest, New, Ended, Input, PortalTypeOK

LEMMA GrantKeeps ==
    ASSUME PortalInductive, NEW q \in Requests, Grant(q)
    PROVE  PortalInductive'
<1> DEFINE r == request[q]
           c == r.input.id
           email == ResultingEmail(r)
<1>1. PICK u \in UnusedLogins :
          /\ login' = [login EXCEPT ![u] = email]
          /\ customer' = [customer EXCEPT ![c] = Updated([@ EXCEPT !.portal = u], r.input)]
    BY DEF Grant
<1>2. /\ r.stage = "read" /\ Grants(r) /\ ~Taken(email) /\ customer[c].portal = Null
      /\ request' = [request EXCEPT ![q] = Ended]
    BY DEF Grant, StillUnlinked
<1>3. /\ r.input \in Input /\ c \in Customers /\ r.existing \in Customer
      /\ StillLinked(r) /\ customer[c] \in Customer
    BY <1>2, ReadRequest
<1>4. u \in Logins /\ u # Null /\ login[u] = Null
    BY NullAssumption DEF UnusedLogins
<1>5. email \in Email /\ email # Null
    BY <1>2, <1>3 DEF StillLinked, Accepted, ResultingEmail, Input, Customer, Email
<1> DEFINE new == Updated([customer[c] EXCEPT !.portal = u], r.input)
<1>6. /\ [customer[c] EXCEPT !.portal = u] \in Customer
      /\ [customer[c] EXCEPT !.portal = u].portal = u
      /\ [customer[c] EXCEPT !.portal = u].exists = customer[c].exists
    BY <1>3, <1>4 DEF Customer
<1>7. new \in Customer /\ new.portal = u /\ new.exists = customer[c].exists
    BY <1>3, <1>6, RowUpdated
<1> HIDE DEF new
<1>8. /\ customer' \in [Customers -> Customer]
      /\ customer'[c] = new
      /\ \A d \in Customers \ {c} : customer'[d] = customer[d]
    <2>1. customer' = [customer EXCEPT ![c] = new]
        BY <1>1 DEF new
    <2> QED
        BY <1>3, <1>7, <2>1 DEF PortalInductive, PortalTypeOK
<1>9. PortalTypeOK'
    <2>1. \A v \in Logins \ {u} : login[v] # email
        BY <1>2 DEF Taken
    <2> QED
        BY <1>1, <1>4, <1>5, <1>8, <2>1, NewEmail DEF PortalInductive, PortalTypeOK
<1>10. Links(c, u)
    <2>1. UnusedLogins' = UnusedLogins \ {u}
        BY <1>1, <1>4, <1>5 DEF UnusedLogins, PortalInductive, PortalTypeOK
    <2> QED
        BY <1>2, <1>4, <1>7, <1>8, <2>1 DEF Links
<1>11. LoginsAreOwned'
    BY <1>3, <1>4, <1>10, LinkKeepsOwners DEF PortalInductive
<1>12. \A d \in Customers :
          /\ customer'[d].exists = customer[d].exists
          /\ customer[d].portal # Null => customer'[d].portal = customer[d].portal
    BY <1>2, <1>7, <1>8
<1>13. \A d \in Customers : ~customer'[d].exists => customer'[d].portal = Null
    BY <1>2, <1>3, <1>7, <1>8 DEF PortalInductive, StillLinked
<1> QED
    BY <1>2, <1>9, <1>11, <1>12, <1>13, EndedKeeps DEF PortalInductive

LEMMA UpdateFieldsKeeps ==
    ASSUME PortalInductive, NEW q \in Requests, UpdateFields(q)
    PROVE  PortalInductive'
<1> DEFINE r == request[q]
           c == r.input.id
           u == r.existing.portal
<1>1. /\ r.stage = "read" /\ request' = [request EXCEPT ![q] = Ended]
      /\ customer' = [customer EXCEPT ![c] = Updated(customer[c], r.input)]
    BY DEF UpdateFields
<1>2. /\ r.input \in Input /\ c \in Customers /\ r.existing \in Customer
      /\ StillLinked(r) /\ customer[c] \in Customer
    BY <1>1, ReadRequest
<1> DEFINE new == Updated(customer[c], r.input)
<1>3. new \in Customer /\ new.portal = customer[c].portal /\ new.exists = customer[c].exists
    BY <1>2, RowUpdated
<1> HIDE DEF new
<1>4. /\ customer' \in [Customers -> Customer]
      /\ \A d \in Customers : /\ customer'[d].portal = customer[d].portal
                              /\ customer'[d].exists = customer[d].exists
    <2>1. customer' = [customer EXCEPT ![c] = new]
        BY <1>1 DEF new
    <2> QED
        BY <1>2, <1>3, <2>1 DEF PortalInductive, PortalTypeOK
<1>5. /\ login' \in [Logins -> Email] /\ UnusedLogins' = UnusedLogins
      /\ \A u1, u2 \in Logins \ UnusedLogins' : login'[u1] = login'[u2] => u1 = u2
    <2>1. CASE login' = login
        BY <2>1 DEF PortalInductive, PortalTypeOK, UnusedLogins
    <2>2. CASE login' # login
        <3>1. /\ Renames(r) /\ login' = [login EXCEPT ![u] = r.input.email]
              /\ \A other \in Logins \ {u} : login[other] # r.input.email
            BY <2>2 DEF UpdateFields
        <3>2. u \in Logins /\ u # Null /\ u = customer[c].portal
            BY <1>1, <1>2, <3>1 DEF Renames, Customer, StillLinked
        <3>3. r.input.email \in Email /\ r.input.email # Null
            BY <1>1, <1>2, <3>1 DEF Renames, StillLinked, Accepted, Input
        <3>4. u \notin UnusedLogins
            BY <1>2, <3>2 DEF PortalInductive, LoginsAreOwned
        <3>5. UnusedLogins' = UnusedLogins
            BY <3>1, <3>2, <3>3, <3>4 DEF UnusedLogins, PortalInductive, PortalTypeOK
        <3> QED
            BY <3>1, <3>2, <3>3, <3>5, NewEmail DEF PortalInductive
    <2> QED
        BY <2>1, <2>2
<1>6. PortalTypeOK'
    BY <1>4, <1>5 DEF PortalTypeOK
<1>7. LoginsAreOwned'
    BY <1>4, <1>5, SameLinksKeepOwners DEF SameLinks, PortalInductive
<1>8. \A d \in Customers : ~customer'[d].exists => customer'[d].portal = Null
    BY <1>4 DEF PortalInductive
<1> QED
    BY <1>1, <1>4, <1>6, <1>7, <1>8, EndedKeeps DEF PortalInductive

LEMMA PortalSteps == PortalInductive /\ [PortalNext]_portalVars => PortalInductive'
<1> SUFFICES ASSUME PortalInductive, [PortalNext]_portalVars PROVE PortalInductive'
    OBVIOUS
<1>1. ASSUME NEW c \in Customers, NEW email \in Email, NEW password \in BOOLEAN,
             createCustomer(c, email, password)
      PROVE  PortalInductive'
    BY <1>1, CreateCustomerKeeps
<1>2. ASSUME NEW q \in Requests, NEW input \in Input, Read(q, input) PROVE PortalInductive'
    BY <1>2, ReadKeeps
<1>3. ASSUME NEW q \in Requests, Grant(q) PROVE PortalInductive'
    BY <1>3, GrantKeeps
<1>4. ASSUME NEW q \in Requests, UpdateFields(q) PROVE PortalInductive'
    BY <1>4, UpdateFieldsKeeps
<1>5. ASSUME NEW q \in Requests, Fail(q) PROVE PortalInductive'
    <2>1. /\ customer' = customer /\ login' = login
          /\ request' = [request EXCEPT ![q] = Ended]
        BY <1>5 DEF Fail
    <2>2. /\ request' \in [Requests -> PortalRequest]
          /\ \A p \in Requests : StillLinked(request[p])'
        BY <2>1, EndedKeeps
    <2> QED
        BY <2>1, <2>2 DEF PortalInductive, PortalTypeOK, LoginsAreOwned, UnusedLogins
<1>6. CASE UNCHANGED portalVars
    BY <1>6 DEF portalVars, PortalInductive, PortalTypeOK, LoginsAreOwned, UnusedLogins, StillLinked
<1> QED
    BY <1>1, <1>2, <1>3, <1>4, <1>5, <1>6 DEF PortalNext

\* A login has exactly one customer, and a customer no login that was rolled
\* back, for any number of customers, logins and racing updates (updateCustomer).
THEOREM LoginsStayOwned == PortalSpec => [](PortalTypeOK /\ LoginsAreOwned)
<1>1. PortalInit => PortalInductive
    BY PortalStarts
<1>2. PortalInductive /\ [PortalNext]_portalVars => PortalInductive'
    BY PortalSteps
<1>3. PortalInductive => PortalTypeOK /\ LoginsAreOwned
    BY DEF PortalInductive
<1> QED
    BY <1>1, <1>2, <1>3, PTL DEF PortalSpec

=============================================================================
