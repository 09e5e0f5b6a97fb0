---------------------------- MODULE ClientSession ----------------------------
(***************************************************************************)
(* The browser's side of a session: the tabs of one user, the tokens they  *)
(* share in localStorage, and the calls of lib/api.ts, each of which may   *)
(* trade the refresh token once when it is answered 401.  The server side  *)
(* of that trade is module Auth: call c uses request c there.              *)
(*                                                                         *)
(* Access and refresh token are always written and removed together, so    *)
(* the pair is named by its refresh token.                                 *)
(***************************************************************************)
EXTENDS Auth

CONSTANTS
    Me,          \* the user at the browser
    Tabs, TabOf  \* the tab a call belongs to; Calls == Requests

Calls == Requests

ASSUME ClientAssumption ==
    /\ Me \in Users /\ Tokens # {}
    /\ TabOf \in [Calls -> Tabs]

VARIABLES
    store,      \* localStorage
    stale,      \* pairs whose access token has expired (minutes; the refresh token: days)
    call,       \* what became of each call
    leaving,    \* tabs that have been sent to /login and are not unloaded yet
    alone,      \* no two calls have overlapped so far
    orphaned,   \* refresh tokens whose trade was under way when their page was unloaded
    excused     \* something happened that may end a session: a sign-out, an expired
                \*   refresh token, a failed request, an answer nobody got, a page
                \*   that could not load its user

clientVars == <<store, stale, call, leaving, alone, orphaned, excused>>
allVars == <<vars, clientVars>>

CallRecord ==
    [kind : {"api", "login"}, with : Tokens \cup {NoToken}, retried : BOOLEAN,
     step : {"idle", "asked", "posted", "401", "other", "refreshing", "gone"}]

NoCall == [kind |-> "api", with |-> NoToken, retried |-> FALSE, step |-> "idle"]

ClientTypeOK ==
    /\ TypeOK
    /\ store \in Tokens \cup {NoToken}
    /\ stale \subseteq Tokens
    /\ call \in [Calls -> CallRecord]
    /\ leaving \subseteq Tabs
    /\ alone \in BOOLEAN /\ excused \in BOOLEAN /\ orphaned \subseteq Tokens

(* The user is logged in, with any one of the tokens. *)
First == CHOOSE t \in Tokens : TRUE

ClientInit ==
    /\ registered = {Me} /\ active = {Me} /\ locked = {} /\ enabled = {}
    /\ secret = [u \in Users |-> NoSecret]
    /\ owner = [t \in Tokens |-> IF t = First THEN Me ELSE Nobody]
    /\ revoked = {} /\ expired = {} /\ loggedOut = {}
    /\ pred = [t \in Tokens |-> NoToken]
    /\ root = [t \in Tokens |-> IF t = First THEN First ELSE NoToken]
    /\ req = [r \in Requests |-> Idle]
    /\ given = [r \in Requests |-> NoToken]
    /\ proved = [u \in Users |-> NoSecret]
    /\ badPasswords = [u \in Users |-> 0]
    /\ overlapped = TRUE    \* not of interest here
    /\ store = First /\ stale = {} /\ leaving = {} /\ alone = TRUE
    /\ orphaned = {} /\ excused = FALSE
    /\ call = [c \in Calls |-> NoCall]

Busy == {c \in Calls : call[c].step # "idle"}
(* Bound: a call is made only while there are tokens for all that are busy *)
(* (a login may need one more, for a refresh before it is tried again, if  *)
(* there is or may be a session by then).                                  *)
EnoughTokens(kind) ==
    LET logins == Cardinality({c \in Busy : call[c].kind = "login"})
                    + IF kind = "login" THEN 1 ELSE 0
        none == /\ store = NoToken /\ logins <= 1
                /\ \A c \in Busy : call[c].step # "refreshing"
    IN  Cardinality(Tokens \ Issued) >=
            Cardinality(Busy) + 1 + IF none THEN 0 ELSE logins

Ends(c) == call' = [call EXCEPT ![c] = NoCall]
Goes(c, step) == call' = [call EXCEPT ![c].step = step]
-----------------------------------------------------------------------------
(* A page makes a call, or the login page does: it does not ask whether    *)
(* there is a session.                                                     *)
Ask(c) ==
    /\ call[c].step = "idle" /\ req[c].step = "idle"
    /\ EnoughTokens("api")
    /\ call' = [call EXCEPT ![c] = [NoCall EXCEPT !.step = "asked", !.with = store]]
    /\ alone' = (alone /\ Busy = {})
    /\ UNCHANGED <<vars, store, stale, leaving, orphaned, excused>>

LogIn(c) ==
    /\ call[c].step = "idle" /\ req[c].step = "idle"
    /\ EnoughTokens("login")
    /\ call' = [call EXCEPT ![c] = [NoCall EXCEPT !.kind = "login", !.step = "asked"]]
    /\ alone' = (alone /\ Busy = {})
    /\ UNCHANGED <<vars, store, stale, leaving, orphaned, excused>>

PostLogin(c) ==
    /\ call[c].kind = "login" /\ call[c].step = "asked"
    /\ \E password \in BOOLEAN : Send(c, "login", Me, NoToken, NoSecret, password)
    /\ Goes(c, "posted")
    /\ UNCHANGED <<store, stale, leaving, alone, orphaned, excused>>

(* The server looks at the access token: 401, or some other answer (200,   *)
(* 403 of a locked user, a network error).                                 *)
Judge(c) ==
    LET good == call[c].with # NoToken /\ call[c].with \notin stale /\ Me \in active
    IN  /\ call[c].kind = "api" /\ call[c].step = "asked"
        /\ Goes(c, IF good THEN "other" ELSE "401")
        /\ UNCHANGED <<vars, store, stale, leaving, alone, orphaned, excused>>

(* The caller gets its answer.  When the call is the layout's GET /auth/me *)
(* and it failed, for whatever reason, the layout logs out.                *)
Rejected(c) ==
    \/ UNCHANGED <<store, excused>>
    \/ /\ call[c].kind = "api" /\ call[c].with # NoToken
       /\ store' = NoToken /\ excused' = TRUE

PassOn(c) ==
    /\ call[c].step = "other"
    /\ Rejected(c)
    /\ Ends(c)
    /\ UNCHANGED <<vars, stale, leaving, alone, orphaned>>

(* The response interceptor on 401: refresh, once per call, with whatever  *)
(* refresh token is stored by now.  Mutant: the call is not marked _retry. *)
On401EveryTime(c) ==
    /\ call[c].step = "401"
    /\ IF store # NoToken
         THEN /\ Send(c, "refresh", Me, store, NoSecret, FALSE)
              /\ Goes(c, "refreshing")
         ELSE /\ Ends(c) /\ UNCHANGED vars
    /\ UNCHANGED <<store, stale, leaving, alone, orphaned, excused>>
On401(c) ==
    /\ call[c].step = "401"
    /\ IF store # NoToken /\ ~call[c].retried
         THEN /\ Send(c, "refresh", Me, store, NoSecret, FALSE)
              /\ call' = [call EXCEPT ![c].step = "refreshing", ![c].retried = TRUE]
              /\ UNCHANGED <<store, excused>>
         ELSE Rejected(c) /\ Ends(c) /\ UNCHANGED vars
    /\ UNCHANGED <<stale, leaving, alone, orphaned>>

Answered(c, answer) == req[c].step = "answered" /\ req[c].answer = answer

(* The new pair is stored and the call is sent again.  Mutant: only the    *)
(* access token is stored.                                                 *)
RefreshedAccessOnly(c) ==
    /\ call[c].step = "refreshing" /\ Answered(c, "ok")
    /\ stale' = stale \ {store}
    /\ call' = [call EXCEPT ![c].step = "asked", ![c].with = given[c]]
    /\ Receive(c)
    /\ UNCHANGED <<store, leaving, alone, orphaned, excused>>
Refreshed(c) ==
    /\ call[c].step = "refreshing" /\ Answered(c, "ok")
    /\ store' = given[c]
    /\ call' = [call EXCEPT ![c].step = "asked", ![c].with = given[c]]
    /\ Receive(c)
    /\ UNCHANGED <<stale, leaving, alone, orphaned, excused>>

(* The refresh was refused, or its answer was lost on the way: the tokens  *)
(* that are stored now are removed, and the tab is sent to /login.         *)
RefreshFailed(c) ==
    /\ call[c].step = "refreshing" /\ req[c].step = "answered"
    /\ store' = NoToken
    /\ leaving' = leaving \cup {TabOf[c]}
    /\ excused' = (excused \/ req[c].answer = "ok")
    /\ Ends(c)
    /\ Receive(c)
    /\ UNCHANGED <<stale, alone, orphaned>>

(* The login page. *)
LoggedIn(c) ==
    /\ call[c].step = "posted" /\ Answered(c, "ok")
    /\ store' = given[c]
    /\ Ends(c)
    /\ Receive(c)
    /\ UNCHANGED <<stale, leaving, alone, orphaned, excused>>

LoginRefused(c) ==
    /\ call[c].step = "posted" /\ Answered(c, "refused")
    /\ Goes(c, "401")
    /\ Receive(c)
    /\ UNCHANGED <<store, stale, leaving, alone, orphaned, excused>>
-----------------------------------------------------------------------------
(* The logout button: the server is not told. *)
SignOut ==
    /\ store # NoToken
    /\ store' = NoToken
    /\ excused' = TRUE
    /\ UNCHANGED <<vars, stale, call, leaving, alone, orphaned>>

(* The tab goes to /login, or is closed or reloaded: its calls are gone,   *)
(* those at the server are served all the same.                            *)
Unload(tab) ==
    LET mine == {c \in Busy : TabOf[c] = tab}
    IN  /\ tab \in leaving \/ mine # {}
        /\ leaving' = leaving \ {tab}
        /\ call' = [c \in Calls |->
                      IF c \notin mine THEN call[c]
                      ELSE IF req[c].step = "idle" THEN NoCall
                      ELSE [NoCall EXCEPT !.step = "gone"]]
        /\ orphaned' = orphaned \cup
             {req[c].token : c \in {d \in mine : call[d].step = "refreshing"}}
        /\ excused' = (excused \/ \E c \in mine : req[c].step # "idle")
        /\ UNCHANGED <<vars, store, stale, alone>>

Discard(c) ==
    /\ call[c].step = "gone" /\ req[c].step = "answered"
    /\ Ends(c)
    /\ Receive(c)
    /\ UNCHANGED <<store, stale, leaving, alone, orphaned, excused>>

AccessExpires(t) ==
    /\ t \in Issued \ stale
    /\ stale' = stale \cup {t}
    /\ UNCHANGED <<vars, store, call, leaving, alone, orphaned, excused>>

Server ==
    \/ /\ \E c \in Calls : Serve(c)
       /\ UNCHANGED clientVars
    \/ /\ \/ \E c \in Calls : LoseRequest(c)
          \/ \E t \in stale : Expire(t)
       /\ excused' = TRUE
       /\ UNCHANGED <<store, stale, call, leaving, alone, orphaned>>
    \/ /\ Administer(Me)
       /\ UNCHANGED clientVars

Browser(c) ==
    \/ PostLogin(c) \/ Judge(c) \/ PassOn(c) \/ On401(c)
    \/ Refreshed(c) \/ RefreshFailed(c) \/ LoggedIn(c) \/ LoginRefused(c) \/ Discard(c)

ClientNext ==
    \/ \E c \in Calls : Ask(c) \/ LogIn(c) \/ Browser(c)
    \/ SignOut
    \/ \E tab \in Tabs : Unload(tab)
    \/ \E t \in Tokens : AccessExpires(t)
    \/ Server

ClientSpec == ClientInit /\ [][ClientNext]_allVars

(* The server answers what it gets, and the browser handles what it is     *)
(* answered.                                                               *)
FairClientSpec ==
    /\ ClientSpec
    /\ \A c \in Calls : WF_allVars(Browser(c)) /\ WF_allVars(Serve(c) /\ UNCHANGED clientVars)
-----------------------------------------------------------------------------
(* The stored refresh token is unrevoked, or the answer that replaces it   *)
(* is on its way, or the page that was to take that very answer has been   *)
(* unloaded: whatever tabs refresh, sign in, sign out or reload at the     *)
(* same time, no other dead token is ever in the store.                    *)
StoredUsable ==
    store \in revoked =>
        \/ store \in orphaned
        \/ \E c \in Calls : /\ call[c].step = "refreshing" /\ Answered(c, "ok")
                            /\ req[c].token = store

(* While calls do not overlap, the browser loses its session only for a    *)
(* reason, over any chain of refreshes.                                    *)
SessionKept == alone /\ store = NoToken => excused

(* Every call ends, also for a user whose every call is answered 401.      *)
CallsEnd == \A c \in Calls : call[c].step # "idle" ~> call[c].step = "idle"
=============================================================================
