-------------------------------- MODULE Auth --------------------------------
(***************************************************************************)
(* Users, refresh tokens and the requests of routers/auth.py.              *)
(*                                                                         *)
(* A request is two steps of one session: a SELECT with everything that is *)
(* decided from it, and the writes with the commit of get_db; any number   *)
(* of requests interleave between the two.  A request that is answered     *)
(* with an error raises HTTPException through get_db, which rolls back     *)
(* whatever the request had flushed.                                       *)
(*                                                                         *)
(* Left out: password hashing, the address check of administrators, and    *)
(* the column login_fail_count, which is zero in every committed state     *)
(* because each of its increments is rolled back with its error.           *)
(***************************************************************************)
EXTENDS Integers, FiniteSets

CONSTANTS
    Users,              \* e-mail addresses
    Tokens,             \* refresh tokens
    Secrets,            \* TOTP secrets; the code of a secret is named by it
    Requests,           \* requests in flight
    MaxLoginFailures,   \* auth_service.MAX_LOGIN_FAILURES
    Nobody, NoToken, NoSecret

ASSUME AuthAssumption ==
    /\ Users # {} /\ Nobody \notin Users
    /\ NoToken \notin Tokens
    /\ NoSecret \notin Secrets
    /\ MaxLoginFailures \in Nat

VARIABLES
    registered, active, locked,     \* table users
    secret, enabled,                \* its columns totp_secret, totp_enabled
    owner, revoked, expired,        \* table refresh_tokens; expires_at has passed
    req, given,                     \* the requests; the refresh token in the answer
    pred, root, loggedOut,          \* the token a token was traded for; the one its
                                    \*   login issued; live tokens given to a logout
    proved, badPasswords,           \* the secret of the last accepted code; wrong
                                    \*   passwords answered since the last success
    overlapped                      \* two requests have been in flight at once

users == <<registered, active, locked, secret, enabled>>
rows == <<owner, revoked, expired, pred, root, loggedOut>>
tokens == <<rows, given>>
vars == <<users, tokens, req, proved, badPasswords, overlapped>>

Ops == {"register", "login", "refresh", "logout", "setup", "verify"}

RequestRecord ==
    [op : Ops, step : {"idle", "sent", "writing", "answered"},
     answer : {"none", "ok", "refused"},
     user : Users, token : Tokens \cup {NoToken}, code : Secrets \cup {NoSecret},
     password : BOOLEAN,   \* whether it is the right one
     late : BOOLEAN]       \* the token was revoked before the request was sent

Idle == [op |-> "logout", step |-> "idle", answer |-> "none",
         user |-> CHOOSE u \in Users : TRUE, token |-> NoToken, code |-> NoSecret,
         password |-> FALSE, late |-> FALSE]

TablesOK ==
    /\ registered \subseteq Users /\ active \subseteq Users /\ locked \subseteq Users
    /\ secret \in [Users -> Secrets \cup {NoSecret}]
    /\ enabled \subseteq Users
    /\ owner \in [Tokens -> Users \cup {Nobody}]
    /\ revoked \subseteq Tokens /\ expired \subseteq Tokens
    /\ pred \in [Tokens -> Tokens \cup {NoToken}]
    /\ root \in [Tokens -> Tokens \cup {NoToken}]
    /\ loggedOut \subseteq Tokens
    /\ given \in [Requests -> Tokens \cup {NoToken}]
    /\ req \in [Requests -> RequestRecord]
    /\ proved \in [Users -> Secrets \cup {NoSecret}]
    /\ badPasswords \in [Users -> 0..MaxLoginFailures]

TypeOK == TablesOK /\ overlapped \in BOOLEAN

Init ==
    /\ registered = {} /\ active = {} /\ locked = {} /\ enabled = {}
    /\ secret = [u \in Users |-> NoSecret]
    /\ owner = [t \in Tokens |-> Nobody]
    /\ revoked = {} /\ expired = {} /\ loggedOut = {}
    /\ pred = [t \in Tokens |-> NoToken]
    /\ root = [t \in Tokens |-> NoToken]
    /\ given = [r \in Requests |-> NoToken]
    /\ req = [r \in Requests |-> Idle]
    /\ proved = [u \in Users |-> NoSecret]
    /\ badPasswords = [u \in Users |-> 0]
    /\ overlapped = FALSE

Issued == {t \in Tokens : owner[t] # Nobody}
InFlight == {r \in Requests : req[r].step \in {"sent", "writing"}}

(* Bound: a request is sent only while there is a token for each of them.  *)
TokensLeft == Cardinality(Tokens \ Issued) > Cardinality(InFlight)
-----------------------------------------------------------------------------
(* A client sends a request.  Only a token that was issued is presented:   *)
(* any other string matches no row and is refused.                         *)
Send(r, op, u, t, code, password) ==
    /\ req[r].step = "idle"
    /\ TokensLeft
    /\ req' = [req EXCEPT ![r] =
          [op |-> op, step |-> "sent", answer |-> "none", user |-> u, token |-> t,
           code |-> code, password |-> password, late |-> t \in revoked]]
    /\ overlapped' = (overlapped \/ InFlight # {})
    /\ UNCHANGED <<users, tokens, proved, badPasswords>>

SendAny(r) ==
    \/ \E u \in Users :
         \/ \E op \in {"register", "setup"} : Send(r, op, u, NoToken, NoSecret, FALSE)
         \/ \E c \in Secrets \cup {NoSecret}, password \in BOOLEAN :
              Send(r, "login", u, NoToken, c, password)
         \/ \E c \in Secrets : Send(r, "verify", u, NoToken, c, FALSE)
    \/ \E t \in Issued, op \in {"refresh", "logout"} :
         Send(r, op, owner[t], t, NoSecret, FALSE)

(* The answer reaches the client. *)
Receive(r) ==
    /\ req[r].step = "answered"
    /\ req' = [req EXCEPT ![r] = Idle]
    /\ given' = [given EXCEPT ![r] = NoToken]
    /\ UNCHANGED <<users, rows, proved, badPasswords, overlapped>>

Reads(r, op) == req[r].op = op /\ req[r].step = "sent"
Writes(r, op) == req[r].op = op /\ req[r].step = "writing"
Becomes(r, step, answer) ==
    LET q == req[r] IN
    req' = [req EXCEPT ![r] =
        [op |-> q.op, step |-> step, answer |-> answer, user |-> q.user, token |-> q.token,
         code |-> q.code, password |-> q.password, late |-> q.late]]
Grant(r) == Becomes(r, "writing", "none")
(* HTTPException: get_db rolls back. *)
Refuse(r) == Becomes(r, "answered", "refused")
Accept(r) == Becomes(r, "answered", "ok")

(* INSERT INTO refresh_tokens, for a login (p = NoToken) or in exchange    *)
(* for p.                                                                  *)
Issue(r, t, u, p) ==
    /\ t \notin Issued
    /\ owner' = [owner EXCEPT ![t] = u]
    /\ pred' = [pred EXCEPT ![t] = p]
    /\ root' = [root EXCEPT ![t] = IF p = NoToken THEN t ELSE root[p]]
    /\ given' = [given EXCEPT ![r] = t]
    /\ UNCHANGED <<expired, loggedOut>>
-----------------------------------------------------------------------------
ReadRegister(r) ==
    /\ Reads(r, "register")
    /\ IF req[r].user \in registered THEN Refuse(r) ELSE Grant(r)
    /\ UNCHANGED <<users, tokens, proved, badPasswords, overlapped>>

(* The unique index on email refuses the second of two concurrent INSERTs. *)
WriteRegister(r) ==
    LET u == req[r].user IN
    /\ Writes(r, "register")
    /\ \/ /\ u \notin registered
          /\ registered' = registered \cup {u} /\ active' = active \cup {u}
          /\ Accept(r)
       \/ /\ u \in registered
          /\ Refuse(r)
          /\ UNCHANGED <<registered, active>>
    /\ UNCHANGED <<locked, secret, enabled, tokens, proved, badPasswords, overlapped>>
-----------------------------------------------------------------------------
MayLogin(u) == u \in registered /\ u \in active /\ u \notin locked

(* The fail count is incremented, and the account locked at the limit, in  *)
(* a flush that the error answer rolls back.                               *)
WrongPassword(r) ==
    LET u == req[r].user IN
    /\ Reads(r, "login")
    /\ MayLogin(u) /\ ~req[r].password
    /\ badPasswords' = [badPasswords EXCEPT ![u] =
                           IF @ < MaxLoginFailures THEN @ + 1 ELSE @]
    /\ Refuse(r)
    /\ UNCHANGED <<users, tokens, proved, overlapped>>

ReadLogin(r) ==
    LET u == req[r].user IN
    /\ Reads(r, "login")
    /\ \/ /\ ~MayLogin(u)
          /\ Refuse(r)
       \/ /\ MayLogin(u) /\ req[r].password
          /\ IF u \in enabled => req[r].code = secret[u] /\ secret[u] # NoSecret
               THEN Grant(r) ELSE Refuse(r)
    /\ UNCHANGED <<users, tokens, proved, badPasswords, overlapped>>

WriteLogin(r) ==
    LET u == req[r].user IN
    /\ Writes(r, "login")
    /\ \E t \in Tokens : Issue(r, t, u, NoToken)
    /\ badPasswords' = [badPasswords EXCEPT ![u] = 0]
    /\ Accept(r)
    /\ UNCHANGED <<users, revoked, proved, overlapped>>
-----------------------------------------------------------------------------
(* SELECT ... WHERE token = :t AND NOT revoked.  A token found expired is  *)
(* revoked in a flush that the error answer rolls back.                    *)
(* Mutant: the query does not look at revoked.                             *)
UsableRevoked(t) == t \notin expired
Usable(t) == t \notin revoked /\ t \notin expired

ReadRefresh(r) ==
    /\ Reads(r, "refresh")
    /\ IF Usable(req[r].token) THEN Grant(r) ELSE Refuse(r)
    /\ UNCHANGED <<users, tokens, proved, badPasswords, overlapped>>

(* UPDATE of the old token and INSERT of the new one.  Mutant: the old one *)
(* stays as it was.                                                        *)
WriteRefreshOnly(r) ==
    LET p == req[r].token IN
    /\ Writes(r, "refresh")
    /\ \E t \in Tokens : Issue(r, t, owner[p], p)
    /\ Accept(r)
    /\ UNCHANGED <<users, revoked, proved, badPasswords, overlapped>>
WriteRefresh(r) ==
    LET p == req[r].token IN
    /\ Writes(r, "refresh")
    /\ revoked' = revoked \cup {p}
    /\ \E t \in Tokens : Issue(r, t, owner[p], p)
    /\ Accept(r)
    /\ UNCHANGED <<users, proved, badPasswords, overlapped>>

(* logout: one UPDATE, whoever asks and whatever the token.                *)
(* Mutant: it answers without the UPDATE.                                  *)
LogoutWithoutUpdate(r) ==
    /\ Reads(r, "logout")
    /\ loggedOut' = loggedOut \cup ({req[r].token} \ revoked)
    /\ Accept(r)
    /\ UNCHANGED <<users, owner, revoked, expired, pred, root, given, proved, badPasswords, overlapped>>
Logout(r) ==
    /\ Reads(r, "logout")
    /\ loggedOut' = loggedOut \cup ({req[r].token} \ revoked)
    /\ revoked' = revoked \cup {req[r].token}
    /\ Accept(r)
    /\ UNCHANGED <<users, owner, expired, pred, root, given, proved, badPasswords, overlapped>>
-----------------------------------------------------------------------------
(* get_current_user, for a client with an access token of the user.        *)
Authenticated(u) == u \in registered /\ u \in active /\ u \notin locked

(* Mutant: a secret can be set up again at any time. *)
ReadSetupAgain(r) ==
    /\ Reads(r, "setup")
    /\ IF Authenticated(req[r].user) THEN Grant(r) ELSE Refuse(r)
    /\ UNCHANGED <<users, tokens, proved, badPasswords, overlapped>>
ReadSetup(r) ==
    /\ Reads(r, "setup")
    /\ IF Authenticated(req[r].user) /\ req[r].user \notin enabled
         THEN Grant(r) ELSE Refuse(r)
    /\ UNCHANGED <<users, tokens, proved, badPasswords, overlapped>>

WriteSetup(r) ==
    /\ Writes(r, "setup")
    /\ \E s \in Secrets \ {secret[req[r].user]} :
         secret' = [secret EXCEPT ![req[r].user] = s]
    /\ Accept(r)
    /\ UNCHANGED <<registered, active, locked, enabled, tokens, proved, badPasswords, overlapped>>

ReadVerify(r) ==
    LET u == req[r].user IN
    /\ Reads(r, "verify")
    /\ IF Authenticated(u) /\ secret[u] # NoSecret /\ req[r].code = secret[u]
         THEN Grant(r) ELSE Refuse(r)
    /\ UNCHANGED <<users, tokens, proved, badPasswords, overlapped>>

WriteVerify(r) ==
    LET u == req[r].user IN
    /\ Writes(r, "verify")
    /\ enabled' = enabled \cup {u}
    /\ proved' = [proved EXCEPT ![u] = req[r].code]
    /\ Accept(r)
    /\ UNCHANGED <<registered, active, locked, secret, tokens, badPasswords, overlapped>>
-----------------------------------------------------------------------------
(* Time passes; an administrator suspends, locks or frees a user (there is *)
(* no endpoint for it); the process or the database fails before a commit. *)
Expire(t) ==
    /\ t \in Issued \ expired
    /\ expired' = expired \cup {t}
    /\ UNCHANGED <<users, owner, revoked, pred, root, loggedOut, req, given, proved,
                   badPasswords, overlapped>>

Administer(u) ==
    /\ u \in registered
    /\ active' \in {active \ {u}, active \cup {u}}
    /\ locked' \in {locked \ {u}, locked \cup {u}}
    /\ badPasswords' = [badPasswords EXCEPT ![u] = 0]
    /\ UNCHANGED <<registered, secret, enabled, tokens, req, proved, overlapped>>

LoseRequest(r) ==
    /\ req[r].step = "writing"
    /\ Refuse(r)
    /\ UNCHANGED <<users, tokens, proved, badPasswords, overlapped>>

Serve(r) ==
    \/ ReadRegister(r) \/ WriteRegister(r)
    \/ WrongPassword(r) \/ ReadLogin(r) \/ WriteLogin(r)
    \/ ReadRefresh(r) \/ WriteRefresh(r)
    \/ Logout(r)
    \/ ReadSetup(r) \/ WriteSetup(r)
    \/ ReadVerify(r) \/ WriteVerify(r)

Next ==
    \/ \E r \in Requests : SendAny(r) \/ Serve(r) \/ LoseRequest(r) \/ Receive(r)
    \/ \E t \in Tokens : Expire(t)
    \/ \E u \in Users : Administer(u)

Spec == Init /\ [][Next]_vars
-----------------------------------------------------------------------------
(* Rotation: a token that was traded for another one is revoked, and both  *)
(* belong to the same user; no commit order of overlapping requests leaves *)
(* the traded token usable.                                                *)
Rotated ==
    \A t \in Tokens : pred[t] # NoToken =>
        pred[t] \in revoked /\ owner[pred[t]] = owner[t]

(* A refresh that is sent after its token was traded or logged out is      *)
(* refused, whatever else is in flight.                                    *)
UsedTokenRejected ==
    \A r \in Requests : req[r].op = "refresh" /\ req[r].late => req[r].answer # "ok"

(* A user whose second factor is on has a secret to compare the code with: *)
(* otherwise nobody could ever log in again.                               *)
EnabledHasSecret == \A u \in enabled : secret[u] # NoSecret

(* While requests do not overlap: of the tokens that descend from one login *)
(* at most one is usable, and none once one of them was logged out.        *)
OneLiveToken ==
    ~overlapped => \A s, t \in Issued \ revoked : root[s] = root[t] => s = t
LogoutEnds ==
    ~overlapped => \A t \in loggedOut : \A s \in Issued \ revoked : root[s] # root[t]

(* While requests do not overlap: a second factor that is on is one for    *)
(* which the user has shown a code.                                        *)
EnabledSecretProved == ~overlapped => \A u \in enabled : secret[u] = proved[u]

(* Tests, with requests that overlap.  "5 consecutive failures lock".      *)
LockedAfterFailures ==
    \A u \in Users : badPasswords[u] >= MaxLoginFailures => u \in locked
=============================================================================
