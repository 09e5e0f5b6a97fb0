----------------------------- MODULE AuthProofs -----------------------------
(***************************************************************************)
(* Theorems about Auth, for any number of users, tokens, secrets and       *)
(* overlapping requests; the second part is about what holds while         *)
(* requests do not overlap.                                                *)
(***************************************************************************)
EXTENDS Auth, TLAPS

(* What a request in flight still knows of the rows it has read. *)
RequestInv(r) ==
    /\ req[r].op \in {"refresh", "logout"} /\ req[r].step \in {"sent", "writing"} =>
         req[r].token \in Issued
    /\ req[r].op = "refresh" /\ req[r].late =>
         /\ req[r].token \in revoked
         /\ req[r].step # "writing" /\ req[r].answer # "ok"
    /\ req[r].op = "verify" /\ req[r].step = "writing" => secret[req[r].user] # NoSecret

TokenInv(t) ==
    /\ pred[t] # NoToken =>
         /\ t \in Issued /\ pred[t] \in Issued /\ pred[t] \in revoked
         /\ owner[pred[t]] = owner[t]
    /\ t \in Issued => root[t] \in Issued

Inv ==
    /\ TablesOK
    /\ \A r \in Requests : RequestInv(r)
    /\ \A t \in Tokens : TokenInv(t)
    /\ loggedOut \subseteq Issued
    /\ EnabledHasSecret

(* The strings an operation is told by are what they are. *)
LEMMA IdleType == Idle \in RequestRecord /\ Idle.step = "idle" /\ Idle.op = "logout"
                  /\ Idle.answer = "none" /\ ~Idle.late
BY AuthAssumption DEF Idle, RequestRecord, Ops

LEMMA InitInv == Init => Inv
<1> SUFFICES ASSUME Init PROVE Inv
  OBVIOUS
<1>1. TablesOK
  BY IdleType, AuthAssumption DEF Init, TablesOK
<1>2. \A r \in Requests : RequestInv(r)
  BY IdleType DEF Init, RequestInv
<1>3. QED
  BY <1>1, <1>2, AuthAssumption DEF Init, Inv, TokenInv, Issued, EnabledHasSecret
-----------------------------------------------------------------------------
(* A step of request r replaces its record and leaves the others alone.    *)
Replaced(r, q) == req' = [req EXCEPT ![r] = q]

LEMMA RequestFields ==
    ASSUME TablesOK, NEW r \in Requests
    PROVE  /\ req[r] \in RequestRecord
           /\ req[r].op \in Ops /\ req[r].user \in Users
           /\ req[r].token \in Tokens \cup {NoToken}
           /\ req[r].code \in Secrets \cup {NoSecret}
           /\ req[r].password \in BOOLEAN /\ req[r].late \in BOOLEAN
BY DEF TablesOK, RequestRecord

LEMMA Answering ==
    ASSUME TablesOK, NEW r \in Requests,
           NEW step \in {"writing", "answered"}, NEW answer \in {"none", "ok", "refused"},
           Becomes(r, step, answer)
    PROVE  /\ req' \in [Requests -> RequestRecord]
           /\ \A s \in Requests \ {r} : req'[s] = req[s]
           /\ req'[r].op = req[r].op /\ req'[r].user = req[r].user
           /\ req'[r].token = req[r].token /\ req'[r].code = req[r].code
           /\ req'[r].late = req[r].late
           /\ req'[r].step = step /\ req'[r].answer = answer
<1>1. req \in [Requests -> RequestRecord]
  BY DEF TablesOK
<1> DEFINE q == req[r]
           n == [op |-> q.op, step |-> step, answer |-> answer, user |-> q.user,
                 token |-> q.token, code |-> q.code, password |-> q.password,
                 late |-> q.late]
<1>2. n \in RequestRecord
  BY RequestFields DEF RequestRecord
<1>3. req' = [req EXCEPT ![r] = n]
  BY DEF Becomes
<1>4. /\ n.op = q.op /\ n.user = q.user /\ n.token = q.token /\ n.code = q.code
      /\ n.late = q.late /\ n.step = step /\ n.answer = answer
  OBVIOUS
<1> HIDE DEF n
<1>5. QED
  BY <1>1, <1>2, <1>3, <1>4
-----------------------------------------------------------------------------
(* Rows only grow in what requests rely on: tokens stay issued and stay    *)
(* revoked, a user who has a secret keeps having one.                      *)
Grows ==
    /\ Issued \subseteq Issued' /\ revoked \subseteq revoked'
    /\ \A u \in Users : secret[u] # NoSecret => secret'[u] # NoSecret

LEMMA RequestsKept ==
    ASSUME Inv, NEW r \in Requests, Grows, RequestInv(r)',
           \A s \in Requests \ {r} : req'[s] = req[s]
    PROVE  \A s \in Requests : RequestInv(s)'
<1> SUFFICES ASSUME NEW s \in Requests, s # r PROVE RequestInv(s)'
  OBVIOUS
<1>1. req'[s] = req[s] /\ req[s].user \in Users /\ RequestInv(s)
  BY RequestFields DEF Inv
<1>2. QED
  BY <1>1 DEF Grows, RequestInv

LEMMA SameRowsGrow == UNCHANGED <<owner, revoked, secret>> => Grows
BY DEF Grows, Issued

(* No table is touched: it is enough to look at the requests. *)
LEMMA RowsKept ==
    ASSUME Inv, UNCHANGED <<users, rows, proved>>,
           given' \in [Requests -> Tokens \cup {NoToken}],
           req' \in [Requests -> RequestRecord],
           badPasswords' \in [Users -> 0..MaxLoginFailures],
           \A r \in Requests : RequestInv(r)'
    PROVE  Inv'
<1>1. TablesOK'
  BY DEF Inv, TablesOK, users, rows
<1>2. QED
  BY <1>1 DEF Inv, TokenInv, Issued, EnabledHasSecret, users, rows

LEMMA SendInv ==
    ASSUME Inv, NEW r \in Requests, NEW op \in Ops, NEW u \in Users,
           NEW t \in Tokens \cup {NoToken}, NEW c \in Secrets \cup {NoSecret},
           NEW password \in BOOLEAN, Send(r, op, u, t, c, password),
           op \in {"refresh", "logout"} => t \in Issued
    PROVE  Inv'
<1> USE DEF Inv
<1> DEFINE n == [op |-> op, step |-> "sent", answer |-> "none", user |-> u, token |-> t,
                 code |-> c, password |-> password, late |-> t \in revoked]
<1>2. n \in RequestRecord
  BY DEF RequestRecord
<1>3. /\ req' = [req EXCEPT ![r] = n]
      /\ UNCHANGED <<users, tokens, proved, badPasswords>>
  BY DEF Send
<1>4. /\ n.op = op /\ n.token = t /\ n.step = "sent" /\ n.answer = "none"
      /\ n.late = (t \in revoked)
  OBVIOUS
<1> HIDE DEF n
<1>5. req' \in [Requests -> RequestRecord] /\ req'[r] = n
      /\ \A s \in Requests \ {r} : req'[s] = req[s]
  BY <1>2, <1>3 DEF TablesOK
<1>6. RequestInv(r)'
  BY <1>3, <1>4, <1>5 DEF RequestInv, tokens, rows, Issued
<1>7. Grows
  BY <1>3, SameRowsGrow DEF users, tokens, rows
<1>8. badPasswords' \in [Users -> 0..MaxLoginFailures]
  BY <1>3 DEF TablesOK
<1>9. QED
  BY <1>3, <1>5, <1>6, <1>7, <1>8, RequestsKept, RowsKept DEF TablesOK, tokens

LEMMA SendAnyInv ==
    ASSUME Inv, NEW r \in Requests, SendAny(r)
    PROVE  Inv'
<1>1. \A t \in Issued : t \in Tokens /\ owner[t] \in Users
  BY DEF Issued, TablesOK, Inv
<1>2. CASE \E t \in Issued, op \in {"refresh", "logout"} :
             Send(r, op, owner[t], t, NoSecret, FALSE)
  <2>1. PICK t \in Issued, op \in {"refresh", "logout"} :
             Send(r, op, owner[t], t, NoSecret, FALSE)
    BY <1>2
  <2>2. op \in Ops /\ t \in Tokens \cup {NoToken} /\ owner[t] \in Users
        /\ NoSecret \in Secrets \cup {NoSecret} /\ FALSE \in BOOLEAN
    BY <1>1 DEF Ops
  <2>3. QED
    BY <2>1, <2>2, SendInv
<1>3. ASSUME NEW u \in Users, NEW op \in {"register", "setup"},
             Send(r, op, u, NoToken, NoSecret, FALSE)
      PROVE  Inv'
  <2>1. op \in Ops /\ op \notin {"refresh", "logout"} /\ NoToken \in Tokens \cup {NoToken}
        /\ NoSecret \in Secrets \cup {NoSecret} /\ FALSE \in BOOLEAN
    BY DEF Ops
  <2>2. QED
    BY <1>3, <2>1, SendInv
<1>4. ASSUME NEW u \in Users, NEW op \in {"login", "verify"},
             NEW c \in Secrets \cup {NoSecret}, NEW password \in BOOLEAN,
             Send(r, op, u, NoToken, c, password)
      PROVE  Inv'
  <2>1. op \in Ops /\ op \notin {"refresh", "logout"} /\ NoToken \in Tokens \cup {NoToken}
    BY DEF Ops
  <2>2. QED
    BY <1>4, <2>1, SendInv
<1>5. ASSUME NEW u \in Users, NEW c \in Secrets \cup {NoSecret}, NEW password \in BOOLEAN,
             Send(r, "login", u, NoToken, c, password)
      PROVE  Inv'
  BY <1>4, <1>5
<1>6. ASSUME NEW u \in Users, NEW c \in Secrets, Send(r, "verify", u, NoToken, c, FALSE)
      PROVE  Inv'
  <2>1. c \in Secrets \cup {NoSecret} /\ FALSE \in BOOLEAN /\ "verify" \in {"login", "verify"}
    OBVIOUS
  <2>2. QED
    BY <1>4, <1>6, <2>1
<1>7. QED
  BY <1>2, <1>3, <1>5, <1>6, Zenon DEF SendAny

LEMMA ReceiveInv ==
    ASSUME Inv, NEW r \in Requests, Receive(r)
    PROVE  Inv'
<1> USE DEF Inv
<1>1. /\ req' \in [Requests -> RequestRecord] /\ req'[r] = Idle
      /\ \A s \in Requests \ {r} : req'[s] = req[s]
      /\ given' \in [Requests -> Tokens \cup {NoToken}]
      /\ UNCHANGED <<users, rows, proved, badPasswords>>
  BY IdleType DEF Receive, TablesOK
<1>2. RequestInv(r)'
  BY <1>1, IdleType DEF RequestInv
<1>3. Grows
  BY <1>1, SameRowsGrow DEF users, rows
<1>4. badPasswords' \in [Users -> 0..MaxLoginFailures]
  BY <1>1 DEF TablesOK
<1>5. QED
  BY <1>1, <1>2, <1>3, <1>4, RequestsKept, RowsKept

(* The first halves of the requests, and every refusal. *)
NoWrite(r) ==
    \/ ReadRegister(r) \/ ReadLogin(r) \/ ReadRefresh(r) \/ ReadSetup(r)
    \/ ReadVerify(r) \/ WrongPassword(r) \/ LoseRequest(r)

LEMMA NoWriteInv ==
    ASSUME Inv, NEW r \in Requests, NoWrite(r)
    PROVE  Inv'
<1> USE DEF Inv
<1>1. /\ UNCHANGED <<users, tokens, proved>>
      /\ badPasswords' \in [Users -> 0..MaxLoginFailures]
  <2>1. badPasswords \in [Users -> 0..MaxLoginFailures]
    BY DEF TablesOK
  <2>2. CASE WrongPassword(r)
    <3>1. badPasswords[req[r].user] \in 0..MaxLoginFailures
      BY <2>1, RequestFields
    <3>2. (IF badPasswords[req[r].user] < MaxLoginFailures THEN badPasswords[req[r].user] + 1
           ELSE badPasswords[req[r].user]) \in 0..MaxLoginFailures
      BY <3>1, AuthAssumption
    <3>3. QED
      BY <2>1, <2>2, <3>2 DEF WrongPassword
  <2>3. CASE ~WrongPassword(r)
    BY <2>1, <2>3
    DEF NoWrite, ReadRegister, ReadLogin, ReadRefresh, ReadSetup, ReadVerify, LoseRequest
  <2>4. QED
    BY <2>2, <2>3
    DEF NoWrite, ReadRegister, ReadLogin, ReadRefresh, ReadSetup, ReadVerify,
        WrongPassword, LoseRequest
<1>2. \/ /\ Grant(r) /\ req[r].step = "sent"
         /\ req[r].op = "refresh" => req[r].token \notin revoked
         /\ req[r].op = "verify" => secret[req[r].user] # NoSecret
      \/ Refuse(r)
  BY DEF NoWrite, ReadRegister, ReadLogin, ReadRefresh, ReadSetup, ReadVerify,
         WrongPassword, LoseRequest, Reads, Usable
<1>3. /\ req' \in [Requests -> RequestRecord]
      /\ \A s \in Requests \ {r} : req'[s] = req[s]
      /\ RequestInv(r)'
  <2>1. RequestInv(r)
    OBVIOUS
  <2>2. CASE Refuse(r)
    BY <1>1, <2>1, <2>2, Answering DEF Refuse, RequestInv, tokens, rows
  <2>3. CASE Grant(r) /\ ~Refuse(r)
    BY <1>1, <1>2, <2>1, <2>3, Answering DEF Grant, RequestInv, tokens, rows, users, Issued
  <2>4. QED
    BY <1>2, <2>2, <2>3
<1>4. Grows
  BY <1>1, SameRowsGrow DEF users, tokens, rows
<1>5. QED
  BY <1>1, <1>3, <1>4, RequestsKept, RowsKept DEF TablesOK, tokens
-----------------------------------------------------------------------------
(* The second halves. *)
LEMMA WriteRegisterInv ==
    ASSUME Inv, NEW r \in Requests, WriteRegister(r)
    PROVE  Inv'
<1> USE DEF Inv
<1>1. /\ UNCHANGED <<locked, secret, enabled, tokens, proved, badPasswords>>
      /\ registered' \subseteq Users /\ active' \subseteq Users
      /\ req[r].op = "register" /\ (Accept(r) \/ Refuse(r))
  BY RequestFields DEF WriteRegister, Writes, TablesOK
<1>2. /\ req' \in [Requests -> RequestRecord]
      /\ \A s \in Requests \ {r} : req'[s] = req[s]
      /\ req'[r].op = "register"
  BY <1>1, Answering DEF Accept, Refuse
<1>3. TablesOK'
  BY <1>1, <1>2 DEF TablesOK, tokens, rows
<1>4. RequestInv(r)'
  BY <1>2 DEF RequestInv
<1>5. Grows
  BY <1>1, SameRowsGrow DEF tokens, rows
<1>6. QED
  BY <1>1, <1>2, <1>3, <1>4, <1>5, RequestsKept
  DEF TokenInv, Issued, EnabledHasSecret, tokens, rows

(* INSERT of a token: the other rows are as they were. *)
LEMMA IssueFacts ==
    ASSUME TablesOK, NEW r \in Requests, NEW t \in Tokens, NEW u \in Users,
           NEW p \in Tokens \cup {NoToken}, p # NoToken => p \in Issued, Issue(r, t, u, p)
    PROVE  /\ owner' \in [Tokens -> Users \cup {Nobody}]
           /\ pred' \in [Tokens -> Tokens \cup {NoToken}]
           /\ root' \in [Tokens -> Tokens \cup {NoToken}]
           /\ given' \in [Requests -> Tokens \cup {NoToken}]
           /\ t \notin Issued /\ Issued' = Issued \cup {t}
           /\ \A s \in Tokens \ {t} : owner'[s] = owner[s] /\ pred'[s] = pred[s]
                                       /\ root'[s] = root[s]
           /\ owner'[t] = u /\ pred'[t] = p
           /\ root'[t] = IF p = NoToken THEN t ELSE root[p]
           /\ UNCHANGED <<expired, loggedOut>>
BY AuthAssumption DEF Issue, TablesOK, Issued

LEMMA WriteLoginInv ==
    ASSUME Inv, NEW r \in Requests, WriteLogin(r)
    PROVE  Inv'
<1> USE DEF Inv
<1>1. PICK t \in Tokens : Issue(r, t, req[r].user, NoToken)
  BY DEF WriteLogin
<1>2. /\ UNCHANGED <<users, revoked, proved>> /\ Accept(r) /\ req[r].op = "login"
      /\ badPasswords' \in [Users -> 0..MaxLoginFailures]
  BY RequestFields, AuthAssumption DEF WriteLogin, Writes, TablesOK
<1>3. req[r].user \in Users /\ NoToken \in Tokens \cup {NoToken}
  BY RequestFields
<1>4. /\ owner' \in [Tokens -> Users \cup {Nobody}]
      /\ pred' \in [Tokens -> Tokens \cup {NoToken}]
      /\ root' \in [Tokens -> Tokens \cup {NoToken}]
      /\ given' \in [Requests -> Tokens \cup {NoToken}]
      /\ t \notin Issued /\ Issued' = Issued \cup {t}
      /\ \A s \in Tokens \ {t} : owner'[s] = owner[s] /\ pred'[s] = pred[s]
                                  /\ root'[s] = root[s]
      /\ pred'[t] = NoToken /\ root'[t] = t
      /\ UNCHANGED <<expired, loggedOut>>
  BY <1>1, <1>3, IssueFacts
<1>5. /\ req' \in [Requests -> RequestRecord]
      /\ \A s \in Requests \ {r} : req'[s] = req[s]
      /\ req'[r].op = "login"
  BY <1>2, Answering DEF Accept
<1>6. TablesOK'
  BY <1>2, <1>4, <1>5 DEF TablesOK, users
<1>7. RequestInv(r)'
  BY <1>5 DEF RequestInv
<1>8. Grows
  BY <1>2, <1>4 DEF Grows, users
<1>9. ASSUME NEW s \in Tokens PROVE TokenInv(s)'
  <2>1. TokenInv(s) /\ \A x \in Issued : x \in Tokens
    BY DEF Issued
  <2>2. CASE s = t
    BY <1>4, <2>2 DEF TokenInv
  <2>3. CASE s # t
    BY <1>2, <1>4, <2>1, <2>3 DEF TokenInv
  <2>4. QED
    BY <2>2, <2>3
<1>10. QED
  BY <1>2, <1>4, <1>5, <1>6, <1>7, <1>8, <1>9, RequestsKept DEF EnabledHasSecret, users

LEMMA WriteRefreshInv ==
    ASSUME Inv, NEW r \in Requests, WriteRefresh(r)
    PROVE  Inv'
<1> USE DEF Inv
<1> DEFINE p == req[r].token
<1>1. PICK t \in Tokens : Issue(r, t, owner[p], p)
  BY DEF WriteRefresh
<1>2. /\ UNCHANGED <<users, proved, badPasswords>> /\ Accept(r)
      /\ revoked' = revoked \cup {p}
      /\ req[r].op = "refresh" /\ req[r].step = "writing" /\ RequestInv(r)
  BY DEF WriteRefresh, Writes
<1>3. p \in Issued /\ p \in Tokens /\ owner[p] \in Users /\ ~req[r].late
      /\ p \in Tokens \cup {NoToken} /\ p # NoToken
  BY <1>2, AuthAssumption DEF RequestInv, Issued, TablesOK
<1>4. /\ owner' \in [Tokens -> Users \cup {Nobody}]
      /\ pred' \in [Tokens -> Tokens \cup {NoToken}]
      /\ root' \in [Tokens -> Tokens \cup {NoToken}]
      /\ given' \in [Requests -> Tokens \cup {NoToken}]
      /\ t \notin Issued /\ Issued' = Issued \cup {t}
      /\ \A s \in Tokens \ {t} : owner'[s] = owner[s] /\ pred'[s] = pred[s]
                                  /\ root'[s] = root[s]
      /\ owner'[t] = owner[p] /\ pred'[t] = p /\ root'[t] = root[p]
      /\ UNCHANGED <<expired, loggedOut>>
  BY <1>1, <1>3, IssueFacts
<1>5. /\ req' \in [Requests -> RequestRecord]
      /\ \A s \in Requests \ {r} : req'[s] = req[s]
      /\ req'[r].op = "refresh" /\ ~req'[r].late /\ req'[r].step = "answered"
  BY <1>2, <1>3, Answering DEF Accept
<1> HIDE DEF p
<1>6. TablesOK'
  BY <1>2, <1>3, <1>4, <1>5 DEF TablesOK, users
<1>7. RequestInv(r)'
  BY <1>5 DEF RequestInv
<1>8. Grows
  BY <1>2, <1>4 DEF Grows, users
<1>9. ASSUME NEW s \in Tokens PROVE TokenInv(s)'
  <2>1. TokenInv(s) /\ TokenInv(p) /\ \A x \in Issued : x \in Tokens
    BY <1>3 DEF Issued
  <2>2. CASE s = t
    BY <1>2, <1>3, <1>4, <2>1, <2>2 DEF TokenInv
  <2>3. CASE s # t
    BY <1>2, <1>4, <2>1, <2>3 DEF TokenInv
  <2>4. QED
    BY <2>2, <2>3
<1>10. QED
  BY <1>2, <1>4, <1>5, <1>6, <1>7, <1>8, <1>9, RequestsKept DEF EnabledHasSecret, users

LEMMA LogoutInv ==
    ASSUME Inv, NEW r \in Requests, Logout(r)
    PROVE  Inv'
<1> USE DEF Inv
<1>1. /\ UNCHANGED <<users, owner, expired, pred, root, given, proved, badPasswords>> /\ Accept(r)
      /\ revoked' = revoked \cup {req[r].token}
      /\ loggedOut' = loggedOut \cup ({req[r].token} \ revoked)
      /\ req[r].op = "logout" /\ req[r].step = "sent"
  BY DEF Logout, Reads
<1>2. RequestInv(r)
  OBVIOUS
<1>3. req[r].token \in Issued /\ req[r].token \in Tokens
  BY <1>1, <1>2 DEF RequestInv, Issued
<1>4. /\ req' \in [Requests -> RequestRecord]
      /\ \A s \in Requests \ {r} : req'[s] = req[s]
      /\ req'[r].op = "logout" /\ req'[r].step = "answered"
  BY <1>1, Answering DEF Accept
<1>5. TablesOK'
  BY <1>1, <1>3, <1>4 DEF TablesOK, users
<1>6. RequestInv(r)'
  BY <1>4 DEF RequestInv
<1>7. Grows
  BY <1>1 DEF Grows, users, Issued
<1>8. \A t \in Tokens : TokenInv(t)'
  BY <1>1 DEF TokenInv, Issued
<1>9. QED
  BY <1>1, <1>3, <1>4, <1>5, <1>6, <1>7, <1>8, RequestsKept DEF EnabledHasSecret, users, Issued

LEMMA WriteSetupInv ==
    ASSUME Inv, NEW r \in Requests, WriteSetup(r)
    PROVE  Inv'
<1> USE DEF Inv
<1>1. PICK s \in Secrets : secret' = [secret EXCEPT ![req[r].user] = s]
  BY DEF WriteSetup
<1>2. /\ UNCHANGED <<registered, active, locked, enabled, tokens, proved, badPasswords>>
      /\ Accept(r) /\ req[r].op = "setup"
  BY DEF WriteSetup, Writes
<1>3. /\ req' \in [Requests -> RequestRecord]
      /\ \A x \in Requests \ {r} : req'[x] = req[x]
      /\ req'[r].op = "setup"
  BY <1>2, Answering DEF Accept
<1>4. secret' \in [Users -> Secrets \cup {NoSecret}]
      /\ \A u \in Users : secret[u] # NoSecret => secret'[u] # NoSecret
  BY <1>1, RequestFields, AuthAssumption DEF TablesOK
<1>5. TablesOK'
  BY <1>2, <1>3, <1>4 DEF TablesOK, tokens, rows
<1>6. RequestInv(r)'
  BY <1>3 DEF RequestInv
<1>7. Grows
  BY <1>2, <1>4 DEF Grows, Issued, tokens, rows
<1>8. EnabledHasSecret'
  BY <1>2, <1>4 DEF EnabledHasSecret, TablesOK
<1>9. QED
  BY <1>2, <1>3, <1>5, <1>6, <1>7, <1>8, RequestsKept DEF TokenInv, Issued, tokens, rows

LEMMA WriteVerifyInv ==
    ASSUME Inv, NEW r \in Requests, WriteVerify(r)
    PROVE  Inv'
<1> USE DEF Inv
<1>1. /\ UNCHANGED <<registered, active, locked, secret, tokens, badPasswords>>
      /\ enabled' = enabled \cup {req[r].user}
      /\ proved' = [proved EXCEPT ![req[r].user] = req[r].code]
      /\ Accept(r) /\ req[r].op = "verify" /\ req[r].step = "writing" /\ RequestInv(r)
  BY DEF WriteVerify, Writes
<1>2. /\ req' \in [Requests -> RequestRecord]
      /\ \A x \in Requests \ {r} : req'[x] = req[x]
      /\ req'[r].op = "verify" /\ req'[r].step = "answered"
  BY <1>1, Answering DEF Accept
<1>3. TablesOK'
  BY <1>1, <1>2, RequestFields DEF TablesOK, tokens, rows
<1>4. RequestInv(r)'
  BY <1>2 DEF RequestInv
<1>5. Grows
  BY <1>1, SameRowsGrow DEF tokens, rows
<1>6. EnabledHasSecret'
  BY <1>1 DEF EnabledHasSecret, RequestInv
<1>7. QED
  BY <1>1, <1>2, <1>3, <1>4, <1>5, <1>6, RequestsKept DEF TokenInv, Issued, tokens, rows
-----------------------------------------------------------------------------
LEMMA ExpireInv ==
    ASSUME Inv, NEW t \in Tokens, Expire(t)
    PROVE  Inv'
<1>1. TablesOK'
  BY DEF Inv, TablesOK, Expire, users
<1>2. QED
  BY <1>1 DEF Inv, Expire, users, RequestInv, TokenInv, Issued, EnabledHasSecret

LEMMA AdministerInv ==
    ASSUME Inv, NEW u \in Users, Administer(u)
    PROVE  Inv'
<1>1. TablesOK'
  BY AuthAssumption DEF Inv, TablesOK, Administer, tokens, rows
<1>2. QED
  BY <1>1 DEF Inv, Administer, tokens, rows, RequestInv, TokenInv, Issued, EnabledHasSecret

LEMMA ServeInv ==
    ASSUME Inv, NEW r \in Requests, Serve(r) \/ LoseRequest(r)
    PROVE  Inv'
BY NoWriteInv, WriteRegisterInv, WriteLoginInv, WriteRefreshInv, LogoutInv, WriteSetupInv,
   WriteVerifyInv DEF Serve, NoWrite

LEMMA StutterInv == Inv /\ UNCHANGED vars => Inv'
BY DEF Inv, TablesOK, RequestInv, TokenInv, Issued, EnabledHasSecret, vars, users, tokens, rows

LEMMA NextInv == Inv /\ [Next]_vars => Inv'
BY SendAnyInv, ReceiveInv, ServeInv, ExpireInv, AdministerInv, StutterInv DEF Next

(* The invariant holds in every behaviour. *)
THEOREM InvAlways == Spec => []Inv
BY InitInv, NextInv, PTL DEF Spec

(* Only sending a request can make requests overlap. *)
LEMMA OverlapStep ==
    ASSUME [Next]_vars
    PROVE  \/ overlapped' = overlapped
           \/ /\ overlapped' = (overlapped \/ InFlight # {})
              /\ \E r \in Requests : SendAny(r)
<1>1. CASE UNCHANGED vars
  BY <1>1 DEF vars
<1>2. ASSUME NEW r \in Requests, SendAny(r)
      PROVE  overlapped' = (overlapped \/ InFlight # {})
  BY <1>2 DEF SendAny, Send
<1>3. ASSUME NEW r \in Requests, Serve(r) \/ LoseRequest(r) \/ Receive(r)
      PROVE  overlapped' = overlapped
  BY <1>3 DEF Serve, LoseRequest, Receive, ReadRegister, WriteRegister, WrongPassword,
     ReadLogin, WriteLogin, ReadRefresh, WriteRefresh, Logout, ReadSetup, WriteSetup,
     ReadVerify, WriteVerify
<1>4. QED
  BY <1>1, <1>2, <1>3 DEF Next, Expire, Administer

(* Every variable keeps its type. *)
THEOREM TypeCorrect == Spec => []TypeOK
<1>1. Init => Inv /\ TypeOK
  BY InitInv DEF Init, Inv, TypeOK
<1>2. Inv /\ TypeOK /\ [Next]_vars => (Inv /\ TypeOK)'
  BY NextInv, OverlapStep DEF Inv, TypeOK
<1>3. QED
  BY <1>1, <1>2, PTL DEF Spec

(* A traded token is revoked, with any number of requests in flight. *)
THEOREM RotatedAlways == Spec => []Rotated
<1>1. Inv => Rotated
  BY DEF Inv, TokenInv, Rotated
<1>2. QED
  BY <1>1, InvAlways, PTL

(* A refresh sent after its token was revoked is refused. *)
THEOREM UsedTokenRejectedAlways == Spec => []UsedTokenRejected
<1>1. Inv => UsedTokenRejected
  BY DEF Inv, RequestInv, UsedTokenRejected
<1>2. QED
  BY <1>1, InvAlways, PTL

(* Whoever needs a second factor has one. *)
THEOREM EnabledHasSecretAlways == Spec => []EnabledHasSecret
<1>1. Inv => EnabledHasSecret
  BY DEF Inv
<1>2. QED
  BY <1>1, InvAlways, PTL
-----------------------------------------------------------------------------
(* One request at a time: what the request has read is still so when it    *)
(* writes.                                                                 *)
ReadStillTrue(r) ==
    req[r].step = "writing" =>
        /\ req[r].op = "refresh" => req[r].token \notin revoked
        /\ req[r].op = "setup" => req[r].user \notin enabled
        /\ req[r].op = "verify" => req[r].code = secret[req[r].user]

OneRequest == \A r, s \in InFlight : r = s

LiveOnce == \A s, t \in Issued \ revoked : root[s] = root[t] => s = t
LogoutFinal == \A t \in loggedOut : \A s \in Issued \ revoked : root[s] # root[t]
SecretShown == \A u \in enabled : secret[u] = proved[u]

SerialInv ==
    /\ Inv /\ OneRequest
    /\ \A r \in Requests : ReadStillTrue(r)
    /\ LiveOnce /\ LogoutFinal /\ SecretShown

LEMMA SerialInit == Init => SerialInv
<1> SUFFICES ASSUME Init PROVE SerialInv
  OBVIOUS
<1>1. Inv
  BY InitInv
<1>2. /\ \A r \in Requests : ReadStillTrue(r)
      /\ OneRequest
  BY IdleType DEF Init, ReadStillTrue, OneRequest, InFlight
<1>3. QED
  BY <1>1, <1>2 DEF SerialInv, Init, LiveOnce, LogoutFinal, SecretShown, Issued

(* Who serves a request serves the only one there is. *)
LEMMA OnlyOne ==
    ASSUME SerialInv, NEW r \in Requests, Serve(r) \/ LoseRequest(r)
    PROVE  \A s \in Requests \ {r} : req[s].step \notin {"sent", "writing"}
<1>1. req[r].step \in {"sent", "writing"}
  BY DEF Serve, LoseRequest, ReadRegister, WriteRegister, WrongPassword, ReadLogin, WriteLogin,
     ReadRefresh, WriteRefresh, Logout, ReadSetup, WriteSetup, ReadVerify, WriteVerify,
     Reads, Writes
<1>2. QED
  BY <1>1 DEF SerialInv, OneRequest, InFlight

LEMMA OthersStillTrue ==
    ASSUME SerialInv, NEW r \in Requests, ReadStillTrue(r)',
           \A s \in Requests \ {r} : req'[s] = req[s] /\ req[s].step # "writing"
    PROVE  \A s \in Requests : ReadStillTrue(s)'
BY DEF ReadStillTrue

(* Steps that touch neither tokens nor second factors. *)
LEMMA SameTablesSerial ==
    ASSUME SerialInv, UNCHANGED <<rows, secret, enabled, proved>>
    PROVE  LiveOnce' /\ LogoutFinal' /\ SecretShown'
BY DEF SerialInv, LiveOnce, LogoutFinal, SecretShown, Issued, rows

LEMMA NoWriteSerial ==
    ASSUME SerialInv, NEW r \in Requests, NoWrite(r) \/ WriteRegister(r)
    PROVE  /\ \A s \in Requests : ReadStillTrue(s)'
           /\ LiveOnce' /\ LogoutFinal' /\ SecretShown'
<1> USE DEF SerialInv, Inv
<1>1. UNCHANGED <<tokens, secret, enabled, proved>>
  BY DEF NoWrite, ReadRegister, ReadLogin, ReadRefresh, ReadSetup, ReadVerify, WrongPassword,
         LoseRequest, WriteRegister, users
<1>2. \/ /\ Grant(r)
         /\ req[r].op = "refresh" => req[r].token \notin revoked
         /\ req[r].op = "setup" => req[r].user \notin enabled
         /\ req[r].op = "verify" => req[r].code = secret[req[r].user]
      \/ Refuse(r) \/ Accept(r)
  BY DEF NoWrite, ReadRegister, ReadLogin, ReadRefresh, ReadSetup, ReadVerify,
         WrongPassword, LoseRequest, WriteRegister, Reads, Usable
<1>3. \A s \in Requests \ {r} : req[s].step # "writing"
  BY OnlyOne DEF Serve, NoWrite
<1>4. (\A s \in Requests \ {r} : req'[s] = req[s]) /\ ReadStillTrue(r)'
  <2>1. CASE Refuse(r) \/ Accept(r)
    BY <2>1, Answering DEF Refuse, Accept, ReadStillTrue
  <2>2. CASE Grant(r) /\ ~(Refuse(r) \/ Accept(r))
    BY <1>1, <1>2, <2>2, Answering DEF Grant, ReadStillTrue, tokens, rows
  <2>3. QED
    BY <1>2, <2>1, <2>2
<1>5. QED
  BY <1>1, <1>3, <1>4, OthersStillTrue, SameTablesSerial DEF tokens

(* After its answer a request claims nothing. *)
LEMMA AnsweredSerial ==
    ASSUME SerialInv, NEW r \in Requests, Serve(r), Accept(r)
    PROVE  \A s \in Requests : ReadStillTrue(s)'
<1>1. /\ \A s \in Requests \ {r} : req'[s] = req[s]
      /\ req'[r].step = "answered"
  BY Answering DEF Accept, SerialInv, Inv
<1>2. \A s \in Requests \ {r} : req[s].step # "writing"
  BY OnlyOne
<1>3. ReadStillTrue(r)'
  BY <1>1 DEF ReadStillTrue
<1>4. QED
  BY <1>1, <1>2, <1>3, OthersStillTrue

LEMMA WriteLoginSerial ==
    ASSUME SerialInv, NEW r \in Requests, WriteLogin(r)
    PROVE  LiveOnce' /\ LogoutFinal' /\ SecretShown'
<1> USE DEF SerialInv, Inv
<1>1. PICK t \in Tokens : Issue(r, t, req[r].user, NoToken)
  BY DEF WriteLogin
<1>2. req[r].user \in Users /\ NoToken \in Tokens \cup {NoToken}
  BY RequestFields
<1>3. /\ t \notin Issued /\ Issued' = Issued \cup {t}
      /\ \A s \in Tokens \ {t} : root'[s] = root[s]
      /\ root'[t] = t /\ loggedOut' = loggedOut
  BY <1>1, <1>2, IssueFacts
<1>4. revoked' = revoked /\ UNCHANGED <<secret, enabled, proved>>
  BY DEF WriteLogin, users
<1>5. \A s \in Issued : s \in Tokens /\ root[s] \in Issued
  BY DEF TokenInv, Issued
<1>6. LiveOnce'
  BY <1>3, <1>4, <1>5 DEF LiveOnce
<1>7. LogoutFinal'
  BY <1>3, <1>4, <1>5 DEF LogoutFinal
<1>8. QED
  BY <1>4, <1>6, <1>7 DEF SecretShown

LEMMA WriteRefreshSerial ==
    ASSUME SerialInv, NEW r \in Requests, WriteRefresh(r)
    PROVE  LiveOnce' /\ LogoutFinal' /\ SecretShown'
<1> USE DEF SerialInv, Inv
<1> DEFINE p == req[r].token
<1>1. PICK t \in Tokens : Issue(r, t, owner[p], p)
  BY DEF WriteRefresh
<1>2. /\ req[r].op = "refresh" /\ req[r].step = "writing" /\ RequestInv(r)
      /\ ReadStillTrue(r)
      /\ revoked' = revoked \cup {p} /\ UNCHANGED <<secret, enabled, proved>>
  BY DEF WriteRefresh, Writes, users
<1>3. p \in Issued /\ p \in Tokens /\ owner[p] \in Users /\ p \notin revoked
      /\ p \in Tokens \cup {NoToken} /\ p # NoToken
  BY <1>2, AuthAssumption DEF RequestInv, ReadStillTrue, Issued, TablesOK
<1>4. /\ t \notin Issued /\ Issued' = Issued \cup {t}
      /\ \A s \in Tokens \ {t} : root'[s] = root[s]
      /\ root'[t] = root[p] /\ loggedOut' = loggedOut
  BY <1>1, <1>3, IssueFacts
<1>5. \A s \in Issued : s \in Tokens
  BY DEF Issued
<1> HIDE DEF p
<1>6. LiveOnce'
  BY <1>2, <1>3, <1>4, <1>5 DEF LiveOnce
<1>7. LogoutFinal'
  BY <1>2, <1>3, <1>4, <1>5 DEF LogoutFinal
<1>8. QED
  BY <1>2, <1>6, <1>7 DEF SecretShown

LEMMA LogoutSerial ==
    ASSUME SerialInv, NEW r \in Requests, Logout(r)
    PROVE  LiveOnce' /\ LogoutFinal' /\ SecretShown'
<1> USE DEF SerialInv, Inv
<1>1. /\ UNCHANGED <<secret, enabled, owner, root, proved>>
      /\ revoked' = revoked \cup {req[r].token}
      /\ loggedOut' = loggedOut \cup ({req[r].token} \ revoked)
      /\ RequestInv(r) /\ req[r].op = "logout" /\ req[r].step = "sent"
  BY DEF Logout, Reads, users
<1>2. req[r].token \in Issued
  BY <1>1 DEF RequestInv
<1>3. LiveOnce'
  BY <1>1 DEF LiveOnce, Issued
<1>4. LogoutFinal'
  BY <1>1, <1>2 DEF LogoutFinal, LiveOnce, Issued
<1>5. QED
  BY <1>1, <1>3, <1>4 DEF SecretShown

LEMMA SecondFactorSerial ==
    ASSUME SerialInv, NEW r \in Requests, WriteSetup(r) \/ WriteVerify(r)
    PROVE  LiveOnce' /\ LogoutFinal' /\ SecretShown'
<1> USE DEF SerialInv, Inv
<1>1. UNCHANGED tokens
  BY DEF WriteSetup, WriteVerify
<1>2. LiveOnce' /\ LogoutFinal'
  BY <1>1 DEF LiveOnce, LogoutFinal, Issued, tokens, rows
<1>3. CASE WriteSetup(r)
  <2>1. PICK s \in Secrets : secret' = [secret EXCEPT ![req[r].user] = s]
    BY <1>3 DEF WriteSetup
  <2>2. req[r].user \notin enabled /\ UNCHANGED <<enabled, proved>>
    BY <1>3 DEF WriteSetup, Writes, ReadStillTrue
  <2>3. QED
    BY <1>2, <2>1, <2>2 DEF SecretShown, TablesOK
<1>4. CASE WriteVerify(r)
  <2>1. req[r].code = secret[req[r].user]
    BY <1>4 DEF WriteVerify, Writes, ReadStillTrue
  <2>2. QED
    BY <1>2, <1>4, <2>1, RequestFields DEF WriteVerify, SecretShown, TablesOK
<1>5. QED
  BY <1>3, <1>4

(* A request is sent when there is none, or from now on they overlap. *)
LEMMA StillOneRequest ==
    ASSUME TablesOK, OneRequest, [Next]_vars, ~overlapped'
    PROVE  OneRequest'
<1> USE DEF OneRequest, InFlight
<1>1. CASE UNCHANGED vars
  BY <1>1 DEF vars
<1>2. ASSUME NEW r \in Requests, SendAny(r)
      PROVE  OneRequest'
  <2>1. InFlight = {} /\ \E q : req' = [req EXCEPT ![r] = q]
    BY <1>2 DEF SendAny, Send
  <2>2. \A s \in Requests \ {r} : req'[s] = req[s]
    BY <2>1 DEF TablesOK
  <2>3. QED
    BY <2>1, <2>2
<1>3. ASSUME NEW r \in Requests, Receive(r)
      PROVE  OneRequest'
  BY <1>3, IdleType DEF Receive, TablesOK
<1>4. ASSUME NEW r \in Requests, Serve(r) \/ LoseRequest(r)
      PROVE  OneRequest'
  <2>1. req[r].step \in {"sent", "writing"}
    BY <1>4 DEF Serve, LoseRequest, ReadRegister, WriteRegister, WrongPassword, ReadLogin,
       WriteLogin, ReadRefresh, WriteRefresh, Logout, ReadSetup, WriteSetup, ReadVerify,
       WriteVerify, Reads, Writes
  <2>2. Grant(r) \/ Refuse(r) \/ Accept(r)
    BY <1>4 DEF Serve, LoseRequest, ReadRegister, WriteRegister, WrongPassword, ReadLogin,
       WriteLogin, ReadRefresh, WriteRefresh, Logout, ReadSetup, WriteSetup, ReadVerify,
       WriteVerify
  <2>3. \A s \in Requests \ {r} : req'[s] = req[s]
    BY <2>2, Answering DEF Grant, Refuse, Accept
  <2>4. QED
    BY <2>1, <2>3
<1>5. CASE UNCHANGED req
  BY <1>5
<1>6. QED
  BY <1>1, <1>2, <1>3, <1>4, <1>5 DEF Next, Expire, Administer

LEMMA SerialNext ==
    ASSUME SerialInv, [Next]_vars, ~overlapped'
    PROVE  SerialInv'
<1> USE DEF SerialInv
<1>1. Inv'
  BY NextInv
<1>2. OneRequest'
  BY StillOneRequest DEF Inv
<1>3. CASE UNCHANGED vars
  BY <1>1, <1>2, <1>3, SameTablesSerial DEF vars, tokens, rows, users, ReadStillTrue
<1>4. ASSUME NEW r \in Requests, Serve(r) \/ LoseRequest(r)
      PROVE  SerialInv'
  <2>1. CASE NoWrite(r) \/ WriteRegister(r)
    BY <1>1, <1>2, <2>1, NoWriteSerial
  <2>2. CASE ~(NoWrite(r) \/ WriteRegister(r))
    <3>1. Serve(r) /\ Accept(r)
          /\ (WriteLogin(r) \/ WriteRefresh(r) \/ Logout(r) \/ WriteSetup(r) \/ WriteVerify(r))
      BY <1>4, <2>2
      DEF Serve, NoWrite, WriteLogin, WriteRefresh, Logout, WriteSetup, WriteVerify
    <3>2. LiveOnce' /\ LogoutFinal' /\ SecretShown'
      BY <3>1, WriteLoginSerial, WriteRefreshSerial, LogoutSerial, SecondFactorSerial
    <3>3. QED
      BY <1>1, <1>2, <3>1, <3>2, AnsweredSerial
  <2>3. QED
    BY <2>1, <2>2
<1>5. ASSUME NEW r \in Requests, SendAny(r) \/ Receive(r)
      PROVE  SerialInv'
  <2>1. UNCHANGED <<users, rows, proved>>
        /\ \E q : q.step # "writing" /\ req' = [req EXCEPT ![r] = q]
    BY <1>5, IdleType DEF SendAny, Send, Receive, tokens, rows
  <2>2. req \in [Requests -> RequestRecord]
    BY DEF Inv, TablesOK
  <2>3. \A s \in Requests : ReadStillTrue(s)'
    BY <2>1, <2>2 DEF ReadStillTrue, users, rows
  <2>4. QED
    BY <1>1, <1>2, <2>1, <2>3, SameTablesSerial DEF users
<1>6. ASSUME NEW t \in Tokens, Expire(t)
      PROVE  SerialInv'
  BY <1>1, <1>2, <1>6
  DEF Expire, users, ReadStillTrue, LiveOnce, LogoutFinal, SecretShown, Issued
<1>7. ASSUME NEW u \in Users, Administer(u)
      PROVE  SerialInv'
  BY <1>1, <1>2, <1>7, SameTablesSerial DEF Administer, tokens, rows, ReadStillTrue
<1>8. QED
  BY <1>3, <1>4, <1>5, <1>6, <1>7 DEF Next

(* Until two requests overlap. *)
THEOREM SerialInvAlways == Spec => [](~overlapped => SerialInv)
<1>1. Init => (~overlapped => SerialInv)
  BY SerialInit
<1>2. (~overlapped => SerialInv) /\ [Next]_vars => (~overlapped => SerialInv)'
  <2>1. SUFFICES ASSUME ~overlapped => SerialInv, [Next]_vars, ~overlapped'
                 PROVE  SerialInv'
    OBVIOUS
  <2>2. ~overlapped
    BY <2>1, OverlapStep
  <2>3. QED
    BY <2>1, <2>2, SerialNext
<1>3. QED
  BY <1>1, <1>2, PTL DEF Spec

(* One login, at most one usable token; none after its logout. *)
THEOREM OneLiveTokenAlways == Spec => []OneLiveToken
<1>1. (~overlapped => SerialInv) => OneLiveToken
  BY DEF SerialInv, LiveOnce, OneLiveToken
<1>2. QED
  BY <1>1, SerialInvAlways, PTL

(* A logout leaves nothing of its login. *)
THEOREM LogoutEndsAlways == Spec => []LogoutEnds
<1>1. (~overlapped => SerialInv) => LogoutEnds
  BY DEF SerialInv, LogoutFinal, LogoutEnds
<1>2. QED
  BY <1>1, SerialInvAlways, PTL

(* A second factor that is on was shown to work. *)
THEOREM EnabledSecretProvedAlways == Spec => []EnabledSecretProved
<1>1. (~overlapped => SerialInv) => EnabledSecretProved
  BY DEF SerialInv, SecretShown, EnabledSecretProved
<1>2. QED
  BY <1>1, SerialInvAlways, PTL
=============================================================================
