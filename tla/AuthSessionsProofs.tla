-------------------------- MODULE AuthSessionsProofs --------------------------
(***************************************************************************)
(* Theorems about AuthSessions for every value of its constants.           *)
(***************************************************************************)
EXTENDS AuthSessions, FiniteSetTheorems, TLAPS

-----------------------------------------------------------------------------
(* Type correctness *)

\* What a request holds once its pc says so.
LEMMA RequestFields ==
  ASSUME TypeOK, NEW c \in Clients
  PROVE  /\ ~At(c, "idle") => req[c].user \in Users
         /\ At(c, "refresh") => req[c].token \in Tokens
         /\ At(c, "authed") => req[c].role \in Roles
         /\ At(c, "mailing") => /\ req[c].code \in 1..MaxCodes
                                /\ req[c].sent \in BOOLEAN
         /\ req[c].pc \in {"idle", "login", "refresh", "authed", "mailing"}
  BY DEF TypeOK, Request, At

\* A request moves to a well-typed place.
LEMMA Moved ==
  ASSUME TypeOK, NEW c \in Clients, NEW r \in Request, Goto(c, r)
  PROVE  req' \in [Clients -> Request]
  BY DEF TypeOK, Goto

LEMMA Places ==
  /\ Idle \in Request
  /\ \A u \in Users : [pc |-> "login", user |-> u] \in Request
  /\ \A u \in Users, t \in Tokens :
       [pc |-> "refresh", user |-> u, token |-> t] \in Request
  /\ \A u \in Users, x \in Roles :
       [pc |-> "authed", user |-> u, role |-> x] \in Request
  /\ \A u \in Users, k \in 1..MaxCodes, b \in BOOLEAN :
       [pc |-> "mailing", user |-> u, code |-> k, sent |-> b] \in Request
  BY DEF Request, Idle

\* The columns of a row of users, and the rows the updates yield.
LEMMA UserRow ==
  ASSUME NEW x \in User
  PROVE  /\ x.status \in {"unregistered", "active", "inactive", "due", "removed"}
         /\ x.role \in Roles
         /\ x.verified \in BOOLEAN
         /\ \A st \in {"active", "inactive", "due", "removed"} :
              [x EXCEPT !.status = st] \in User
         /\ \A r \in Roles : [x EXCEPT !.role = r] \in User
         /\ [x EXCEPT !.verified = TRUE] \in User
<1>1. /\ x.status \in {"unregistered", "active", "inactive", "due", "removed"}
      /\ x.role \in Roles
      /\ x.verified \in BOOLEAN
  BY DEF User
<1>2. ASSUME NEW st \in {"active", "inactive", "due", "removed"}
      PROVE  [x EXCEPT !.status = st] \in User
  BY Zenon DEF User
<1>3. ASSUME NEW r \in Roles PROVE [x EXCEPT !.role = r] \in User
  BY Zenon DEF User
<1>4. [x EXCEPT !.verified = TRUE] \in User
  BY Zenon DEF User
<1> QED BY <1>1, <1>2, <1>3, <1>4

\* The columns of a row of sessions, and the rows the updates yield.
LEMMA SessionRow ==
  ASSUME NEW x \in Session
  PROVE  /\ x.state \in {"unused", "open", "expired", "gone"}
         /\ x.user \in Users \cup {Null}
         /\ x.parent \in Tokens \cup {Null}
         /\ [x EXCEPT !.state = "gone", !.user = Null] \in Session
         /\ [x EXCEPT !.state = "expired"] \in Session
<1>1. /\ x.state \in {"unused", "open", "expired", "gone"}
      /\ x.user \in Users \cup {Null}
      /\ x.parent \in Tokens \cup {Null}
  BY DEF Session
<1>2. [x EXCEPT !.state = "gone", !.user = Null] \in Session
  BY Zenon DEF Session
<1>3. [x EXCEPT !.state = "expired"] \in Session
  BY Zenon DEF Session
<1> QED BY <1>1, <1>2, <1>3

LEMMA NewSession ==
  ASSUME NEW u \in Users, NEW p \in Tokens \cup {Null}
  PROVE  Opened(u, p) \in Session
  BY DEF Opened, Session

\* What revoking does to a row.
LEMMA RevokedRow ==
  ASSUME TypeOK, NEW t \in Tokens
  PROVE  /\ Revoked(t) \in Session
         /\ Revoked(t).state = "gone"
         /\ Revoked(t).parent = sessions[t].parent
<1>1. sessions[t] \in Session
  BY DEF TypeOK
<1>2. /\ [sessions[t] EXCEPT !.state = "gone", !.user = Null].state = "gone"
      /\ [sessions[t] EXCEPT !.state = "gone", !.user = Null].parent
           = sessions[t].parent
  BY <1>1 DEF Session
<1> QED BY <1>1, <1>2, SessionRow DEF Revoked

\* The columns of a row of email_verifications, and its clock.
LEMMA CodeRow ==
  /\ NoCode \in Code
  /\ \A k \in 1..MaxCodes : [state |-> "fresh", code |-> k] \in Code
  /\ \A x \in Code :
       /\ x.state \in {"none", "fresh", "aged", "expired"}
       /\ x.code \in 0..MaxCodes
       /\ \A st \in {"aged", "expired"} :
            /\ [x EXCEPT !.state = st] \in Code
            /\ [x EXCEPT !.state = st].state = st
            /\ [x EXCEPT !.state = st].code = x.code
<1>1. NoCode \in Code
  BY AuthConstants DEF NoCode, Code
<1>2. \A k \in 1..MaxCodes : [state |-> "fresh", code |-> k] \in Code
  BY AuthConstants DEF Code
<1>3. ASSUME NEW x \in Code, NEW st \in {"aged", "expired"}
      PROVE  /\ [x EXCEPT !.state = st] \in Code
             /\ [x EXCEPT !.state = st].state = st
             /\ [x EXCEPT !.state = st].code = x.code
  BY <1>3 DEF Code
<1>4. \A x \in Code : /\ x.state \in {"none", "fresh", "aged", "expired"}
                      /\ x.code \in 0..MaxCodes
  BY DEF Code
<1> QED BY <1>1, <1>2, <1>3, <1>4

-----------------------------------------------------------------------------
(* The inductive invariant of the locks and the codes *)

\* The user of a mail in flight is locked, and so still there.
MailingStored ==
  \A c \in Clients : At(c, "mailing") => Stored(req[c].user)

\* The mail server has what a request believes it has sent.
SentIsMailed ==
  \A c \in Clients :
    At(c, "mailing") /\ req[c].sent => req[c].code \in mailed[req[c].user]

AccountInv ==
  /\ TypeOK
  /\ MailingStored
  /\ SentIsMailed
  /\ MailingIsExclusive
  /\ VerifiedHasNoCode
  /\ StoredCodeWasMailed

\* Requests other than c stay as they are.
LEMMA OthersStay ==
  ASSUME TypeOK, NEW c \in Clients, NEW r, Goto(c, r)
  PROVE  /\ req'[c] = r
         /\ \A d \in Clients \ {c} : req'[d] = req[d]
  BY DEF Goto, TypeOK

\* The foreign keys to users.
SessionKeys ==
  \A t \in Tokens : sessions[t].state \in {"open", "expired"} =>
    sessions[t].user # Null /\ Stored(sessions[t].user)
CodeKeys == \A u \in Users : codes[u].state # "none" => Stored(u)

\* No request starts to mail, and those that mail stay where they are.
NoNewMail ==
  /\ req' \in [Clients -> Request]
  /\ \A d \in Clients : req'[d].pc = "mailing" => req'[d] = req[d]

LEMMA LeavesMailAlone ==
  ASSUME TypeOK, NEW c \in Clients, NEW r \in Request, r.pc # "mailing",
         Goto(c, r)
  PROVE  NoNewMail
  BY Moved, OthersStay DEF NoNewMail

\* A step that mails nothing and stores no code, and that leaves the users of
\* the mails in flight unverified and without a fresh code.
LEMMA AccountStep ==
  ASSUME AccountInv, NoNewMail, issued' = issued, mailed' = mailed,
         users' \in [Users -> User], sessions' \in [Tokens -> Session],
         codes' \in [Users -> Code], SessionKeys', CodeKeys',
         \A u \in Users : users'[u].verified => codes'[u].state = "none",
         \A u \in Users : codes'[u].state # "none" =>
           codes[u].state # "none" /\ codes'[u].code = codes[u].code,
         \A u \in Users : Locked(u) =>
           /\ users'[u].status \notin {"unregistered", "removed"}
           /\ ~users'[u].verified
           /\ codes'[u].state # "fresh"
  PROVE  AccountInv'
<1>1. \A d \in Clients : At(d, "mailing")' =>
        /\ At(d, "mailing") /\ req'[d] = req[d]
        /\ req[d].user \in Users /\ Locked(req[d].user)
  BY RequestFields DEF NoNewMail, At, Locked, AccountInv
<1>2. TypeOK'
  BY DEF TypeOK, NoNewMail, AccountInv, SessionKeys, CodeKeys
<1>3. MailingStored'
  BY <1>1 DEF MailingStored, Stored
<1>4. SentIsMailed'
  BY <1>1 DEF AccountInv, SentIsMailed
<1>5. MailingIsExclusive'
  BY <1>1 DEF AccountInv, MailingIsExclusive
<1>6. VerifiedHasNoCode' /\ StoredCodeWasMailed'
  BY DEF AccountInv, VerifiedHasNoCode, StoredCodeWasMailed
<1> QED BY <1>2, <1>3, <1>4, <1>5, <1>6 DEF AccountInv

\* What the invariant says of a user as things stand.
LEMMA AsThingsStand ==
  ASSUME AccountInv
  PROVE  /\ users \in [Users -> User] /\ sessions \in [Tokens -> Session]
         /\ codes \in [Users -> Code]
         /\ SessionKeys /\ CodeKeys
         /\ \A u \in Users : users[u].verified => codes[u].state = "none"
         /\ \A u \in Users : Locked(u) =>
              /\ users[u].status \notin {"unregistered", "removed"}
              /\ ~users[u].verified
              /\ codes[u].state # "fresh"
<1>1. \A u \in Users : Locked(u) =>
         /\ users[u].status \notin {"unregistered", "removed"}
         /\ ~users[u].verified
         /\ codes[u].state # "fresh"
  BY DEF AccountInv, Locked, MailingStored, MailingIsExclusive, Stored
<1> QED BY <1>1 DEF AccountInv, TypeOK, VerifiedHasNoCode, SessionKeys, CodeKeys

\* Steps that change at most one request and the sessions.
LEMMA SessionsStep ==
  ASSUME AccountInv, NoNewMail, UNCHANGED <<users, codes, issued, mailed>>,
         sessions' \in [Tokens -> Session], SessionKeys'
  PROVE  AccountInv'
<1>1. CodeKeys'
  BY AsThingsStand DEF CodeKeys, Stored
<1> QED BY <1>1, AsThingsStand, AccountStep

\* Steps that change at most one request and the users, verify nobody and
\* delete nobody.
LEMMA UsersStep ==
  ASSUME AccountInv, NoNewMail, UNCHANGED <<sessions, codes, issued, mailed>>,
         users' \in [Users -> User],
         \A u \in Users : Stored(u) =>
           /\ users'[u].status \notin {"unregistered", "removed"}
           /\ users'[u].verified = users[u].verified,
         \A u \in Users : ~Stored(u) => users'[u] = users[u] \/ ~users'[u].verified
  PROVE  AccountInv'
<1>1. \A t \in Tokens : sessions[t].state \in {"open", "expired"} =>
         sessions[t].user \in Users
  BY AsThingsStand, SessionRow DEF SessionKeys
<1>2. SessionKeys' /\ CodeKeys'
  BY <1>1, AsThingsStand DEF SessionKeys, CodeKeys, Stored
<1>3. \A u \in Users : users'[u].verified => codes'[u].state = "none"
  BY AsThingsStand
<1>4. \A u \in Users : Locked(u) =>
         /\ users'[u].status \notin {"unregistered", "removed"}
         /\ ~users'[u].verified
         /\ codes'[u].state # "fresh"
  BY AsThingsStand DEF Stored
<1> QED BY <1>2, <1>3, <1>4, AsThingsStand, AccountStep

\* What one request does to the sessions, action by action.
LEMMA SessionActions ==
  ASSUME AccountInv, NEW c \in Clients, NEW t \in Tokens,
         Login(c, t) \/ Refresh(c, t) \/ Logout(c, t)
  PROVE  AccountInv'
<1>1. TypeOK /\ NoNewMail
  <2>1. Goto(c, Idle)
    BY DEF Login, Refresh, Logout
  <2>2. Idle.pc # "mailing"
    BY DEF Idle
  <2> QED BY <2>1, <2>2, Places, LeavesMailAlone DEF AccountInv
<1>2. UNCHANGED <<users, codes, issued, mailed>>
  BY DEF Login, Refresh, Logout
<1>3. /\ sessions' \in [Tokens -> Session]
      /\ \A n \in Tokens : sessions'[n].state \in {"open", "expired"} =>
           \/ sessions'[n] = sessions[n]
           \/ sessions'[n].user \in Users /\ Stored(sessions'[n].user)
  <2>1. CASE Login(c, t)
    <3>1. req[c].user \in Users /\ Stored(req[c].user)
      BY <1>1, <2>1, RequestFields DEF Login, Insertable, At
    <3>2. Opened(req[c].user, Null) \in Session
      BY <3>1, NewSession
    <3>3. Opened(req[c].user, Null).user = req[c].user
      BY DEF Opened
    <3> QED BY <1>1, <2>1, <3>1, <3>2, <3>3 DEF Login, TypeOK
  <2>2. CASE Refresh(c, t)
    <3> DEFINE old == req[c].token
    <3>1. /\ req[c].user \in Users /\ Stored(req[c].user)
          /\ old \in Tokens
      BY <1>1, <2>2, RequestFields DEF Refresh, Insertable, At
    <3>2. Opened(req[c].user, old) \in Session /\ Revoked(old) \in Session
      BY <1>1, <3>1, NewSession, RevokedRow
    <3>3. Opened(req[c].user, old).user = req[c].user /\ Revoked(old).state = "gone"
      BY <1>1, <3>1, RevokedRow DEF Opened
    <3>4. sessions' = [sessions EXCEPT ![old] = Revoked(old),
                                       ![t] = Opened(req[c].user, old)]
      BY <2>2 DEF Refresh
    <3> QED BY <1>1, <3>1, <3>2, <3>3, <3>4 DEF TypeOK
  <2>3. CASE Logout(c, t)
    <3>1. Revoked(t) \in Session /\ Revoked(t).state = "gone"
      BY <1>1, RevokedRow
    <3> QED BY <1>1, <2>3, <3>1 DEF Logout, TypeOK
  <2> QED BY <2>1, <2>2, <2>3
<1>4. SessionKeys'
  BY <1>2, <1>3, AsThingsStand, AuthConstants DEF SessionKeys, Stored
<1> QED BY <1>1, <1>2, <1>3, <1>4, SessionsStep

\* What one request does to the accounts of others.
LEMMA AdminActions ==
  ASSUME AccountInv, NEW c \in Clients, NEW u \in Users, NEW x \in Roles,
         ChangeRole(c, u, x) \/ SwitchUserActivation(c, u)
  PROVE  AccountInv'
<1>1. TypeOK /\ NoNewMail
  <2>1. Goto(c, Idle)
    BY DEF ChangeRole, SwitchUserActivation
  <2>2. Idle.pc # "mailing"
    BY DEF Idle
  <2> QED BY <2>1, <2>2, Places, LeavesMailAlone DEF AccountInv
<1>2. Stored(u)
  BY DEF ChangeRole, SwitchUserActivation, Target
<1>3. users[u] \in User
  BY <1>1 DEF TypeOK
<1>4. PICK y \in User :
        /\ users' = [users EXCEPT ![u] = y]
        /\ y.status \notin {"unregistered", "removed"}
        /\ y.verified = users[u].verified
  <2>1. CASE ChangeRole(c, u, x)
    <3>1. users' = [users EXCEPT ![u] = [users[u] EXCEPT !.role = x]]
      BY <2>1 DEF ChangeRole
    <3>2. /\ [users[u] EXCEPT !.role = x].status = users[u].status
          /\ [users[u] EXCEPT !.role = x].verified = users[u].verified
      BY <1>3 DEF User
    <3> QED BY <1>2, <1>3, <3>1, <3>2, UserRow DEF Stored
  <2>2. CASE SwitchUserActivation(c, u)
    <3>1. PICK st \in {"active", "inactive"} :
            users' = [users EXCEPT ![u] = [users[u] EXCEPT !.status = st]]
      BY <2>2 DEF SwitchUserActivation
    <3>2. /\ [users[u] EXCEPT !.status = st].status = st
          /\ [users[u] EXCEPT !.status = st].verified = users[u].verified
      BY <1>3 DEF User
    <3> QED BY <1>3, <3>1, <3>2, UserRow
  <2> QED BY <2>1, <2>2
<1>5. UNCHANGED <<sessions, codes, issued, mailed>>
  BY DEF ChangeRole, SwitchUserActivation
<1>6. users' \in [Users -> User]
  BY <1>1, <1>4 DEF TypeOK
<1>7. \A v \in Users : Stored(v) =>
        /\ users'[v].status \notin {"unregistered", "removed"}
        /\ users'[v].verified = users[v].verified
  BY <1>1, <1>4 DEF TypeOK, Stored
<1>8. \A v \in Users : ~Stored(v) => users'[v] = users[v]
  BY <1>1, <1>2, <1>4 DEF TypeOK
<1> QED BY <1>1, <1>5, <1>6, <1>7, <1>8, UsersStep

\* The requests that only read.
LEMMA ReadingActions ==
  ASSUME AccountInv, NEW c \in Clients,
         \/ \E u \in Users : LoginCheck(c, u)
         \/ \E t \in Tokens : StartRefresh(c, t) \/ Authenticate(c, t)
         \/ Abandon(c)
  PROVE  AccountInv'
<1>1. TypeOK
  BY DEF AccountInv
<1>2. PICK r \in Request : r.pc # "mailing" /\ Goto(c, r)
  <2>1. ASSUME NEW u \in Users, LoginCheck(c, u)
        PROVE  \E r \in Request : r.pc # "mailing" /\ Goto(c, r)
    BY <2>1, Places DEF LoginCheck
  <2>2. ASSUME NEW t \in Tokens, StartRefresh(c, t)
        PROVE  \E r \in Request : r.pc # "mailing" /\ Goto(c, r)
    <3>1. sessions[t].user \in Users
      BY <1>1, <2>2, SessionRow DEF StartRefresh, Redeemable, TypeOK
    <3>2. [pc |-> "refresh", user |-> sessions[t].user, token |-> t] \in Request
      BY <3>1, Places
    <3> QED BY <2>2, <3>2 DEF StartRefresh
  <2>3. ASSUME NEW t \in Tokens, Authenticate(c, t)
        PROVE  \E r \in Request : r.pc # "mailing" /\ Goto(c, r)
    <3>1. sessions[t].user \in Users
      BY <1>1, <2>3, SessionRow DEF Authenticate, TypeOK
    <3>2. users[sessions[t].user].role \in Roles
      BY <1>1, <3>1, UserRow DEF TypeOK
    <3>3. [pc |-> "authed", user |-> sessions[t].user,
           role |-> users[sessions[t].user].role] \in Request
      BY <3>1, <3>2, Places
    <3> QED BY <2>3, <3>3 DEF Authenticate
  <2>4. CASE Abandon(c)
    BY <2>4, Places DEF Abandon, Idle
  <2> QED BY <2>1, <2>2, <2>3, <2>4
<1>3. NoNewMail
  BY <1>1, <1>2, LeavesMailAlone
<1>4. UNCHANGED <<users, sessions, codes, issued, mailed>>
  BY DEF LoginCheck, StartRefresh, Authenticate, Abandon
<1>5. SessionKeys'
  BY <1>4, AsThingsStand DEF SessionKeys, Stored
<1> QED BY <1>3, <1>4, <1>5, AsThingsStand, SessionsStep

\* A code is made, under a lock nobody else holds.
LEMMA StartMailingStep ==
  ASSUME AccountInv, NEW c \in Clients, StartMailing(c)
  PROVE  AccountInv'
<1> DEFINE u == req[c].user
           r == [pc |-> "mailing", user |-> u, code |-> issued + 1, sent |-> FALSE]
<1>1. TypeOK
  BY DEF AccountInv
<1>2. u \in Users /\ Stored(u) /\ ~Locked(u) /\ ~users[u].verified
      /\ codes[u].state # "fresh"
  BY <1>1, RequestFields DEF StartMailing, At
<1>3. issued + 1 \in 1..MaxCodes
  BY <1>1, AuthConstants DEF StartMailing, TypeOK
<1>4. r \in Request /\ r.pc = "mailing" /\ r.user = u /\ ~r.sent
  BY <1>2, <1>3, Places
<1>5. Goto(c, r) /\ UNCHANGED <<users, sessions, codes, mailed>>
      /\ issued' = issued + 1
  BY DEF StartMailing
<1> HIDE DEF r
<1>6. req'[c] = r /\ \A d \in Clients \ {c} : req'[d] = req[d]
  BY <1>1, <1>5, OthersStay
<1>7. TypeOK'
  <2>1. req' \in [Clients -> Request]
    BY <1>1, <1>4, <1>5, Moved
  <2> QED BY <1>1, <1>3, <1>5, <2>1 DEF TypeOK, Stored
<1>8. MailingStored'
  BY <1>2, <1>4, <1>5, <1>6 DEF AccountInv, MailingStored, At, Stored
<1>9. SentIsMailed'
  BY <1>4, <1>5, <1>6 DEF AccountInv, SentIsMailed, At
<1>10. MailingIsExclusive'
  <2>1. \A d \in Clients \ {c} : req[d].pc = "mailing" => req[d].user # u
    BY <1>2 DEF Locked, At
  <2> QED BY <1>2, <1>4, <1>5, <1>6, <2>1 DEF AccountInv, MailingIsExclusive, At
<1>11. VerifiedHasNoCode' /\ StoredCodeWasMailed'
  BY <1>5 DEF AccountInv, VerifiedHasNoCode, StoredCodeWasMailed
<1> QED BY <1>7, <1>8, <1>9, <1>10, <1>11 DEF AccountInv

\* The mail server takes the code.
LEMMA MailStep ==
  ASSUME AccountInv, NEW c \in Clients, Mail(c)
  PROVE  AccountInv'
<1> DEFINE r == [req[c] EXCEPT !.sent = TRUE]
<1>1. TypeOK /\ At(c, "mailing")
  BY DEF AccountInv, Mail
<1>2. req[c].user \in Users /\ req[c].code \in 1..MaxCodes
  BY <1>1, RequestFields DEF At
<1>3. r \in Request /\ r.pc = "mailing" /\ r.user = req[c].user
      /\ r.code = req[c].code
  <2> DEFINE M == [pc : {"mailing"}, user : Users, code : 1..MaxCodes, sent : BOOLEAN]
  <2>1. req[c] \in M
    BY <1>1 DEF TypeOK, Request, At
  <2>2. ASSUME NEW x \in M
        PROVE  /\ [x EXCEPT !.sent = TRUE] \in M
               /\ [x EXCEPT !.sent = TRUE].user = x.user
               /\ [x EXCEPT !.sent = TRUE].code = x.code
               /\ [x EXCEPT !.sent = TRUE].pc = "mailing"
    BY Zenon
  <2>3. M \subseteq Request
    BY Zenon DEF Request
  <2> QED BY <2>1, <2>2, <2>3
<1>4. req' = [req EXCEPT ![c] = r]
  BY DEF Mail
<1> HIDE DEF r
<1>5. req'[c] = r /\ \A d \in Clients \ {c} : req'[d] = req[d]
  BY <1>1, <1>4 DEF TypeOK
<1>6. /\ mailed' \in [Users -> SUBSET (1..MaxCodes)]
      /\ \A v \in Users : mailed[v] \subseteq mailed'[v]
      /\ req[c].code \in mailed'[req[c].user]
  BY <1>1, <1>2 DEF Mail, TypeOK
<1>7. UNCHANGED <<users, sessions, codes, issued>>
  BY DEF Mail
<1>8. TypeOK'
  <2>1. req' \in [Clients -> Request]
    BY <1>1, <1>3, <1>4 DEF TypeOK
  <2> QED BY <1>1, <1>6, <1>7, <2>1 DEF TypeOK, Stored
<1>9. MailingStored' /\ MailingIsExclusive'
  BY <1>1, <1>3, <1>5, <1>7 DEF AccountInv, MailingStored, MailingIsExclusive, At, Stored
<1>10. SentIsMailed'
  <2>1. \A d \in Clients \ {c} : At(d, "mailing") => req[d].user \in Users
    BY <1>1, RequestFields DEF At
  <2> QED BY <1>1, <1>3, <1>5, <1>6, <2>1 DEF AccountInv, SentIsMailed, At
<1>11. VerifiedHasNoCode' /\ StoredCodeWasMailed'
  BY <1>6, <1>7 DEF AccountInv, VerifiedHasNoCode, StoredCodeWasMailed
<1> QED BY <1>8, <1>9, <1>10, <1>11 DEF AccountInv

\* The code that was mailed is committed, and the lock released.
LEMMA StoreCodeStep ==
  ASSUME AccountInv, NEW c \in Clients, StoreCode(c)
  PROVE  AccountInv'
<1> DEFINE u == req[c].user
           k == req[c].code
           row == [state |-> "fresh", code |-> k]
<1>1. TypeOK /\ At(c, "mailing") /\ req[c].sent
  BY DEF AccountInv, StoreCode, Sent
<1>2. u \in Users /\ k \in 1..MaxCodes
  BY <1>1, RequestFields DEF At
<1>3. Stored(u) /\ ~users[u].verified /\ k \in mailed[u]
  BY <1>1 DEF AccountInv, MailingStored, MailingIsExclusive, SentIsMailed
<1>4. codes' = [codes EXCEPT ![u] = row]
  BY DEF StoreCode
<1>5. Goto(c, Idle) /\ UNCHANGED <<users, sessions, issued, mailed>>
  BY DEF StoreCode
<1>6. Idle.pc # "mailing"
  BY DEF Idle
<1>7. NoNewMail
  BY <1>1, <1>5, <1>6, Places, LeavesMailAlone
<1>8. \A d \in Clients : At(d, "mailing")' =>
        At(d, "mailing") /\ req'[d] = req[d] /\ req[d].user # u
  <2>1. req'[c] = Idle
    BY <1>1, <1>5, OthersStay
  <2> QED BY <1>1, <1>6, <1>7, <2>1 DEF NoNewMail, At, AccountInv, MailingIsExclusive
<1>9. row \in Code /\ row.state = "fresh" /\ row.code = k
  BY <1>2, CodeRow
<1> HIDE DEF row
<1>10. TypeOK'
  BY <1>1, <1>3, <1>4, <1>5, <1>7, <1>9 DEF TypeOK, NoNewMail, Stored
<1>11. MailingStored' /\ SentIsMailed'
  BY <1>5, <1>8 DEF AccountInv, MailingStored, SentIsMailed, Stored
<1>12. MailingIsExclusive'
  <2>1. \A d \in Clients : At(d, "mailing") => req[d].user \in Users
    BY <1>1, RequestFields DEF At
  <2> QED BY <1>1, <1>4, <1>5, <1>8, <2>1 DEF AccountInv, MailingIsExclusive, TypeOK
<1>13. VerifiedHasNoCode' /\ StoredCodeWasMailed'
  BY <1>1, <1>3, <1>4, <1>5, <1>9
     DEF AccountInv, VerifiedHasNoCode, StoredCodeWasMailed, TypeOK
<1> QED BY <1>10, <1>11, <1>12, <1>13 DEF AccountInv

\* A code is consumed and its user verified.
LEMMA ConfirmStep ==
  ASSUME AccountInv, NEW c \in Clients, NEW k \in 1..MaxCodes, ConfirmCode(c, k)
  PROVE  AccountInv'
<1> DEFINE u == req[c].user
<1>1. TypeOK
  BY DEF AccountInv
<1>2. u \in Users /\ Stored(u) /\ ~Locked(u)
  BY <1>1, RequestFields DEF ConfirmCode, At
<1>3. NoNewMail
  BY <1>1, Places, LeavesMailAlone DEF ConfirmCode, Idle
<1>4. UNCHANGED <<sessions, issued, mailed>>
  BY DEF ConfirmCode
<1>5. codes' = [codes EXCEPT ![u] = NoCode] /\ NoCode.state = "none"
  BY DEF ConfirmCode, Consumed, NoCode
<1>6. users' = [users EXCEPT ![u] = [users[u] EXCEPT !.verified = TRUE]]
  BY DEF ConfirmCode
<1>7. [users[u] EXCEPT !.verified = TRUE].status = users[u].status
  BY <1>1, <1>2 DEF TypeOK, User
<1>8. users' \in [Users -> User] /\ codes' \in [Users -> Code]
  <2>1. [users[u] EXCEPT !.verified = TRUE] \in User
    BY <1>1, <1>2, UserRow DEF TypeOK
  <2>2. users' \in [Users -> User]
    BY <1>1, <1>6, <2>1 DEF TypeOK
  <2>3. codes' \in [Users -> Code]
    BY <1>1, <1>5, CodeRow DEF TypeOK
  <2> QED BY <2>2, <2>3
<1>9. /\ \A v \in Users : users'[v].status = users[v].status
      /\ \A v \in Users \ {u} : users'[v] = users[v] /\ codes'[v] = codes[v]
      /\ codes'[u].state = "none"
  BY <1>1, <1>2, <1>5, <1>6, <1>7 DEF TypeOK
<1>10. \A t \in Tokens : sessions[t].state \in {"open", "expired"} =>
         sessions[t].user \in Users
  BY AsThingsStand, SessionRow DEF SessionKeys
<1>11. SessionKeys' /\ CodeKeys'
  BY <1>4, <1>9, <1>10, AsThingsStand DEF SessionKeys, CodeKeys, Stored
<1>12. \A v \in Users : users'[v].verified => codes'[v].state = "none"
  BY <1>9, AsThingsStand
<1>13. \A v \in Users : codes'[v].state # "none" =>
         codes[v].state # "none" /\ codes'[v].code = codes[v].code
  BY <1>9
<1>14. \A v \in Users : Locked(v) =>
         /\ users'[v].status \notin {"unregistered", "removed"}
         /\ ~users'[v].verified
         /\ codes'[v].state # "fresh"
  BY <1>2, <1>9, AsThingsStand
<1> QED BY <1>3, <1>4, <1>8, <1>11, <1>12, <1>13, <1>14, AsThingsStand, AccountStep

\* Registration and the clock of a deactivated account.
LEMMA AccountClocks ==
  ASSUME AccountInv, NEW u \in Users, Register(u) \/ EndGrace(u)
  PROVE  AccountInv'
<1>1. TypeOK /\ users[u] \in User
  BY DEF AccountInv, TypeOK
<1>2. NoNewMail /\ UNCHANGED <<sessions, codes, issued, mailed>>
  BY <1>1 DEF Register, EndGrace, NoNewMail, TypeOK
<1>3. CASE Register(u)
  <2> DEFINE y == [status |-> "active", role |-> "user", verified |-> FALSE]
  <2>1. y \in User /\ ~y.verified
    BY AuthConstants DEF User
  <2>2. users' = [users EXCEPT ![u] = y] /\ ~Stored(u)
    BY <1>3 DEF Register, Stored
  <2> HIDE DEF y
  <2>3. users' \in [Users -> User]
    BY <1>1, <2>1, <2>2 DEF TypeOK
  <2>4. users'[u] = y /\ \A v \in Users \ {u} : users'[v] = users[v]
    BY <1>1, <2>2 DEF TypeOK
  <2>5. \A v \in Users : Stored(v) => users'[v] = users[v]
    BY <2>2, <2>4
  <2> QED BY <1>1, <1>2, <2>1, <2>3, <2>4, <2>5, UsersStep DEF Stored
<1>4. CASE EndGrace(u)
  <2> DEFINE y == [users[u] EXCEPT !.status = "due"]
  <2>1. y \in User
    BY <1>1, UserRow
  <2>2. y.status = "due" /\ y.verified = users[u].verified
    BY <1>1 DEF User
  <2>3. users' = [users EXCEPT ![u] = y] /\ Stored(u)
    BY <1>4 DEF EndGrace, Stored
  <2> HIDE DEF y
  <2>4. users' \in [Users -> User]
    BY <1>1, <2>1, <2>3 DEF TypeOK
  <2>5. users'[u] = y /\ \A v \in Users \ {u} : users'[v] = users[v]
    BY <1>1, <2>3 DEF TypeOK
  <2>6. \A v \in Users : Stored(v) =>
          /\ users'[v].status \notin {"unregistered", "removed"}
          /\ users'[v].verified = users[v].verified
    BY <2>2, <2>5 DEF Stored
  <2>7. \A v \in Users : ~Stored(v) => users'[v] = users[v]
    BY <2>3, <2>5
  <2> QED BY <1>2, <2>4, <2>6, <2>7, UsersStep
<1> QED BY <1>3, <1>4

\* The clock of a code.
LEMMA CodeClock ==
  ASSUME AccountInv, NEW u \in Users, AgeCode(u)
  PROVE  AccountInv'
<1>1. TypeOK /\ codes[u] \in Code
  BY DEF AccountInv, TypeOK
<1>2. NoNewMail /\ UNCHANGED <<users, sessions, issued, mailed>>
  BY <1>1 DEF AgeCode, NoNewMail, TypeOK
<1>3. PICK st \in {"aged", "expired"} :
        codes' = [codes EXCEPT ![u] = [codes[u] EXCEPT !.state = st]]
  BY DEF AgeCode
<1>4. codes[u].state # "none"
  BY DEF AgeCode
<1>5. codes' \in [Users -> Code]
  BY <1>1, <1>3, CodeRow DEF TypeOK
<1>6. /\ codes'[u].state = st /\ codes'[u].code = codes[u].code
      /\ \A v \in Users \ {u} : codes'[v] = codes[v]
  BY <1>1, <1>3, CodeRow DEF TypeOK
<1>7. SessionKeys' /\ CodeKeys'
  BY <1>2, <1>4, <1>6, AsThingsStand DEF SessionKeys, CodeKeys, Stored
<1>8. \A v \in Users : users'[v].verified => codes'[v].state = "none"
  BY <1>2, <1>4, <1>6, AsThingsStand
<1>9. \A v \in Users : codes'[v].state # "none" =>
        codes[v].state # "none" /\ codes'[v].code = codes[v].code
  BY <1>4, <1>6
<1>10. \A v \in Users : Locked(v) =>
         /\ users'[v].status \notin {"unregistered", "removed"}
         /\ ~users'[v].verified
         /\ codes'[v].state # "fresh"
  BY <1>2, <1>3, <1>6, AsThingsStand
<1> QED BY <1>2, <1>5, <1>7, <1>8, <1>9, <1>10, AsThingsStand, AccountStep

\* The clock of a session.
LEMMA SessionClock ==
  ASSUME AccountInv, NEW t \in Tokens, ExpireSession(t)
  PROVE  AccountInv'
<1>1. TypeOK /\ sessions[t] \in Session
  BY DEF AccountInv, TypeOK
<1>2. NoNewMail /\ UNCHANGED <<users, codes, issued, mailed>>
  BY <1>1 DEF ExpireSession, NoNewMail, TypeOK
<1>3. sessions' = [sessions EXCEPT ![t] = [sessions[t] EXCEPT !.state = "expired"]]
      /\ sessions[t].state = "open"
  BY DEF ExpireSession
<1>4. [sessions[t] EXCEPT !.state = "expired"].user = sessions[t].user
  BY <1>1 DEF Session
<1>5. sessions' \in [Tokens -> Session]
  BY <1>1, <1>3, SessionRow DEF TypeOK
<1>6. SessionKeys'
  BY <1>1, <1>2, <1>3, <1>4, AsThingsStand DEF SessionKeys, Stored, TypeOK
<1> QED BY <1>2, <1>5, <1>6, SessionsStep

\* The sweep leaves the accounts it does not delete, and their rows, alone.
LEMMA SweepStep ==
  ASSUME AccountInv, Sweep
  PROVE  AccountInv'
<1>1. TypeOK
  BY DEF AccountInv
<1>2. NoNewMail /\ UNCHANGED <<issued, mailed>>
  BY <1>1 DEF Sweep, NoNewMail, TypeOK
<1>3. \A u \in Users :
        /\ users[u].status # "due" => users'[u] = users[u]
        /\ users[u].status = "due" =>
             users'[u] = [users[u] EXCEPT !.status = "removed"]
  BY DEF Sweep
<1>4. \A u \in Users :
        /\ [users[u] EXCEPT !.status = "removed"].status = "removed"
        /\ [users[u] EXCEPT !.status = "removed"].verified = users[u].verified
  BY <1>1 DEF TypeOK, User
<1>5. users' \in [Users -> User]
  BY <1>1, UserRow DEF Sweep, TypeOK
<1>6. \A u \in Users : /\ codes'[u] \in {codes[u], NoCode}
                       /\ users[u].status = "due" => codes'[u] = NoCode
  BY DEF Sweep
<1>7. codes' \in [Users -> Code] /\ NoCode.state = "none"
  BY <1>1, CodeRow DEF Sweep, TypeOK, NoCode
<1>8. \A t \in Tokens :
        /\ sessions'[t] \in {sessions[t], Revoked(t)}
        /\ sessions'[t].state \in {"open", "expired"} =>
             sessions'[t] = sessions[t] /\ sessions[t].state = "open"
             /\ t \notin Cascaded
  BY <1>1, RevokedRow, SessionRow DEF Sweep, TypeOK
<1>9. sessions' \in [Tokens -> Session]
  BY <1>1, RevokedRow DEF Sweep, TypeOK
<1>10. SessionKeys'
  <2>1. ASSUME NEW t \in Tokens, sessions'[t].state \in {"open", "expired"}
        PROVE  sessions'[t].user # Null
               /\ users'[sessions'[t].user].status \notin {"unregistered", "removed"}
    <3>1. sessions'[t] = sessions[t] /\ sessions[t].state = "open"
          /\ t \notin Cascaded
      BY <1>8, <2>1
    <3>2. sessions[t].user # Null /\ Stored(sessions[t].user)
      BY <3>1, AsThingsStand DEF SessionKeys
    <3>3. sessions[t].user \in Users
      BY <1>1, <3>2, SessionRow DEF TypeOK
    <3>4. users[sessions[t].user].status # "due"
      BY <3>1, <3>2 DEF Cascaded
    <3> QED BY <1>3, <3>1, <3>2, <3>3, <3>4 DEF Stored
  <2> QED BY <2>1 DEF SessionKeys, Stored
<1>11. CodeKeys'
  BY <1>3, <1>6, <1>7, AsThingsStand DEF CodeKeys, Stored
<1>12. \A u \in Users : users'[u].verified = users[u].verified
  BY <1>3, <1>4
<1>13. \A u \in Users : users'[u].verified => codes'[u].state = "none"
  BY <1>6, <1>7, <1>12, AsThingsStand
<1>14. \A u \in Users : codes'[u].state # "none" =>
         codes[u].state # "none" /\ codes'[u].code = codes[u].code
  BY <1>6, <1>7
<1>15. \A u \in Users : Locked(u) =>
         /\ users'[u].status \notin {"unregistered", "removed"}
         /\ ~users'[u].verified
         /\ codes'[u].state # "fresh"
  <2>1. \A u \in Users : Locked(u) => users[u].status # "due"
    BY DEF Sweep
  <2> QED BY <1>3, <1>6, <1>7, <2>1, AsThingsStand
<1> QED BY <1>2, <1>5, <1>7, <1>9, <1>10, <1>11, <1>13, <1>14, <1>15, AccountStep

\* Every step keeps the invariant.
LEMMA AccountInvStep == AccountInv /\ [Next]_vars => AccountInv'
<1> SUFFICES ASSUME AccountInv, [Next]_vars PROVE AccountInv'
  OBVIOUS
<1>1. CASE \E u \in Users : Register(u) \/ EndGrace(u) \/ AgeCode(u)
  BY <1>1, AccountClocks, CodeClock
<1>2. CASE \E t \in Tokens : ExpireSession(t)
  BY <1>2, SessionClock
<1>3. ASSUME NEW c \in Clients, NEW u \in Users, LoginCheck(c, u)
      PROVE  AccountInv'
  BY <1>3, ReadingActions
<1>4. ASSUME NEW c \in Clients, NEW u \in Users,
             \/ SwitchUserActivation(c, u)
             \/ \E role \in Roles : ChangeRole(c, u, role)
      PROVE  AccountInv'
  BY <1>4, AdminActions, AuthConstants
<1>5. ASSUME NEW c \in Clients, NEW t \in Tokens,
             \/ Login(c, t) \/ StartRefresh(c, t) \/ Refresh(c, t)
             \/ Authenticate(c, t) \/ Logout(c, t)
      PROVE  AccountInv'
  BY <1>5, SessionActions, ReadingActions
<1>6. ASSUME NEW c \in Clients,
             StartMailing(c) \/ Mail(c) \/ StoreCode(c) \/ Abandon(c)
      PROVE  AccountInv'
  BY <1>6, StartMailingStep, MailStep, StoreCodeStep, ReadingActions
<1>7. ASSUME NEW c \in Clients, NEW k \in 1..MaxCodes, ConfirmCode(c, k)
      PROVE  AccountInv'
  BY <1>7, ConfirmStep
<1>8. CASE Sweep
  BY <1>8, SweepStep
<1>9. CASE UNCHANGED vars
  BY <1>9 DEF vars, AccountInv, TypeOK, MailingStored, SentIsMailed,
     MailingIsExclusive, VerifiedHasNoCode, StoredCodeWasMailed, Stored, At
<1> QED BY <1>1, <1>2, <1>3, <1>4, <1>5, <1>6, <1>7, <1>8, <1>9 DEF Next

LEMMA AccountInvInit == Init => AccountInv
<1> SUFFICES ASSUME Init PROVE AccountInv
  OBVIOUS
<1>1. TypeOK
  <2>1. users \in [Users -> User]
    BY AuthConstants DEF Init, User
  <2>2. sessions \in [Tokens -> Session]
    BY AuthConstants DEF Init, Session
  <2>3. codes \in [Users -> Code] /\ \A u \in Users : codes[u].state = "none"
    BY CodeRow DEF Init, NoCode
  <2>4. req \in [Clients -> Request]
    BY Places DEF Init
  <2>5. /\ issued \in 0..MaxCodes
        /\ mailed \in [Users -> SUBSET (1..MaxCodes)]
    BY AuthConstants DEF Init
  <2>6. \A t \in Tokens : sessions[t].state = "unused"
    BY DEF Init
  <2> QED BY <2>1, <2>2, <2>3, <2>4, <2>5, <2>6 DEF TypeOK
<1>2. \A c \in Clients : ~At(c, "mailing")
  BY DEF Init, At, Idle
<1>3. \A u \in Users : codes[u].state = "none"
  BY DEF Init, NoCode
<1> QED BY <1>1, <1>2, <1>3 DEF AccountInv, MailingStored, SentIsMailed,
       MailingIsExclusive, VerifiedHasNoCode, StoredCodeWasMailed

LEMMA AccountInvAlways == Spec => []AccountInv
  BY AccountInvInit, AccountInvStep, PTL DEF Spec

\* Every row and every request in flight is well typed, and no session or code
\* outlives its user.
THEOREM AccountTypeCorrect == Spec => []TypeOK
<1>1. AccountInv => TypeOK
  BY DEF AccountInv
<1> QED BY <1>1, AccountInvAlways, PTL

\* The row lock of request_email_verification keeps other codes, and the
\* confirmation of an older one, away from the account while a code is mailed.
THEOREM OneMailAtATime == Spec => []MailingIsExclusive
<1>1. AccountInv => MailingIsExclusive
  BY DEF AccountInv
<1> QED BY <1>1, AccountInvAlways, PTL

\* No code is outstanding for an address that has been confirmed.
THEOREM ConfirmedIsClosed == Spec => []VerifiedHasNoCode
<1>1. AccountInv => VerifiedHasNoCode
  BY DEF AccountInv
<1> QED BY <1>1, AccountInvAlways, PTL

\* The code a user could enter is one that reached the user's mailbox.
THEOREM OnlyMailedCodesCount == Spec => []StoredCodeWasMailed
<1>1. AccountInv => StoredCodeWasMailed
  BY DEF AccountInv
<1> QED BY <1>1, AccountInvAlways, PTL

-----------------------------------------------------------------------------
(* Replays of a refresh token *)

\* Successors exist only of sessions that are gone; a request that refreshes
\* has read a session that was stored; an unused session has no parent.
Replays(t) == Cardinality(Successors(t)) + Cardinality(Refreshing(t))
LineageInv ==
  \A t \in Tokens :
    /\ IsFiniteSet(Successors(t))
    /\ Successors(t) # {} => sessions[t].state = "gone"
    /\ Refreshing(t) # {} => sessions[t].state # "unused"
    /\ sessions[t].state = "unused" => sessions[t].parent = Null
    /\ Replays(t) <= Cardinality(Clients)

LEMMA RefreshingFinite ==
  \A t : /\ IsFiniteSet(Refreshing(t))
         /\ Cardinality(Refreshing(t)) \in Nat
         /\ Cardinality(Refreshing(t)) <= Cardinality(Clients)
  BY AuthConstants, FS_Subset, FS_CardinalityType DEF Refreshing

\* A smaller set of requests refreshes t, and its successors are the same.
LEMMA FewerRefreshing ==
  ASSUME LineageInv, NEW t \in Tokens,
         Successors(t)' = Successors(t), Refreshing(t)' \subseteq Refreshing(t)
  PROVE  Replays(t)' <= Cardinality(Clients)
<1>1. /\ IsFiniteSet(Successors(t)) /\ IsFiniteSet(Refreshing(t))
      /\ Cardinality(Successors(t)) + Cardinality(Refreshing(t))
           <= Cardinality(Clients)
  BY RefreshingFinite DEF LineageInv, Replays
<1>2. /\ Cardinality(Refreshing(t)') <= Cardinality(Refreshing(t))
      /\ Cardinality(Refreshing(t)') \in Nat
  BY <1>1, FS_Subset, FS_CardinalityType
<1>3. /\ Cardinality(Successors(t)) \in Nat /\ Cardinality(Refreshing(t)) \in Nat
      /\ Cardinality(Clients) \in Nat
  BY <1>1, FS_CardinalityType, AuthConstants
<1>4. Cardinality(Successors(t)') + Cardinality(Refreshing(t)')
        <= Cardinality(Clients)
  BY <1>1, <1>2, <1>3
<1> QED BY <1>4 DEF Replays

\* Steps that give no session a parent and start no refresh.
LEMMA LineageQuiet ==
  ASSUME LineageInv,
         \A t \in Tokens :
           /\ sessions'[t].parent = sessions[t].parent
           /\ sessions[t].state = "gone" => sessions'[t].state = "gone"
           /\ sessions[t].state # "unused" => sessions'[t].state # "unused",
         \A c \in Clients : req'[c].pc = "refresh" => req'[c] = req[c]
  PROVE  LineageInv'
<1> SUFFICES ASSUME NEW t \in Tokens
             PROVE  /\ IsFiniteSet(Successors(t))'
                    /\ Successors(t)' # {} => sessions'[t].state = "gone"
                    /\ Refreshing(t)' # {} => sessions'[t].state # "unused"
                    /\ sessions'[t].state = "unused" => sessions'[t].parent = Null
                    /\ Replays(t)' <= Cardinality(Clients)
  BY DEF LineageInv
<1>1. Successors(t)' = Successors(t)
  BY DEF Successors
<1>2. Refreshing(t)' \subseteq Refreshing(t)
  BY DEF Refreshing, At
<1>3. Replays(t)' <= Cardinality(Clients)
  BY <1>1, <1>2, FewerRefreshing
<1> QED BY <1>1, <1>2, <1>3 DEF LineageInv

LEMMA StartRefreshLineage ==
  ASSUME TypeOK, LineageInv, NEW c \in Clients, NEW t \in Tokens, StartRefresh(c, t)
  PROVE  LineageInv'
<1>1. /\ sessions' = sessions
      /\ req'[c].pc = "refresh" /\ req'[c].token = t
      /\ \A d \in Clients \ {c} : req'[d] = req[d]
      /\ sessions[t].state = "open"
  BY OthersStay DEF StartRefresh, Redeemable
<1>2. \A q \in Tokens : Successors(q)' = Successors(q)
  BY <1>1 DEF Successors
<1>3. \A q \in Tokens \ {t} : Refreshing(q)' \subseteq Refreshing(q)
  BY <1>1 DEF Refreshing, At
<1>4. \A q \in Tokens \ {t} : Replays(q)' <= Cardinality(Clients)
  BY <1>2, <1>3, FewerRefreshing
<1>5. Successors(t) = {}
  BY <1>1 DEF LineageInv
<1>6. Replays(t)' <= Cardinality(Clients)
  <2>1. Cardinality(Successors(t)') = 0
    BY <1>2, <1>5, FS_EmptySet
  <2>2. Refreshing(t)' \in SUBSET Clients
    BY DEF Refreshing
  <2>3. /\ Cardinality(Refreshing(t)') \in Nat
        /\ Cardinality(Refreshing(t)') <= Cardinality(Clients)
    BY <2>2, AuthConstants, FS_Subset, FS_CardinalityType
  <2>4. Cardinality(Successors(t)') + Cardinality(Refreshing(t)')
          <= Cardinality(Clients)
    BY <2>1, <2>3
  <2> QED BY <2>4 DEF Replays
<1>7. \A q \in Tokens : Replays(q)' <= Cardinality(Clients)
  BY <1>4, <1>6
<1>8. \A q \in Tokens :
        /\ IsFiniteSet(Successors(q)')
        /\ Successors(q)' # {} => sessions'[q].state = "gone"
        /\ sessions'[q].state = "unused" => sessions'[q].parent = Null
  BY <1>1, <1>2 DEF LineageInv
<1>9. \A q \in Tokens : Refreshing(q)' # {} => sessions'[q].state # "unused"
  BY <1>1, <1>3 DEF LineageInv
<1> QED BY <1>7, <1>8, <1>9 DEF LineageInv

LEMMA RefreshLineage ==
  ASSUME TypeOK, LineageInv, NEW c \in Clients, NEW n \in Tokens, Refresh(c, n)
  PROVE  LineageInv'
<1>0. PICK old \in Tokens : old = req[c].token
  BY RequestFields DEF Refresh, At
<1>1. old \in Tokens /\ At(c, "refresh") /\ sessions[n].state = "unused"
  BY DEF Refresh
<1>2. c \in Refreshing(old)
  BY <1>0, <1>1 DEF Refreshing
<1>3. sessions[old].state # "unused"
  BY <1>1, <1>2 DEF LineageInv
<1>4. old # n
  BY <1>1, <1>3
<1>5. req'[c] = Idle /\ \A d \in Clients \ {c} : req'[d] = req[d]
  BY OthersStay DEF Refresh
<1>6. Idle.pc # "refresh"
  BY DEF Idle
<1>7. sessions' = [sessions EXCEPT ![old] = Revoked(old),
                                   ![n] = Opened(req[c].user, old)]
  BY <1>0 DEF Refresh
<1>8. /\ Revoked(old).state = "gone" /\ Revoked(old).parent = sessions[old].parent
      /\ Opened(req[c].user, old).state = "open"
      /\ Opened(req[c].user, old).parent = old
  BY <1>1, RevokedRow DEF Opened
<1>9. /\ sessions'[old].state = "gone"
      /\ sessions'[old].parent = sessions[old].parent
      /\ sessions'[n].state = "open" /\ sessions'[n].parent = old
      /\ \A q \in Tokens \ {old, n} : sessions'[q] = sessions[q]
  BY <1>1, <1>4, <1>7, <1>8 DEF TypeOK
<1>10. sessions[n].parent = Null /\ old # Null
  BY <1>1, AuthConstants DEF LineageInv
<1>11. /\ Successors(old)' = Successors(old) \cup {n}
       /\ n \notin Successors(old)
       /\ \A q \in Tokens \ {old} : Successors(q)' = Successors(q)
  <2>1. \A q \in Tokens, x \in Tokens \ {n} :
          sessions'[x].parent = q <=> sessions[x].parent = q
    BY <1>9
  <2>2. \A q \in Tokens : n \notin Successors(q)
    BY <1>10, AuthConstants DEF Successors
  <2>3. \A q \in Tokens \ {old} : sessions'[n].parent # q
    BY <1>9
  <2>4. \A q \in Tokens \ {old} : Successors(q)' = Successors(q)
    BY <2>1, <2>2, <2>3 DEF Successors
  <2>5. Successors(old)' = Successors(old) \cup {n}
    BY <1>1, <1>9, <2>1 DEF Successors
  <2> QED BY <1>1, <2>2, <2>4, <2>5
<1>12. /\ Refreshing(old)' = Refreshing(old) \ {c}
       /\ \A q \in Tokens : Refreshing(q)' \subseteq Refreshing(q)
  BY <1>5, <1>6 DEF Refreshing, At
<1>13. \A q \in Tokens : IsFiniteSet(Successors(q)')
  BY <1>1, <1>11, FS_AddElement DEF LineageInv
<1>14. Replays(old)' <= Cardinality(Clients)
  <2>1. IsFiniteSet(Successors(old)) /\ IsFiniteSet(Refreshing(old))
    BY <1>1, RefreshingFinite DEF LineageInv
  <2>2. /\ Cardinality(Successors(old)') = Cardinality(Successors(old)) + 1
        /\ Cardinality(Refreshing(old)') = Cardinality(Refreshing(old)) - 1
    <3>1. Cardinality(Successors(old) \cup {n}) = Cardinality(Successors(old)) + 1
      BY <1>11, <2>1, FS_AddElement
    <3>2. Cardinality(Refreshing(old) \ {c}) = Cardinality(Refreshing(old)) - 1
      BY <1>2, <2>1, FS_RemoveElement
    <3>3. Cardinality(Successors(old)') = Cardinality(Successors(old)) + 1
      BY <1>11, <3>1
    <3>4. Cardinality(Refreshing(old)') = Cardinality(Refreshing(old)) - 1
      BY <1>12, <3>2
    <3> QED BY <3>3, <3>4
  <2>3. /\ Cardinality(Successors(old)) \in Nat
        /\ Cardinality(Refreshing(old)) \in Nat
        /\ Cardinality(Clients) \in Nat
    BY <2>1, AuthConstants, FS_CardinalityType
  <2>4. Cardinality(Successors(old)) + Cardinality(Refreshing(old))
          <= Cardinality(Clients)
    BY <1>1 DEF LineageInv, Replays
  <2>5. Cardinality(Successors(old)') + Cardinality(Refreshing(old)')
          <= Cardinality(Clients)
    BY <2>2, <2>3, <2>4
  <2> QED BY <2>5 DEF Replays
<1>15. \A q \in Tokens : Replays(q)' <= Cardinality(Clients)
  BY <1>11, <1>12, <1>14, FewerRefreshing
<1>16. \A q \in Tokens :
         /\ Successors(q)' # {} => sessions'[q].state = "gone"
         /\ Refreshing(q)' # {} => sessions'[q].state # "unused"
         /\ sessions'[q].state = "unused" => sessions'[q].parent = Null
  <2>1. \A q \in Tokens \ {old, n} :
          /\ Successors(q)' # {} => sessions'[q].state = "gone"
          /\ Refreshing(q)' # {} => sessions'[q].state # "unused"
          /\ sessions'[q].state = "unused" => sessions'[q].parent = Null
    BY <1>9, <1>11, <1>12 DEF LineageInv
  <2>2. Successors(n)' = {}
    BY <1>1, <1>4, <1>11 DEF LineageInv
  <2> QED BY <1>9, <2>1, <2>2
<1> QED BY <1>13, <1>15, <1>16 DEF LineageInv

LEMMA LineageStep == TypeOK /\ LineageInv /\ [Next]_vars => LineageInv'
<1> SUFFICES ASSUME TypeOK, LineageInv, [Next]_vars PROVE LineageInv'
  OBVIOUS
<1> DEFINE Kept(t) ==
      /\ sessions'[t].parent = sessions[t].parent
      /\ sessions[t].state = "gone" => sessions'[t].state = "gone"
      /\ sessions[t].state # "unused" => sessions'[t].state # "unused"
<1>1. ASSUME NEW c \in Clients, NEW t \in Tokens, Login(c, t) PROVE LineageInv'
  <2>1. sessions' = [sessions EXCEPT ![t] = Opened(req[c].user, Null)]
        /\ sessions[t].state = "unused" /\ Goto(c, Idle)
    BY <1>1 DEF Login
  <2>2. /\ Opened(req[c].user, Null).state = "open"
        /\ Opened(req[c].user, Null).parent = Null
    BY DEF Opened
  <2>3. sessions[t].parent = Null
    BY <2>1 DEF LineageInv
  <2>4. \A q \in Tokens : Kept(q)
    BY <2>1, <2>2, <2>3 DEF TypeOK
  <2>5. \A d \in Clients : req'[d].pc = "refresh" => req'[d] = req[d]
    BY <2>1, OthersStay DEF Idle
  <2> QED BY <2>4, <2>5, LineageQuiet
<1>2. ASSUME NEW c \in Clients, NEW t \in Tokens, Logout(c, t) PROVE LineageInv'
  <2>1. \A q \in Tokens : Kept(q)
    BY <1>2, RevokedRow DEF Logout, TypeOK
  <2>2. \A d \in Clients : req'[d].pc = "refresh" => req'[d] = req[d]
    BY <1>2, OthersStay DEF Logout, Idle
  <2> QED BY <2>1, <2>2, LineageQuiet
<1>3. ASSUME NEW t \in Tokens, ExpireSession(t) PROVE LineageInv'
  <2>1. /\ [sessions[t] EXCEPT !.state = "expired"].parent = sessions[t].parent
        /\ [sessions[t] EXCEPT !.state = "expired"].state = "expired"
    BY DEF TypeOK, Session
  <2>2. sessions' = [sessions EXCEPT ![t] = [sessions[t] EXCEPT !.state = "expired"]]
        /\ sessions[t].state = "open" /\ req' = req
    BY <1>3 DEF ExpireSession
  <2>3. \A q \in Tokens : Kept(q)
    BY <2>1, <2>2 DEF TypeOK
  <2> QED BY <2>2, <2>3, LineageQuiet
<1>4. CASE Sweep
  <2>1. \A q \in Tokens : sessions'[q] \in {sessions[q], Revoked(q)} /\ req' = req
    BY <1>4 DEF Sweep
  <2>2. \A q \in Tokens : Kept(q)
    BY <2>1, RevokedRow
  <2>3. \A d \in Clients : req'[d] = req[d]
    BY <1>4 DEF Sweep
  <2> QED BY <2>2, <2>3, LineageQuiet
<1>5. ASSUME sessions' = sessions,
             \A d \in Clients : req'[d].pc = "refresh" => req'[d] = req[d]
      PROVE  LineageInv'
  BY <1>5, LineageQuiet
<1>6. ASSUME NEW c \in Clients,
             \/ \E u \in Users : LoginCheck(c, u) \/ SwitchUserActivation(c, u)
                                 \/ \E role \in Roles : ChangeRole(c, u, role)
             \/ \E t \in Tokens : Authenticate(c, t)
             \/ StartMailing(c) \/ StoreCode(c) \/ Abandon(c)
             \/ \E k \in 1..MaxCodes : ConfirmCode(c, k)
      PROVE  LineageInv'
  <2>1. PICK r : Goto(c, r) /\ r.pc # "refresh"
    <3>1. CASE \E u \in Users : LoginCheck(c, u)
      BY <3>1 DEF LoginCheck
    <3>2. CASE \E t \in Tokens : Authenticate(c, t)
      BY <3>2 DEF Authenticate
    <3>3. CASE StartMailing(c)
      BY <3>3 DEF StartMailing
    <3>4. CASE Goto(c, Idle)
      BY <3>4 DEF Idle
    <3> QED BY <1>6, <3>1, <3>2, <3>3, <3>4 DEF SwitchUserActivation, ChangeRole,
               StoreCode, Abandon, ConfirmCode
  <2>2. sessions' = sessions
    BY <1>6 DEF LoginCheck, SwitchUserActivation, ChangeRole, Authenticate,
       StartMailing, StoreCode, Abandon, ConfirmCode
  <2>3. \A d \in Clients : req'[d].pc = "refresh" => req'[d] = req[d]
    BY <2>1, OthersStay
  <2> QED BY <1>5, <2>2, <2>3
<1>7. ASSUME NEW c \in Clients, Mail(c) PROVE LineageInv'
  <2>1. req' = [req EXCEPT ![c] = [req[c] EXCEPT !.sent = TRUE]]
        /\ sessions' = sessions /\ req[c].pc = "mailing"
    BY <1>7 DEF Mail, At
  <2>2. [req[c] EXCEPT !.sent = TRUE].pc = "mailing"
    BY <2>1 DEF TypeOK, Request
  <2>3. \A d \in Clients : req'[d].pc = "refresh" => req'[d] = req[d]
    BY <2>1, <2>2 DEF TypeOK
  <2> QED BY <1>5, <2>1, <2>3
<1>8. CASE \E u \in Users : Register(u) \/ EndGrace(u) \/ AgeCode(u)
  BY <1>5, <1>8 DEF Register, EndGrace, AgeCode
<1>9. CASE UNCHANGED vars
  BY <1>5, <1>9 DEF vars
<1> QED BY <1>1, <1>2, <1>3, <1>4, <1>6, <1>7, <1>8, <1>9,
           StartRefreshLineage, RefreshLineage DEF Next

LEMMA LineageAlways == Spec => []LineageInv
<1>1. Init => LineageInv
  <2> SUFFICES ASSUME Init, NEW t \in Tokens
               PROVE  /\ IsFiniteSet(Successors(t))
                      /\ Successors(t) = {}
                      /\ Refreshing(t) = {}
                      /\ sessions[t].state = "unused" => sessions[t].parent = Null
                      /\ Replays(t) <= Cardinality(Clients)
    BY DEF LineageInv
  <2>1. Successors(t) = {}
    BY AuthConstants DEF Init, Successors
  <2>2. Refreshing(t) = {}
    BY DEF Init, Refreshing, At, Idle
  <2>3. Cardinality(Clients) \in Nat
    BY AuthConstants, FS_CardinalityType
  <2>4. Replays(t) <= Cardinality(Clients)
    BY <2>1, <2>2, <2>3, FS_EmptySet DEF Replays
  <2> QED BY <2>1, <2>2, <2>4, FS_EmptySet DEF Init
<1> QED BY <1>1, LineageStep, AccountTypeCorrect, PTL DEF Spec

\* A refresh token is worth no more sessions than there were requests at work
\* when it was revoked.
THEOREM ReplaysEnd == Spec => []ReplayBounded
<1>1. LineageInv => ReplayBounded
  BY DEF LineageInv, ReplayBounded, Replays
<1> QED BY <1>1, LineageAlways, PTL

-----------------------------------------------------------------------------
(* The refinement of TokenRotation *)

\* What TokenRotation sees of a session and of a request.
RowOf(t) == IF sessions[t].state \in {"unused", "open"}
            THEN sessions[t].state ELSE "closed"
HeldBy(c) == IF At(c, "refresh") THEN req[c].token ELSE Null
Rows == [t \in Tokens |-> RowOf(t)]
Held == [c \in Clients |-> HeldBy(c)]

StaysOrCloses(t) ==
  \/ RowOf(t)' = RowOf(t)
  \/ RowOf(t) = "open" /\ RowOf(t)' = "closed"

LEMMA RotationInit == Init => Rotation!Init
  BY DEF Init, Rotation!Init, At, Idle

\* Sessions that are seen to change only from open to closed, under requests
\* that go on holding what they hold.
LEMMA Closing ==
  ASSUME \A t \in Tokens : StaysOrCloses(t),
         \A c \in Clients : HeldBy(c)' = HeldBy(c)
  PROVE  Rotation!Next
<1>0. PICK S \in SUBSET Tokens :
        S = {t \in Tokens : RowOf(t) = "open" /\ RowOf(t)' = "closed"}
  OBVIOUS
<1>1. Rows' = [t \in Tokens |-> IF t \in S THEN "closed" ELSE Rows[t]] /\ Held' = Held
  BY <1>0 DEF StaysOrCloses, Rows, Held
<1>2. \A t \in S : Rows[t] = "open"
  BY <1>0 DEF Rows
<1>3. Rotation!Close(S)
  BY <1>1, <1>2 DEF Rotation!Close, Rows, Held, RowOf, HeldBy
<1> QED BY <1>3 DEF Rotation!Next

\* No table of sessions is written, and at most c holds something else.
LEMMA Holding ==
  ASSUME NEW c \in Clients, sessions' = sessions,
         \A d \in Clients \ {c} : req'[d] = req[d]
  PROVE  Rows' = Rows /\ Held' = [Held EXCEPT ![c] = HeldBy(c)']
<1>1. \A t \in Tokens : RowOf(t)' = RowOf(t)
  BY DEF RowOf
<1>2. \A d \in Clients \ {c} : HeldBy(d)' = HeldBy(d)
  BY DEF HeldBy, At
<1> QED BY <1>1, <1>2 DEF Rows, Held

LEMMA Dropping ==
  ASSUME NEW c \in Clients, sessions' = sessions,
         \A d \in Clients \ {c} : req'[d] = req[d], ~At(c, "refresh")'
  PROVE  Rotation!Next
<1>1. Rows' = Rows /\ Held' = [Held EXCEPT ![c] = Null]
  BY Holding DEF HeldBy
<1>2. Rotation!Drop(c)
  BY <1>1 DEF Rotation!Drop, Rows, Held, RowOf, HeldBy
<1> QED BY <1>2 DEF Rotation!Next

\* A request that holds no token opens a session nobody has had.
LEMMA Opening ==
  ASSUME TypeOK, NEW c \in Clients, NEW n \in Tokens, Login(c, n)
  PROVE  Rotation!Next
<1>1. /\ sessions' = [sessions EXCEPT ![n] = Opened(req[c].user, Null)]
      /\ sessions[n].state = "unused" /\ Goto(c, Idle) /\ At(c, "login")
  BY DEF Login
<1>2. Opened(req[c].user, Null).state = "open"
  BY DEF Opened
<1>3. Rows' = [Rows EXCEPT ![n] = "open"] /\ Rows[n] = "unused"
  BY <1>1, <1>2 DEF Rows, RowOf, TypeOK
<1>4. \A d \in Clients : HeldBy(d)' = HeldBy(d)
  BY <1>1, OthersStay DEF HeldBy, At, Idle
<1>5. Rotation!Open(n)
  BY <1>3, <1>4 DEF Rotation!Open, Rows, Held, RowOf, HeldBy
<1> QED BY <1>5 DEF Rotation!Next

LEMMA Claiming ==
  ASSUME TypeOK, NEW c \in Clients, NEW t \in Tokens, StartRefresh(c, t)
  PROVE  Rotation!Next
<1> DEFINE r == [pc |-> "refresh", user |-> sessions[t].user, token |-> t]
<1>1. /\ sessions' = sessions /\ Goto(c, r) /\ At(c, "idle")
      /\ sessions[t].state = "open"
  BY DEF StartRefresh, Redeemable
<1>2. r.pc = "refresh" /\ r.token = t
  OBVIOUS
<1> HIDE DEF r
<1>3. HeldBy(c) = Null /\ HeldBy(c)' = t
  BY <1>1, <1>2, OthersStay DEF HeldBy, At
<1>4. Rows' = Rows /\ Held' = [Held EXCEPT ![c] = t]
  BY <1>1, <1>3, OthersStay, Holding
<1>5. Rows[t] = "open" /\ Held[c] = Null
  BY <1>1, <1>3 DEF Rows, RowOf, Held
<1>6. Rotation!Claim(c, t)
  BY <1>4, <1>5 DEF Rotation!Claim, Rows, Held, RowOf, HeldBy
<1> QED BY <1>6 DEF Rotation!Next

\* The token that is exchanged is not the one that is made, since it has been
\* open: LineageInv.
LEMMA Exchanging ==
  ASSUME TypeOK, LineageInv, NEW c \in Clients, NEW n \in Tokens, Refresh(c, n)
  PROVE  Rotation!Next
<1>0. PICK t \in Tokens : t = req[c].token
  BY RequestFields DEF Refresh, At
<1>1. /\ sessions' = [sessions EXCEPT ![t] = Revoked(t), ![n] = Opened(req[c].user, t)]
      /\ sessions[n].state = "unused" /\ Goto(c, Idle) /\ At(c, "refresh")
  BY <1>0 DEF Refresh
<1>2. c \in Refreshing(t)
  BY <1>0, <1>1 DEF Refreshing
<1>3. t # n
  BY <1>1, <1>2 DEF LineageInv
<1>4. Opened(req[c].user, t).state = "open" /\ Revoked(t).state = "gone"
  BY RevokedRow DEF Opened
<1>5. Rows' = [Rows EXCEPT ![t] = "closed", ![n] = "open"] /\ Rows[n] = "unused"
  BY <1>1, <1>3, <1>4 DEF Rows, RowOf, TypeOK
<1>6. HeldBy(c)' = Null /\ \A d \in Clients \ {c} : HeldBy(d)' = HeldBy(d)
  BY <1>1, OthersStay DEF HeldBy, At, Idle
<1>7. Held[c] = t /\ Held' = [Held EXCEPT ![c] = Null] /\ t # Null
  BY <1>0, <1>1, <1>6, AuthConstants DEF Held, HeldBy
<1>8. Rotation!Exchange(c, n)
  BY <1>5, <1>7 DEF Rotation!Exchange, Rows, Held, RowOf, HeldBy
<1> QED BY <1>8 DEF Rotation!Next

LEMMA RotationStep ==
  ASSUME TypeOK, LineageInv, [Next]_vars
  PROVE  [Rotation!Next]_(Rotation!vars)
<1>1. ASSUME sessions' = sessions, req' = req PROVE UNCHANGED Rotation!vars
  BY <1>1 DEF Rotation!vars, At
<1>2. ASSUME NEW c \in Clients, NEW t \in Tokens, Logout(c, t) PROVE Rotation!Next
  <2>1. /\ sessions' = [sessions EXCEPT ![t] = Revoked(t)]
        /\ sessions[t].state = "open" /\ Goto(c, Idle) /\ At(c, "authed")
    BY <1>2 DEF Logout
  <2>2. \A q \in Tokens : StaysOrCloses(q)
    BY <2>1, RevokedRow DEF StaysOrCloses, RowOf, TypeOK
  <2>3. \A d \in Clients : HeldBy(d)' = HeldBy(d)
    BY <2>1, OthersStay DEF HeldBy, At, Idle
  <2> QED BY <2>2, <2>3, Closing
<1>3. ASSUME NEW t \in Tokens, ExpireSession(t) PROVE Rotation!Next
  <2>1. sessions' = [sessions EXCEPT ![t] = [sessions[t] EXCEPT !.state = "expired"]]
        /\ sessions[t].state = "open" /\ req' = req
    BY <1>3 DEF ExpireSession
  <2>2. [sessions[t] EXCEPT !.state = "expired"].state = "expired"
    BY DEF TypeOK, Session
  <2>3. \A q \in Tokens : StaysOrCloses(q)
    BY <2>1, <2>2 DEF StaysOrCloses, RowOf, TypeOK
  <2> QED BY <2>1, <2>3, Closing DEF HeldBy, At
<1>4. CASE Sweep
  <2>1. \A q \in Tokens :
          \/ sessions'[q] = sessions[q]
          \/ sessions'[q] = Revoked(q) /\ sessions[q].state \in {"open", "expired"}
    BY <1>4 DEF Sweep
  <2>2. \A q \in Tokens : StaysOrCloses(q)
    BY <2>1, RevokedRow DEF StaysOrCloses, RowOf
  <2>3. req' = req
    BY <1>4 DEF Sweep
  <2> QED BY <2>2, <2>3, Closing DEF HeldBy, At
<1>5. ASSUME NEW c \in Clients,
             \/ \E u \in Users : \/ LoginCheck(c, u) \/ SwitchUserActivation(c, u)
                                 \/ \E role \in Roles : ChangeRole(c, u, role)
             \/ \E t \in Tokens : Authenticate(c, t)
             \/ StartMailing(c) \/ StoreCode(c) \/ Abandon(c)
             \/ \E k \in 1..MaxCodes : ConfirmCode(c, k)
      PROVE  Rotation!Next
  <2>1. sessions' = sessions
    BY <1>5 DEF LoginCheck, SwitchUserActivation, ChangeRole, Authenticate,
                StartMailing, StoreCode, Abandon, ConfirmCode
  <2>2. PICK r : Goto(c, r) /\ r.pc # "refresh"
    <3>1. CASE \E u \in Users : LoginCheck(c, u)
      BY <3>1 DEF LoginCheck
    <3>2. CASE \E t \in Tokens : Authenticate(c, t)
      BY <3>2 DEF Authenticate
    <3>3. CASE StartMailing(c)
      BY <3>3 DEF StartMailing
    <3>4. CASE Goto(c, Idle)
      BY <3>4 DEF Idle
    <3> QED BY <1>5, <3>1, <3>2, <3>3, <3>4 DEF SwitchUserActivation, ChangeRole,
               StoreCode, Abandon, ConfirmCode
  <2> QED BY <2>1, <2>2, OthersStay, Dropping DEF At
<1>6. ASSUME NEW c \in Clients, Mail(c) PROVE Rotation!Next
  <2>1. req' = [req EXCEPT ![c] = [req[c] EXCEPT !.sent = TRUE]]
        /\ sessions' = sessions /\ req[c].pc = "mailing"
    BY <1>6 DEF Mail, At
  <2>2. [req[c] EXCEPT !.sent = TRUE].pc = "mailing"
    BY <2>1 DEF TypeOK, Request
  <2>3. ~At(c, "refresh")' /\ \A d \in Clients \ {c} : req'[d] = req[d]
    BY <2>1, <2>2 DEF TypeOK, At
  <2> QED BY <2>1, <2>3, Dropping
<1>7. CASE \E u \in Users : Register(u) \/ EndGrace(u) \/ AgeCode(u)
  BY <1>1, <1>7 DEF Register, EndGrace, AgeCode
<1>8. CASE UNCHANGED vars
  BY <1>1, <1>8 DEF vars
<1>9. CASE Next
  <2>1. CASE \E c \in Clients, u \in Users :
               \/ LoginCheck(c, u) \/ SwitchUserActivation(c, u)
               \/ \E role \in Roles : ChangeRole(c, u, role)
    BY <1>5, <2>1
  <2>2. CASE \E c \in Clients, t \in Tokens :
               Login(c, t) \/ StartRefresh(c, t) \/ Refresh(c, t) \/ Logout(c, t)
    BY <1>2, <2>2, Opening, Claiming, Exchanging
  <2>3. CASE \E c \in Clients :
               \/ \E t \in Tokens : Authenticate(c, t)
               \/ StartMailing(c) \/ StoreCode(c) \/ Abandon(c)
               \/ \E k \in 1..MaxCodes : ConfirmCode(c, k)
    BY <1>5, <2>3
  <2> QED BY <1>3, <1>4, <1>6, <1>7, <1>9, <2>1, <2>2, <2>3 DEF Next
<1> QED BY <1>8, <1>9

\* refresh_token_endpoint among log-ins, log-outs, sweeps and administrators:
\* whatever the interleaving, the table of sessions goes through exchanges of
\* open sessions for new ones.
THEOREM RotationKept == Spec => KeepsRotation
<1>1. TypeOK /\ LineageInv /\ [Next]_vars => [Rotation!Next]_(Rotation!vars)
  BY RotationStep
<1>2. Spec => Rotation!Spec
  BY <1>1, RotationInit, LineageAlways, AccountTypeCorrect, PTL DEF Spec, Rotation!Spec
<1> QED BY <1>2 DEF KeepsRotation

-----------------------------------------------------------------------------
(* The last administrator *)

\* Only a request of admin.py takes an administrator away, and never its author.
LEMMA AdminsFall ==
  ASSUME TypeOK, [Next]_vars, ActiveAdmins # {}, ActiveAdmins' = {}
  PROVE  \E c \in Clients :
           At(c, "authed") /\ req'[c] = Idle /\ req[c].user \notin ActiveAdmins
<1>1. PICK a \in Users : IsActive(a) /\ users[a].role = "admin"
  BY DEF ActiveAdmins
<1>2. ~(users'[a].status = "active" /\ users'[a].role = "admin")
  BY DEF ActiveAdmins, IsActive
<1>3. users' # users
  BY <1>1, <1>2 DEF IsActive
<1>4. ~\E u \in Users : Register(u)
  BY <1>1, <1>2 DEF Register, IsActive, TypeOK
<1>5. ~\E u \in Users : EndGrace(u)
  BY <1>1, <1>2 DEF EndGrace, IsActive, TypeOK
<1>6. ~Sweep
  BY <1>1, <1>2 DEF Sweep, IsActive, TypeOK
<1>7. ~\E c \in Clients, k \in 1..MaxCodes : ConfirmCode(c, k)
  <2> SUFFICES ASSUME NEW c \in Clients, NEW k \in 1..MaxCodes, ConfirmCode(c, k)
               PROVE  FALSE
    OBVIOUS
  <2>1. users' = [users EXCEPT ![req[c].user] =
                    [users[req[c].user] EXCEPT !.verified = TRUE]]
    BY DEF ConfirmCode
  <2>2. /\ [users[a] EXCEPT !.verified = TRUE].status = users[a].status
        /\ [users[a] EXCEPT !.verified = TRUE].role = users[a].role
    BY DEF TypeOK, User
  <2> QED BY <1>1, <1>2, <2>1, <2>2 DEF IsActive, TypeOK
<1>8. PICK c \in Clients, u \in Users :
        SwitchUserActivation(c, u) \/ \E role \in Roles : ChangeRole(c, u, role)
  BY <1>3, <1>4, <1>5, <1>6, <1>7 DEF Next, vars, LoginCheck, Login, StartRefresh,
     Refresh, Authenticate, Logout, Abandon, StartMailing, Mail, StoreCode,
     ExpireSession, AgeCode
<1>9. At(c, "authed") /\ u # req[c].user
  BY <1>8 DEF SwitchUserActivation, ChangeRole, Target
<1>10. req'[c] = Idle
  BY <1>8, OthersStay DEF SwitchUserActivation, ChangeRole
<1>11. users'[req[c].user] = users[req[c].user]
  <2>1. req[c].user \in Users
    BY <1>9, RequestFields DEF At
  <2> QED BY <1>8, <1>9, <2>1 DEF SwitchUserActivation, ChangeRole, TypeOK
<1>12. req[c].user \notin ActiveAdmins
  BY <1>11 DEF ActiveAdmins, IsActive
<1> QED BY <1>9, <1>10, <1>12

\* Whoever loses the service its last administrator had been one when the
\* request was authenticated, and was one no longer when it acted.
THEOREM LockoutNeedsAStaleRequest == Spec => LastAdminFallsToStaleRequest
<1>1. TypeOK /\ [Next]_vars =>
        [ActiveAdmins # {} /\ ActiveAdmins' = {} =>
           \E c \in Clients :
             At(c, "authed") /\ req'[c] = Idle /\ req[c].user \notin ActiveAdmins]_vars
  BY AdminsFall
<1> QED BY <1>1, AccountTypeCorrect, PTL DEF Spec, LastAdminFallsToStaleRequest
=============================================================================
