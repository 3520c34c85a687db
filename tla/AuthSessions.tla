----------------------------- MODULE AuthSessions -----------------------------
(***************************************************************************)
(* Accounts and what opens them: the rows of users, sessions and           *)
(* email_verifications.                                                    *)
(*                                                                         *)
(* A session row backs one access token and one refresh token; both carry  *)
(* its id, so the row stands for all three here.  Every request except     *)
(* log-in and refresh is authenticated first, on a connection of its own   *)
(* (get_current_user), and acts later in another transaction:              *)
(*                                                                         *)
(*   log in:   LoginCheck -> Login          (no lock between them)         *)
(*   refresh:  StartRefresh -> Refresh      (no lock between them)         *)
(*   others:   Authenticate -> Logout, ChangeRole, SwitchUserActivation,   *)
(*             ConfirmCode, or StartMailing -> Mail -> StoreCode           *)
(*                                                                         *)
(* An email code is mailed inside the transaction that stores it, with the *)
(* row of the user locked.  Passwords and signatures are checks on what    *)
(* the caller presents: a token nobody holds is one nobody presents.       *)
(***************************************************************************)
EXTENDS Naturals, FiniteSets

CONSTANTS
  Users,      \* accounts, by id; never reused
  Admins,     \* the administrators the service starts with
  Verified,   \* those of them whose email is verified already
  Roles,      \* user_role
  Tokens,     \* sessions, by id; never reused
  Clients,    \* concurrent HTTP requests
  Null,       \* no session
  MaxCodes    \* bound: verification codes made

ASSUME AuthConstants ==
  /\ Admins \subseteq Users
  /\ Verified \subseteq Admins
  /\ {"admin", "user"} \subseteq Roles
  /\ Null \notin Users \cup Tokens
  /\ IsFiniteSet(Clients)
  /\ MaxCodes \in Nat

VARIABLES
  users,      \* table users
  sessions,   \* table sessions, and how each row ended
  codes,      \* table email_verifications
  req,        \* what each in-flight HTTP request has read so far
  issued,     \* codes made so far
  mailed      \* history: the codes that reached the mailbox of each user

vars == <<users, sessions, codes, req, issued, mailed>>

-----------------------------------------------------------------------------
(* Types *)

\* A row of users.  "due" is inactive with delete_after in the past.
User == [status : {"unregistered", "active", "inactive", "due", "removed"},
         role : Roles, verified : BOOLEAN]

\* A row of sessions.  "expired" is stored with expires_at in the past; a row
\* with revoked = TRUE is deleted by a trigger before anyone can read it.
\* parent, which no column holds, is the session whose refresh token was
\* exchanged for this one.
Session == [state : {"unused", "open", "expired", "gone"},
            user : Users \cup {Null}, parent : Tokens \cup {Null}]

\* A row of email_verifications: "fresh" for the 60 s in which no other may be
\* requested, "expired" after 15 minutes.
Code == [state : {"none", "fresh", "aged", "expired"}, code : 0..MaxCodes]

Request ==
       [pc : {"idle"}]
  \cup [pc : {"login"}, user : Users]
  \cup [pc : {"refresh"}, user : Users, token : Tokens]
  \cup [pc : {"authed"}, user : Users, role : Roles]
  \cup [pc : {"mailing"}, user : Users, code : 1..MaxCodes, sent : BOOLEAN]

Stored(u) == users[u].status \notin {"unregistered", "removed"}
IsActive(u) == users[u].status = "active"

TypeOK ==
  /\ users    \in [Users -> User]
  /\ sessions \in [Tokens -> Session]
  /\ codes    \in [Users -> Code]
  /\ req      \in [Clients -> Request]
  /\ issued   \in 0..MaxCodes
  /\ mailed   \in [Users -> SUBSET (1..MaxCodes)]
  \* foreign keys to users
  /\ \A t \in Tokens : sessions[t].state \in {"open", "expired"} =>
       sessions[t].user # Null /\ Stored(sessions[t].user)
  /\ \A u \in Users : codes[u].state # "none" => Stored(u)

-----------------------------------------------------------------------------
(* Helpers *)

Idle == [pc |-> "idle"]
NoCode == [state |-> "none", code |-> 0]

At(c, pc) == req[c].pc = pc
Goto(c, r) == req' = [req EXCEPT ![c] = r]

\* Some request holds SELECT ... FOR UPDATE on the row of u while it mails.
\* Updates and deletes of that row, and inserts that reference it, wait.
Locked(u) == \E c \in Clients : At(c, "mailing") /\ req[c].user = u

\* INSERT INTO sessions: the row of the user must still be there.
Insertable(u) == Stored(u) /\ ~Locked(u)

Opened(u, p) == [state |-> "open", user |-> u, parent |-> p]

\* UPDATE sessions SET revoked = TRUE: trg_delete_invalid_session deletes it.
RevokedNever(t) == sessions[t]                       \* fault: not revoked
Revoked(t) == [sessions[t] EXCEPT !.state = "gone", !.user = Null]

Init ==
  /\ users = [u \in Users |->
       [status   |-> IF u \in Admins THEN "active" ELSE "unregistered",
        role     |-> IF u \in Admins THEN "admin" ELSE "user",
        verified |-> u \in Verified]]
  /\ sessions = [t \in Tokens |->
       [state |-> "unused", user |-> Null, parent |-> Null]]
  /\ codes = [u \in Users |-> NoCode]
  /\ req = [c \in Clients |-> Idle]
  /\ issued = 0
  /\ mailed = [u \in Users |-> {}]

-----------------------------------------------------------------------------
(* Accounts, log-in and refresh *)

\* POST /api/auth/register.  Of two requests for one email, the UNIQUE
\* constraint refuses the second if the check did not.
Register(u) ==
  /\ users[u].status = "unregistered"
  /\ users' = [users EXCEPT ![u] =
       [status |-> "active", role |-> "user", verified |-> FALSE]]
  /\ UNCHANGED <<sessions, codes, req, issued, mailed>>

\* POST /api/auth/login: the password is right and is_active is TRUE ...
LoginCheck(c, u) ==
  /\ At(c, "idle")
  /\ IsActive(u)
  /\ Goto(c, [pc |-> "login", user |-> u])
  /\ UNCHANGED <<users, sessions, codes, issued, mailed>>

\* ... and the session is stored, without looking at the user again.
Login(c, t) ==
  /\ At(c, "login")
  /\ sessions[t].state = "unused"
  /\ Insertable(req[c].user)
  /\ sessions' = [sessions EXCEPT ![t] = Opened(req[c].user, Null)]
  /\ Goto(c, Idle)
  /\ UNCHANGED <<users, codes, issued, mailed>>

\* The refresh token of t is valid.
RedeemableTwice(t) ==                                \* fault: expiry unchecked
  sessions[t].state \in {"open", "expired"} /\ IsActive(sessions[t].user)
Redeemable(t) == sessions[t].state = "open" /\ IsActive(sessions[t].user)

\* POST /api/auth/refresh: the joined SELECT, which locks nothing ...
StartRefresh(c, t) ==
  /\ At(c, "idle")
  /\ Redeemable(t)
  /\ Goto(c, [pc |-> "refresh", user |-> sessions[t].user, token |-> t])
  /\ UNCHANGED <<users, sessions, codes, issued, mailed>>

\* ... then revoke the old row, if it is still there, and insert the new one.
Refresh(c, t) ==
  /\ At(c, "refresh")
  /\ sessions[t].state = "unused"
  /\ Insertable(req[c].user)
  /\ sessions' = [sessions EXCEPT ![req[c].token] = Revoked(req[c].token),
                                  ![t] = Opened(req[c].user, req[c].token)]
  /\ Goto(c, Idle)
  /\ UNCHANGED <<users, codes, issued, mailed>>

\* get_current_user, with require_admin reading the role of the same row.
Authenticate(c, t) ==
  /\ At(c, "idle")
  /\ sessions[t].state = "open"
  /\ IsActive(sessions[t].user)
  /\ Goto(c, [pc |-> "authed", user |-> sessions[t].user,
              role |-> users[sessions[t].user].role])
  /\ UNCHANGED <<users, sessions, codes, issued, mailed>>

\* POST /api/auth/logout.  The subject is that of the refresh token in the
\* body, which need not be the caller's.
Logout(c, t) ==
  /\ At(c, "authed")
  /\ sessions[t].state = "open"
  /\ sessions' = [sessions EXCEPT ![t] = Revoked(t)]
  /\ Goto(c, Idle)
  /\ UNCHANGED <<users, codes, issued, mailed>>

\* Every refusal, roll-back and crash between two steps.
Abandon(c) ==
  /\ ~At(c, "idle")
  /\ Goto(c, Idle)
  /\ UNCHANGED <<users, sessions, codes, issued, mailed>>

-----------------------------------------------------------------------------
(* Administration *)

\* The target of an administrator's request: any account but their own.
TargetAny(c, u) ==                                   \* fault: own id allowed
  At(c, "authed") /\ req[c].role = "admin" /\ Stored(u) /\ ~Locked(u)
Target(c, u) ==
  /\ At(c, "authed")
  /\ req[c].role = "admin"
  /\ u # req[c].user
  /\ Stored(u)
  /\ ~Locked(u)

ChangeRole(c, u, role) ==
  /\ Target(c, u)
  /\ users' = [users EXCEPT ![u].role = role]
  /\ Goto(c, Idle)
  /\ UNCHANGED <<sessions, codes, issued, mailed>>

\* UPDATE users SET is_active = NOT is_active; schedule_user_deletion sets or
\* clears delete_after.
SwitchUserActivation(c, u) ==
  /\ Target(c, u)
  /\ users' = [users EXCEPT ![u].status =
       IF IsActive(u) THEN "inactive" ELSE "active"]
  /\ Goto(c, Idle)
  /\ UNCHANGED <<sessions, codes, issued, mailed>>

-----------------------------------------------------------------------------
(* Email verification *)

\* POST /verification/request: lock the user, check, write the row (which
\* nobody sees before the commit) ...
StartMailing(c) ==
  LET u == req[c].user IN
  /\ At(c, "authed")
  /\ issued < MaxCodes
  /\ Stored(u)
  /\ ~Locked(u)
  /\ ~users[u].verified
  /\ codes[u].state # "fresh"
  /\ issued' = issued + 1
  /\ Goto(c, [pc |-> "mailing", user |-> u, code |-> issued + 1,
              sent |-> FALSE])
  /\ UNCHANGED <<users, sessions, codes, mailed>>

\* ... hand the code to the mail server, which may still report a failure ...
Mail(c) ==
  /\ At(c, "mailing")
  /\ ~req[c].sent
  /\ mailed' = [mailed EXCEPT ![req[c].user] = @ \cup {req[c].code}]
  /\ req' = [req EXCEPT ![c].sent = TRUE]
  /\ UNCHANGED <<users, sessions, codes, issued>>

\* send_code returned without an exception.
SentOrNot(c) == At(c, "mailing")                     \* fault: error swallowed
Sent(c) == At(c, "mailing") /\ req[c].sent

\* ... and commit.
StoreCode(c) ==
  /\ Sent(c)
  /\ codes' = [codes EXCEPT ![req[c].user] =
       [state |-> "fresh", code |-> req[c].code]]
  /\ Goto(c, Idle)
  /\ UNCHANGED <<users, sessions, issued, mailed>>

\* DELETE FROM email_verifications ... RETURNING.
ConsumedNot(u) == codes                              \* fault: row left behind
Consumed(u) == [codes EXCEPT ![u] = NoCode]

\* POST /verification/confirm with a code k that was mailed to somebody.
ConfirmCode(c, k) ==
  LET u == req[c].user IN
  /\ At(c, "authed")
  /\ \E v \in Users : k \in mailed[v]
  /\ Stored(u)
  /\ ~Locked(u)
  /\ codes[u].state \in {"fresh", "aged"}
  /\ codes[u].code = k
  /\ codes' = Consumed(u)
  /\ users' = [users EXCEPT ![u].verified = TRUE]
  /\ Goto(c, Idle)
  /\ UNCHANGED <<sessions, issued, mailed>>

-----------------------------------------------------------------------------
(* Clocks and the periodic sweep *)

ExpireSession(t) ==
  /\ sessions[t].state = "open"
  /\ sessions' = [sessions EXCEPT ![t].state = "expired"]
  /\ UNCHANGED <<users, codes, req, issued, mailed>>

\* The two days between deactivation and delete_after.
EndGrace(u) ==
  /\ users[u].status = "inactive"
  /\ users' = [users EXCEPT ![u].status = "due"]
  /\ UNCHANGED <<sessions, codes, req, issued, mailed>>

AgeCode(u) ==
  /\ codes[u].state \in {"fresh", "aged"}
  /\ codes' = [codes EXCEPT ![u].state =
       IF @ = "fresh" THEN "aged" ELSE "expired"]
  /\ UNCHANGED <<users, sessions, req, issued, mailed>>

\* ON DELETE CASCADE from users.
CascadedNone == {}                                   \* fault: no cascade
Cascaded == {t \in Tokens : sessions[t].user # Null
                            /\ users[sessions[t].user].status = "due"}

\* _fallback_sweep, as far as these tables go: due users with all that
\* references them, expired codes, expired sessions.  It waits for a request
\* that holds the lock of a row it deletes.
Sweep ==
  /\ \A u \in Users : Locked(u) =>
       users[u].status # "due" /\ codes[u].state # "expired"
  /\ sessions' = [t \in Tokens |->
       IF \/ sessions[t].state = "expired"
          \/ sessions[t].state = "open" /\ t \in Cascaded
       THEN Revoked(t) ELSE sessions[t]]
  /\ codes' = [u \in Users |->
       IF users[u].status = "due" \/ codes[u].state = "expired"
       THEN NoCode ELSE codes[u]]
  /\ users' = [u \in Users |->
       IF users[u].status = "due"
       THEN [users[u] EXCEPT !.status = "removed"] ELSE users[u]]
  /\ UNCHANGED <<req, issued, mailed>>

-----------------------------------------------------------------------------

Next ==
  \/ \E u \in Users : Register(u) \/ EndGrace(u) \/ AgeCode(u)
  \/ \E t \in Tokens : ExpireSession(t)
  \/ \E c \in Clients, u \in Users :
       \/ LoginCheck(c, u)
       \/ SwitchUserActivation(c, u)
       \/ \E role \in Roles : ChangeRole(c, u, role)
  \/ \E c \in Clients, t \in Tokens :
       Login(c, t) \/ StartRefresh(c, t) \/ Refresh(c, t)
         \/ Authenticate(c, t) \/ Logout(c, t)
  \/ \E c \in Clients :
       StartMailing(c) \/ Mail(c) \/ StoreCode(c) \/ Abandon(c)
  \/ \E c \in Clients, k \in 1..MaxCodes : ConfirmCode(c, k)
  \/ Sweep

Spec == Init /\ [][Next]_vars

-----------------------------------------------------------------------------
(* Properties *)

Successors(t) == {n \in Tokens : sessions[n].parent = t}
Refreshing(t) == {c \in Clients : At(c, "refresh") /\ req[c].token = t}

\* A refresh token opens no more sessions than there were requests holding it
\* when it was first used or logged out: refresh_token_endpoint does not look
\* again before it revokes and inserts, so requests that read the row together
\* all succeed, but nobody who comes later does.
ReplayBounded ==
  \A t \in Tokens :
    Cardinality(Successors(t)) + Cardinality(Refreshing(t))
      <= Cardinality(Clients)

ActiveAdmins == {u \in Users : IsActive(u) /\ users[u].role = "admin"}

\* Neither handler of admin.py lets administrators touch themselves, so the
\* last active one is lost only to a request that was authenticated before its
\* own author stopped being one.
LastAdminFallsToStaleRequest ==
  [][ActiveAdmins # {} /\ ActiveAdmins' = {} =>
       \E c \in Clients :
         At(c, "authed") /\ req'[c] = Idle /\ req[c].user \notin ActiveAdmins]_vars

\* The row lock that is held while a code is mailed keeps everything else off
\* the account: one code at a time, never within a minute of a stored one, and
\* never to an account that has been verified meanwhile.
MailingIsExclusive ==
  \A c \in Clients : At(c, "mailing") =>
    /\ ~users[req[c].user].verified
    /\ codes[req[c].user].state # "fresh"
    /\ \A d \in Clients \ {c} : At(d, "mailing") => req[d].user # req[c].user

\* confirm_email_verification consumes the code, and no other can be stored
\* afterwards.
VerifiedHasNoCode ==
  \A u \in Users : users[u].verified => codes[u].state = "none"

\* The roll-back when mailing fails: a code that is stored is in the mailbox
\* of its user, so nobody waits out the minute for a code that never left.
StoredCodeWasMailed ==
  \A u \in Users : codes[u].state # "none" => codes[u].code \in mailed[u]

\* The refinement: the rows of sessions, and the tokens that refreshes have
\* read and not yet revoked.
Rotation == INSTANCE TokenRotation WITH
  Sessions <- Tokens,
  row   <- [t \in Tokens |-> IF sessions[t].state \in {"unused", "open"}
                             THEN sessions[t].state ELSE "closed"],
  holds <- [c \in Clients |-> IF At(c, "refresh") THEN req[c].token ELSE Null]

\* Accounts, administrators, codes and sweeps do not interfere: a refresh
\* opens a session only for one that was open when it was read, which it
\* closes, and no session is opened twice.
KeepsRotation == Rotation!Spec
=============================================================================
