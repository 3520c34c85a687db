----------------------------- MODULE CliSession -----------------------------
(***************************************************************************)
(* The session of the command line client: the token pair in               *)
(* ~/.phantom/config.yaml, the processes that read it when they start and  *)
(* write it back, and the exchange of its refresh token.                   *)
(*                                                                         *)
(*   Send -> Answered, or Challenged -> waiting for refreshMu              *)
(*   Lock -> asked, read, rotated by the server -> Adopt -> Truncate       *)
(*        -> Write -> sent again                                           *)
(*                                                                         *)
(* One api.Client serves concurrent calls; a command is one process.  The  *)
(* pair of a session is named by its row in sessions (AuthSessions).  All  *)
(* sessions are of one account on one server; config set-url to another    *)
(* server is not followed.                                                 *)
(***************************************************************************)
EXTENDS Naturals, FiniteSets

CONSTANTS
  Processes,
  Calls,        \* concurrent calls through the clients of all processes
  ProcessOf,    \* the process of each call
  Sessions,     \* sessions, by id; never reused
  Null          \* no credentials

ASSUME CliConstants ==
  /\ ProcessOf \in [Calls -> Processes]
  /\ Null \notin Sessions

VARIABLES
  server,  \* table sessions
  active,  \* users.is_active of the account
  old,     \* open sessions whose access token has a minute left, or less
  disk,    \* the pair in config.yaml; Null also for an empty file
  proc,    \* each process: is it up, and the pair its client holds
  call,    \* what each call is doing
  exch,    \* POST /api/auth/refresh of each call, as far as the server is
  refused, \* history: sessions whose access token was answered with a 401
  clean    \* history: nothing has gone wrong so far

vars == <<server, active, old, disk, proc, call, exch, refused, clean>>

-----------------------------------------------------------------------------
(* Types *)

Pair == Sessions \cup {Null}

Call ==
  [pc    : {"idle", "waiting", "exchanging", "saving", "writing", "clearing",
            "sent", "loggedIn"},
   kind  : {"request", "logout", "login", "settings"},
   token : Pair,      \* accessToken, failedToken
   again : BOOLEAN,   \* the one retry after a 401
   new   : Pair]      \* what is being saved

Exchange == [state : {"none", "asked", "read", "rotated", "refused"},
             token : Pair, new : Pair]

TypeOK ==
  /\ server \in [Sessions -> {"unused", "open", "expired", "revoked"}]
  /\ old \in SUBSET Sessions
  /\ disk \in Pair
  /\ proc \in [Processes -> [up : BOOLEAN, mem : Pair]]
  /\ call \in [Calls -> Call]
  /\ exch \in [Calls -> Exchange]
  /\ active \in BOOLEAN
  /\ refused \in SUBSET Sessions
  /\ clean \in BOOLEAN
  \* nobody holds a pair that was never issued
  /\ \A t \in Sessions : server[t] = "unused" =>
       /\ t # disk
       /\ \A p \in Processes : proc[p].mem # t
       /\ \A c \in Calls : t \notin {call[c].token, call[c].new, exch[c].token, exch[c].new}

-----------------------------------------------------------------------------
(* Helpers *)

IdleCall == [pc |-> "idle", kind |-> "request", token |-> Null, again |-> FALSE,
             new |-> Null]
NoExchange == [state |-> "none", token |-> Null, new |-> Null]

At(c, pc) == call[c].pc = pc
Mem(c) == proc[ProcessOf[c]].mem
Siblings(c) == {d \in Calls \ {c} : ProcessOf[d] = ProcessOf[c]}

Goto(c, pc) == call' = [call EXCEPT ![c].pc = pc]
Hold(p, t) == proc' = [proc EXCEPT ![p].mem = t]

\* A call ends.  logout clears the stored pair whatever came of it.
AfterEnd(c) ==
  IF call[c].kind = "logout" THEN [call[c] EXCEPT !.pc = "clearing"] ELSE IdleCall
End(c) == call' = [call EXCEPT ![c] = AfterEnd(c)]

\* refreshMu, which is held across the exchange and the saving.
Critical == {"exchanging", "saving", "writing", "clearing"}
Locked(c) == \E d \in Siblings(c) : call[d].pc \in Critical

\* The server takes the pair of t: its row is open and the user active.
Accepted(t) == server[t] = "open" /\ active

\* tokenExpiresSoon.  The age of an access token is followed while its session
\* is open; later it may be either.
MayBeSoon(t) == t \in old \/ (t # Null /\ server[t] # "open")
MayBeLater(t) == t \notin old

\* A row of sessions ends, while the others are as in rows.
Ended(t, how, rows) == /\ server' = [rows EXCEPT ![t] = how]
                       /\ old' = old \ {t}

Goes(ok) == clean' = (clean /\ ok)

Init ==
  /\ server = [t \in Sessions |-> "unused"]
  /\ old = {}
  /\ disk = Null
  /\ proc = [p \in Processes |-> [up |-> FALSE, mem |-> Null]]
  /\ call = [c \in Calls |-> IdleCall]
  /\ exch = [c \in Calls |-> NoExchange]
  /\ active = TRUE
  /\ refused = {}
  /\ clean = TRUE

-----------------------------------------------------------------------------
(* Processes *)

\* config.Init and newAPIClient.  Overlapping processes share nothing but the
\* file.
Start(p) ==
  /\ ~proc[p].up
  /\ proc' = [proc EXCEPT ![p] = [up |-> TRUE, mem |-> disk]]
  /\ Goes(\A q \in Processes : ~proc[q].up)
  /\ UNCHANGED <<server, active, old, disk, call, exch, refused>>

CallsOf(p) == {c \in Calls : ProcessOf[c] = p}

\* The process ends, or dies.  What it asked of the server goes on there.
Exit(p) ==
  /\ proc[p].up
  /\ proc' = [proc EXCEPT ![p] = [up |-> FALSE, mem |-> Null]]
  /\ call' = [c \in Calls |-> IF c \in CallsOf(p) THEN IdleCall ELSE call[c]]
  /\ exch' = [c \in Calls |->
       IF c \in CallsOf(p) /\ exch[c].state \in {"rotated", "refused"}
       THEN NoExchange ELSE exch[c]]
  /\ Goes(\A c \in CallsOf(p) : /\ ~(At(c, "saving") \/ At(c, "writing"))
                                /\ ~(At(c, "clearing") \/ At(c, "loggedIn"))
                                /\ exch[c].state # "rotated")
  /\ UNCHANGED <<server, active, old, disk, refused>>

\* A command other than a plain request has its process for itself.
Alone(c) == \A d \in Siblings(c) : At(d, "idle")
MayBegin(c) ==
  /\ proc[ProcessOf[c]].up
  /\ At(c, "idle")
  /\ exch[c].state = "none"
  /\ \A d \in Siblings(c) : At(d, "idle") \/ call[d].kind = "request"

-----------------------------------------------------------------------------
(* Requests *)

\* send: the token is refreshed first if it is about to expire.
Send(c, kind, soon) ==
  /\ MayBegin(c)
  /\ kind \in {"request", "logout"}
  /\ kind = "logout" => Alone(c)
  /\ ~Locked(c)
  /\ Mem(c) # Null
  /\ IF soon THEN MayBeSoon(Mem(c)) ELSE MayBeLater(Mem(c))
  /\ call' = [call EXCEPT ![c] =
       [IdleCall EXCEPT !.pc = IF soon THEN "waiting" ELSE "sent",
                        !.kind = kind, !.token = Mem(c)]]
  /\ UNCHANGED <<server, active, old, disk, proc, exch, refused, clean>>

\* The server accepts the access token.  logout revokes the session.
Answered(c) ==
  /\ At(c, "sent")
  /\ Accepted(call[c].token)
  /\ IF call[c].kind = "logout" THEN Ended(call[c].token, "revoked", server)
                                ELSE UNCHANGED <<server, old>>
  /\ End(c)
  /\ UNCHANGED <<active, disk, proc, exch, refused, clean>>

\* 401 with a Bearer challenge: once, the token is refreshed and the request
\* sent again.
Challenged(c) ==
  /\ At(c, "sent")
  /\ ~Accepted(call[c].token) \/ call[c].token \in old
  /\ IF call[c].again THEN End(c)
     ELSE call' = [call EXCEPT ![c] = [@ EXCEPT !.pc = "waiting", !.again = TRUE]]
  /\ refused' = refused \cup {call[c].token}
  /\ Goes(call[c].kind = "logout" /\ call[c].again => server[call[c].token] # "open")
  /\ UNCHANGED <<server, active, old, disk, proc, exch>>

\* No connection, a status 5xx or 429: nothing has happened on the server.
Unanswered(c) ==
  /\ At(c, "sent")
  /\ End(c)
  /\ Goes(call[c].kind = "logout" => server[call[c].token] # "open")
  /\ UNCHANGED <<server, active, old, disk, proc, exch, refused>>

-----------------------------------------------------------------------------
(* refreshAccessToken *)

\* AccessToken != failedToken, and it does not expire soon.
Renewed(c) == Mem(c) # call[c].token /\ MayBeLater(Mem(c))
StaleAlways(c) == TRUE                               \* fault: no second look
Stale(c) == Mem(c) = call[c].token \/ MayBeSoon(Mem(c))

\* Another call has refreshed while this one waited.  If it has cleared the
\* pair, the request goes out without one.
UseRenewed(c) ==
  /\ At(c, "waiting")
  /\ ~Locked(c)
  /\ Renewed(c)
  /\ IF Mem(c) = Null THEN End(c)
     ELSE call' = [call EXCEPT ![c] = [@ EXCEPT !.pc = "sent", !.token = Mem(c)]]
  /\ UNCHANGED <<server, active, old, disk, proc, exch, refused, clean>>

Lock(c) ==
  /\ At(c, "waiting")
  /\ ~Locked(c)
  /\ Stale(c)
  /\ Mem(c) # Null
  /\ Goto(c, "exchanging")
  /\ exch' = [exch EXCEPT ![c] = [state |-> "asked", token |-> Mem(c), new |-> Null]]
  /\ UNCHANGED <<server, active, old, disk, proc, refused, clean>>

\* refresh_token_endpoint reads the row without a lock ...
ReadSession(c) ==
  /\ exch[c].state = "asked"
  /\ exch' = [exch EXCEPT ![c] =
       IF Accepted(@.token) THEN [@ EXCEPT !.state = "read"]
       ELSE IF At(c, "exchanging") THEN [@ EXCEPT !.state = "refused"]
       ELSE NoExchange]
  /\ UNCHANGED <<server, active, old, disk, proc, call, refused, clean>>

\* ... then revokes it and inserts the next.  Nobody may be listening any more.
Rotate(c, n) ==
  /\ exch[c].state = "read"
  /\ server[n] = "unused"
  /\ Ended(exch[c].token, "revoked", [server EXCEPT ![n] = "open"])
  /\ exch' = [exch EXCEPT ![c] =
       IF At(c, "exchanging") THEN [@ EXCEPT !.state = "rotated", !.new = n]
       ELSE NoExchange]
  /\ Goes(At(c, "exchanging"))
  /\ UNCHANGED <<active, disk, proc, call, refused>>

\* The request is lost, or answered with a status other than 400 and 401: the
\* pair is kept.
ExchangeFails(c) ==
  /\ At(c, "exchanging")
  /\ exch[c].state = "asked"
  /\ exch' = [exch EXCEPT ![c] = NoExchange]
  /\ End(c)
  /\ Goes(call[c].kind # "logout")
  /\ UNCHANGED <<server, active, old, disk, proc, refused>>

\* The answer is lost, or does not come in time.
GiveUp(c) ==
  /\ At(c, "exchanging")
  /\ exch' = IF exch[c].state \in {"rotated", "refused"}
             THEN [exch EXCEPT ![c] = NoExchange] ELSE exch
  /\ End(c)
  /\ Goes(exch[c].state # "rotated" /\ call[c].kind # "logout")
  /\ UNCHANGED <<server, active, old, disk, proc, refused>>

\* A pair arrives.
AdoptUnsaved(c) ==                                   \* fault: used, not saved
  /\ At(c, "exchanging")
  /\ exch[c].state = "rotated"
  /\ Hold(ProcessOf[c], exch[c].new)
  /\ call' = [call EXCEPT ![c] = [@ EXCEPT !.pc = "sent", !.token = exch[c].new]]
  /\ exch' = [exch EXCEPT ![c] = NoExchange]
  /\ UNCHANGED <<server, active, old, disk, refused, clean>>
Adopt(c) ==
  /\ At(c, "exchanging")
  /\ exch[c].state = "rotated"
  /\ call' = [call EXCEPT ![c] = [@ EXCEPT !.pc = "saving", !.new = exch[c].new]]
  /\ exch' = [exch EXCEPT ![c] = NoExchange]
  /\ UNCHANGED <<server, active, old, disk, proc, refused, clean>>

\* Status 401: the pair is given up, even that of a session which is open and
\* will be accepted again when the user is.
Refused(c) ==
  /\ At(c, "exchanging")
  /\ exch[c].state = "refused"
  /\ Goto(c, "clearing")
  /\ exch' = [exch EXCEPT ![c] = NoExchange]
  /\ Goes(server[exch[c].token] # "open")
  /\ UNCHANGED <<server, active, old, disk, proc, refused>>

-----------------------------------------------------------------------------
(* config.yaml: viper.WriteConfigAs truncates the file and writes it again, *)
(* with whatever this process has read or set.                              *)

Truncate(c) ==
  /\ At(c, "saving")
  /\ disk' = Null
  /\ Goto(c, "writing")
  /\ UNCHANGED <<server, active, old, proc, exch, refused, clean>>

AfterWrite(c) ==
  IF call[c].kind \in {"request", "logout"}
  THEN [call[c] EXCEPT !.pc = "sent", !.token = call[c].new, !.new = Null]
  ELSE IdleCall

Write(c) ==
  /\ At(c, "writing")
  /\ disk' = call[c].new
  /\ Hold(ProcessOf[c], call[c].new)
  /\ call' = [call EXCEPT ![c] = AfterWrite(c)]
  /\ UNCHANGED <<server, active, old, exch, refused, clean>>

\* Before or after the file was truncated.  The pair is cleared only by a
\* refresh.
SaveFails(c) ==
  /\ At(c, "saving") \/ At(c, "writing")
  /\ call' = [call EXCEPT ![c] =
       IF @.kind \in {"request", "logout"} THEN [@ EXCEPT !.pc = "clearing", !.new = Null]
       ELSE IdleCall]
  /\ Goes(FALSE)
  /\ UNCHANGED <<server, active, old, disk, proc, exch, refused>>

\* ClearCredentials, whose own failure is ignored after a refresh.
Clear(c, saved) ==
  /\ At(c, "clearing")
  /\ disk' = IF saved THEN Null ELSE disk
  /\ Hold(ProcessOf[c], Null)
  /\ call' = [call EXCEPT ![c] = IdleCall]
  /\ Goes(saved)
  /\ UNCHANGED <<server, active, old, exch, refused>>

-----------------------------------------------------------------------------
(* Commands that change the file *)

\* auth login: only without a stored access token, and by an active user.
LoginUncommitted(c, n) ==                            \* fault: no row
  /\ MayBegin(c) /\ Alone(c)
  /\ Mem(c) = Null
  /\ active
  /\ server[n] = "unused"
  /\ call' = [call EXCEPT ![c] =
       [IdleCall EXCEPT !.pc = "loggedIn", !.kind = "login", !.new = n]]
  /\ UNCHANGED <<server, active, old, disk, proc, exch, refused, clean>>
Login(c, n) ==
  /\ MayBegin(c) /\ Alone(c)
  /\ Mem(c) = Null
  /\ active
  /\ server[n] = "unused"
  /\ server' = [server EXCEPT ![n] = "open"]
  /\ call' = [call EXCEPT ![c] =
       [IdleCall EXCEPT !.pc = "loggedIn", !.kind = "login", !.new = n]]
  /\ UNCHANGED <<active, old, disk, proc, exch, refused, clean>>

\* The answer of log-in arrives, and /api/auth/me says who it is.
Me(c) ==
  /\ At(c, "loggedIn")
  /\ Accepted(call[c].new)
  /\ Goto(c, "saving")
  /\ UNCHANGED <<server, active, old, disk, proc, exch, refused, clean>>

\* ... or one of them does not, and the session is nobody's.
MeFails(c) ==
  /\ At(c, "loggedIn")
  /\ call' = [call EXCEPT ![c] = IdleCall]
  /\ Goes(FALSE)
  /\ UNCHANGED <<server, active, old, disk, proc, exch, refused>>

\* config set-url, set-smtp: the whole file is written, with the pair that was
\* read at the start.
SaveSettings(c) ==
  /\ MayBegin(c) /\ Alone(c)
  /\ call' = [call EXCEPT ![c] =
       [IdleCall EXCEPT !.pc = "saving", !.kind = "settings", !.new = Mem(c)]]
  /\ UNCHANGED <<server, active, old, disk, proc, exch, refused, clean>>

-----------------------------------------------------------------------------
(* Clocks *)

AgeToken(t) ==
  /\ server[t] = "open" /\ t \notin old
  /\ old' = old \cup {t}
  /\ UNCHANGED <<server, active, disk, proc, call, exch, refused, clean>>

\* The refresh token's thirty days are over, or the account is removed.
ExpireSession(t) ==
  /\ server[t] = "open"
  /\ Ended(t, "expired", server)
  /\ UNCHANGED <<active, disk, proc, call, exch, refused, clean>>

\* switch_user_activation: a toggle, which leaves the rows of sessions alone.
SwitchUserActivation ==
  /\ active' = ~active
  /\ UNCHANGED <<server, old, disk, proc, call, exch, refused, clean>>

Next ==
  \/ \E p \in Processes : Start(p) \/ Exit(p)
  \/ \E c \in Calls :
       \/ \E kind \in {"request", "logout"}, soon \in BOOLEAN : Send(c, kind, soon)
       \/ Answered(c) \/ Challenged(c) \/ Unanswered(c)
       \/ UseRenewed(c) \/ Lock(c) \/ ReadSession(c)
       \/ \E n \in Sessions : Rotate(c, n) \/ Login(c, n)
       \/ ExchangeFails(c) \/ GiveUp(c) \/ Adopt(c) \/ Refused(c)
       \/ Truncate(c) \/ Write(c) \/ SaveFails(c)
       \/ \E saved \in BOOLEAN : Clear(c, saved)
       \/ Me(c) \/ MeFails(c) \/ SaveSettings(c)
  \/ \E t \in Sessions : AgeToken(t) \/ ExpireSession(t)
  \/ SwitchUserActivation

Spec == Init /\ [][Next]_vars

-----------------------------------------------------------------------------
(* Safety *)

\* client_test.go:437, "concurrent requests rotate once": a refresh token is
\* exchanged only if its access token is about to expire or was refused,
\* however many calls of however many processes wait for one another, and
\* whether or not the user is active again by then.
NoNeedlessExchange ==
  \A c \in Calls : exch[c].state = "asked" =>
    \/ exch[c].token \in old \cup refused
    \/ server[exch[c].token] # "open"

\* No exchange, log-in or write is under way.
AtRest ==
  \A c \in Calls : exch[c].state = "none" /\ call[c].pc \in {"idle", "waiting", "sent"}

\* Unless a process died at the wrong moment, an answer or a write was lost,
\* two processes overlapped, or the session was refused because the user was
\* not active: the one open session is the one in the file, and every client
\* holds it.  Requests that fail for want of a connection, refusals of ended
\* sessions, retries and log-outs lose nothing and leave nothing behind.
SessionKept ==
  clean /\ AtRest =>
    /\ \A t \in Sessions : server[t] = "open" => disk = t
    /\ disk # Null => server[disk] # "revoked"
    /\ \A p \in Processes : proc[p].up => proc[p].mem = disk

\* The refinement: the rows of sessions, and the exchanges that have read one.
Rotation == INSTANCE TokenRotation WITH
  Clients <- Calls,
  row   <- [t \in Sessions |-> IF server[t] \in {"unused", "open"}
                               THEN server[t] ELSE "closed"],
  holds <- [c \in Calls |-> IF exch[c].state = "read" THEN exch[c].token ELSE Null]

\* The server's side of this module: sessions are opened and exchanged in the
\* order in which AuthSessions opens and exchanges them.  It says nothing of
\* refusals.
KeepsRotation == Rotation!Spec
=============================================================================
