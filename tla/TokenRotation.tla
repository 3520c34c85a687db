---------------------------- MODULE TokenRotation ----------------------------
(***************************************************************************)
(* What the server and its clients agree on about sessions.  A session is  *)
(* opened by a log-in or in exchange for another one, and the one that is  *)
(* given in exchange is closed in the same step.  An exchange is begun     *)
(* while that session is open; it may end after others have closed it.     *)
(* Closed is for ever.  Which answers a client gets is not said here: an   *)
(* open session is refused while its user is not active.                   *)
(*                                                                         *)
(* AuthSessions implements this with all its accounts, and so does the     *)
(* server that CliSession models for itself, with the one it follows.      *)
(***************************************************************************)
CONSTANTS
  Sessions,   \* sessions, by id
  Clients,    \* who may exchange one
  Null        \* none

VARIABLES
  row,        \* where each session is in its life
  holds       \* the session each client is exchanging

vars == <<row, holds>>

Init ==
  /\ row = [t \in Sessions |-> "unused"]
  /\ holds = [c \in Clients |-> Null]

Open(n) ==
  /\ row[n] = "unused"
  /\ row' = [row EXCEPT ![n] = "open"]
  /\ UNCHANGED holds

Claim(c, t) ==
  /\ holds[c] = Null
  /\ row[t] = "open"
  /\ holds' = [holds EXCEPT ![c] = t]
  /\ UNCHANGED row

Exchange(c, n) ==
  /\ holds[c] # Null
  /\ row[n] = "unused"
  /\ row' = [row EXCEPT ![holds[c]] = "closed", ![n] = "open"]
  /\ holds' = [holds EXCEPT ![c] = Null]

Drop(c) ==
  /\ holds' = [holds EXCEPT ![c] = Null]
  /\ UNCHANGED row

\* By a log-out, by time, or with the account.
Close(S) ==
  /\ \A t \in S : row[t] = "open"
  /\ row' = [t \in Sessions |-> IF t \in S THEN "closed" ELSE row[t]]
  /\ UNCHANGED holds

Next ==
  \/ \E n \in Sessions : Open(n)
  \/ \E c \in Clients, t \in Sessions : Claim(c, t) \/ Exchange(c, t)
  \/ \E c \in Clients : Drop(c)
  \/ \E S \in SUBSET Sessions : Close(S)

Spec == Init /\ [][Next]_vars
=============================================================================
