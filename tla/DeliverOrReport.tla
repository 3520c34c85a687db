--------------------------- MODULE DeliverOrReport ---------------------------
(***************************************************************************)
(* What the service promises about a notification: one that is accepted    *)
(* has a chance to be sent until it is sent for good or given up, and is   *)
(* tried no more than 1 + MaxRetries times.  A try may notify and yet be   *)
(* taken for a failure, so a recipient may hear of every try; but of each  *)
(* only once, and once more for every time a failure of the machinery      *)
(* doubled the notification.  Notifications implements this with its       *)
(* queues, copies and loops.                                               *)
(***************************************************************************)
EXTENDS Naturals

CONSTANTS Messages, MaxRetries

VARIABLES
  state,     \* what became of the call that made each notification
  chances,   \* how often it may still be sent for good
  notified,  \* how often each try notified the recipient
  doubled,   \* how often a failure gave it a chance too many
  givenUp    \* those that were given up

vars == <<state, chances, notified, doubled, givenUp>>

Tries == 0..MaxRetries

Init ==
  /\ state = [m \in Messages |-> "new"]
  /\ chances = [m \in Messages |-> 0]
  /\ notified = [m \in Messages |-> [n \in Tries |-> 0]]
  /\ doubled = [m \in Messages |-> 0]
  /\ givenUp = {}

Accept(m) ==
  /\ state[m] = "new"
  /\ state' = [state EXCEPT ![m] = "accepted"]
  /\ chances' = [chances EXCEPT ![m] = 1]
  /\ UNCHANGED <<notified, doubled, givenUp>>

Refuse(m) ==
  /\ state[m] = "new"
  /\ state' = [state EXCEPT ![m] = "dropped"]
  /\ UNCHANGED <<chances, notified, doubled, givenUp>>

\* The n-th try notifies, if it has not done so for each chance it had.
Reach(m, n) ==
  /\ chances[m] > 0
  /\ notified[m][n] <= doubled[m]
  /\ notified' = [notified EXCEPT ![m][n] = @ + 1]

Notify(m, n) ==
  /\ Reach(m, n)
  /\ chances' = [chances EXCEPT ![m] = @ - 1]
  /\ UNCHANGED <<state, doubled, givenUp>>

\* It is sent, and taken for a failure.
NotifyInVain(m, n) ==
  /\ Reach(m, n)
  /\ UNCHANGED <<state, chances, doubled, givenUp>>

\* It is sent, and the machinery has forgotten it.
NotifyAndDouble(m, n) ==
  /\ Reach(m, n)
  /\ doubled' = [doubled EXCEPT ![m] = @ + 1]
  /\ UNCHANGED <<state, chances, givenUp>>

\* What was done is done once more.
Double(m) ==
  /\ state[m] = "accepted"
  /\ chances' = [chances EXCEPT ![m] = @ + 1]
  /\ doubled' = [doubled EXCEPT ![m] = @ + 1]
  /\ UNCHANGED <<state, notified, givenUp>>

GiveUp(m) ==
  /\ chances[m] > 0
  /\ chances' = [chances EXCEPT ![m] = @ - 1]
  /\ givenUp' = givenUp \cup {m}
  /\ UNCHANGED <<state, notified, doubled>>

Next == \E m \in Messages :
  \/ Accept(m) \/ Refuse(m) \/ Double(m) \/ GiveUp(m)
  \/ \E n \in Tries : Notify(m, n) \/ NotifyInVain(m, n) \/ NotifyAndDouble(m, n)

Spec == Init /\ [][Next]_vars
=============================================================================
