---------------------------- MODULE Notifications ----------------------------
(***************************************************************************)
(* Notifications about a viewed secret, from notify_secret_viewed through  *)
(* RabbitMQ to SMTP or a webhook.                                          *)
(*                                                                         *)
(*   Publish -> queue -> Take -> Send -> Ack                               *)
(*                            -> Reject, RejectSent -> dead-letter queue   *)
(*                            -> Hang: SMTP without a timeout              *)
(*   retry loop: Get -> Republish with attempt + 1 -> Ack                  *)
(*                   -> after MAX_RETRIES: Ack -> Alert                    *)
(*                                                                         *)
(* The queues are durable and the messages persistent; a copy that is not  *)
(* acknowledged when its connection ends goes back to its queue.  The      *)
(* queues for mail and for webhooks are handled alike and every message    *)
(* stays within its own, so one stands for both.                           *)
(***************************************************************************)
EXTENDS Naturals, FiniteSets

CONSTANTS
  Messages,    \* one for each call of publish
  Slots,       \* room for copies in the broker (bound)
  Loops,       \* retry loops, one for each instance of the service
  MaxRetries,  \* MAX_RETRIES
  MaxForks     \* how often a message may be doubled by a lost connection (bound)

ASSUME NotificationConstants ==
  /\ IsFiniteSet(Slots)
  /\ MaxRetries \in Nat /\ MaxForks \in Nat

VARIABLES
  published,   \* what became of the call of publish
  copy,        \* the copies in the broker
  loop,        \* what each retry loop is doing
  delivered,   \* history: how often the mail or the request went out, by attempt
  failures,    \* history: how often sending failed
  forks,       \* history: copies that went back after they had been dealt with
  alerted,     \* history: messages of fire_critical_alert
  silent       \* history: acknowledged as exhausted, and no alert followed

vars == <<published, copy, loop, delivered, failures, forks, alerted, silent>>

-----------------------------------------------------------------------------
(* Types *)

\* "hanging" is a send to a server that does not answer; "sent" and
\* "republished" are the moments before the acknowledgement.
Places ==
  {"queue", "handling", "hanging", "sent", "dlq", "retrying", "republished"}

\* The first attempt and the retries.
Attempts == 0..MaxRetries

Free == [at |-> "nowhere"]
Copy == [at : Places, msg : Messages, attempt : Attempts] \cup {Free}

LoopState ==
       [pc : {"idle", "dead"}]
  \cup [pc : {"working"}, slot : Slots]
  \cup [pc : {"alerting"}, msg : Messages]

TypeOK ==
  /\ published \in [Messages -> {"new", "accepted", "dropped"}]
  /\ copy      \in [Slots -> Copy]
  /\ loop      \in [Loops -> LoopState]
  /\ delivered \in [Messages -> [Attempts -> Nat]]
  /\ failures  \in [Messages -> Nat]
  /\ forks     \in [Messages -> Nat]
  /\ alerted   \in SUBSET Messages
  /\ silent    \in SUBSET Messages

-----------------------------------------------------------------------------
(* Helpers *)

Idle == [pc |-> "idle"]
Dead == [pc |-> "dead"]
Working(k) == [pc |-> "working", slot |-> k]

At(k, place) == copy[k].at = place
IsFree(k) == copy[k] = Free
Room == CHOOSE k \in Slots : IsFree(k)

Put(k, c) == copy' = [copy EXCEPT ![k] = c]
Moved(k, place) == [copy[k] EXCEPT !.at = place]
Goto(l, state) == loop' = [loop EXCEPT ![l] = state]

\* One more.
More(counter, m) == [counter EXCEPT ![m] = @ + 1]
SentOnceMore(k) == [delivered EXCEPT ![copy[k].msg][copy[k].attempt] = @ + 1]

\* Copies that may still be sent.
Done == {"sent", "republished"}
IsOpen(c, m) == c # Free /\ c.msg = m /\ c.at \notin Done
Open(m) == {k \in Slots : IsOpen(copy[k], m)}

\* The next attempt a copy can make.
Trying == {"queue", "handling", "hanging", "sent"}
Debt(c) == IF c.at \in Trying THEN c.attempt ELSE c.attempt + 1

WentOut(m) == \E n \in Attempts : delivered[m][n] > 0
Settled(m) == WentOut(m) \/ m \in alerted \cup silent

Init ==
  /\ published = [m \in Messages |-> "new"]
  /\ copy = [k \in Slots |-> Free]
  /\ loop = [l \in Loops |-> Idle]
  /\ delivered = [m \in Messages |-> [n \in Attempts |-> 0]]
  /\ failures = [m \in Messages |-> 0]
  /\ forks = [m \in Messages |-> 0]
  /\ alerted = {}
  /\ silent = {}

-----------------------------------------------------------------------------
(* Publishing *)

Publish(m, k) ==
  /\ published[m] = "new"
  /\ IsFree(k) /\ k = Room
  /\ published' = [published EXCEPT ![m] = "accepted"]
  /\ Put(k, [at |-> "queue", msg |-> m, attempt |-> 0])
  /\ UNCHANGED <<loop, delivered, failures, forks, alerted, silent>>

\* No exchange, before the worker is ready or after it has stopped, or the
\* broker refuses: logged, and forgotten.
DropPublish(m) ==
  /\ published[m] = "new"
  /\ published' = [published EXCEPT ![m] = "dropped"]
  /\ UNCHANGED <<copy, loop, delivered, failures, forks, alerted, silent>>

-----------------------------------------------------------------------------
(* handle_email, handle_webhook *)

Take(k) ==
  /\ At(k, "queue")
  /\ Put(k, Moved(k, "handling"))
  /\ UNCHANGED <<published, loop, delivered, failures, forks, alerted, silent>>

Send(k) ==
  /\ At(k, "handling")
  /\ delivered' = SentOnceMore(k)
  /\ Put(k, Moved(k, "sent"))
  /\ UNCHANGED <<published, loop, failures, forks, alerted, silent>>

\* send_smtp gives smtplib no timeout: a server that accepts the connection and
\* then is silent holds the thread until it speaks again, if it ever does.
Hang(k) ==
  /\ At(k, "handling")
  /\ Put(k, Moved(k, "hanging"))
  /\ UNCHANGED <<published, loop, delivered, failures, forks, alerted, silent>>

ServerSpeaks(k) ==
  /\ At(k, "hanging")
  /\ Put(k, Moved(k, "handling"))
  /\ UNCHANGED <<published, loop, delivered, failures, forks, alerted, silent>>

\* message.process() acknowledges when its block ends.
Ack(k) ==
  /\ At(k, "sent")
  /\ Put(k, Free)
  /\ UNCHANGED <<published, loop, delivered, failures, forks, alerted, silent>>

\* An exception rejects the message without requeueing it, and the queue
\* dead-letters it with its headers.
Discarded(k) == Free                                 \* fault: queue without DLX
DeadLettered(k) == Moved(k, "dlq")

Reject(k) ==
  /\ At(k, "handling")
  /\ failures' = More(failures, copy[k].msg)
  /\ Put(k, DeadLettered(k))
  /\ UNCHANGED <<published, loop, delivered, forks, alerted, silent>>

\* It went out, and the exception came afterwards: the receiver answered too late
\* or with an error, or the SMTP server failed at QUIT.
RejectSent(k) ==
  /\ At(k, "handling")
  /\ delivered' = SentOnceMore(k)
  /\ failures' = More(failures, copy[k].msg)
  /\ Put(k, DeadLettered(k))
  /\ UNCHANGED <<published, loop, forks, alerted, silent>>

\* A copy went back to its queue although its work was done.
Fork(m) ==
  /\ forks[m] < MaxForks
  /\ forks' = More(forks, m)

\* A handler between the delivery of its copy and the end of its send.
InHandler(k) == At(k, "handling") \/ At(k, "hanging")

\* The connection ends under a handler and the broker requeues the copy.
LoseHandler(k) ==
  /\ InHandler(k)
  /\ Put(k, Moved(k, "queue"))
  /\ UNCHANGED <<published, loop, delivered, failures, forks, alerted, silent>>

\* The same while a send is under way, which ends all the same.
LoseSending(k) ==
  /\ InHandler(k)
  /\ Fork(copy[k].msg)
  /\ delivered' = SentOnceMore(k)
  /\ Put(k, Moved(k, "queue"))
  /\ UNCHANGED <<published, loop, failures, alerted, silent>>

\* The same before the acknowledgement of a message that was sent.
LoseSent(k) ==
  /\ At(k, "sent")
  /\ Fork(copy[k].msg)
  /\ Put(k, Moved(k, "queue"))
  /\ UNCHANGED <<published, loop, delivered, failures, alerted, silent>>

-----------------------------------------------------------------------------
(* retry_loop *)

Get(l, k) ==
  /\ loop[l] = Idle
  /\ At(k, "dlq")
  /\ Put(k, Moved(k, "retrying"))
  /\ Goto(l, Working(k))
  /\ UNCHANGED <<published, delivered, failures, forks, alerted, silent>>

NextAttempt(k) == copy[k].attempt + 1

NeverExhausted(k) == FALSE                           \* fault: no limit
Exhausted(k) == NextAttempt(k) > MaxRetries

\* The new copy is published and confirmed before the old one is acknowledged.
Republish(l, k, new) ==
  /\ loop[l] = Working(k)
  /\ At(k, "retrying")
  /\ ~Exhausted(k)
  /\ IsFree(new) /\ new = Room
  /\ copy' = [copy EXCEPT
                ![k] = Moved(k, "republished"),
                ![new] = [at |-> "queue", msg |-> copy[k].msg,
                          attempt |-> NextAttempt(k)]]
  /\ UNCHANGED <<published, loop, delivered, failures, forks, alerted, silent>>

NotAcked(k) == Moved(k, "dlq")                       \* fault: ack forgotten
Acked(k) == Free

AckRetried(l, k) ==
  /\ loop[l] = Working(k)
  /\ At(k, "republished")
  /\ Put(k, Acked(k))
  /\ Goto(l, Idle)
  /\ UNCHANGED <<published, delivered, failures, forks, alerted, silent>>

\* Too many attempts: acknowledged first, then reported.
GiveUp(l, k) ==
  /\ loop[l] = Working(k)
  /\ At(k, "retrying")
  /\ Exhausted(k)
  /\ Put(k, Free)
  /\ Goto(l, [pc |-> "alerting", msg |-> copy[k].msg])
  /\ UNCHANGED <<published, delivered, failures, forks, alerted, silent>>

Alert(l) ==
  /\ loop[l].pc = "alerting"
  /\ alerted' = alerted \cup {loop[l].msg}
  /\ Goto(l, Idle)
  /\ UNCHANGED <<published, copy, delivered, failures, forks, silent>>

\* The connection ends, or the process dies.  The loop's exception is swallowed
\* by gather(return_exceptions=True), and nobody starts the loop again.
LoopBreaks(l) ==
  /\ loop[l] = Idle
  /\ Goto(l, Dead)
  /\ UNCHANGED <<published, copy, delivered, failures, forks, alerted, silent>>

LoopBreaksAt(l, k) ==
  /\ loop[l] = Working(k)
  /\ At(k, "retrying")
  /\ Put(k, Moved(k, "dlq"))
  /\ Goto(l, Dead)
  /\ UNCHANGED <<published, delivered, failures, forks, alerted, silent>>

\* Republished and not acknowledged: both copies stay.
LoopBreaksAfter(l, k) ==
  /\ loop[l] = Working(k)
  /\ At(k, "republished")
  /\ Fork(copy[k].msg)
  /\ Put(k, Moved(k, "dlq"))
  /\ Goto(l, Dead)
  /\ UNCHANGED <<published, delivered, failures, alerted, silent>>

LoopBreaksUnheard(l) ==
  /\ loop[l].pc = "alerting"
  /\ silent' = silent \cup {loop[l].msg}
  /\ Goto(l, Dead)
  /\ UNCHANGED <<published, copy, delivered, failures, forks, alerted>>

\* The process is started again, with a loop of its own.
Restart(l) ==
  /\ loop[l] = Dead
  /\ Goto(l, Idle)
  /\ UNCHANGED <<published, copy, delivered, failures, forks, alerted, silent>>

-----------------------------------------------------------------------------

HandlerStep(k) ==
  \/ Take(k) \/ Hang(k) \/ ServerSpeaks(k)
  \/ Send(k) \/ Reject(k) \/ RejectSent(k) \/ Ack(k)

LoopStep(l) ==
  \/ \E k \in Slots : Get(l, k) \/ AckRetried(l, k) \/ GiveUp(l, k)
  \/ \E k, new \in Slots : Republish(l, k, new)
  \/ Alert(l)

Breakdown ==
  \/ \E k \in Slots : LoseHandler(k) \/ LoseSending(k) \/ LoseSent(k)
  \/ \E l \in Loops :
       \/ LoopBreaks(l) \/ LoopBreaksUnheard(l) \/ Restart(l)
       \/ \E k \in Slots : LoopBreaksAt(l, k) \/ LoopBreaksAfter(l, k)

Next ==
  \/ \E m \in Messages : DropPublish(m) \/ \E k \in Slots : Publish(m, k)
  \/ \E k \in Slots : HandlerStep(k)
  \/ \E l \in Loops : LoopStep(l)
  \/ Breakdown

Spec == Init /\ [][Next]_vars

\* Connections end, and every now and then one holds long enough: for a handler
\* to be fed, for a send whose server speaks to end one way or the other, and for
\* a live loop to come round, which it does every 30 s.  Nothing makes a silent
\* SMTP server speak.
FairSpec ==
  /\ Spec
  /\ SF_vars(\E k \in Slots : Take(k))
  /\ SF_vars(\E k \in Slots : Send(k) \/ Reject(k) \/ RejectSent(k))
  /\ SF_vars(\E k \in Slots : Ack(k))
  /\ \A l \in Loops :
       /\ SF_vars(\E k \in Slots : Get(l, k))
       /\ SF_vars(\E k, new \in Slots : GiveUp(l, k) \/ Republish(l, k, new))
       /\ SF_vars(\E k \in Slots : AckRetried(l, k))
       /\ WF_vars(Alert(l))

-----------------------------------------------------------------------------
(* Safety *)

Alerting(m) == \E l \in Loops : loop[l] = [pc |-> "alerting", msg |-> m]

\* A notification the broker has accepted is sent, reported, or still there,
\* except in the gap between the acknowledgement of the last attempt and its
\* report.
NotLost ==
  \A m \in Messages : published[m] = "accepted" =>
    Settled(m) \/ Open(m) # {} \/ Alerting(m)

\* No message is given up before it has failed once and at MAX_RETRIES retries,
\* by whichever loops.
AlertMeansExhausted ==
  \A m \in alerted \cup silent : failures[m] > MaxRetries

\* Each of the 1 + MAX_RETRIES attempts notifies the recipient at most once, and
\* once more for each copy that went back after it had been dealt with: whatever
\* the handlers take for a failure, and however many loops retry it.
AttemptsOnce ==
  \A m \in Messages : \A n \in Attempts : delivered[m][n] <= 1 + forks[m]

\* The refinement: copies that may still be sent are chances.
Promise == INSTANCE DeliverOrReport WITH
  state    <- published,
  chances  <- [m \in Messages |-> Cardinality(Open(m))],
  notified <- delivered,
  doubled  <- forks,
  givenUp  <- alerted \cup silent \cup {m \in Messages : Alerting(m)}

\* Queues, copies and loops are invisible: through every loss of a connection, no
\* copy is lost, none is made that no such loss accounts for, and an attempt is
\* made again only for one.
KeepsPromise == Promise!Spec

-----------------------------------------------------------------------------
(* Liveness *)

\* As long as some retry loop is alive again and again, and no send hangs for
\* ever, every accepted notification goes out or is given up.
SettledWhileLooping ==
  /\ []<>(\E l \in Loops : loop[l] # Dead)
  /\ \A k \in Slots : []<>(~At(k, "hanging"))
  => \A m \in Messages : published[m] = "accepted" ~> Settled(m)
=============================================================================
