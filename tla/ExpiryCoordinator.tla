-------------------------- MODULE ExpiryCoordinator --------------------------
(***************************************************************************)
(* cleanup_service.py on several instances of the service: how an expired  *)
(* secret leaves PostgreSQL.                                               *)
(*                                                                         *)
(*   listener:  event of a sentinel -> Take -> DeleteRows -> Release       *)
(*   sweeper:   every 600 s          -> Take -> DeleteRows -> Release      *)
(*                                                                         *)
(* Both work under a lock in Redis, SET NX with a time to live: the        *)
(* listener under the lock of the secret, the sweeper under one lock for   *)
(* all.  Whoever does not get the lock skips the event or the cycle.       *)
(* Redis can fail and come back, with its keys or without; the listener's  *)
(* subscription ends with the connection and is not renewed.               *)
(***************************************************************************)
EXTENDS Naturals

CONSTANTS
  Secrets,
  Instances,
  Sweep,      \* phantom:lock:sweep, the key of the sweep lock
  Null        \* no such key, or no secret

ASSUME ExpiryConstants ==
  /\ Sweep \notin Secrets
  /\ Null \notin Instances \X {"listener", "sweeper"}

VARIABLES
  row,        \* secrets, by id
  sentinel,   \* phantom:expiry:{id}
  lock,       \* phantom:lock:{id} and phantom:lock:sweep: the token's owner
  inbox,      \* events delivered to the listener of each instance
  listening,  \* the instances whose listener is subscribed
  task,       \* what each worker is doing
  redisUp,
  lost        \* history: workers whose lock went while they were at work

vars == <<row, sentinel, lock, inbox, listening, task, redisUp, lost>>

-----------------------------------------------------------------------------
(* Types *)

Workers == Instances \X {"listener", "sweeper"}
Keys == Secrets \cup {Sweep}

Task == [pc : {"idle"}] \cup [pc : {"locked", "done"}, key : Keys]

TypeOK ==
  /\ row       \in [Secrets -> {"new", "live", "expired", "gone"}]
  /\ sentinel  \in [Secrets -> {"none", "due", "set"}]
  /\ lock      \in [Keys -> Workers \cup {Null}]
  /\ inbox     \in [Instances -> SUBSET Secrets]
  /\ listening \in SUBSET Instances
  /\ task      \in [Workers -> Task]
  /\ redisUp   \in BOOLEAN
  /\ lost      \in SUBSET Workers
  /\ \A key \in Keys : lock[key] # Null =>
       lock[key][2] = IF key = Sweep THEN "sweeper" ELSE "listener"

-----------------------------------------------------------------------------
(* Helpers *)

Idle == [pc |-> "idle"]

At(w, pc) == task[w].pc = pc
Goto(w, r) == task' = [task EXCEPT ![w] = r]

\* w is between acquire_lock and release_lock for key.
Works(w, key) == ~At(w, "idle") /\ task[w].key = key

\* The workers that lose their locks when the locks of keys go.
Losing(keys) == {w \in Workers : ~At(w, "idle") /\ task[w].key \in keys
                                /\ lock[task[w].key] = w}

Init ==
  /\ row = [s \in Secrets |-> "new"]
  /\ sentinel = [s \in Secrets |-> "none"]
  /\ lock = [k \in Keys |-> Null]
  /\ inbox = [n \in Instances |-> {}]
  /\ listening = Instances
  /\ task = [w \in Workers |-> Idle]
  /\ redisUp = TRUE
  /\ lost = {}

-----------------------------------------------------------------------------
(* The life of a secret *)

\* The row is committed; schedule_expiry comes after it.  (The quota was
\* reserved before, in Redis; it may have failed since.)
CreateSecret(s) ==
  /\ row[s] = "new"
  /\ row' = [row EXCEPT ![s] = "live"]
  /\ sentinel' = [sentinel EXCEPT ![s] = "due"]
  /\ UNCHANGED <<lock, inbox, listening, task, redisUp, lost>>

\* A failure of Redis, or of the process, loses the sentinel: the handlers
\* swallow it.
ScheduleExpiry(s, result) ==
  /\ sentinel[s] = "due"
  /\ result = "set" => redisUp
  /\ sentinel' = [sentinel EXCEPT ![s] = result]
  /\ UNCHANGED <<row, lock, inbox, listening, task, redisUp, lost>>

Expire(s) ==
  /\ row[s] = "live"
  /\ row' = [row EXCEPT ![s] = "expired"]
  /\ UNCHANGED <<sentinel, lock, inbox, listening, task, redisUp, lost>>

\* The last view is spent, or the owner deletes the secret.
Remove(s) ==
  /\ row[s] \in {"live", "expired"}
  /\ row' = [row EXCEPT ![s] = "gone"]
  /\ UNCHANGED <<sentinel, lock, inbox, listening, task, redisUp, lost>>

\* The sentinel was set after the row, with the same time to live, so it ends
\* after the row has expired (both clocks run alike).
AnyTime(s) == TRUE                                   \* fault: a shorter TTL
AfterTheRow(s) == row[s] # "live"

\* Only those subscribed at that moment hear of it.
SentinelExpires(s) ==
  /\ redisUp
  /\ sentinel[s] = "set"
  /\ AfterTheRow(s)
  /\ sentinel' = [sentinel EXCEPT ![s] = "none"]
  /\ inbox' = [n \in Instances |->
                 IF n \in listening THEN inbox[n] \cup {s} ELSE inbox[n]]
  /\ UNCHANGED <<row, lock, listening, task, redisUp, lost>>

-----------------------------------------------------------------------------
(* The workers *)

\* acquire_lock: SET NX EX.
Take(w, key) ==
  /\ redisUp
  /\ lock[key] = Null
  /\ lock' = [lock EXCEPT ![key] = w]
  /\ Goto(w, [pc |-> "locked", key |-> key])

SharedKey(s) == Sweep                                \* fault: one lock for all
LockKey(s) == s

HandleEvent(n, s) ==
  /\ At(<<n, "listener">>, "idle")
  /\ s \in inbox[n]
  /\ inbox' = [inbox EXCEPT ![n] = @ \ {s}]
  /\ Take(<<n, "listener">>, LockKey(s))
  /\ UNCHANGED <<row, sentinel, listening, redisUp, lost>>

\* Another instance has the lock, or Redis does not answer.
SkipEvent(n, s) ==
  /\ At(<<n, "listener">>, "idle")
  /\ s \in inbox[n]
  /\ lock[LockKey(s)] # Null \/ ~redisUp
  /\ inbox' = [inbox EXCEPT ![n] = @ \ {s}]
  /\ UNCHANGED <<row, sentinel, lock, listening, task, redisUp, lost>>

\* fallback_loop.  Without the lock, or without Redis, the cycle is skipped.
StartSweep(n) ==
  /\ At(<<n, "sweeper">>, "idle")
  /\ Take(<<n, "sweeper">>, Sweep)
  /\ UNCHANGED <<row, sentinel, inbox, listening, redisUp, lost>>

\* The rows that a worker with this lock deletes.
Doomed(key) == IF key = Sweep THEN {s \in Secrets : row[s] = "expired"} ELSE {key}

\* DELETE ... RETURNING.  What follows (audit, quotas, storage) may fail; the
\* finally clause is reached in any case.
DeleteRows(w) ==
  /\ At(w, "locked")
  /\ row' = [s \in Secrets |-> IF s \in Doomed(task[w].key) THEN "gone" ELSE row[s]]
  /\ Goto(w, [task[w] EXCEPT !.pc = "done"])
  /\ UNCHANGED <<sentinel, lock, inbox, listening, redisUp, lost>>

\* The statement fails.
DeleteFails(w) ==
  /\ At(w, "locked")
  /\ Goto(w, [task[w] EXCEPT !.pc = "done"])
  /\ UNCHANGED <<row, sentinel, lock, inbox, listening, redisUp, lost>>

\* release_lock: DEL if the token is still there.
ReleasesAny(w) == redisUp                            \* fault: token unchecked
Releases(w) == redisUp /\ lock[task[w].key] = w

Release(w) ==
  /\ At(w, "done")
  /\ lock' = IF Releases(w) THEN [lock EXCEPT ![task[w].key] = Null] ELSE lock
  /\ Goto(w, Idle)
  /\ lost' = lost \ {w}
  /\ UNCHANGED <<row, sentinel, inbox, listening, redisUp>>

-----------------------------------------------------------------------------
(* Time and failures *)

NoTtl(key) == FALSE                                  \* fault: SET without EX
HasTtl(key) == lock[key] # Null

\* The 30 or 120 seconds of a lock are over, whether its owner lives or not.
LockExpires(key) ==
  /\ HasTtl(key)
  /\ lock' = [lock EXCEPT ![key] = Null]
  /\ lost' = lost \cup Losing({key})
  /\ UNCHANGED <<row, sentinel, inbox, listening, task, redisUp>>

\* An instance dies and is started again.  init_redis succeeds without Redis,
\* but the subscription does not.
Restart(n) ==
  /\ task' = [w \in Workers |-> IF w[1] = n THEN Idle ELSE task[w]]
  /\ inbox' = [inbox EXCEPT ![n] = {}]
  /\ listening' = IF redisUp THEN listening \cup {n} ELSE listening \ {n}
  /\ lost' = {w \in lost : w[1] # n}
  /\ UNCHANGED <<row, sentinel, lock, redisUp>>

\* Every subscription breaks; pubsub.listen() raises and the listener ends.
RedisFails ==
  /\ redisUp
  /\ redisUp' = FALSE
  /\ listening' = {}
  /\ UNCHANGED <<row, sentinel, lock, inbox, task, lost>>

RedisReturns(keepsKeys) ==
  /\ ~redisUp
  /\ redisUp' = TRUE
  /\ IF keepsKeys
     THEN UNCHANGED <<sentinel, lock, lost>>
     ELSE /\ sentinel' = [s \in Secrets |->
                            IF sentinel[s] = "set" THEN "none" ELSE sentinel[s]]
          /\ lock' = [k \in Keys |-> Null]
          /\ lost' = lost \cup Losing(Keys)
  /\ UNCHANGED <<row, inbox, listening, task>>

-----------------------------------------------------------------------------

Next ==
  \/ \E s \in Secrets :
       \/ CreateSecret(s) \/ Expire(s) \/ Remove(s) \/ SentinelExpires(s)
       \/ \E result \in {"set", "none"} : ScheduleExpiry(s, result)
       \/ \E n \in Instances : HandleEvent(n, s) \/ SkipEvent(n, s)
  \/ \E n \in Instances : StartSweep(n) \/ Restart(n)
  \/ \E w \in Workers : DeleteRows(w) \/ DeleteFails(w) \/ Release(w)
  \/ \E key \in Keys : LockExpires(key)
  \/ RedisFails
  \/ \E keepsKeys \in BOOLEAN : RedisReturns(keepsKeys)

Spec == Init /\ [][Next]_vars

\* The loop comes round, locks run out, and the database does not fail a
\* worker for ever.
WorkersFair ==
  /\ \A n \in Instances : SF_vars(StartSweep(n))
  /\ \A w \in Workers : SF_vars(DeleteRows(w)) /\ WF_vars(Release(w))
  /\ \A key \in Keys : WF_vars(LockExpires(key))

\* Redis is brought back.
FairSpec == Spec /\ WorkersFair /\ WF_vars(\E keepsKeys \in BOOLEAN : RedisReturns(keepsKeys))

-----------------------------------------------------------------------------
(* Safety *)

\* Two workers are at one key only when one of them has lost its lock: to the
\* time to live or to a Redis that forgot it, never to the release of another.
LocksExclusive ==
  \A key \in Keys : \A v, w \in Workers :
    (Works(v, key) /\ Works(w, key) /\ v # w) => (v \in lost \/ w \in lost)

\* No worker deletes a secret before its time, however late it works: the row
\* a listener deletes by its id alone is one that has expired.
NeverEarly ==
  [][\A s \in Secrets : (row[s] = "live" /\ row'[s] = "gone") => UNCHANGED task]_vars

-----------------------------------------------------------------------------
(* Liveness *)

\* Whatever becomes of its sentinel, of the event, of the locks and of the
\* workers: an expired secret leaves the database.
ExpiredGoes == \A s \in Secrets : row[s] = "expired" ~> row[s] = "gone"
=============================================================================
