----------------------------- MODULE ExpiryProofs -----------------------------
(***************************************************************************)
(* Theorems about ExpiryCoordinator for every value of its constants.      *)
(***************************************************************************)
EXTENDS ExpiryCoordinator, TLAPS

-----------------------------------------------------------------------------
(* The inductive invariant *)

\* A worker that has not lost its lock has it.
Holds ==
  \A w \in Workers :
    (~At(w, "idle") /\ w \notin lost) => lock[task[w].key] = w

\* Listeners work on secrets, sweepers on the sweep lock.
Roles ==
  \A w \in Workers : ~At(w, "idle") =>
    (task[w].key = Sweep <=> w[2] = "sweeper")

\* A secret with a sentinel has been stored, and one whose sentinel has fired
\* is past its time wherever the news of it is.
NewsIsLate ==
  /\ \A s \in Secrets : sentinel[s] # "none" => row[s] # "new"
  /\ \A n \in Instances : \A s \in inbox[n] : row[s] \in {"expired", "gone"}
  /\ \A w \in Workers : \A s \in Secrets :
       Works(w, s) => row[s] \in {"expired", "gone"}

ExpiryInv == TypeOK /\ Holds /\ Roles /\ NewsIsLate

-----------------------------------------------------------------------------

LEMMA TaskFields ==
  ASSUME TypeOK, NEW w \in Workers
  PROVE  /\ task[w].pc \in {"idle", "locked", "done"}
         /\ ~At(w, "idle") => task[w].key \in Keys
  BY DEF TypeOK, Task, At

LEMMA Places ==
  /\ Idle \in Task
  /\ \A p \in {"locked", "done"}, k \in Keys : [pc |-> p, key |-> k] \in Task
  BY DEF Task, Idle

LEMMA IdleName == Idle.pc = "idle"
  BY DEF Idle

LEMMA Moved ==
  ASSUME TypeOK, NEW w \in Workers, NEW r \in Task, Goto(w, r)
  PROVE  /\ task' \in [Workers -> Task]
         /\ task'[w] = r
         /\ \A v \in Workers : v # w => task'[v] = task[v]
  BY DEF TypeOK, Goto

\* Tasks, locks and what was lost: enough for Holds to survive a step in which
\* one worker moves and keys that others hold are left alone.
LEMMA NothingMoved ==
  ASSUME ExpiryInv, UNCHANGED <<task, lock, lost>>
  PROVE  Holds' /\ Roles'
  BY DEF ExpiryInv, Holds, Roles, At

\* Rows only grow older.
Older ==
  \A s \in Secrets : /\ row[s] # "new" => row'[s] # "new"
                     /\ row[s] \in {"expired", "gone"} => row'[s] \in {"expired", "gone"}

LEMMA StillLate ==
  ASSUME ExpiryInv, Older,
         \A s \in Secrets : sentinel'[s] # "none" => sentinel[s] # "none",
         \A n \in Instances : inbox'[n] \subseteq inbox[n],
         \A w \in Workers : \A s \in Secrets : Works(w, s)' => Works(w, s),
         TypeOK'
  PROVE  NewsIsLate'
<1>1. \A s \in Secrets : sentinel'[s] # "none" => row'[s] # "new"
  BY DEF ExpiryInv, NewsIsLate, Older
<1>2. \A n \in Instances : \A s \in inbox'[n] : row'[s] \in {"expired", "gone"}
  BY DEF ExpiryInv, NewsIsLate, Older, TypeOK
<1>3. \A w \in Workers : \A s \in Secrets :
        Works(w, s)' => row'[s] \in {"expired", "gone"}
  BY DEF ExpiryInv, NewsIsLate, Older
<1> QED BY <1>1, <1>2, <1>3 DEF NewsIsLate

-----------------------------------------------------------------------------
(* The life of a secret *)

LEMMA CreateSecretKeeps ==
  ASSUME ExpiryInv, NEW s \in Secrets, CreateSecret(s)
  PROVE  ExpiryInv'
<1>1. /\ row[s] = "new"
      /\ row' = [row EXCEPT ![s] = "live"]
      /\ sentinel' = [sentinel EXCEPT ![s] = "due"]
      /\ UNCHANGED <<lock, inbox, listening, task, redisUp, lost>>
  BY DEF CreateSecret
<1>2. TypeOK'
  BY <1>1 DEF ExpiryInv, TypeOK
<1>3. Holds' /\ Roles'
  BY <1>1, NothingMoved
<1>4. \A t \in Secrets :
        /\ t # s => row'[t] = row[t] /\ sentinel'[t] = sentinel[t]
        /\ t = s => row'[t] = "live"
  BY <1>1 DEF ExpiryInv, TypeOK
<1>5. \A t \in Secrets : sentinel'[t] # "none" => row'[t] # "new"
  BY <1>4 DEF ExpiryInv, NewsIsLate
<1>6. \A n \in Instances : \A t \in inbox'[n] : row'[t] \in {"expired", "gone"}
  BY <1>1, <1>4 DEF ExpiryInv, NewsIsLate, TypeOK
<1>7. \A w \in Workers : \A t \in Secrets :
        Works(w, t)' => row'[t] \in {"expired", "gone"}
  BY <1>1, <1>4 DEF ExpiryInv, NewsIsLate, Works, At
<1>8. NewsIsLate'
  BY <1>5, <1>6, <1>7 DEF NewsIsLate
<1> QED BY <1>2, <1>3, <1>8 DEF ExpiryInv

LEMMA ScheduleExpiryKeeps ==
  ASSUME ExpiryInv, NEW s \in Secrets, NEW result \in {"set", "none"},
         ScheduleExpiry(s, result)
  PROVE  ExpiryInv'
<1>1. /\ sentinel[s] = "due"
      /\ sentinel' = [sentinel EXCEPT ![s] = result]
      /\ UNCHANGED <<row, lock, inbox, listening, task, redisUp, lost>>
  BY DEF ScheduleExpiry
<1>2. TypeOK'
  BY <1>1 DEF ExpiryInv, TypeOK
<1>3. Holds' /\ Roles'
  BY <1>1, NothingMoved
<1>4. \A t \in Secrets : sentinel'[t] # "none" => sentinel[t] # "none"
  BY <1>1 DEF ExpiryInv, TypeOK
<1>5. NewsIsLate'
  BY <1>1, <1>2, <1>4, StillLate DEF Older, Works, At
<1> QED BY <1>2, <1>3, <1>5 DEF ExpiryInv

LEMMA RowKeeps ==
  ASSUME ExpiryInv, NEW s \in Secrets, Expire(s) \/ Remove(s)
  PROVE  ExpiryInv'
<1>1. PICK r \in {"expired", "gone"} : row' = [row EXCEPT ![s] = r]
  BY DEF Expire, Remove
<1>2. UNCHANGED <<sentinel, lock, inbox, listening, task, redisUp, lost>>
  BY DEF Expire, Remove
<1>3. TypeOK'
  BY <1>1, <1>2 DEF ExpiryInv, TypeOK
<1>4. Holds' /\ Roles'
  BY <1>2, NothingMoved
<1>5. Older
  BY <1>1 DEF Older, ExpiryInv, TypeOK
<1>6. NewsIsLate'
  BY <1>2, <1>3, <1>5, StillLate DEF Works, At
<1> QED BY <1>3, <1>4, <1>6 DEF ExpiryInv

LEMMA SentinelExpiresKeeps ==
  ASSUME ExpiryInv, NEW s \in Secrets, SentinelExpires(s)
  PROVE  ExpiryInv'
<1>1. /\ sentinel[s] = "set"
      /\ row[s] # "live"
      /\ sentinel' = [sentinel EXCEPT ![s] = "none"]
      /\ inbox' = [n \in Instances |->
                     IF n \in listening THEN inbox[n] \cup {s} ELSE inbox[n]]
      /\ UNCHANGED <<row, lock, listening, task, redisUp, lost>>
  BY DEF SentinelExpires, AfterTheRow
<1>2. TypeOK'
  BY <1>1 DEF ExpiryInv, TypeOK
<1>3. Holds' /\ Roles'
  BY <1>1, NothingMoved
<1>4. row[s] \in {"expired", "gone"}
  BY <1>1 DEF ExpiryInv, NewsIsLate, TypeOK
<1>5. \A t \in Secrets : sentinel'[t] # "none" => row'[t] # "new"
  BY <1>1 DEF ExpiryInv, NewsIsLate, TypeOK
<1>6. \A n \in Instances : \A t \in inbox'[n] : row'[t] \in {"expired", "gone"}
  BY <1>1, <1>4 DEF ExpiryInv, NewsIsLate
<1>7. \A w \in Workers : \A t \in Secrets :
        Works(w, t)' => row'[t] \in {"expired", "gone"}
  BY <1>1 DEF ExpiryInv, NewsIsLate, Works, At
<1>8. NewsIsLate'
  BY <1>5, <1>6, <1>7 DEF NewsIsLate
<1> QED BY <1>2, <1>3, <1>8 DEF ExpiryInv

-----------------------------------------------------------------------------
(* The workers *)

\* A worker of the right kind takes a free lock.
LEMMA TakeKeeps ==
  ASSUME ExpiryInv, NEW w \in Workers, NEW key \in Keys, At(w, "idle"),
         Take(w, key), UNCHANGED lost,
         w[2] = IF key = Sweep THEN "sweeper" ELSE "listener"
  PROVE  /\ task' \in [Workers -> Task]
         /\ lock' \in [Keys -> Workers \cup {Null}]
         /\ \A k \in Keys : lock'[k] # Null =>
              lock'[k][2] = IF k = Sweep THEN "sweeper" ELSE "listener"
         /\ Holds' /\ Roles'
<1> DEFINE r == [pc |-> "locked", key |-> key]
<1>0. TypeOK
  BY DEF ExpiryInv
<1>1. /\ lock[key] = Null
      /\ lock' = [lock EXCEPT ![key] = w]
      /\ Goto(w, r)
  BY DEF Take
<1>2. r \in Task /\ r.pc = "locked" /\ r.key = key
  BY Places
<1>3. /\ task' \in [Workers -> Task]
      /\ task'[w] = r
      /\ \A v \in Workers : v # w => task'[v] = task[v]
  BY <1>0, <1>1, <1>2, Moved
<1> HIDE DEF r
<1>4. /\ lock' \in [Keys -> Workers \cup {Null}]
      /\ lock'[key] = w
      /\ \A k \in Keys : k # key => lock'[k] = lock[k]
  BY <1>0, <1>1 DEF TypeOK
<1>5. \A k \in Keys : lock'[k] # Null =>
        lock'[k][2] = IF k = Sweep THEN "sweeper" ELSE "listener"
  BY <1>0, <1>4 DEF TypeOK
<1>6. ASSUME NEW v \in Workers, ~(task'[v].pc = "idle"), v \notin lost
      PROVE  lock'[task'[v].key] = v
  <2>1. CASE v = w
    BY <1>2, <1>3, <1>4, <2>1
  <2>2. CASE v # w
    <3>1. task'[v] = task[v] /\ task[v].key \in Keys /\ ~At(v, "idle")
      BY <1>0, <1>3, <1>6, <2>2, TaskFields DEF At
    <3>2. lock[task[v].key] = v
      BY <1>6, <3>1 DEF ExpiryInv, Holds
    <3>3. v # Null
      BY ExpiryConstants DEF Workers
    <3> QED BY <1>1, <1>4, <3>1, <3>2, <3>3
  <2> QED BY <2>1, <2>2
<1>7. Holds'
  BY <1>6 DEF Holds, At
<1>8. Roles'
  BY <1>2, <1>3 DEF ExpiryInv, Roles, At
<1> QED BY <1>3, <1>4, <1>5, <1>7, <1>8

LEMMA HandleEventKeeps ==
  ASSUME ExpiryInv, NEW n \in Instances, NEW s \in Secrets, HandleEvent(n, s)
  PROVE  ExpiryInv'
<1> DEFINE w == <<n, "listener">>
<1>0. TypeOK
  BY DEF ExpiryInv
<1>1. /\ At(w, "idle")
      /\ s \in inbox[n]
      /\ inbox' = [inbox EXCEPT ![n] = @ \ {s}]
      /\ Take(w, s)
      /\ UNCHANGED <<row, sentinel, listening, redisUp, lost>>
  BY DEF HandleEvent, LockKey
<1>2. w \in Workers /\ w[2] = "listener" /\ s \in Keys /\ s # Sweep
  BY ExpiryConstants DEF Workers, Keys
<1> HIDE DEF w
<1>3. /\ task' \in [Workers -> Task]
      /\ lock' \in [Keys -> Workers \cup {Null}]
      /\ \A k \in Keys : lock'[k] # Null =>
           lock'[k][2] = IF k = Sweep THEN "sweeper" ELSE "listener"
      /\ Holds' /\ Roles'
  BY <1>1, <1>2, TakeKeeps
<1>4. /\ inbox' \in [Instances -> SUBSET Secrets]
      /\ \A m \in Instances : inbox'[m] \subseteq inbox[m]
  BY <1>0, <1>1 DEF TypeOK
<1>5. TypeOK'
  BY <1>0, <1>1, <1>3, <1>4 DEF TypeOK
<1>6. /\ task'[w] = [pc |-> "locked", key |-> s]
      /\ \A v \in Workers : v # w => task'[v] = task[v]
  BY <1>0, <1>1, <1>2 DEF Take, Goto, TypeOK
<1>7. row[s] \in {"expired", "gone"}
  BY <1>1 DEF ExpiryInv, NewsIsLate
<1>8. \A v \in Workers : \A t \in Secrets :
        Works(v, t)' => row'[t] \in {"expired", "gone"}
  <2> SUFFICES ASSUME NEW v \in Workers, NEW t \in Secrets, Works(v, t)'
               PROVE  row'[t] \in {"expired", "gone"}
    OBVIOUS
  <2>1. CASE v = w
    <3>1. t = s
      BY <1>6, <2>1 DEF Works
    <3> QED BY <1>1, <1>7, <3>1
  <2>2. CASE v # w
    BY <1>1, <1>6, <2>2 DEF ExpiryInv, NewsIsLate, Works, At
  <2> QED BY <2>1, <2>2
<1>9. /\ \A t \in Secrets : sentinel'[t] # "none" => row'[t] # "new"
      /\ \A m \in Instances : \A t \in inbox'[m] : row'[t] \in {"expired", "gone"}
  BY <1>1, <1>4 DEF ExpiryInv, NewsIsLate
<1>10. NewsIsLate'
  BY <1>8, <1>9 DEF NewsIsLate
<1> QED BY <1>3, <1>5, <1>10 DEF ExpiryInv

LEMMA SkipEventKeeps ==
  ASSUME ExpiryInv, NEW n \in Instances, NEW s \in Secrets, SkipEvent(n, s)
  PROVE  ExpiryInv'
<1>1. /\ inbox' = [inbox EXCEPT ![n] = @ \ {s}]
      /\ UNCHANGED <<row, sentinel, lock, listening, task, redisUp, lost>>
  BY DEF SkipEvent
<1>2. /\ inbox' \in [Instances -> SUBSET Secrets]
      /\ \A m \in Instances : inbox'[m] \subseteq inbox[m]
  BY <1>1 DEF ExpiryInv, TypeOK
<1>3. TypeOK'
  BY <1>1, <1>2 DEF ExpiryInv, TypeOK
<1>4. Holds' /\ Roles'
  BY <1>1, NothingMoved
<1>5. NewsIsLate'
  BY <1>1, <1>2, <1>3, StillLate DEF Older, Works, At
<1> QED BY <1>3, <1>4, <1>5 DEF ExpiryInv

LEMMA StartSweepKeeps ==
  ASSUME ExpiryInv, NEW n \in Instances, StartSweep(n)
  PROVE  ExpiryInv'
<1> DEFINE w == <<n, "sweeper">>
<1>0. TypeOK
  BY DEF ExpiryInv
<1>1. /\ At(w, "idle")
      /\ Take(w, Sweep)
      /\ UNCHANGED <<row, sentinel, inbox, listening, redisUp, lost>>
  BY DEF StartSweep
<1>2. w \in Workers /\ w[2] = "sweeper" /\ Sweep \in Keys
  BY DEF Workers, Keys
<1> HIDE DEF w
<1>3. /\ task' \in [Workers -> Task]
      /\ lock' \in [Keys -> Workers \cup {Null}]
      /\ \A k \in Keys : lock'[k] # Null =>
           lock'[k][2] = IF k = Sweep THEN "sweeper" ELSE "listener"
      /\ Holds' /\ Roles'
  BY <1>1, <1>2, TakeKeeps
<1>4. TypeOK'
  BY <1>0, <1>1, <1>3 DEF TypeOK
<1>5. /\ task'[w] = [pc |-> "locked", key |-> Sweep]
      /\ \A v \in Workers : v # w => task'[v] = task[v]
  BY <1>0, <1>1, <1>2 DEF Take, Goto, TypeOK
<1>6. ASSUME NEW v \in Workers, NEW t \in Secrets, Works(v, t)'
      PROVE  Works(v, t)
  <2>1. v # w
    BY <1>5, <1>6, ExpiryConstants DEF Works
  <2> QED BY <1>5, <1>6, <2>1 DEF Works, At
<1>7. NewsIsLate'
  BY <1>1, <1>4, <1>6, StillLate DEF Older
<1> QED BY <1>3, <1>4, <1>7 DEF ExpiryInv

\* A worker that moves to its finally clause keeps its key and its lock.
LEMMA ToDone ==
  ASSUME ExpiryInv, NEW w \in Workers, At(w, "locked"),
         Goto(w, [task[w] EXCEPT !.pc = "done"]), UNCHANGED <<lock, lost>>
  PROVE  /\ task' \in [Workers -> Task]
         /\ Holds' /\ Roles'
         /\ \A v \in Workers, s \in Secrets : Works(v, s)' => Works(v, s)
<1>0. TypeOK
  BY DEF ExpiryInv
<1>1. PICK k \in Keys : task[w] = [pc |-> "locked", key |-> k]
  BY <1>0 DEF TypeOK, Task, At
<1> DEFINE r == [pc |-> "done", key |-> k]
<1>2. Goto(w, r)
  <2>1. [[pc |-> "locked", key |-> k] EXCEPT !.pc = "done"] = r
    OBVIOUS
  <2>2. [task[w] EXCEPT !.pc = "done"] = r
    BY <1>1, <2>1
  <2> HIDE DEF r
  <2> QED BY <2>2 DEF Goto
<1>3. r \in Task /\ r.pc = "done" /\ r.key = task[w].key
  BY <1>1, Places
<1>4. /\ task' \in [Workers -> Task]
      /\ task'[w] = r
      /\ \A v \in Workers : v # w => task'[v] = task[v]
  BY <1>0, <1>2, <1>3, Moved
<1> HIDE DEF r
<1>5. \A v \in Workers : /\ task'[v].pc = "idle" <=> task[v].pc = "idle"
                         /\ ~At(v, "idle") => task'[v].key = task[v].key
  BY <1>3, <1>4 DEF At
<1>6. Holds' /\ Roles'
  BY <1>5 DEF ExpiryInv, Holds, Roles, At
<1>7. \A v \in Workers, s \in Secrets : Works(v, s)' => Works(v, s)
  BY <1>5 DEF Works, At
<1> QED BY <1>4, <1>6, <1>7

LEMMA DeleteFailsKeeps ==
  ASSUME ExpiryInv, NEW w \in Workers, DeleteFails(w)
  PROVE  ExpiryInv'
<1>1. /\ At(w, "locked")
      /\ Goto(w, [task[w] EXCEPT !.pc = "done"])
      /\ UNCHANGED <<row, sentinel, lock, inbox, listening, redisUp, lost>>
  BY DEF DeleteFails
<1>2. /\ task' \in [Workers -> Task]
      /\ Holds' /\ Roles'
      /\ \A v \in Workers, s \in Secrets : Works(v, s)' => Works(v, s)
  BY <1>1, ToDone
<1>3. TypeOK'
  BY <1>1, <1>2 DEF ExpiryInv, TypeOK
<1>4. NewsIsLate'
  BY <1>1, <1>2, <1>3, StillLate DEF Older
<1> QED BY <1>2, <1>3, <1>4 DEF ExpiryInv

\* What a worker deletes has expired, or is gone already.
LEMMA DoomedAreLate ==
  ASSUME ExpiryInv, NEW w \in Workers, At(w, "locked"), NEW s \in Secrets,
         s \in Doomed(task[w].key)
  PROVE  row[s] \in {"expired", "gone"}
<1>1. CASE task[w].key = Sweep
  BY <1>1 DEF Doomed
<1>2. CASE task[w].key # Sweep
  <2>1. task[w].key = s
    BY <1>2 DEF Doomed
  <2> QED BY <2>1 DEF ExpiryInv, NewsIsLate, Works, At
<1> QED BY <1>1, <1>2

LEMMA DeleteRowsKeeps ==
  ASSUME ExpiryInv, NEW w \in Workers, DeleteRows(w)
  PROVE  ExpiryInv'
<1>1. /\ At(w, "locked")
      /\ row' = [s \in Secrets |->
                   IF s \in Doomed(task[w].key) THEN "gone" ELSE row[s]]
      /\ Goto(w, [task[w] EXCEPT !.pc = "done"])
      /\ UNCHANGED <<sentinel, lock, inbox, listening, redisUp, lost>>
  BY DEF DeleteRows
<1>2. /\ task' \in [Workers -> Task]
      /\ Holds' /\ Roles'
      /\ \A v \in Workers, s \in Secrets : Works(v, s)' => Works(v, s)
  BY <1>1, ToDone
<1>3. row' \in [Secrets -> {"new", "live", "expired", "gone"}] /\ Older
  BY <1>1 DEF ExpiryInv, TypeOK, Older
<1>4. TypeOK'
  BY <1>1, <1>2, <1>3 DEF ExpiryInv, TypeOK
<1>5. NewsIsLate'
  BY <1>1, <1>2, <1>3, <1>4, StillLate
<1> QED BY <1>2, <1>4, <1>5 DEF ExpiryInv

LEMMA ReleaseKeeps ==
  ASSUME ExpiryInv, NEW w \in Workers, Release(w)
  PROVE  ExpiryInv'
<1>0. TypeOK
  BY DEF ExpiryInv
<1>1. /\ At(w, "done")
      /\ lock' = IF Releases(w) THEN [lock EXCEPT ![task[w].key] = Null] ELSE lock
      /\ Goto(w, Idle)
      /\ lost' = lost \ {w}
      /\ UNCHANGED <<row, sentinel, inbox, listening, redisUp>>
  BY DEF Release
<1>2. /\ task' \in [Workers -> Task]
      /\ task'[w] = Idle
      /\ \A v \in Workers : v # w => task'[v] = task[v]
  BY <1>0, <1>1, Places, Moved
<1>3. task[w].key \in Keys
  BY <1>0, <1>1, TaskFields DEF At
<1>4. /\ lock' \in [Keys -> Workers \cup {Null}]
      /\ \A k \in Keys : lock'[k] = lock[k] \/ (lock'[k] = Null /\ lock[k] = w)
  BY <1>0, <1>1, <1>3 DEF TypeOK, Releases
<1>5. TypeOK'
  BY <1>0, <1>1, <1>2, <1>4 DEF TypeOK
<1>6. ASSUME NEW v \in Workers, ~(task'[v].pc = "idle")
      PROVE  v # w /\ task'[v] = task[v] /\ ~At(v, "idle") /\ task[v].key \in Keys
  BY <1>0, <1>2, <1>6, IdleName, TaskFields DEF At
<1>7. Holds'
  BY <1>1, <1>4, <1>6 DEF ExpiryInv, Holds, At
<1>8. Roles'
  BY <1>6 DEF ExpiryInv, Roles, At
<1>9. \A v \in Workers, s \in Secrets : Works(v, s)' => Works(v, s)
  BY <1>6 DEF Works, At
<1>10. NewsIsLate'
  BY <1>1, <1>5, <1>9, StillLate DEF Older
<1> QED BY <1>5, <1>7, <1>8, <1>10 DEF ExpiryInv

-----------------------------------------------------------------------------
(* Time and failures *)

\* Locks go, and whoever had one is recorded.
LEMMA LocksGo ==
  ASSUME ExpiryInv, NEW keys \in SUBSET Keys,
         lock' = [k \in Keys |-> IF k \in keys THEN Null ELSE lock[k]],
         lost' = lost \cup Losing(keys), UNCHANGED task
  PROVE  /\ lock' \in [Keys -> Workers \cup {Null}]
         /\ \A k \in Keys : lock'[k] # Null =>
              lock'[k][2] = IF k = Sweep THEN "sweeper" ELSE "listener"
         /\ lost' \in SUBSET Workers
         /\ Holds' /\ Roles'
<1>0. TypeOK
  BY DEF ExpiryInv
<1>1. /\ lock' \in [Keys -> Workers \cup {Null}]
      /\ \A k \in Keys : lock'[k] # Null =>
           lock'[k][2] = IF k = Sweep THEN "sweeper" ELSE "listener"
      /\ lost' \in SUBSET Workers
  BY <1>0 DEF TypeOK, Losing
<1>2. ASSUME NEW w \in Workers, ~At(w, "idle"), w \notin lost'
      PROVE  lock'[task[w].key] = w
  <2>1. lock[task[w].key] = w /\ task[w].key \in Keys
    BY <1>0, <1>2, TaskFields DEF ExpiryInv, Holds
  <2>2. task[w].key \notin keys
    BY <1>2, <2>1 DEF Losing
  <2> QED BY <2>1, <2>2
<1>3. Holds'
  BY <1>2 DEF Holds, At
<1>4. Roles'
  BY DEF ExpiryInv, Roles, At
<1> QED BY <1>1, <1>3, <1>4

LEMMA LockExpiresKeeps ==
  ASSUME ExpiryInv, NEW key \in Keys, LockExpires(key)
  PROVE  ExpiryInv'
<1>1. /\ lock' = [lock EXCEPT ![key] = Null]
      /\ lost' = lost \cup Losing({key})
      /\ UNCHANGED <<row, sentinel, inbox, listening, task, redisUp>>
  BY DEF LockExpires
<1>2. lock' = [k \in Keys |-> IF k \in {key} THEN Null ELSE lock[k]]
  BY <1>1 DEF ExpiryInv, TypeOK
<1>3. /\ lock' \in [Keys -> Workers \cup {Null}]
      /\ \A k \in Keys : lock'[k] # Null =>
           lock'[k][2] = IF k = Sweep THEN "sweeper" ELSE "listener"
      /\ lost' \in SUBSET Workers
      /\ Holds' /\ Roles'
  BY <1>1, <1>2, LocksGo
<1>4. TypeOK'
  BY <1>1, <1>3 DEF ExpiryInv, TypeOK
<1>5. NewsIsLate'
  BY <1>1, <1>4, StillLate DEF Older, Works, At
<1> QED BY <1>3, <1>4, <1>5 DEF ExpiryInv

LEMMA RestartKeeps ==
  ASSUME ExpiryInv, NEW n \in Instances, Restart(n)
  PROVE  ExpiryInv'
<1>0. TypeOK
  BY DEF ExpiryInv
<1>1. /\ task' = [w \in Workers |-> IF w[1] = n THEN Idle ELSE task[w]]
      /\ inbox' = [inbox EXCEPT ![n] = {}]
      /\ listening' = IF redisUp THEN listening \cup {n} ELSE listening \ {n}
      /\ lost' = {w \in lost : w[1] # n}
      /\ UNCHANGED <<row, sentinel, lock, redisUp>>
  BY DEF Restart
<1>2. task' \in [Workers -> Task]
  BY <1>0, <1>1, Places DEF TypeOK
<1>3. /\ inbox' \in [Instances -> SUBSET Secrets]
      /\ \A m \in Instances : inbox'[m] \subseteq inbox[m]
  BY <1>0, <1>1 DEF TypeOK
<1>4. listening' \in SUBSET Instances /\ lost' \in SUBSET Workers
  BY <1>0, <1>1 DEF TypeOK
<1>5. TypeOK'
  BY <1>0, <1>1, <1>2, <1>3, <1>4 DEF TypeOK
<1>6. \A w \in Workers : ~(task'[w].pc = "idle") =>
        task'[w] = task[w] /\ (w \in lost => w \in lost')
  BY <1>1, IdleName
<1>7. Holds' /\ Roles'
  BY <1>1, <1>6 DEF ExpiryInv, Holds, Roles, At
<1>8. \A v \in Workers, s \in Secrets : Works(v, s)' => Works(v, s)
  BY <1>6 DEF Works, At
<1>9. NewsIsLate'
  BY <1>1, <1>3, <1>5, <1>8, StillLate DEF Older
<1> QED BY <1>5, <1>7, <1>9 DEF ExpiryInv

LEMMA RedisFailsKeeps ==
  ASSUME ExpiryInv, RedisFails
  PROVE  ExpiryInv'
<1>1. /\ redisUp' = FALSE
      /\ listening' = {}
      /\ UNCHANGED <<row, sentinel, lock, inbox, task, lost>>
  BY DEF RedisFails
<1>2. TypeOK'
  BY <1>1 DEF ExpiryInv, TypeOK
<1>3. Holds' /\ Roles'
  BY <1>1, NothingMoved
<1>4. NewsIsLate'
  BY <1>1, <1>2, StillLate DEF Older, Works, At
<1> QED BY <1>2, <1>3, <1>4 DEF ExpiryInv

LEMMA RedisReturnsKeeps ==
  ASSUME ExpiryInv, NEW keepsKeys \in BOOLEAN, RedisReturns(keepsKeys)
  PROVE  ExpiryInv'
<1>0. TypeOK
  BY DEF ExpiryInv
<1>1. redisUp' = TRUE /\ UNCHANGED <<row, inbox, listening, task>>
  BY DEF RedisReturns
<1>2. CASE keepsKeys
  <2>1. UNCHANGED <<sentinel, lock, lost>>
    BY <1>2 DEF RedisReturns
  <2>2. TypeOK'
    BY <1>0, <1>1, <2>1 DEF TypeOK
  <2>3. Holds' /\ Roles'
    BY <1>1, <2>1, NothingMoved
  <2>4. NewsIsLate'
    BY <1>1, <2>1, <2>2, StillLate DEF Older, Works, At
  <2> QED BY <2>2, <2>3, <2>4 DEF ExpiryInv
<1>3. CASE ~keepsKeys
  <2>1. /\ sentinel' = [s \in Secrets |->
                          IF sentinel[s] = "set" THEN "none" ELSE sentinel[s]]
        /\ lock' = [k \in Keys |-> Null]
        /\ lost' = lost \cup Losing(Keys)
    BY <1>3 DEF RedisReturns
  <2>2. lock' = [k \in Keys |-> IF k \in Keys THEN Null ELSE lock[k]]
    BY <2>1
  <2>3. /\ lock' \in [Keys -> Workers \cup {Null}]
        /\ \A k \in Keys : lock'[k] # Null =>
             lock'[k][2] = IF k = Sweep THEN "sweeper" ELSE "listener"
        /\ lost' \in SUBSET Workers
        /\ Holds' /\ Roles'
    BY <1>1, <2>1, <2>2, LocksGo
  <2>4. /\ sentinel' \in [Secrets -> {"none", "due", "set"}]
        /\ \A s \in Secrets : sentinel'[s] # "none" => sentinel[s] # "none"
    BY <1>0, <2>1 DEF TypeOK
  <2>5. TypeOK'
    BY <1>0, <1>1, <2>3, <2>4 DEF TypeOK
  <2>6. NewsIsLate'
    BY <1>1, <2>4, <2>5, StillLate DEF Older, Works, At
  <2> QED BY <2>3, <2>5, <2>6 DEF ExpiryInv
<1> QED BY <1>2, <1>3

-----------------------------------------------------------------------------

LEMMA InitExpiry ==
  ASSUME Init
  PROVE  ExpiryInv
<1>1. TypeOK
  BY Places DEF Init, TypeOK
<1>2. Holds /\ Roles /\ NewsIsLate
  BY IdleName DEF Init, Holds, Roles, NewsIsLate, Works, At
<1> QED BY <1>1, <1>2 DEF ExpiryInv

LEMMA NextExpiry ==
  ASSUME ExpiryInv, [Next]_vars
  PROVE  ExpiryInv'
<1>1. CASE UNCHANGED vars
  <2>1. UNCHANGED <<row, sentinel, lock, inbox, listening, task, redisUp, lost>>
    BY <1>1 DEF vars
  <2>2. TypeOK'
    BY <2>1 DEF ExpiryInv, TypeOK
  <2>3. Holds' /\ Roles'
    BY <2>1, NothingMoved
  <2>4. NewsIsLate'
    BY <2>1, <2>2, StillLate DEF Older, Works, At
  <2> QED BY <2>2, <2>3, <2>4 DEF ExpiryInv
<1>2. ASSUME NEW s \in Secrets,
             CreateSecret(s) \/ Expire(s) \/ Remove(s) \/ SentinelExpires(s)
      PROVE  ExpiryInv'
  BY <1>2, CreateSecretKeeps, RowKeeps, SentinelExpiresKeeps
<1>3. ASSUME NEW s \in Secrets, NEW result \in {"set", "none"},
             ScheduleExpiry(s, result)
      PROVE  ExpiryInv'
  BY <1>3, ScheduleExpiryKeeps
<1>4. ASSUME NEW s \in Secrets, NEW n \in Instances,
             HandleEvent(n, s) \/ SkipEvent(n, s)
      PROVE  ExpiryInv'
  BY <1>4, HandleEventKeeps, SkipEventKeeps
<1>5. ASSUME NEW n \in Instances, StartSweep(n) \/ Restart(n)
      PROVE  ExpiryInv'
  BY <1>5, StartSweepKeeps, RestartKeeps
<1>6. ASSUME NEW w \in Workers, DeleteRows(w) \/ DeleteFails(w) \/ Release(w)
      PROVE  ExpiryInv'
  BY <1>6, DeleteRowsKeeps, DeleteFailsKeeps, ReleaseKeeps
<1>7. ASSUME NEW key \in Keys, LockExpires(key)
      PROVE  ExpiryInv'
  BY <1>7, LockExpiresKeeps
<1>8. CASE RedisFails
  BY <1>8, RedisFailsKeeps
<1>9. ASSUME NEW keepsKeys \in BOOLEAN, RedisReturns(keepsKeys)
      PROVE  ExpiryInv'
  BY <1>9, RedisReturnsKeeps
<1> QED BY <1>1, <1>2, <1>3, <1>4, <1>5, <1>6, <1>7, <1>8, <1>9 DEF Next

THEOREM ExpiryInvariant == Spec => []ExpiryInv
<1>1. Init => ExpiryInv
  BY InitExpiry
<1>2. ExpiryInv /\ [Next]_vars => ExpiryInv'
  BY NextExpiry
<1> QED BY <1>1, <1>2, PTL DEF Spec

-----------------------------------------------------------------------------
(* What follows of it *)

\* The keys of cleanup_service.py hold only owners of the right kind.
THEOREM ExpiryTypeCorrect == Spec => []TypeOK
<1>1. ExpiryInv => TypeOK
  BY DEF ExpiryInv
<1> QED BY <1>1, ExpiryInvariant, PTL

\* acquire_lock and release_lock exclude, as long as the lock lasts.
THEOREM LocksAreExclusive == Spec => []LocksExclusive
<1>1. ExpiryInv => LocksExclusive
  BY DEF ExpiryInv, Holds, LocksExclusive, Works
<1> QED BY <1>1, ExpiryInvariant, PTL

\* _delete_secret and _fallback_sweep delete only what has expired.
THEOREM NothingGoesEarly == Spec => NeverEarly
<1>1. ExpiryInv /\ [Next]_vars =>
        [\A s \in Secrets : (row[s] = "live" /\ row'[s] = "gone") => UNCHANGED task]_vars
  <2> SUFFICES ASSUME ExpiryInv, Next, NEW s \in Secrets,
                      row[s] = "live", row'[s] = "gone"
               PROVE  UNCHANGED task
    OBVIOUS
  <2>1. ASSUME NEW w \in Workers, DeleteRows(w)
        PROVE  FALSE
    <3>1. At(w, "locked") /\ s \in Doomed(task[w].key)
      BY <2>1 DEF DeleteRows
    <3>2. row[s] \in {"expired", "gone"}
      BY <3>1, DoomedAreLate
    <3> QED BY <3>2
  <2>2. ASSUME NEW t \in Secrets, CreateSecret(t) \/ Expire(t) \/ Remove(t)
        PROVE  UNCHANGED task
    BY <2>2 DEF CreateSecret, Expire, Remove
  <2>3. row' # row
    OBVIOUS
  <2> QED BY <2>1, <2>2, <2>3
          DEF Next, SentinelExpires, ScheduleExpiry, HandleEvent, SkipEvent,
              StartSweep, Restart, DeleteFails, Release, LockExpires,
              RedisFails, RedisReturns
<1> QED BY <1>1, ExpiryInvariant, PTL DEF Spec, NeverEarly
=============================================================================
