------------------------------ MODULE QuotaLedger ------------------------------
(***************************************************************************)
(* The quota of one user: a counter in Redis, the reservations that move   *)
(* it, and the tables it shadows.  The service keeps two such ledgers for  *)
(* each user, one of secrets and one of file bytes; the same scripts serve *)
(* both, and a file is stored under one reservation in each.               *)
(*                                                                         *)
(*   create:     CountActive -> CountPending -> ReadLimit -> Reserve       *)
(*               -> Store -> Commit; any failure -> Release                *)
(*   reconcile:  CountActive -> CountPending -> Reconcile                  *)
(*               for GET /quota, after a deletion or an expiry, after a    *)
(*               deleted object, after a new limit, and when a commit in   *)
(*               Redis has failed                                          *)
(*                                                                         *)
(* Each script is atomic; nothing else is.  The tables are counted and the *)
(* limit read on connections of their own, and both handed to Redis later. *)
(* An item costs one.                                                      *)
(***************************************************************************)
EXTENDS Integers, FiniteSets

CONSTANTS
  Items,      \* secrets, or file versions, by id; never reused
  Clients,    \* concurrent requests and clean-ups of this user's rows
  Null,       \* no such key
  Limits,     \* what an administrator may set as max_active_secrets or
              \* max_file_bytes
  IsBytes     \* the ledger of file bytes: a deleted item is billed until its
              \* object is gone

ASSUME QuotaConstants ==
  /\ IsFiniteSet(Items)
  /\ Null \notin Int
  /\ Limits \subseteq Nat \ {0}
  /\ IsBytes \in BOOLEAN

VARIABLES
  limit,        \* the row of user_quotas, or the default
  items,        \* secrets, secret_versions and object_deletion_outbox
  usage,        \* phantom:quota:{user}:usage
  reservation,  \* phantom:quota:reservation:{id} and its entry in the sorted
                \* set, by the item it was made for
  req,          \* what each request has read so far
  unseen,       \* history: what was stored while each request was counting
  drifted       \* history: a charge was dropped that is owed

ledger == <<items, usage, reservation, unseen, drifted>>
vars == <<limit, ledger, req>>

-----------------------------------------------------------------------------
(* Types *)

\* "pending" has a reservation but no committed row yet (or never will have).
ItemState == {"new", "pending", "active", "billed", "gone"}

Request ==
       [pc : {"idle", "owing"}]
  \cup [pc : {"counting"}, for : {"reserve", "reconcile"}, active : Nat]
  \cup [pc : {"counted"}, for : {"reserve", "reconcile"}, total : Nat]
  \cup [pc : {"limited"}, total : Nat, limit : Limits]
  \cup [pc : {"held", "stored", "failing"}, item : Items]

TypeOK ==
  /\ limit       \in Limits
  /\ items       \in [Items -> ItemState]
  /\ usage       \in Nat \cup {Null}
  /\ reservation \in [Items -> {"none", "held", "lapsed"}]
  /\ req         \in [Clients -> Request]
  /\ unseen      \in [Clients -> SUBSET Items]
  /\ drifted     \in BOOLEAN

-----------------------------------------------------------------------------
(* Helpers *)

Idle == [pc |-> "idle"]
Owing == [pc |-> "owing"]       \* reconcile_user is called next

At(c, pc) == req[c].pc = pc
Goto(c, r) == req' = [req EXCEPT ![c] = r]
AtTables == {"counting", "counted", "limited"}
Counting(c) == req[c].pc \in AtTables
Forget(c) == unseen' = [unseen EXCEPT ![c] = {}]

Active == {i \in Items : items[i] = "active"}
Billed == {i \in Items : items[i] = "billed"}
Durable == Active \cup Billed
Outstanding == {i \in Items : reservation[i] # "none"}

\* What the user has to answer for.
Charged == Durable \cup Outstanding

Init ==
  /\ limit \in Limits
  /\ items = [i \in Items |-> "new"]
  /\ usage = Null
  /\ reservation = [i \in Items |-> "none"]
  /\ req = [c \in Clients |-> Idle]
  /\ unseen = [c \in Clients |-> {}]
  /\ drifted = FALSE

-----------------------------------------------------------------------------
(* durable_usage, for reserve and for reconcile_user *)

\* Each SELECT has a snapshot of its own: first the rows in use ...
CountActive(c, for) ==
  /\ \/ At(c, "idle")
     \/ At(c, "owing") /\ for = "reconcile"
  /\ Goto(c, [pc |-> "counting", for |-> for, active |-> Cardinality(Active)])
  /\ UNCHANGED <<limit, ledger>>

\* ... then the objects that still wait for deletion.
CountPending(c) ==
  /\ At(c, "counting")
  /\ Goto(c, [pc |-> "counted", for |-> req[c].for,
              total |-> req[c].active + Cardinality(Billed)])
  /\ UNCHANGED <<limit, ledger>>

\* _RECONCILE: what was counted, plus the reservations of this moment.
ReconciledAlone(total) == total                      \* fault: list not read
Reconciled(total) == total + Cardinality(Outstanding)

\* Items that were stored after the count and have no reservation any more.
Missed(c) == (unseen[c] \cap Durable) \ Outstanding

Reconcile(c) ==
  /\ At(c, "counted") /\ req[c].for = "reconcile"
  /\ usage' = Reconciled(req[c].total)
  /\ drifted' = (drifted \/ Missed(c) # {})
  /\ Goto(c, Idle)
  /\ Forget(c)
  /\ UNCHANGED <<limit, items, reservation>>

-----------------------------------------------------------------------------
(* Creating an item *)

\* limits_for_user.
ReadLimit(c) ==
  /\ At(c, "counted") /\ req[c].for = "reserve"
  /\ Goto(c, [pc |-> "limited", total |-> req[c].total, limit |-> limit])
  /\ UNCHANGED <<limit, ledger>>

\* _RESERVE: the counter starts from the tables when its key is missing.
Base(c) == IF usage = Null THEN req[c].total ELSE usage

FitsStale(c) == req[c].total + 1 <= req[c].limit     \* fault: tables, not counter
Fits(c) == Base(c) + 1 <= req[c].limit

Reserve(c, i) ==
  /\ At(c, "limited")
  /\ items[i] = "new"
  /\ Fits(c)
  /\ usage' = Base(c) + 1
  /\ reservation' = [reservation EXCEPT ![i] = "held"]
  /\ items' = [items EXCEPT ![i] = "pending"]
  /\ drifted' = (drifted \/ (usage = Null /\ Missed(c) # {}))
  /\ Goto(c, [pc |-> "held", item |-> i])
  /\ Forget(c)
  /\ UNCHANGED limit

\* 409 QUOTA_EXCEEDED.
Refuse(c) ==
  /\ At(c, "limited")
  /\ ~Fits(c)
  /\ usage' = Base(c)
  /\ drifted' = (drifted \/ (usage = Null /\ Missed(c) # {}))
  /\ Goto(c, Idle)
  /\ Forget(c)
  /\ UNCHANGED <<limit, items, reservation>>

\* The transaction that inserts the rows commits.  Its acknowledgement may be
\* lost; then the handler takes it for failed.
Store(c, next) ==
  LET i == req[c].item IN
  /\ At(c, "held")
  /\ items' = [items EXCEPT ![i] = "active"]
  /\ unseen' = [d \in Clients |->
                  IF Counting(d) THEN unseen[d] \cup {i} ELSE unseen[d]]
  /\ drifted' = (drifted \/ reservation[i] = "none")
  /\ Goto(c, [pc |-> next, item |-> i])
  /\ UNCHANGED <<limit, usage, reservation>>

\* Any exception before the commit.
Fail(c) ==
  /\ At(c, "held")
  /\ Goto(c, [pc |-> "failing", item |-> req[c].item])
  /\ UNCHANGED <<limit, ledger>>

\* The reservation and its entry in the sorted set are deleted.
KeptListed(i) == reservation                         \* fault: no ZREM
Dropped(i) == [reservation EXCEPT ![i] = "none"]

\* _COMMIT: the reservation goes, the charge stays.
Commit(c) ==
  /\ At(c, "stored")
  /\ reservation' = Dropped(req[c].item)
  /\ Goto(c, Idle)
  /\ UNCHANGED <<limit, items, usage, unseen, drifted>>

\* Redis did not answer.  The file handlers then reconcile; the text handler
\* fails with the row stored (Crash).
CommitFails(c) ==
  /\ At(c, "stored")
  /\ Goto(c, Owing)
  /\ UNCHANGED <<limit, ledger>>

\* _RELEASE of the reservation for i: the charge goes with it, once.
ReleasedAlways(i) ==                                 \* fault: EXISTS unchecked
  IF usage = Null THEN -1 ELSE usage - 1
Released(i) == IF reservation[i] = "none" THEN usage ELSE usage - 1

ReleaseItem(i) ==
  /\ usage' = Released(i)
  /\ reservation' = Dropped(i)
  /\ drifted' = (drifted \/ i \in Outstanding \cap Durable)

Release(c) ==
  /\ At(c, "failing")
  /\ ReleaseItem(req[c].item)
  /\ Goto(c, Idle)
  /\ UNCHANGED <<limit, items, unseen>>

\* The process dies, or Redis fails where the handler gives up.
Crash(c) ==
  /\ ~At(c, "idle")
  /\ Goto(c, Idle)
  /\ Forget(c)
  /\ UNCHANGED <<limit, items, usage, reservation, drifted>>

-----------------------------------------------------------------------------
(* Deletions, the reaper and Redis itself *)

Deleted(i) == [items EXCEPT ![i] = IF IsBytes THEN "billed" ELSE "gone"]

\* The owner or an expiry deletes the row; reconcile_user comes next.
Delete(c, i) ==
  /\ At(c, "idle")
  /\ items[i] = "active"
  /\ items' = Deleted(i)
  /\ Goto(c, Owing)
  /\ UNCHANGED <<limit, usage, reservation, unseen, drifted>>

\* The view trigger, or another user's administrator, deletes the row: this
\* user's counter is not told.
Burn(i) ==
  /\ items[i] = "active"
  /\ items' = Deleted(i)
  /\ UNCHANGED <<limit, usage, reservation, req, unseen, drifted>>

\* An administrator replaces a file of this user.  The new version is billed to
\* the owner, while create_file_version reserves for who calls it.
StoreByAdmin(i) ==
  /\ IsBytes
  /\ items[i] = "new"
  /\ items' = [items EXCEPT ![i] = "active"]
  /\ unseen' = [d \in Clients |->
                  IF Counting(d) THEN unseen[d] \cup {i} ELSE unseen[d]]
  /\ drifted' = TRUE
  /\ UNCHANGED <<limit, usage, reservation, req>>

\* process_storage_cleanup has deleted the object.
DeleteObject(c, i) ==
  /\ At(c, "idle")
  /\ items[i] = "billed"
  /\ items' = [items EXCEPT ![i] = "gone"]
  /\ Goto(c, Owing)
  /\ UNCHANGED <<limit, usage, reservation, unseen, drifted>>

\* The 600 s of a reservation are over ...
Lapse(i) ==
  /\ reservation[i] = "held"
  /\ reservation' = [reservation EXCEPT ![i] = "lapsed"]
  /\ UNCHANGED <<limit, items, usage, req, unseen, drifted>>

\* ... and reap_expired_reservations releases it, whoever may still hold it.
Reap(i) ==
  /\ reservation[i] = "lapsed"
  /\ ReleaseItem(i)
  /\ UNCHANGED <<limit, items, req, unseen>>

\* An administrator sets the limit; usage reconciles next.
UpdateQuota(c, l) ==
  /\ At(c, "idle")
  /\ limit' = l
  /\ Goto(c, Owing)
  /\ UNCHANGED ledger

\* Redis comes back without its keys.
LoseKeys ==
  /\ usage' = Null
  /\ reservation' = [i \in Items |-> "none"]
  /\ UNCHANGED <<limit, items, req, unseen, drifted>>

-----------------------------------------------------------------------------

Next ==
  \/ \E c \in Clients :
       \/ \E for \in {"reserve", "reconcile"} : CountActive(c, for)
       \/ CountPending(c) \/ Reconcile(c) \/ ReadLimit(c) \/ Refuse(c)
       \/ \E next \in {"stored", "failing"} : Store(c, next)
       \/ Fail(c) \/ Commit(c) \/ CommitFails(c) \/ Release(c) \/ Crash(c)
  \/ \E c \in Clients, i \in Items :
       Reserve(c, i) \/ Delete(c, i) \/ DeleteObject(c, i)
  \/ \E c \in Clients, l \in Limits : UpdateQuota(c, l)
  \/ \E i \in Items : Burn(i) \/ StoreByAdmin(i) \/ Lapse(i) \/ Reap(i)
  \/ LoseKeys

Spec == Init /\ [][Next]_vars

\* Time passes, and the sweep reaps every 600 s.
FairSpec == Spec /\ \A i \in Items : WF_vars(Lapse(i)) /\ WF_vars(Reap(i))

-----------------------------------------------------------------------------
(* Safety *)

\* The counter covers every outstanding reservation: whatever is lost, reaped
\* or reconciled, giving all of them back never makes it negative.
ReservationsCovered ==
  Cardinality(Outstanding) <= (IF usage = Null THEN 0 ELSE usage)

\* The counter falls below what the user owes only in one of the four ways
\* that drifted records: a charge is released under a row that was stored, a
\* row is stored after its reservation was reaped or lost, a count of the
\* tables is written that missed a row stored since, and an administrator
\* adds a row that was charged to the administrator.
DebtsComeFromDrift ==
  (~drifted /\ usage # Null) => Cardinality(Charged) <= usage

\* Short of those, concurrent creations never share the last place, also
\* not those that start from a missing key: a new charge stays within the
\* limit, or is that of a request that had read a higher one before it was
\* lowered, and stays within that.
WithinLimit ==
  [][~drifted' =>
       \/ Charged' \subseteq Charged
       \/ Cardinality(Charged') <= limit'
       \/ \E c \in Clients : /\ At(c, "limited") /\ limit < req[c].limit
                            /\ Cardinality(Charged') <= req[c].limit]_vars

\* The refinement: the tables the ledger of file bytes counts.
Billing == INSTANCE ObjectBilling WITH
  Objects <- Items,
  bill    <- [i \in Items |-> CASE items[i] \in {"new", "pending"} -> "absent"
                                [] items[i] = "active"            -> "active"
                                [] items[i] = "billed"            -> "owed"
                                [] items[i] = "gone"              -> "settled"],
  stored  <- Durable

\* If IsBytes, items come and go as the objects of FileObjects do.
KeepsBilling == Billing!Spec

-----------------------------------------------------------------------------
(* Liveness *)

\* A reservation ends, also the one of a request that died: no part of the
\* quota is blocked for ever.
ReservationsEnd == \A i \in Items : reservation[i] # "none" ~> reservation[i] = "none"

=============================================================================
