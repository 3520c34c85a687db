----------------------------- MODULE FileObjects -----------------------------
(***************************************************************************)
(* File secrets: the rows of secrets and secret_versions whose payload is  *)
(* a file, the objects in the bucket that those versions name, and the two *)
(* tables that keep bucket and database together: pending_uploads, a lease *)
(* on an object whose version is not committed yet, and                    *)
(* object_deletion_outbox, the objects of deleted secrets.                 *)
(*                                                                         *)
(* Bucket and database never change in one step:                           *)
(*                                                                         *)
(*   upload:    CreateFile or ReplaceFile -> Upload -> Publish             *)
(*              any failure -> Undo                                        *)
(*   download:  OpenFile -> Fetch -> DownloadFile -> Send                  *)
(*   clean-up:  StartCleanup -> DeleteQueued -> MarkProcessed, then        *)
(*              DeletePending -> ForgetPending, row by row                 *)
(*                                                                         *)
(* Requests and clean-ups may die between any two of these.  Quotas, links *)
(* and passwords belong to other components: the checks on them only       *)
(* refuse a request, which may happen at any step.  Keys, recipients and   *)
(* history rows are written and rolled back with the rows kept here.       *)
(***************************************************************************)
EXTENDS Naturals, Sequences

CONSTANTS
  Secrets,              \* UUIDs of file secrets; never reused
  Objects,              \* object keys; each upload makes one of its own
  Users,                \* accounts that upload
  Admins,               \* those whose role is admin
  Clients,              \* concurrent HTTP requests
  Workers,              \* sweeps under way at the same time
  Null,                 \* SQL NULL
  MaxViews,             \* bound: largest max_views a creator asks for
  MAX_SECRET_VERSIONS,  \* setting: versions a secret may have
  MaxAnswers            \* bound: answers sent for one view number

ASSUME FileConstants ==
  /\ Admins \subseteq Users
  /\ Null \notin Users \cup Objects
  /\ MaxViews \in Nat
  /\ MAX_SECRET_VERSIONS \in Nat \ {0}
  /\ MaxAnswers \in Nat

VARIABLES
  files,        \* table secrets, payload_type 'file', and how each row ended
  versions,     \* secret_versions: the rows of s, in order of version
  users,        \* table users
  pending,      \* pending_uploads: whether it has a row for the object, and
                \* whether that row's expires_at has passed
  uploader,     \* who uploads the object: pending_uploads.user_id
  outbox,       \* object_deletion_outbox, by object key
  bucket,       \* the objects in the bucket
  req,          \* what each in-flight HTTP request has read so far
  work,         \* what each sweep has read and not yet dealt with
  disclosed,    \* history: how often a file was sent for a view that counted
  uncounted,    \* history: the same for a view that was rolled back
  overran,      \* history: uploads that outlived their lease
  unconfirmed   \* history: uploads whose commit was never acknowledged

tables == <<files, versions, users, pending, outbox>>
history == <<overran, unconfirmed, uncounted>>
vars == <<tables, uploader, bucket, req, work, disclosed, history>>

-----------------------------------------------------------------------------
(* Types *)

\* A row of secrets, as in SecretStore.  A file row is never "burned".
File == [state : {"unborn", "live", "removed", "expired"},
         owner : Users \cup {Null}, max_views : Nat, view_count : Nat,
         expired : BOOLEAN]

\* A row of secret_versions: its object, and the version it replaces.
Version == [object : Objects, base : Nat]

\* expected is the version an upload replaces; 0 when it creates the secret.
Request ==
       [pc : {"idle"}]
  \cup [pc : {"uploading", "uploaded", "failing"}, secret : Secrets,
        object : Objects, user : Users, expected : Nat]
  \cup [pc : {"opening", "fetched"}, secret : Secrets, version : Nat]
  \cup [pc : {"sending"}, secret : Secrets, view : Nat, counted : BOOLEAN]

\* The rows a sweep selected and has still to process, and the one whose
\* object it has deleted but whose row it has not changed yet.
Work == [queued : SUBSET Objects, expired : SUBSET Objects,
         deleted : Objects \cup {Null}]

TypeOK ==
  /\ files       \in [Secrets -> File]
  /\ versions    \in [Secrets -> Seq(Version)]
  /\ users       \in [Users -> {"active", "due", "removed"}]
  /\ pending     \in [Objects -> {"none", "held", "lapsed"}]
  /\ uploader    \in [Objects -> Users \cup {Null}]
  /\ outbox      \in [Objects -> {"none", "queued", "waiting", "processed"}]
  /\ bucket      \in SUBSET Objects
  /\ req         \in [Clients -> Request]
  /\ work        \in [Workers -> Work]
  /\ disclosed   \in [Secrets -> [1..MaxViews -> Nat]]
  /\ uncounted   \in [Secrets -> [1..MaxViews -> Nat]]
  /\ overran     \in SUBSET Objects
  /\ unconfirmed \in SUBSET Objects
  \* foreign keys to users
  /\ \A s \in Secrets : files[s].owner # Null => users[files[s].owner] # "removed"
  /\ \A o \in Objects : pending[o] # "none" =>
       uploader[o] # Null /\ users[uploader[o]] # "removed"

-----------------------------------------------------------------------------
(* Helpers *)

Idle == [pc |-> "idle"]
AtRest == [queued |-> {}, expired |-> {}, deleted |-> Null]

Live(s) == files[s].state = "live"
At(c, pc) == req[c].pc = pc
Goto(c, r) == req' = [req EXCEPT ![c] = r]

\* The request that will publish or undo object o.
Uploads(c, o) ==
  req[c].pc \in {"uploading", "uploaded", "failing"} /\ req[c].object = o

Manages(u, s) == u \in Admins \/ files[s].owner = u

CurrentVersion(s) == Len(versions[s])

\* A committed version of s, or of some stored secret, names o.
Holds(s, o) == \E v \in 1..Len(versions[s]) : versions[s][v].object = o
Named(o) == \E s \in Secrets : Holds(s, o)

\* enqueue_secret_objects_for_deletion, BEFORE DELETE ON secrets.
EnqueuedNone(S) == outbox                            \* fault: trigger missing
Enqueued(S) ==
  [o \in Objects |->
     IF outbox[o] = "none" /\ (\E s \in S : Holds(s, o))
     THEN "queued" ELSE outbox[o]]

\* DELETE FROM secrets for the rows in S: the trigger, then the cascade.
DeleteRows(S) ==
  /\ outbox'   = Enqueued(S)
  /\ versions' = [s \in Secrets |-> IF s \in S THEN <<>> ELSE versions[s]]

Init ==
  /\ files = [s \in Secrets |->
       [state |-> "unborn", owner |-> Null, max_views |-> 0, view_count |-> 0,
        expired |-> FALSE]]
  /\ versions    = [s \in Secrets |-> <<>>]
  /\ users       = [u \in Users |-> "active"]
  /\ pending     = [o \in Objects |-> "none"]
  /\ uploader    = [o \in Objects |-> Null]
  /\ outbox      = [o \in Objects |-> "none"]
  /\ bucket      = {}
  /\ req         = [c \in Clients |-> Idle]
  /\ work        = [w \in Workers |-> AtRest]
  /\ disclosed   = [s \in Secrets |-> [n \in 1..MaxViews |-> 0]]
  /\ uncounted   = [s \in Secrets |-> [n \in 1..MaxViews |-> 0]]
  /\ overran     = {}
  /\ unconfirmed = {}

-----------------------------------------------------------------------------
(* Upload *)

\* Spooled, scanned and encrypted: the lease on a new object key is committed
\* before anything is sent to the bucket.
Stage(c, u, s, o, expected) ==
  /\ At(c, "idle")
  /\ users[u] = "active"
  /\ uploader[o] = Null
  /\ pending'  = [pending EXCEPT ![o] = "held"]
  /\ uploader' = [uploader EXCEPT ![o] = u]
  /\ Goto(c, [pc |-> "uploading", secret |-> s, object |-> o, user |-> u,
              expected |-> expected])
  /\ UNCHANGED <<files, versions, users, outbox, bucket, work, disclosed, history>>

\* create_file_secret: the identifier is drawn here and is nobody else's.
CreateFile(c, u, s, o) ==
  /\ files[s].state = "unborn"
  /\ \A d \in Clients : ~At(d, "idle") => req[d].secret # s
  /\ Stage(c, u, s, o, 0)

\* update_file_secret, up to its lease: the caller names the current version.
ReplaceFile(c, u, s, o) ==
  /\ Live(s)
  /\ Manages(u, s)
  /\ CurrentVersion(s) < MAX_SECRET_VERSIONS
  /\ Stage(c, u, s, o, CurrentVersion(s))

\* storage_service.upload: the object appears when the upload completes.
Upload(c) ==
  /\ At(c, "uploading")
  /\ bucket' = bucket \cup {req[c].object}
  /\ Goto(c, [req[c] EXCEPT !.pc = "uploaded"])
  /\ UNCHANGED <<tables, uploader, work, disclosed, history>>

\* The handler learns that its transaction is committed, and is done; or the
\* commit succeeds but the connection fails before saying so, and the handler
\* takes the exception for a roll-back.
Committed(c) ==
  \/ /\ Goto(c, Idle)
     /\ UNCHANGED unconfirmed
  \/ /\ Goto(c, [req[c] EXCEPT !.pc = "failing"])
     /\ unconfirmed' = unconfirmed \cup {req[c].object}

\* The transaction of create_file_secret.  The lease is deleted without asking
\* whether it was still there.
PublishCreate(c, n) ==
  LET s == req[c].secret
      u == req[c].user
      o == req[c].object
  IN
  /\ At(c, "uploaded")
  /\ req[c].expected = 0
  /\ files[s].state = "unborn"
  /\ users[u] # "removed"
  /\ files' = [files EXCEPT ![s] =
       [state |-> "live", owner |-> u, max_views |-> n, view_count |-> 0,
        expired |-> FALSE]]
  /\ versions' = [versions EXCEPT ![s] = <<[object |-> o, base |-> 0]>>]
  /\ pending'  = [pending EXCEPT ![o] = "none"]
  /\ Committed(c)
  /\ UNCHANGED <<users, uploader, outbox, bucket, work,
                 disclosed, overran, uncounted>>

\* locked[1] != expected_version raises "Secret changed during upload".
UnchangedIgnored(c) == TRUE                          \* fault: check dropped
UnchangedDuringUpload(c) == CurrentVersion(req[c].secret) = req[c].expected

\* The transaction of update_file_secret, under the row lock.
PublishReplace(c) ==
  LET s == req[c].secret
      o == req[c].object
  IN
  /\ At(c, "uploaded")
  /\ req[c].expected > 0
  /\ Live(s)
  /\ users[req[c].user] # "removed"
  /\ UnchangedDuringUpload(c)
  /\ Manages(req[c].user, s)
  /\ versions' = [versions EXCEPT ![s] = Append(@, [object |-> o,
                                            base |-> req[c].expected])]
  /\ pending'  = [pending EXCEPT ![o] = "none"]
  /\ Committed(c)
  /\ UNCHANGED <<files, users, uploader, outbox,
                 bucket, work, disclosed, overran, uncounted>>

\* The upload raises, a check of the publishing transaction fails, or the
\* database refuses it: everything it wrote is rolled back.
FailUpload(c) ==
  /\ req[c].pc \in {"uploading", "uploaded"}
  /\ Goto(c, [req[c] EXCEPT !.pc = "failing"])
  /\ UNCHANGED <<tables, uploader, bucket, work, disclosed, history>>

\* except: if object_key and not durable: storage_service.delete, whose own
\* exception is swallowed.  The lease stays until a clean-up finds it.
Undo(c) ==
  /\ At(c, "failing")
  /\ bucket' \in {bucket, bucket \ {req[c].object}}
  /\ Goto(c, Idle)
  /\ UNCHANGED <<tables, uploader, work, disclosed, history>>

-----------------------------------------------------------------------------
(* Download *)

\* download_file_secret reads the row without a lock ...
OpenFile(c, s) ==
  /\ At(c, "idle")
  /\ Live(s)
  /\ ~files[s].expired
  /\ files[s].view_count < files[s].max_views
  /\ Goto(c, [pc |-> "opening", secret |-> s, version |-> CurrentVersion(s)])
  /\ UNCHANGED <<tables, uploader, bucket, work, disclosed, history>>

\* ... looks up the object of that version and downloads it ...
Fetch(c) ==
  LET s == req[c].secret IN
  /\ At(c, "opening")
  /\ req[c].version \in 1..Len(versions[s])
  /\ versions[s][req[c].version].object \in bucket
  /\ Goto(c, [req[c] EXCEPT !.pc = "fetched"])
  /\ UNCHANGED <<tables, uploader, bucket, work, disclosed, history>>

\* locked[4], the count as the row lock shows it.
LockedCount(s) == files[s].view_count

\* delete_secret_if_fully_viewed: the views are spent.
SpentLate(s, count) == count > files[s].max_views    \* fault: off by one
Spent(s, count) == count >= files[s].max_views

\* Whether secret_viewed can be audited, the last statement of the transaction.
\* It cannot when the views are spent, for the trigger has then deleted the
\* secret the row refers to, and it may fail for reasons of its own.
AuditOutcomes(s, count) == IF Spent(s, count) THEN {FALSE} ELSE BOOLEAN

\* audit_service.log swallows the error, but the transaction is aborted and
\* ends, without an exception, in a roll-back of the whole view.
CountView(s, count, counted) ==
  files' = [files EXCEPT ![s].view_count = IF counted THEN count ELSE @]

\* ... and only then locks the row, authenticates the object and counts the
\* view, or does not: the file is sent all the same.  Expiry is not checked
\* again.
DownloadFile(c) ==
  LET s     == req[c].secret
      count == LockedCount(s) + 1
  IN
  /\ At(c, "fetched")
  /\ Live(s)
  /\ CurrentVersion(s) = req[c].version
  /\ LockedCount(s) < files[s].max_views
  /\ \E counted \in AuditOutcomes(s, count) :
       /\ CountView(s, count, counted)
       /\ Goto(c, [pc |-> "sending", secret |-> s, view |-> count,
                   counted |-> counted])
  /\ UNCHANGED <<versions, users, pending, outbox, uploader,
                 bucket, work, disclosed, history>>

\* One more answer for view n of s.
OneMore(answers, s, n) == [answers EXCEPT ![s][n] = @ + 1]

\* FileResponse, after the transaction.
Send(c) ==
  LET s == req[c].secret
      n == req[c].view
  IN
  /\ At(c, "sending")
  /\ \/ /\ req[c].counted
        /\ disclosed[s][n] < MaxAnswers
        /\ disclosed' = OneMore(disclosed, s, n)
        /\ UNCHANGED uncounted
     \/ /\ ~req[c].counted
        /\ uncounted[s][n] < MaxAnswers
        /\ uncounted' = OneMore(uncounted, s, n)
        /\ UNCHANGED disclosed
  /\ Goto(c, Idle)
  /\ UNCHANGED <<tables, uploader, bucket, work, overran, unconfirmed>>

\* A check refuses the request before anything is written, or its process
\* dies: an upload leaves its lease, and perhaps its object, behind.
Abandon(c) ==
  /\ ~At(c, "idle")
  /\ Goto(c, Idle)
  /\ UNCHANGED <<tables, uploader, bucket, work, disclosed, history>>

-----------------------------------------------------------------------------
(* Deletion, time and accounts *)

\* delete_secret, by the owner or an admin.
DeleteFile(u, s) ==
  /\ users[u] = "active"
  /\ Live(s)
  /\ Manages(u, s)
  /\ files' = [files EXCEPT ![s].state = "removed"]
  /\ DeleteRows({s})
  /\ UNCHANGED <<users, pending, uploader, bucket,
                 req, work, disclosed, history>>

\* _delete_secret, when the sentinel of s expires.
ExpireFile(s) ==
  /\ Live(s)
  /\ files[s].expired
  /\ files' = [files EXCEPT ![s].state = "expired"]
  /\ DeleteRows({s})
  /\ UNCHANGED <<users, pending, uploader, bucket,
                 req, work, disclosed, history>>

\* pending_uploads.user_id REFERENCES users ON DELETE CASCADE.
LeasesKept(U) == pending                             \* fault: no cascade
LeasesWithout(U) ==
  [o \in Objects |-> IF uploader[o] \in U THEN "none" ELSE pending[o]]

\* The transaction of _fallback_sweep: secrets, then users past delete_after,
\* whose leases go with them by ON DELETE CASCADE.
Sweep ==
  LET S == {s \in Secrets : /\ Live(s)
                            /\ \/ files[s].expired
                               \/ files[s].view_count >= files[s].max_views}
      U == {u \in Users : users[u] = "due"}
  IN
  /\ files' = [s \in Secrets |->
       [files[s] EXCEPT !.state = IF s \in S THEN "expired" ELSE @,
                        !.owner = IF @ \in U THEN Null ELSE @]]
  /\ DeleteRows(S)
  /\ users'    = [u \in Users |-> IF u \in U THEN "removed" ELSE users[u]]
  /\ pending'  = LeasesWithout(U)
  /\ UNCHANGED <<uploader, bucket, req, work, disclosed, history>>

\* switch_user_activation; the two days of grace pass within the step.
SwitchUserActivation(u) ==
  /\ users[u] # "removed"
  /\ users' = [users EXCEPT ![u] = IF @ = "active" THEN "due" ELSE "active"]
  /\ UNCHANGED <<files, versions, pending, outbox, uploader, bucket, req, work, disclosed, history>>

\* The clock passes expires_at.
Elapse(s) ==
  /\ Live(s)
  /\ ~files[s].expired
  /\ files' = [files EXCEPT ![s].expired = TRUE]
  /\ UNCHANGED <<versions, users, pending, outbox, uploader, bucket, req, work, disclosed, history>>

\* Fifteen minutes after a lease was taken.
LeaseLapses(o) ==
  /\ pending[o] = "held"
  /\ pending' = [pending EXCEPT ![o] = "lapsed"]
  /\ overran' = IF \E c \in Clients : Uploads(c, o)
                THEN overran \cup {o} ELSE overran
  /\ UNCHANGED <<files, versions, users, outbox, uploader, bucket, req, work,
                 disclosed, unconfirmed, uncounted>>

-----------------------------------------------------------------------------
(* Clean-up of the bucket *)

\* process_storage_cleanup reads the due outbox rows, then the lapsed leases.
DueLeasesAll == {o \in Objects : pending[o] # "none"} \* fault: clock ignored
DueLeasesWithOutbox ==                               \* fault: early return
  {o \in Objects : /\ pending[o] = "lapsed"
                   /\ \E q \in Objects : outbox[q] = "queued"}
DueLeases == {o \in Objects : pending[o] = "lapsed"}

StartCleanup(w) ==
  LET batch == [queued  |-> {o \in Objects : outbox[o] = "queued"},
                expired |-> DueLeases, deleted |-> Null]
  IN
  /\ work[w] = AtRest
  /\ batch # AtRest
  /\ work' = [work EXCEPT ![w] = batch]
  /\ UNCHANGED <<tables, uploader, bucket, req, disclosed, history>>

\* The object of an outbox row is deleted ...
DeleteQueued(w, o) ==
  /\ o \in work[w].queued
  /\ work[w].deleted = Null
  /\ bucket' = bucket \ {o}
  /\ work' = [work EXCEPT ![w].deleted = o]
  /\ UNCHANGED <<tables, uploader, req, disclosed, history>>

\* ... then the row is marked, on another connection.
MarkProcessed(w) ==
  LET o == work[w].deleted IN
  /\ o \in work[w].queued
  /\ outbox' = [outbox EXCEPT ![o] = "processed"]
  /\ work' = [work EXCEPT ![w].deleted = Null, ![w].queued = @ \ {o}]
  /\ UNCHANGED <<files, versions, users, pending, uploader, bucket, req, disclosed, history>>

\* The row is due again after a back-off, and a processed one stays processed.
DueNever(o) == "processed"                           \* fault: a single attempt
DueAgain(o) == IF outbox[o] = "processed" THEN "processed" ELSE "waiting"

\* Deleting or marking raised, whether or not the object is gone.
Retry(w, o) ==
  /\ o \in work[w].queued
  /\ work[w].deleted \in {Null, o}
  /\ bucket' \in {bucket, bucket \ {o}}
  /\ outbox' = [outbox EXCEPT ![o] = DueAgain(o)]
  /\ work' = [work EXCEPT ![w].deleted = Null, ![w].queued = @ \ {o}]
  /\ UNCHANGED <<files, versions, users, pending, uploader, req, disclosed, history>>

\* next_attempt_at is reached.
BackoffOver(o) ==
  /\ outbox[o] = "waiting"
  /\ outbox' = [outbox EXCEPT ![o] = "queued"]
  /\ UNCHANGED <<files, versions, users, pending, uploader, bucket, req, work, disclosed, history>>

\* After the outbox, the leases: the object goes first, then the row.
DeletePending(w, o) ==
  /\ work[w].queued = {}
  /\ o \in work[w].expired
  /\ work[w].deleted = Null
  /\ bucket' = bucket \ {o}
  /\ work' = [work EXCEPT ![w].deleted = o]
  /\ UNCHANGED <<tables, uploader, req, disclosed, history>>

ForgetPending(w) ==
  LET o == work[w].deleted IN
  /\ o \in work[w].expired
  /\ work[w].queued = {}
  /\ pending' = [pending EXCEPT ![o] = "none"]
  /\ work' = [work EXCEPT ![w].deleted = Null, ![w].expired = @ \ {o}]
  /\ UNCHANGED <<files, versions, users, outbox, uploader, bucket, req, disclosed, history>>

\* except: continue.
SkipPending(w, o) ==
  /\ work[w].queued = {}
  /\ o \in work[w].expired
  /\ work[w].deleted \in {Null, o}
  /\ bucket' \in {bucket, bucket \ {o}}
  /\ work' = [work EXCEPT ![w].deleted = Null, ![w].expired = @ \ {o}]
  /\ UNCHANGED <<tables, uploader, req, disclosed, history>>

\* The process dies; its sweep is never resumed.
CrashCleanup(w) ==
  /\ work[w] # AtRest
  /\ work' = [work EXCEPT ![w] = AtRest]
  /\ UNCHANGED <<tables, uploader, bucket, req, disclosed, history>>

-----------------------------------------------------------------------------

UploadStep(c) ==
  \/ \E u \in Users, s \in Secrets, o \in Objects : CreateFile(c, u, s, o)
  \/ \E u \in Users, s \in Secrets, o \in Objects : ReplaceFile(c, u, s, o)
  \/ Upload(c)
  \/ \E n \in 1..MaxViews : PublishCreate(c, n)
  \/ PublishReplace(c)
  \/ FailUpload(c)
  \/ Undo(c)

DownloadStep(c) ==
  \/ \E s \in Secrets : OpenFile(c, s)
  \/ Fetch(c)
  \/ DownloadFile(c)
  \/ Send(c)

CleanupStep(w) ==
  \/ StartCleanup(w)
  \/ \E o \in Objects : DeleteQueued(w, o)
  \/ MarkProcessed(w)
  \/ \E o \in Objects : Retry(w, o)
  \/ \E o \in Objects : DeletePending(w, o)
  \/ ForgetPending(w)
  \/ \E o \in Objects : SkipPending(w, o)
  \/ CrashCleanup(w)

SystemStep ==
  \/ \E u \in Users, s \in Secrets : DeleteFile(u, s)
  \/ \E s \in Secrets : ExpireFile(s)
  \/ Sweep
  \/ \E u \in Users : SwitchUserActivation(u)
  \/ \E s \in Secrets : Elapse(s)
  \/ \E o \in Objects : LeaseLapses(o)
  \/ \E o \in Objects : BackoffOver(o)

Next ==
  \/ \E c \in Clients : UploadStep(c) \/ DownloadStep(c) \/ Abandon(c)
  \/ \E w \in Workers : CleanupStep(w)
  \/ SystemStep

Spec == Init /\ [][Next]_vars

\* Clocks run on; the sweep comes round every ten minutes and each of its
\* steps ends; neither the bucket nor the database fails, and no process dies,
\* at the same row for ever.
Fairness ==
  /\ \A o \in Objects : WF_vars(LeaseLapses(o)) /\ WF_vars(BackoffOver(o))
  /\ \A w \in Workers :
       /\ WF_vars(CleanupStep(w)) /\ SF_vars(MarkProcessed(w))
       /\ \A o \in Objects :
            SF_vars(DeleteQueued(w, o)) /\ SF_vars(DeletePending(w, o))

FairSpec == Spec /\ Fairness

-----------------------------------------------------------------------------
(* Properties *)

\* The object of every version of a stored secret is in the bucket: no crash,
\* conflict, roll-back or clean-up takes it away.  Two uploads are outside
\* this: one that outlived the lease of fifteen minutes, and one whose commit
\* was not acknowledged, which the handler undoes.
VersionsBacked ==
  \A s \in Secrets : Live(s) =>
    \A v \in 1..Len(versions[s]) :
      versions[s][v].object \in bucket \cup overran \cup unconfirmed

\* Some row or request still knows o and will see to it.
Accounted(o) ==
  \/ Named(o)
  \/ pending[o] # "none"
  \/ outbox[o] \in {"queued", "waiting"}
  \/ \E c \in Clients : Uploads(c, o)

\* The two ways an object is forgotten: its uploader's account was removed,
\* and the lease with it, or the upload ended after its lease was cleaned up.
Forgotten(o) ==
  \/ o \in overran
  \/ uploader[o] # Null /\ users[uploader[o]] = "removed"

\* No object lies in the bucket that nothing refers to.
ObjectsAccounted == \A o \in bucket : Accounted(o) \/ Forgotten(o)

\* A replacement never hides a version its uploader had not seen, however long
\* the upload took, and the limit on versions holds although it is only
\* checked before the upload.
ReplacementsInTurn ==
  \A s \in Secrets :
    /\ Len(versions[s]) <= MAX_SECRET_VERSIONS
    /\ \A v \in 1..Len(versions[s]) : versions[s][v].base = v - 1

\* However many downloads race, a view that counted is given out at most once,
\* the numbers are counted in turn, and the views of a stored file are not
\* spent.  An answer whose audit row failed is one too many, but it never runs
\* ahead of the count by more than one view.
AnswersMatchCount ==
  /\ \A s \in Secrets :
       /\ Live(s) => files[s].view_count < files[s].max_views
       /\ \A n \in 1..MaxViews :
            /\ disclosed[s][n] <= (IF n <= files[s].view_count THEN 1 ELSE 0)
            /\ uncounted[s][n] > 0 => n <= files[s].view_count + 1
  /\ \A c \in Clients : (At(c, "sending") /\ req[c].counted) =>
       LET s == req[c].secret
           n == req[c].view
       IN /\ n <= files[s].view_count
          /\ disclosed[s][n] = 0
          /\ \A d \in Clients : (d # c /\ At(d, "sending") /\ req[d].counted) =>
               req[d].secret # s \/ req[d].view # n

\* README: max_views "remains a total limit" and secrets "auto-delete after
\* max views".  The last view of a file is never counted.
FilesBurnAfterReading ==
  \A s \in Secrets, n \in 1..MaxViews : disclosed[s][n] + uncounted[s][n] <= 1

\* The refinement: what durable_usage of quota_service.py would find.
Billing == INSTANCE ObjectBilling WITH
  bill   <- [o \in Objects |->
               CASE outbox[o] \in {"queued", "waiting"} -> "owed"
                 [] outbox[o] = "processed"             -> "settled"
                 [] outbox[o] = "none" /\ Named(o)      -> "active"
                 [] OTHER                               -> "absent"],
  stored <- bucket

\* An object is on the bill from its publication until it has left the bucket:
\* no crash, retry or second sweep ends the bill early, or begins it again, and
\* an object that is paid off never returns.
KeepsBilling == Billing!Spec

\* Every object that no version names leaves the bucket in the end, or is
\* published after all, whatever crashes and failed deletions come between.
OrphansCollected ==
  \A o \in Objects :
    (o \in bucket /\ ~Named(o)) ~> (o \notin bucket \/ Named(o) \/ Forgotten(o))
=============================================================================
