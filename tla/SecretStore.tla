----------------------------- MODULE SecretStore -----------------------------
(***************************************************************************)
(* Text secrets in PostgreSQL: tables secrets, secret_access_policies,     *)
(* secret_keys, secret_versions, secret_tracking, secret_views, users and  *)
(* audit_logs, and the HTTP handlers that read and write them              *)
(* concurrently.                                                           *)
(*                                                                         *)
(* A handler that takes the row lock of a secret and does all its work in  *)
(* that one transaction is one action.  A handler that reads before it     *)
(* locks is one action per transaction or statement, and keeps in req what *)
(* it has read so far:                                                     *)
(*                                                                         *)
(*   retrieve:  Authorize -> StartRead -> View -> Answer                   *)
(*   update:    ReadVersions -> UpdateSecret                               *)
(*   rotate:    RotateCheck -> RotateKey -> RotateAudit                    *)
(*                                                                         *)
(* Any of them may stop between two steps (Abandon).                       *)
(***************************************************************************)
EXTENDS Naturals, Sequences

CONSTANTS
  Secrets,              \* UUIDs of secrets; never reused
  Users,                \* accounts with role user or admin
  Admins,               \* the accounts whose role is admin
  Clients,              \* concurrent HTTP requests
  Texts,                \* plaintexts
  Null,                 \* SQL NULL
  MaxViews,             \* bound: largest max_views a creator asks for
  MAX_SECRET_VERSIONS,  \* setting: versions a secret may have
  MaxKeys,              \* bound: data encryption keys of one secret
  MaxPolicy             \* bound: policy versions of one secret

ASSUME ConstantsAssumption ==
  /\ Admins \subseteq Users
  /\ Null \notin Users
  /\ Null \notin Texts
  /\ MaxViews \in Nat
  /\ MAX_SECRET_VERSIONS \in Nat \ {0}
  /\ MaxKeys \in Nat
  /\ MaxPolicy \in Nat

VARIABLES
  secrets,    \* table secrets, and how each row ended
  keys,       \* secret_keys: the DEK versions of s are 1..keys[s]
  versions,   \* secret_versions: version v of s is versions[s][v]
  policy,     \* secret_access_policies.policy_version; 0 when there is no row
  tracking,   \* whether secret_tracking has a row for s
  views,      \* secret_views of s in order: the content_version each one saw
  users,      \* table users
  audit,      \* how many audit_logs rows were committed about s, by action
  req,        \* what each in-flight HTTP request has read so far
  disclosed   \* history: how often a plaintext was returned for each view

tables == <<secrets, keys, versions, policy, tracking, views, users, audit>>
vars == <<tables, req, disclosed>>

-----------------------------------------------------------------------------
(* Types *)

\* A ciphertext: the plaintext and the version of the DEK it is sealed under;
\* key 0 is the client's own key, which the server never has.
Cipher == [text : Texts \cup {Null}, key : Nat]

\* A row of secret_versions.  origin and base are what change_note and the
\* request record: the version an edit was based on or a restore copied.
Version == [cipher : Cipher, key_version : Nat,
            origin : {"create", "update", "restore"}, base : Nat]

\* A row of secrets.  state says whether the row exists ("live") or how it
\* ended; the columns of a row that is gone are history that no action reads.
\* age is the position of the clock: before expires_at, past it, or past the
\* retain_until of the tracking row.
Row == [state : {"unborn", "live", "burned", "removed", "expired"},
        owner : Users \cup {Null}, max_views : Nat, view_count : Nat,
        current_version : Nat, content : Cipher, email_restricted : BOOLEAN,
        age : {"fresh", "expired", "lapsed"}]

AuditAction == {"secret_created", "secret_viewed", "secret_updated",
                "secret_version_restored", "key_rotated", "secret_deleted"}

Request ==
       [pc : {"idle"}]
  \cup [pc : {"authorized"}, secret : Secrets, link : Nat]
  \cup [pc : {"locking"}, secret : Secrets, link : Nat,
        snap : [view_count : Nat, policy_version : Nat]]
  \cup [pc : {"answering"}, secret : Secrets, view : Nat, version : Nat,
        text : Texts \cup {Null}]
  \cup [pc : {"editing"}, secret : Secrets, user : Users, seen : Nat]
  \cup [pc : {"rotating", "rotated"}, secret : Secrets, user : Users]

TypeOK ==
  /\ secrets   \in [Secrets -> Row]
  /\ keys      \in [Secrets -> Nat]
  /\ versions  \in [Secrets -> Seq(Version)]
  /\ policy    \in [Secrets -> Nat]
  /\ tracking  \in [Secrets -> BOOLEAN]
  /\ views     \in [Secrets -> Seq(Nat)]
  /\ users     \in [Users -> {"active", "due", "removed"}]
  /\ audit     \in [Secrets -> [AuditAction -> Nat]]
  /\ req       \in [Clients -> Request]
  /\ disclosed \in [Secrets -> [1..MaxViews -> Nat]]

-----------------------------------------------------------------------------
(* Helpers *)

Idle == [pc |-> "idle"]

Live(s) == secrets[s].state = "live"

\* Fields of req are read only when the pc says they are there.
At(c, pc) == req[c].pc = pc

Goto(c, r) == req' = [req EXCEPT ![c] = r]

\* require_owns_secret: admins manage every secret, others their own.
Manages(u, s) == u \in Admins \/ secrets[s].owner = u

\* unwrap_dek then decrypt_content: authenticated decryption succeeds only
\* under the key that sealed the text.
Opens(cipher, key) == cipher.key = key

Seal(t, key) == [text |-> t, key |-> key]

\* audit_service.log on the handler's own connection, before any delete.
Logged(s, action) == [audit EXCEPT ![s][action] = @ + 1]

\* The rows of the secrets in S go, and with them, by ON DELETE CASCADE, their
\* keys, versions and policies.  Tracking and views have no such reference.
Cascade(S) ==
  /\ keys'     = [s \in Secrets |-> IF s \in S THEN 0 ELSE keys[s]]
  /\ versions' = [s \in Secrets |-> IF s \in S THEN <<>> ELSE versions[s]]
  /\ policy'   = [s \in Secrets |-> IF s \in S THEN 0 ELSE policy[s]]

Init ==
  /\ secrets = [s \in Secrets |->
       [state |-> "unborn", owner |-> Null, max_views |-> 0, view_count |-> 0,
        current_version |-> 0, content |-> Seal(Null, 0),
        email_restricted |-> FALSE, age |-> "fresh"]]
  /\ keys      = [s \in Secrets |-> 0]
  /\ versions  = [s \in Secrets |-> <<>>]
  /\ policy    = [s \in Secrets |-> 0]
  /\ tracking  = [s \in Secrets |-> FALSE]
  /\ views     = [s \in Secrets |-> <<>>]
  /\ users     = [u \in Users |-> "active"]
  /\ audit     = [s \in Secrets |-> [a \in AuditAction |-> 0]]
  /\ req       = [c \in Clients |-> Idle]
  /\ disclosed = [s \in Secrets |-> [n \in 1..MaxViews |-> 0]]

-----------------------------------------------------------------------------
(* Creation *)

\* create_secret: one transaction inserts the secret, its first key (unless
\* the client encrypted the content), version 1, policy and tracking rows.
CreateSecret(u, s, n, t, client_encrypted, restricted) ==
  LET key   == IF client_encrypted THEN 0 ELSE 1
      first == [cipher |-> Seal(t, key), key_version |-> key,
                origin |-> "create", base |-> 0]
  IN
  /\ secrets[s].state = "unborn"
  /\ users[u] = "active"
  /\ key <= MaxKeys
  /\ MaxPolicy >= 1
  /\ secrets' = [secrets EXCEPT ![s] =
       [state |-> "live", owner |-> u, max_views |-> n, view_count |-> 0,
        current_version |-> 1, content |-> first.cipher,
        email_restricted |-> restricted, age |-> "fresh"]]
  /\ keys'     = [keys EXCEPT ![s] = key]
  /\ versions' = [versions EXCEPT ![s] = <<first>>]
  /\ policy'   = [policy EXCEPT ![s] = 1]
  /\ tracking' = [tracking EXCEPT ![s] = TRUE]
  /\ audit'    = Logged(s, "secret_created")
  /\ UNCHANGED <<views, users, req, disclosed>>

-----------------------------------------------------------------------------
(* Retrieval *)

\* location_policy_service.authorize, on a connection of its own: a link (or
\* no link) of the policy version in force, from an allowed place.
Authorize(c, s) ==
  /\ At(c, "idle")
  /\ Live(s)
  /\ Goto(c, [pc |-> "authorized", secret |-> s, link |-> policy[s]])
  /\ UNCHANGED <<tables, disclosed>>

\* SELECT ... FROM secrets s JOIN secret_access_policies p ... FOR UPDATE OF s
\* starts: its snapshot is taken before it waits for the lock of s.
StartRead(c) ==
  LET s == req[c].secret IN
  /\ At(c, "authorized")
  /\ Live(s)
  /\ Goto(c, [pc |-> "locking", secret |-> s, link |-> req[c].link,
              snap |-> [view_count |-> secrets[s].view_count,
                        policy_version |-> policy[s]]])
  /\ UNCHANGED <<tables, disclosed>>

\* Fault: the row is not locked, so nothing re-reads it.
JoinedUnlocked(c) == req[c].snap

\* The joined row that statement returns once it holds the lock.  PostgreSQL
\* re-reads the locked row of s (READ COMMITTED, EvalPlanQual), but the row of
\* p, which FOR UPDATE OF s does not lock, is the one of the snapshot.
Joined(c) ==
  [view_count     |-> secrets[req[c].secret].view_count,
   policy_version |-> req[c].snap.policy_version]

\* delete_secret_if_fully_viewed: the views are spent.
Spent(s, count) == count >= secrets[s].max_views

\* UPDATE secrets SET view_count, and the trigger it fires, which deletes the
\* row, after auditing the deletion, when the views are spent.
SpendView(s, count) ==
  LET spent == Spent(s, count) IN
  /\ secrets' = [secrets EXCEPT ![s].view_count = count,
                   ![s].state = IF spent THEN "burned" ELSE "live"]
  /\ Cascade(IF spent THEN {s} ELSE {})
  /\ audit' = [audit EXCEPT ![s]["secret_viewed"]  = @ + 1,
                            ![s]["secret_deleted"] = IF spent THEN @ + 1 ELSE @]

\* The policy the joined row shows is the one the link was authorized under.
PolicyCurrent(c) == Joined(c).policy_version = req[c].link

\* INSERT INTO secret_views ... SELECT ... FROM secret_tracking: no row without
\* tracking, which only a recipient-restricted secret insists on.
Recordable(s) == secrets[s].email_restricted => tracking[s]

RecordedIfRestricted(s) ==                           \* fault: others forgotten
  IF secrets[s].email_restricted
  THEN [views EXCEPT ![s] = Append(@, secrets[s].current_version)] ELSE views
Recorded(s) ==
  IF tracking[s]
  THEN [views EXCEPT ![s] = Append(@, secrets[s].current_version)] ELSE views

\* _retrieve_secret under the row lock, up to its commit.  The password and
\* recipient checks read columns that never change; failing one is Abandon.
View(c) ==
  LET s     == req[c].secret
      row   == secrets[s]
      count == Joined(c).view_count + 1
  IN
  /\ At(c, "locking")
  /\ Live(s)
  /\ PolicyCurrent(c)
  /\ row.age = "fresh"
  /\ Joined(c).view_count < row.max_views
  /\ keys[s] > 0 => Opens(row.content, keys[s])
  /\ Recordable(s)
  /\ views' = Recorded(s)
  /\ SpendView(s, count)
  /\ Goto(c, [pc |-> "answering", secret |-> s, view |-> count,
              version |-> row.current_version, text |-> row.content.text])
  /\ UNCHANGED <<tracking, users, disclosed>>

\* The response leaves after the commit.
Answer(c) ==
  /\ At(c, "answering")
  /\ disclosed' = [disclosed EXCEPT ![req[c].secret][req[c].view] = @ + 1]
  /\ Goto(c, Idle)
  /\ UNCHANGED tables

\* A check fails before anything is written, the transaction rolls back, or
\* the process dies between two transactions or before the response leaves.
Abandon(c) ==
  /\ ~At(c, "idle")
  /\ Goto(c, Idle)
  /\ UNCHANGED <<tables, disclosed>>

-----------------------------------------------------------------------------
(* Versions and keys *)

\* list_secret_versions: where an editor learns the version it will edit.
ReadVersions(c, u, s) ==
  /\ At(c, "idle")
  /\ users[u] = "active"
  /\ Live(s)
  /\ Manages(u, s)
  /\ Goto(c, [pc |-> "editing", secret |-> s, user |-> u,
              seen |-> secrets[s].current_version])
  /\ UNCHANGED <<tables, disclosed>>

\* UPDATE secrets SET content, nonce, current_version; the view count stays.
RepointedAndReset(s, cipher) ==                      \* fault: views start anew
  [secrets EXCEPT ![s].content = cipher, ![s].current_version = @ + 1,
                  ![s].view_count = 0]
Repointed(s, cipher) ==
  [secrets EXCEPT ![s].content = cipher, ![s].current_version = @ + 1]

\* create_version_key, then _insert_text_version: a new key, a new version
\* sealed under it, and the secrets row repointed, in the caller's transaction.
InsertTextVersion(s, t, origin, base) ==
  LET key == keys[s] + 1 IN
  /\ keys' = [keys EXCEPT ![s] = key]
  /\ versions' = [versions EXCEPT ![s] =
       Append(@, [cipher |-> Seal(t, key), key_version |-> key,
                  origin |-> origin, base |-> base])]
  /\ secrets' = Repointed(s, Seal(t, key))

\* The editor has seen the version it replaces.
ExpectedIgnored(c) == TRUE                           \* fault: last writer wins
Expected(c) == secrets[req[c].secret].current_version = req[c].seen

\* update_secret: optimistic concurrency on expected_version under the lock.
\* The user was active when the request came in, and still exists.
UpdateSecret(c, t) ==
  LET s   == req[c].secret
      row == secrets[s]
  IN
  /\ At(c, "editing")
  /\ Live(s)
  /\ users[req[c].user] # "removed"
  /\ Manages(req[c].user, s)
  /\ row.age = "fresh"
  /\ Expected(c)
  /\ row.current_version < MAX_SECRET_VERSIONS
  /\ versions[s][row.current_version].key_version > 0
  /\ keys[s] < MaxKeys
  /\ InsertTextVersion(s, t, "update", req[c].seen)
  /\ audit' = Logged(s, "secret_updated")
  /\ Goto(c, Idle)
  /\ UNCHANGED <<policy, tracking, views, users, disclosed>>

\* What is sealed again by a restore: the decrypted text.
RestoredCiphertext(old) == old.cipher                \* fault: sealed twice
Restored(old) == old.cipher.text

\* restore_secret_version: the old version is decrypted under the key its row
\* names and appended as the newest version.  There is no expiry check.
RestoreVersion(u, s, v) ==
  LET old == versions[s][v] IN
  /\ users[u] = "active"
  /\ Live(s)
  /\ Manages(u, s)
  /\ secrets[s].current_version < MAX_SECRET_VERSIONS
  /\ v \in 1..Len(versions[s])
  /\ old.key_version \in 1..keys[s]
  /\ Opens(old.cipher, old.key_version)
  /\ keys[s] < MaxKeys
  /\ InsertTextVersion(s, Restored(old), "restore", v)
  /\ audit' = Logged(s, "secret_version_restored")
  /\ UNCHANGED <<policy, tracking, views, users, req, disclosed>>

\* rotate_secret_key checks the owner without a lock ...
RotateCheck(c, u, s) ==
  /\ At(c, "idle")
  /\ users[u] = "active"
  /\ Live(s)
  /\ Manages(u, s)
  /\ Goto(c, [pc |-> "rotating", secret |-> s, user |-> u])
  /\ UNCHANGED <<tables, disclosed>>

\* UPDATE secret_versions SET content, key_version of the current version.
ResealedNone(s, cipher) == versions                  \* fault: row forgotten
Resealed(s, cipher) ==
  LET cur == secrets[s].current_version IN
  [versions EXCEPT ![s][cur].cipher = cipher,
                   ![s][cur].key_version = cipher.key]

\* ... rotate_key then locks the row, opens the content under the latest DEK
\* and reseals the row and the current version under a new one ...
RotateKey(c) ==
  LET s   == req[c].secret
      key == keys[s] + 1
      new == Seal(secrets[s].content.text, key)
  IN
  /\ At(c, "rotating")
  /\ Live(s)
  /\ keys[s] \in 1..(MaxKeys - 1)
  /\ Opens(secrets[s].content, keys[s])
  /\ keys'     = [keys EXCEPT ![s] = key]
  /\ secrets'  = [secrets EXCEPT ![s].content = new]
  /\ versions' = Resealed(s, new)
  /\ Goto(c, [req[c] EXCEPT !.pc = "rotated"])
  /\ UNCHANGED <<policy, tracking, views, users, audit, disclosed>>

\* ... and the audit row is written on another connection after the commit,
\* where a foreign key fails, silently, if the secret or the user is gone.
RotateAudit(c) ==
  /\ At(c, "rotated")
  /\ audit' = IF Live(req[c].secret) /\ users[req[c].user] # "removed"
              THEN Logged(req[c].secret, "key_rotated") ELSE audit
  /\ Goto(c, Idle)
  /\ UNCHANGED <<secrets, keys, versions, policy, tracking, views, users,
                 disclosed>>

-----------------------------------------------------------------------------
(* Policies, deletion, time and accounts *)

\* update_location_policy: both rows locked, the version bumped, a new link.
UpdateLocationPolicy(u, s) ==
  /\ users[u] = "active"
  /\ Live(s)
  /\ Manages(u, s)
  /\ policy[s] < MaxPolicy
  /\ policy' = [policy EXCEPT ![s] = @ + 1]
  /\ audit'  = Logged(s, "secret_updated")
  /\ UNCHANGED <<secrets, keys, versions, tracking, views, users, req, disclosed>>

\* log_critical on the deleting transaction, while the foreign key still holds.
AuditedTooLate(s) == audit                           \* fault: after the delete
AuditedBeforeDelete(s) == Logged(s, "secret_deleted")

\* delete_secret: audited on the same connection before the row goes.
DeleteSecret(u, s) ==
  /\ users[u] = "active"
  /\ Live(s)
  /\ Manages(u, s)
  /\ secrets' = [secrets EXCEPT ![s].state = "removed"]
  /\ Cascade({s})
  /\ audit' = AuditedBeforeDelete(s)
  /\ UNCHANGED <<tracking, views, users, req, disclosed>>

\* The clock passes expires_at, then retain_until.
Elapse(s) ==
  /\ secrets[s].state # "unborn"
  /\ secrets[s].age # "lapsed"
  /\ secrets' = [secrets EXCEPT ![s].age =
                   IF @ = "fresh" THEN "expired" ELSE "lapsed"]
  /\ UNCHANGED <<keys, versions, policy, tracking, views, users, audit, req,
                 disclosed>>

\* _delete_secret, on the expiry of the Redis sentinel, which was set after
\* expires_at was computed.  Its audit row is inserted after the commit, when
\* the foreign key can no longer hold: audit_service.log swallows the error.
ExpireSecret(s) ==
  /\ Live(s)
  /\ secrets[s].age # "fresh"
  /\ secrets' = [secrets EXCEPT ![s].state = "expired"]
  /\ Cascade({s})
  /\ UNCHANGED <<tracking, views, users, audit, req, disclosed>>

\* The transaction of _fallback_sweep: expired or fully viewed secrets, then
\* deactivated users past delete_after, whose secrets lose their owner and
\* whose tracking rows go with them, then tracking past its retention.  View
\* history goes with its tracking row.  The audit rows fail as above.
Sweep ==
  LET S == {s \in Secrets : /\ Live(s)
                            /\ \/ secrets[s].age # "fresh"
                               \/ secrets[s].view_count >= secrets[s].max_views}
      U == {u \in Users : users[u] = "due"}
      T == {s \in Secrets : secrets[s].age = "lapsed" \/ secrets[s].owner \in U}
  IN
  /\ secrets' = [s \in Secrets |->
       [secrets[s] EXCEPT !.state = IF s \in S THEN "expired" ELSE @,
                          !.owner = IF @ \in U THEN Null ELSE @]]
  /\ Cascade(S)
  /\ users'    = [u \in Users |-> IF u \in U THEN "removed" ELSE users[u]]
  /\ tracking' = [s \in Secrets |-> tracking[s] /\ s \notin T]
  /\ views'    = [s \in Secrets |-> IF s \in T THEN <<>> ELSE views[s]]
  /\ UNCHANGED <<audit, req, disclosed>>

\* switch_user_activation by an admin on another account; the two days of
\* grace before the account is due for deletion pass within the step.
SwitchUserActivation(a, u) ==
  /\ a \in Admins
  /\ users[a] = "active"
  /\ u # a
  /\ users[u] # "removed"
  /\ users' = [users EXCEPT ![u] = IF @ = "active" THEN "due" ELSE "active"]
  /\ UNCHANGED <<secrets, keys, versions, policy, tracking, views, audit, req,
                 disclosed>>

-----------------------------------------------------------------------------

ClientStep(c) ==
  \/ \E s \in Secrets : Authorize(c, s)
  \/ StartRead(c)
  \/ View(c)
  \/ Answer(c)
  \/ Abandon(c)
  \/ \E u \in Users, s \in Secrets : ReadVersions(c, u, s)
  \/ \E t \in Texts : UpdateSecret(c, t)
  \/ \E u \in Users, s \in Secrets : RotateCheck(c, u, s)
  \/ RotateKey(c)
  \/ RotateAudit(c)

OwnerStep(u, s) ==
  \/ \E n \in 1..MaxViews, t \in Texts, e \in BOOLEAN, r \in BOOLEAN :
       CreateSecret(u, s, n, t, e, r)
  \/ \E v \in 1..MAX_SECRET_VERSIONS : RestoreVersion(u, s, v)
  \/ UpdateLocationPolicy(u, s)
  \/ DeleteSecret(u, s)

SystemStep ==
  \/ \E s \in Secrets : Elapse(s)
  \/ \E s \in Secrets : ExpireSecret(s)
  \/ Sweep
  \/ \E a \in Users, u \in Users : SwitchUserActivation(a, u)

Next ==
  \/ \E c \in Clients : ClientStep(c)
  \/ \E u \in Users, s \in Secrets : OwnerStep(u, s)
  \/ SystemStep

Spec == Init /\ [][Next]_vars
-----------------------------------------------------------------------------
(* Properties *)

\* A plaintext or ciphertext a client asked for is on its way to it.
Answering(c) == At(c, "answering")

\* Every view is returned at most once, under a number of its own, and the
\* numbers end at max_views: however retrievals interleave, crash and race
\* deletions, a secret is shown at most max_views times.
AtMostMaxViews ==
  /\ \A s \in Secrets, n \in 1..MaxViews :
       /\ disclosed[s][n] <= 1
       /\ disclosed[s][n] = 1 => n <= secrets[s].max_views
  /\ \A c \in Clients : Answering(c) =>
       /\ req[c].view \in 1..secrets[req[c].secret].view_count
       /\ disclosed[req[c].secret][req[c].view] = 0
  /\ \A c, d \in Clients :
       /\ c # d /\ Answering(c) /\ Answering(d)
       /\ req[c].secret = req[d].secret
       => req[c].view # req[d].view

\* The trigger leaves no spent secret behind, and burns no secret early.
BurnedExactlyWhenSpent ==
  \A s \in Secrets :
    /\ Live(s) => secrets[s].view_count < secrets[s].max_views
    /\ secrets[s].state = "burned" =>
         secrets[s].view_count = secrets[s].max_views

\* Updates, restores and rotations keep every stored ciphertext readable: the
\* row mirrors its current version, that version is sealed under the newest
\* key, which is the one a retrieval loads, and every version names the key
\* that opens it and that the server still has.
Readable ==
  \A s \in Secrets : Live(s) =>
    LET cur == secrets[s].current_version IN
    /\ cur \in 1..Len(versions[s])
    /\ versions[s][cur].cipher = secrets[s].content
    /\ Opens(secrets[s].content, keys[s])
    /\ \A v \in 1..Len(versions[s]) :
         /\ Opens(versions[s][v].cipher, versions[s][v].key_version)
         /\ versions[s][v].key_version <= keys[s]
         /\ versions[s][v].key_version = 0 => keys[s] = 0

\* An answer carries the text of the version whose number it reports.
AnswerMatchesVersion ==
  \A c \in Clients : Answering(c) /\ Live(req[c].secret) =>
    /\ req[c].version \in 1..Len(versions[req[c].secret])
    /\ req[c].text = versions[req[c].secret][req[c].version].cipher.text

\* While a secret is tracked its history has one row per view, and the n-th
\* row names the version the n-th view was answered with, whatever became of
\* the secret since.
HistoryAccountsForViews ==
  \A s \in Secrets : tracking[s] =>
    /\ Len(views[s]) = secrets[s].view_count
    /\ \A c \in Clients : Answering(c) /\ req[c].secret = s =>
         views[s][req[c].view] = req[c].version

\* No edit overwrites a version its editor had not seen, and a restored
\* version shows the text of the version it was restored from.
VersionLineage ==
  \A s \in Secrets : \A v \in 1..Len(versions[s]) :
    LET ver == versions[s][v] IN
    /\ ver.origin = "update" => ver.base = v - 1
    /\ ver.origin = "restore" =>
         /\ ver.base \in 1..(v - 1)
         /\ ver.cipher.text = versions[s][ver.base].cipher.text

\* Every view that was counted is audited, and so is every deletion by an
\* owner or by the trigger, although both run in the deleting transaction.
ViewsAndRemovalsAudited ==
  \A s \in Secrets :
    /\ audit[s]["secret_viewed"] = secrets[s].view_count
    /\ secrets[s].state \in {"burned", "removed"} =>
         audit[s]["secret_deleted"] = 1

\* Once written, the text of a version never changes while the secret exists:
\* rotation reseals it, updates and restores only append.
VersionTextImmutable ==
  [][\A s \in Secrets : (Live(s) /\ Live(s)') =>
       \A v \in 1..Len(versions[s]) :
         /\ v \in 1..Len(versions'[s])
         /\ versions'[s][v].cipher.text = versions[s][v].cipher.text]_vars

\* Client c is granted a view in this step.
Viewed(c) == At(c, "locking") /\ req'[c].pc = "answering"

\* A recipient-restricted secret is never shown without a history row.
RestrictedViewsRecorded ==
  [][\A c \in Clients :
       (Viewed(c) /\ secrets[req[c].secret].email_restricted) =>
         Len(views'[req[c].secret]) = Len(views[req[c].secret]) + 1]_vars

\* A link of an earlier policy grants a view only to a retrieval whose locking
\* statement had started before the policy was updated.
OldLinkNeedsOpenStatement ==
  [][\A c \in Clients :
       /\ (At(c, "authorized") /\ req[c].link # policy[req[c].secret])
            => req'[c].pc # "answering"
       /\ Viewed(c) => req[c].snap.policy_version = req[c].link]_vars

\* cleanup_service: every deleted secret is logged.  Expiry deletions are not.
EveryDeletionAudited ==
  \A s \in Secrets : secrets[s].state \in {"burned", "removed", "expired"} =>
    audit[s]["secret_deleted"] >= 1

\* The refinement: what a retrieval would show, and how often.
Promise == INSTANCE BurnAfterRead WITH
  status <- [s \in Secrets |->
               CASE secrets[s].state = "unborn" -> "absent"
                 [] Live(s)                     -> "live"
                 [] OTHER                       -> "gone"],
  left   <- [s \in Secrets |-> IF Live(s)
               THEN secrets[s].max_views - secrets[s].view_count ELSE 0],
  text   <- [s \in Secrets |-> IF Live(s) /\ Opens(secrets[s].content, keys[s])
               THEN secrets[s].content.text ELSE Null]

\* Rotation, policy changes, accounts, history and retries are invisible: the
\* tables keep the promise of BurnAfterRead.
KeepsPromise == Promise!Spec
=============================================================================
