# Phantom Share in TLA+

Phantom Share stores secrets (texts and files) that are shown a limited number
of times and then deleted.  A FastAPI service keeps them in PostgreSQL,
encrypted under one data key per version, files in an S3 bucket, and uses Redis
for expiry sentinels, locks, quota counters and rate limits and RabbitMQ for
notifications; a Go CLI talks to it.  This directory models the service's own
logic in TLA+, checks it with TLC on small instances, and proves what matters
most with TLAPS for every value of the constants.

Run a check of any module with its `.cfg`, as in
`tlc -workers 2 -config SecretStore.cfg MCSecretStore.tla`, and the proofs with
`tlapm SecretStoreProofs.tla`.  `PROJECT.json` lists every run, its properties,
the source lines of every definition, and the hazards the properties are aimed
at.  A definition marked `fault:` is the mistake a property is there to catch:
nothing uses it, and replacing the definition after it by it makes TLC find that
property violated.

## The system

| Part | State it keeps | Operations | Hard behaviour |
|---|---|---|---|
| Text secrets (`app/routers/secrets.py`, `secret_versions.py`, `secret_access.py`, `services/key_service.py`, triggers in `database/migrations`) | tables `secrets`, `secret_keys`, `secret_versions`, `secret_access_policies`, `secret_tracking`, `secret_views`, `audit_logs` | create, retrieve, update, restore, rotate key, change policy, delete | retrievals racing for the last view; edits, rotations and deletions in between; a row lock taken after an earlier read; crash between commit and response |
| File secrets (`app/routers/files.py`, `file_versions.py`, `file_support.py`, `services/storage_service.py`, `file_crypto.py`, `clamav_service.py`) | the same tables, `pending_uploads`, `object_deletion_outbox`, objects in the bucket | upload, download, replace | database and bucket change in separate steps; upload slower than its lease; an object deleted while it is downloaded |
| Expiry (`services/cleanup_service.py`) | Redis sentinels and locks, the outbox | expire on keyspace event, sweep, delete objects | lost or duplicated events, a lock that expires under its holder, retries with back-off |
| Quotas (`services/quota_service.py`, `routers/quotas.py`) | Redis usage counters and reservations, limits | reserve, commit, release, reap, reconcile, change a limit | counters against the tables they shadow; reservations that expire while their request runs |
| Accounts and sessions (`routers/auth.py`, `core/security.py`, `services/verification_service.py`) | `users`, `sessions`, `email_verifications` | register, log in, refresh, log out, verify an email | rotation of refresh tokens under concurrency |
| Administration (`routers/admin.py`) | `users` | list, change role, switch activation, clean up | two administrators acting on each other |
| Notifications (`services/notification_service.py`, `notification_worker.py`) | RabbitMQ queues | publish, deliver, retry, dead-letter | redelivery, crash between republish and acknowledgement |
| Rate limiting (`core/rate_limit.py`) | Redis sorted sets | admit or refuse | a sliding window under retries |
| Access policy (`services/location_policy_service.py`, `core/client_ip.py`) | policy rows | evaluate, authorize | mode all/any with a missing country; an update between the decision and the view |
| View history (`routers/secret_views.py`) | `secret_tracking`, `secret_views` | read | outlives its secret |
| CLI (`cli/`) | a config file with tokens | log in and out, settings, requests with refresh and retry | a refresh token used once, concurrent calls, a lost answer, a save that fails |
| Shell (`main.py`, `core/config.py`, `tracing.py`, statistics, schemas) | none of its own | start, stop, serve | start-up without Redis or RabbitMQ |

The parts meet in the tables.  A handler runs in one or more transactions on
connections of a pool; the row lock of a secret serialises what changes it, but
several handlers read before they lock, or act after they commit, and the model
keeps each of those steps apart.  Deletion by the view trigger, by the owner, by
a Redis event and by the periodic sweep all reach the same rows.

What must hold, part by part:

* secrets: shown at most `max_views` times, burned with the last view, always
  decryptable while stored, never overwritten by an edit that had not seen it;
* files: the object a version names exists until nothing names it, and every
  object that nothing names is deleted in the end and paid for until then;
* quotas: the counter never falls below what is reserved, and concurrent
  creations do not pass the limit;
* expiry: nothing goes early, and an expired secret is gone in the end, whatever
  events and locks are lost;
* sessions: replays of a refresh token are bounded, codes are mailed, stored and
  consumed one at a time, and administrators are not lost by accident;
* notifications: what the broker has accepted is delivered or reported, and each
  of its attempts notifies once, and again only after a lost connection;
* rate limits: no window admits more than its maximum, a caller is refused
  because of others only, and nobody counts as somebody else by a header;
* access policy: nothing is shown where the policy of that moment does not admit
  it, whatever changed since it was evaluated;
* CLI: a refresh token is exchanged only when that is needed, and the open
  session is the one in the file.

## Modules

| Module | Models |
|---|---|
| `BurnAfterRead` | the abstract promise: store with a budget, reveal, burn with the last reveal, edit, gone |
| `SecretStore` | text secrets, their keys, versions, policy, tracking and history, the four ways a row goes, accounts that go |
| `TokenRotation` | the life of a session: opened, claimed while open, exchanged for another, closed for ever |
| `ObjectBilling` | what the bucket and the quota agree on about an object: billed from its publication until it has left the bucket, paid off once |
| `DeliverOrReport` | the promise about a notification: a chance to be sent until it is sent for good or given up, each attempt at most once but for failures that double it |
| `MCSecretStore` | its TLC instance and symmetry |
| `SecretStoreProofs` | theorems about it, and that it implements `BurnAfterRead` |
| `FileObjects`, `MCFileObjects`, `FileObjectsProofs` | file secrets, their versions, the bucket, `pending_uploads`, the outbox and its clean-up |
| `AuthSessions`, `MCAuthSessions`, `AuthSessionsProofs` | accounts, sessions, roles, activation, email verification |
| `QuotaLedger`, `MCQuotaLedger`, `QuotaLedgerProofs` | one quota of one user: the Lua scripts against the tables |
| `ExpiryCoordinator`, `MCExpiryCoordinator`, `ExpiryProofs` | listeners, sweepers and their locks on several instances, with a Redis that fails |
| `Notifications`, `MCNotifications`, `NotificationsProofs` | publisher, handlers, dead letters and retry loops |
| `ClientAddress` | the address a request counts as (no state; used by the next two) |
| `RateLimit`, `MCRateLimit` | the sliding window of one scope on several instances |
| `LocationGate`, `MCLocationGate` | evaluation of a location policy, and requests against policies that change |
| `GateProofs` | theorems about `ClientAddress`, `RateLimit` and `LocationGate` |
| `CliSession`, `MCCliSession`, `CliSessionProofs` | command line processes, their calls, the credentials file, and the server's sessions as they see them |

Each part is a module of its own.  They meet where one names the step of the
other: `SecretStore`, `FileObjects` and `AuthSessions` each have the `Sweep` that
deletes due accounts and what hangs on them, `SecretStore.ExpireSecret` is what
`ExpiryCoordinator.DeleteRows` does to the rows, `FileObjects`' clean-up is what
`QuotaLedger.DeleteObject` observes, and `Authenticate` of `AuthSessions` stands
before every handler of the others.  `RateLimit` and `LocationGate` judge a
request by the address of `ClientAddress`; `LocationGate.View` is where
`SecretStore.View` begins, which follows the policy's version but not its
content; `ReadSession` and `Rotate` of `CliSession` are `StartRefresh` and
`Refresh` of `AuthSessions` as a client meets them.

Two of these meetings have a specification of their own that both sides
implement.  `TokenRotation` is what `AuthSessions` does to its sessions, and what
the server that `CliSession` models for itself does to the rows it follows.
`ObjectBilling` is what `FileObjects` does to an object between bucket, tables
and outbox, and what the byte ledger of `QuotaLedger` bills.  Neither pair is
composed into one state space, and that both sides implement the abstract module
does not discharge what they assume of each other: it shows that their accounts
of the shared thing agree as far as that module speaks of it.  `TokenRotation`
says nothing of refusals, so that `CliSession` refuses the tokens that
`AuthSessions` would refuse rests on both following the source (`Accepted`
there, `Authenticate` and `StartRefresh` here); `ObjectBilling` says nothing of
counting or reservations, which are `QuotaLedger`'s own.

### SecretStore

State.  `secrets[s]` is the row of table `secrets` (with `state` telling whether
it exists or how it went), `keys[s]` the newest version in `secret_keys`,
`versions[s]` the rows of `secret_versions`, `policy[s]` the `policy_version`,
`tracking[s]` and `views[s]` the rows of `secret_tracking` and `secret_views`,
`users`, and `audit[s]` the number of committed `audit_logs` rows by action.
`req[c]` is what an in-flight request has read so far; `disclosed` is a history
variable that counts how often the answer for each view left the server.

A ciphertext is the pair of its plaintext and the key version that sealed it:
`decrypt_content` is authenticated, so it succeeds under that key only.  Key 0
stands for a client's own key.  Passwords, recipients and places are not
variables: the rows they are checked against never change (or change with the
policy version), so a request that fails such a check is `Abandon`.

Steps.  A handler that locks first and commits once is one action
(`CreateSecret`, `UpdateLocationPolicy`, `RestoreVersion`, `DeleteSecret`).  The
others are cut where the code lets go of the database:

* retrieve: `Authorize` (a connection of its own reads the policy) -> `StartRead`
  (the snapshot of `SELECT ... FOR UPDATE OF s`) -> `View` (the row is locked:
  checks, decryption, history, count, trigger, commit) -> `Answer`;
* update: `ReadVersions` (the editor learns the version) -> `UpdateSecret`;
* rotate: `RotateCheck` (owner read without a lock) -> `RotateKey` ->
  `RotateAudit` (another connection, after the commit).

`Joined` is the one place where PostgreSQL's own rules matter: under READ
COMMITTED a statement that waited for a row lock re-reads the locked row of
`secrets`, but the joined row of `secret_access_policies`, which `FOR UPDATE OF
s` does not lock, stays the one of the statement's snapshot.

`Abandon` is every early return, roll-back and crash between two steps.
`Elapse` is the clock of one secret (expires_at, then retain_until).  Expiry by
Redis event is `ExpireSecret`; the periodic transaction is `Sweep`.

Runs.

* `secret_store` (`SecretStore.cfg`): one secret, an owner and an admin, two
  concurrent requests, two plaintexts, up to two views, three versions, three
  keys and two policy versions.  Two requests are enough for every race of the
  code, whose conflicts are all pairwise on one row; two views separate "not
  the last" from "the last"; three versions let two editors of version 1 and a
  third writer collide; two policy versions separate an old link from a new
  one.  Secrets do not interact except in `Sweep`, so one is enough here and the
  proofs cover the rest.  Requests and plaintexts are symmetric.
* `expiry_audit` (expected violation): `EveryDeletionAudited` fails because both
  expiry paths write the audit row after the row it references is gone.

The specification has no fairness: its properties are safety properties and the
refinement of `BurnAfterRead` allows stuttering.

### FileObjects

State.  `files`, `versions`, `users`, `pending` (the lease of an object in
`pending_uploads`, "lapsed" once its fifteen minutes are over) and `outbox`
(`object_deletion_outbox`) are tables; `bucket` is the set of stored objects;
`req` and `work` are what each request and each sweep has read.  `overran` and
`unconfirmed` remember uploads that outlived their lease and uploads whose
commit was never acknowledged; `disclosed` counts, per view number, the answers
of views that were committed, and `uncounted` those of views that were rolled
back.

Steps.  Database and bucket change apart, so each handler is cut at every call
to the bucket: `CreateFile` or `ReplaceFile` (lease committed) -> `Upload` ->
`PublishCreate` or `PublishReplace` (row and lease in one transaction, with the
version checked again), and `Undo` after a failure at any point; `OpenFile` ->
`Fetch` -> `DownloadFile` (lock, decryption, count, trigger, audit) -> `Send`.
`process_storage_cleanup` goes row by row: `StartCleanup` reads both lists,
`DeleteQueued` and `DeletePending` change the bucket, `MarkProcessed` and
`ForgetPending` the tables, `Retry` and `BackoffOver` are the failed deletion
and its waiting time, `CrashCleanup` the death of the sweep.  `Abandon` drops a
request anywhere.

The audit row of a view is the last statement of `download_file_secret`'s
transaction, and `audit_service.log` swallows its failure.  PostgreSQL has
aborted the transaction by then, so the view is rolled back without anybody
being told and the file is sent all the same.  Any view can fail so (an address
that is no `inet`, an error of the database); the last view always does, since
its trigger has deleted the secret the row refers to.  `AuditOutcomes` has both,
`CountView` counts or leaves the row as it is, and `FilesBurnAfterReading` is
violated.  `AnswersMatchCount` says what does hold whatever audits fail: a view
that was counted is given out once at most, the views of a stored file are not
spent, and an answer that was not counted is at most one view ahead of the
count.  The other transactions of file and text secrets that end with an audit
row (create, update) are rolled back in the same way; for the tables that is
`FailUpload` and `Abandon`, in spite of the answer they give.  In the text
handler an audit row that fails stops the view before its `UPDATE`, which then
raises: nothing is sent.

Runs.

* `files`: two requests, three objects, two views, two versions, no sweep.  Two
  replacements collide with each other, with a deletion, an expiry and the
  removal of the owner; two views tell the first from the last.  `MaxAnswers` is
  two answers of each kind per view number, one more than a counted view may
  have.
* `files_cleanup`: one request and one sweep, two objects, so that a lease and an
  outbox row are handled in one sweep while an upload is under way.  One sweep at
  a time, as long as the sweep lock lasts; the theorems hold for any number of
  them at once.  Liveness is checked here.
* `file_final_view` (expected violation): the last view is given out twice.

`KeepsBilling` is the refinement of `ObjectBilling`: an object is on the bill once
a version names it, is owed while a row of the outbox waits for it, and settled
when that row is processed.  A deletion that has failed must not settle the bill
with the object still in the bucket, and one that is tried again, also by another
sweep after it has succeeded, must not bring it back.

Fairness.  The clean-up runs every 600 s and its steps do not wait for anybody
(weak); a deletion in the bucket that is tried again and again succeeds in the
end, and so does marking it (strong).  Nothing is assumed of requests but that
they end, which is `Abandon` at the latest.

### AuthSessions

State.  A row of `sessions` stands for the access and the refresh token that
carry its id.  `parent`, which no column holds, is the session a refresh has
exchanged for it.  `codes` is the row of `email_verifications` of each user;
`mailed` remembers which codes reached the mailbox.  Passwords, signatures and
code digits are checks on what the caller presents.  Audit rows of these
handlers are not kept.

Steps.  `get_current_user` reads on a connection of its own, so `Authenticate`
is a step before every handler, whose request then acts on what was read:
`Logout`, `ChangeRole`, `SwitchUserActivation`, `ConfirmCode`.  `LoginCheck` and
`StartRefresh` read without a lock, `Login` and `Refresh` write.  A code is
mailed inside the transaction that stores it: `StartMailing` (row of the user
locked) -> `Mail` -> `StoreCode`; `Locked` keeps everything else off that row.
The two clocks of a code, the expiry of sessions and the retention of inactive
accounts are steps too.

Runs.

* `sessions`: two users (one the only administrator), three sessions, two
  requests, two codes.  Two requests make every pair of handlers overlap, three
  sessions let one token be exchanged by both, two codes separate the code of the
  first request from the one that overwrites it.

`KeepsRotation` is the refinement of `TokenRotation`: a row of `sessions` is open
until it expires or goes, and a request holds the session that `StartRefresh`
found.  It says more than `ReplayBounded` about the order: whatever clean-ups,
log-outs and deletions come between, a session is closed in the very step that
opens its successor, is never opened again, and is exchanged only by a request
that had found it open.

No fairness: the properties are safety and action properties.

### QuotaLedger

State.  One ledger of one user, of secrets or of file bytes (`IsBytes`), with
items of cost one; a file is stored under one reservation in each.  `items` says
for each secret or file version whether it is reserved, stored, deleted with its
object still billed, or gone; `usage` and `reservation` are the Redis keys,
`limit` the row of `user_quotas`, `req` what a request has counted and which
limit it has read.  `unseen` remembers what was stored while a request was
counting, `drifted` that one of the four cases below happened.

Steps.  Each Lua script is one action (`Reserve`, `Refuse`, `Commit`, `Release`,
`Reconcile`, and `Reap` for an entry of the reaper).  `durable_usage` is two
statements with a snapshot each (`CountActive`, `CountPending`), `ReadLimit` is
`limits_for_user`, and what they return reaches Redis later.  `UpdateQuota` is an
administrator who changes the limit and reconciles.  `Store` is the commit of
the rows, whose acknowledgement may be lost; `StoreByAdmin` is a replacement by
an administrator, which is billed to the owner although it was reserved for the
administrator.  `LoseKeys` is a Redis that returns empty; the service keeps it
without persistence, so keys go all at once.

What the checks show.  The counter falls below what the user owes in four ways
and no others (`DebtsComeFromDrift`): a charge is released under a row that was
stored (lost acknowledgement, or reaped while the request runs on), a row is
stored after its reservation went, a count is written that missed a row stored
and committed since, and an administrator replaces a file.  In their absence no
step charges past the limit (`WithinLimit`), except by a request that had read a
higher limit before it was lowered, and then within that one.  Always the
counter covers the outstanding reservations (`ReservationsCovered`), so that no
order of releases makes it negative.  An over-charge, as after a view trigger's
deletion, or in the ledger of the administrator above, lasts until something
reconciles; the code promises no time for it.

* `quota`: two items on behalf of two requests, in the ledger of bytes, which has
  every step of the other, with limits of one and two.  Two requests are the
  least for a count that misses a row; under a limit of one the second item must
  be refused; lowering two to one shows the stale limit.

The ledger of bytes implements `ObjectBilling` as well, with the tables it counts
for the bucket (`KeepsBilling`).  That is a theorem and not a property of the run:
it holds under `IsBytes` only, which the run's instance happens to choose.

Fairness: `Lapse` (600 s pass) and `Reap` (the sweep reaps every 600 s).

### ExpiryCoordinator

State.  `row` and `sentinel` of each secret, `lock` with the owner its token
stands for, `inbox` (events delivered to the listener of an instance),
`listening`, `task` of each worker; a worker is the listener or the sweeper of
an instance.  `lost` remembers workers whose lock went while they were at work.

Steps.  `HandleEvent`/`SkipEvent` and `StartSweep` take the lock, `DeleteRows` is
the transaction, `Release` the script that compares the token.  `LockExpires` is
the time to live of 30 s or 120 s, `Restart` an instance that dies and comes
back, `RedisFails` and `RedisReturns` (with its keys or without) end
subscriptions.  An event that finds no listener is lost.

Clocks.  Instances, Redis and PostgreSQL are taken to agree on the time: a
sentinel is set from the same lifetime after the row is stored (`AfterTheRow`),
so it fires after `expires_at`.  `NeverEarly` depends on it, since a listener
deletes by id alone.

* `expiry`: one secret on two instances.  Keys of different secrets never meet
  except in the sweep, which takes all of them in one statement, so one secret
  shows every race for a key; two instances have two sweepers at one lock and a
  listener against both.

Fairness.  The sweep loop comes round and a database that fails a worker does
not fail it for ever (strong, since restarts and lost locks disable these steps
in between); locks run out and a release that can be made is made (weak).  Redis is
brought back in the end: without it no sweep gets its lock and nothing goes.

### Notifications

State.  `copy` is what the broker holds: copies of messages with their retry
attempt, in a queue, at a handler, hanging in a send, just sent, among the dead
letters, at a retry loop or just republished.  The mail and the webhook queue are handled alike and
no message changes from one to the other, so one stands for both.  `loop` is
the retry loop of each instance.  `delivered` (by attempt), `failures`, `forks`,
`alerted` and `silent` are histories.

Steps.  `Publish` or `DropPublish` (no exchange, or refused); `Take` -> `Send` ->
`Ack`, or to the dead letters by `Reject`, or by `RejectSent` when the mail or the
request went out and the handler learned of it too late or not at all (a webhook
that times out or answers with an error after it has done its work, an SMTP
server that fails at QUIT).  `Hang` is an SMTP server that accepts the connection
and is silent, which no timeout ends, until `ServerSpeaks`.  `Get` -> `Republish` -> `AckRetried`, or
after `MAX_RETRIES` `GiveUp` -> `Alert`.  A connection can end at each of these
points and the copy goes back (`LoseHandler`, `LoseSending`, `LoseSent`,
`LoopBreaksAt`, `LoopBreaksAfter`); where the work was already done that counts
as a fork.  An exception ends a retry loop for good, because
`gather(return_exceptions=True)` hides it; only `Restart` brings one back.

`KeepsPromise` is the refinement of `DeliverOrReport`.  The chances of a message
are its copies that may still be sent (`Open`), and it is given up once a loop is
about to report it; an acknowledged send uses a chance up, and a fork, which is
what a broken connection makes of work that was done, is the only step that adds
one.  Retries alone can notify up to 1 + `MAX_RETRIES` times, and a message can
have been delivered and be reported as failed: what is promised is that each
attempt notifies once, and once more for each fork.  That nothing is lost
(`NotLost`) and the bound per attempt (`AttemptsOnce`) are theorems of their own.

* `notifications`: one message, two loops, two retries (the code has three; the
  first, one in the middle and the last attempt are there), one fork, three
  slots.  Copies of different messages meet only in that a loop works
  on one at a time; one fork gives two copies of the message, so that both loops
  work on it at once, and the third slot is the one a retry is published to.
  The broker may stop for good (deadlock is not checked): a message that was
  dropped or settled leaves nothing to do.

Fairness.  Connections end but every now and then one holds long enough to feed
a handler, to let a send that does not hang end, and to let a live loop come
round, which it does every 30 s (strong); a report that is due is written (weak).
Neither `Restart` nor `ServerSpeaks` is assumed, since the code ensures neither:
`SettledWhileLooping` is conditional on some loop being alive again and again,
and on no copy hanging in a silent server for ever.  A webhook has a timeout of
10 s, `send_smtp` has none.

### ClientAddress and RateLimit

`ResolveClientIp` is `resolve_client_ip`: the chain of `X-Forwarded-For` and the
peer, believed only behind a trusted peer and only if every part is an address,
read from the right to the first hop outside the trusted proxies.  Addresses and
their spellings are members of small sets; `NormalizeIp` says which spelling
stands for which address, so that an IPv4-mapped or zoned form is the address it
names.  A header is one line: `middleware/audit.py` (line 18) reads the first `X-Forwarded-For` line of
a request only, so the model, as the code, presumes that a proxy appends to that
line and does not add another.

State.  The clock `now`, the sorted set `bucket` and its time to live `ttl` for
each client, and `req`, what is known of each request: the address it counts as,
its own reading of the clock, and as history where it really came from and when
the script recorded it.  `admitted` is who has been let through.

Steps.  `Arrive` is the middleware: a caller sends any header over any path of
proxies, each of which appends whom it was called from.  `ReadClock` and the
script are apart, since an instance computes `now` and `window_start` itself:
readings reach Redis late and from clocks that differ by up to `MaxSkew`.  The
script runs and answers (`Evaluated`), runs without an answer (`AnswerLost`), or
does not run (`EvaluationFails`); after either failure it is tried once more with
the same arguments.  `LoseKeys` is a Redis that starts again, `SkipLimit` an
instance that has started without Redis.

What the checks show.  Within a window shortened by the skew, at most
`MaxRequests` callers of one client are let through (`WindowBound`).  Two things
are left out, and TLC finds each when they are put in: a reading that is
overtaken by time before its script runs is already old when it is recorded, and
what Redis has forgotten is not counted.  A second run does not take a second
slot, as it records the same member; it may be refused because of the slot of
the first.  `RefusalsFair`, which says that nobody is refused otherwise without
`MaxRequests` others in the window, is a theorem.

* `rate_limit`: three requests for a maximum of two, a window of three ticks, a
  skew of one, three ticks; a caller with two spellings, one proxy, passed not at
  all, once or twice, and headers that are missing, name somebody else, name a
  proxy, or cannot be read.  Three requests are the least that can pass a limit of
  two, and the window is longer than the skew by enough to hold two instants.

### LocationGate

State.  `policies` is the sequence of policies a secret has had, by
`policy_version`; `visit` is what is known of each request: where it comes from,
the link it carries, the version `authorize` returned, and what the locking
statement saw.

Steps.  `Evaluate` is `evaluate`, with `CountryForIp` for the GeoIP database,
which may be missing, or be replaced between two requests.  A text secret goes
`Authorize` -> `StartStatement` -> `View`; a file takes a look at the version
before its object is fetched (`LoadFile`) and another when it is locked.
`UpdateLocationPolicy` may come between any two.

What the checks show.  `InPlace` states what a policy is for without the code's
order of tests, and `ServedByPolicy` that nothing is shown elsewhere.  In mode
`any` a policy that lists countries lets a request of an unknown country pass
even if its network is not listed, unless it fails closed; in mode `all` such a
country counts as listed.  `InPlace` says so by the name `located`, and README.md
of the repository does not exclude it.

* `location_gate`: every policy over one network and one country, two addresses
  and the unknown one, three policies one after the other, three databases, one
  request.  A request meets others only through the policies, and two updates are
  enough to have one before and one after its decision.

### CliSession

State.  `server` and `old` are the sessions and whether their access token is
about to expire, `active` whether the account's user is, `disk` the pair in
`config.yaml`, `proc` what each process has read of it, `call` and `exch` what
each call and its exchange are doing.  A pair is named by its session, as in
`AuthSessions`; all sessions are of one account on one server.  `refused`
remembers the sessions whose token was answered with a 401, and `clean` whether
nothing has gone wrong: no process died at work, no answer to a rotation was
lost, no save failed, no two processes overlapped, and no refresh of an open
session was refused.

Steps.  A call is sent, answered or challenged; challenged or about to expire, it
waits for `refreshMu`, looks again (`UseRenewed`, `Stale`) and asks for an
exchange.  The server's two steps go on when nobody listens any more.  `Adopt` ->
`Truncate` -> `Write` is the file, which viper truncates before it writes.
`Login`, `SaveSettings` and log-out write the same file; `Start` and `Exit` are
processes, which share nothing else.  A session ends by a log-out, by an exchange,
by time or with its account; `SwitchUserActivation` ends none.  It is a toggle
that leaves the rows of sessions alone: the server refuses their tokens while the
user is not active and takes them again afterwards (`Accepted`).

What the checks show.  An exchange is asked for only with a pair that is old, was
refused or is not open (`NoNeedlessExchange`), however many calls and processes.
While `clean` holds, the one open session is the one in the file whenever nothing
is under way (`SessionKept`): failed connections, refusals of sessions that have
ended, retries and log-outs neither lose the pair nor leave a session behind.  The
refusal of an open session does: a user who is deactivated while a client
refreshes loses the pair, and after the user is activated again there is an open
session that nobody holds.  `SessionKept` names that incident and does not cover
it.

* `cli_session`: one process with two concurrent calls and another with one, two
  sessions.  Two calls of one client compete for the mutex, the second process for
  the file; two sessions are a log-in and an exchange, or two log-ins.  Longer
  chains are left to the theorems, which hold for any number.  Sessions and the
  two calls of one process are symmetric.

None of these three has fairness: their properties are safety properties.

## Proofs

All theorems are of the form `Spec => ...` for arbitrary sets of secrets, users,
requests, items, messages, addresses or calls and arbitrary bounds, under the
named assumptions on the constants that TLC evaluates in every run
(`ConstantsAssumption`, `AuthConstants`, `QuotaConstants`, `LimitConstants`, ...):
`Null` is nothing else, the sets that are counted are finite, the bounds are
natural numbers, proxies are addresses.

* `TypeCorrect` is inductive as it stands; the lemmas before it state what each
  helper returns.
* Counting.  `CountStep` sorts every action by what it does to the count, the
  state and the audit rows of one secret (`Kept`, `Born`, `Shown`, `Ended`).
  `Counted` is the inductive strengthening: it adds that a count never passes
  `max_views` and that an unborn secret has none.  `BurnedOnTime` and
  `RemovalsLogged` follow from it.
* `ShownAtMostMaxViews` needs `OnceEach`: a number that was returned has been
  counted, and the numbers on their way are counted, unreturned and distinct.
  `AtMostMaxViews` alone is not inductive, since it does not say that the next
  number is fresh.
* Keys and versions.  `TextStep` sorts every action by what it does to the text
  of one secret (`Same`, `Vanished`, `Written`, `Appended`, `Rotated`).
  `Sealed` strengthens `Readable` by `current_version = Len(versions)`, without
  which an update could repoint the row past the version it appended.
  `AlwaysReadable`, `LineageKept`, `VersionTextFixed` and `AnswersMatch` follow.
* `HistoryComplete` needs that a secret never stored has no history
  (`Untouched`) and the numbering of `OnceEach`.
* `PromiseKept` is the refinement: `Plain` (a stored version is never `Null`),
  `Sealed` and `Counted` make each step a step of `BurnAfterRead` or a stutter.
  The refinements of the other modules go the same way: the initial states map
  to initial states, every action is put down to one step of the abstract module
  or none, under the component's own invariant, and PTL does the rest.

* Files.  `ObjectInv` adds to `VersionsBacked` and `ObjectsAccounted` what makes
  them inductive: an object has one uploader and one secret, a leased or queued
  object is named by no stored version (`Leased`), and what a clean-up takes for
  abandoned is, unless its upload has overrun (`Abandoned`).  `ReplacementsInTurn` and
  `AnswersMatchCount` have strengthenings of their own about the requests that
  hold a view number or a base version.
  `BillingKept` maps the outbox row and the naming version of an object to its
  place on the bill.  That both are never there at once is `Leased`; that a
  publication starts from "absent" is `Uploading`; and that `MarkProcessed`
  settles an object which is no longer in the bucket is `Queue`.
* Accounts.  `AccountInv` is the exclusion by the row lock (who mails holds the
  row) with what is known of the code meanwhile; `LineageInv` counts, for each
  session, its successors and the requests that still hold it.  `ReplayBounded`
  needs the second because a request leaves one set as it enters the other.
  `RotationKept` needs the second as well: the session that a refresh makes is
  another one than the session it revokes, which has been open.
* Quotas.  `LedgerInv` adds `CountsCover`: what a request has counted so far
  covers every row it cannot have missed.  Without it nothing is known of the
  number that `Reconcile` writes.  Even that the counter is a natural number
  needs `ReservationsCovered`.  `BytesBilledAsKept` adds `HeldPending`: the row a
  request is about to insert is not there, and no other request will insert it,
  so that every `Store` is a publication and none revives a deleted item.
* Expiry.  `ExpiryInv` says that whoever has not lost its lock still has it
  (`Holds`), who works on what (`Roles`), and that every sentinel's event and
  every listener at work is later than `expires_at` (`NewsIsLate`).
* Notifications.  `NoteInv` weighs the copies attempt by attempt: what an attempt
  has notified, and the copies that may still make it or a later one, are at most
  one and the forks (`Counted`), and a copy's attempt is paid for with failures
  (`Tried`).  `PromiseKept` counts the copies that are a chance
  before and after each step; that only an accepted message has copies (`Fresh`)
  makes its first copy its only one.

* Rate limit.  `LimitInv` says what the sorted set has to do with who was let
  through: every recent and prompt caller is still in it (`Held`), because who
  pruned it read a clock at most the skew ahead; it never holds more than
  `MaxRequests` (`Full`).  `WindowBound` follows by counting the set at the
  moment of the last caller.  `CallersCountAsThemselves` is about the largest
  position outside the proxies in a chain of any length.
* Location.  `GateInv` keeps what `Authorize` found true of the version it
  returned, since policies are only followed by others; `EvaluateIsInPlace` is the
  agreement of `Evaluate` and `InPlace` for every policy.
* Command line.  `CliInv` has the mutex and who works alone (`Mutex`, `Running`),
  what calls and exchanges hold, and `Tidy`: whoever holds the current pair holds
  the only open session.  `SessionKept` speaks of rest only and is not inductive.
  Neither is it enough for `NoNeedlessExchange` that the token is old or its
  session over, since a refused user may be active again before the exchange:
  `refused` remembers why it is asked for.  `ClientKeepsRotation` shows that the
  rows of sessions in this module keep to `TokenRotation`, which `RotationKept`
  shows of `AuthSessions`; neither says which tokens are refused.

Proved but not checked by a run of their own, since the checked properties are
stronger or about the same step: `BurnedOnTime`, `AnswersMatch`,
`VersionTextFixed`, `RestrictedViewsKept` and `OldLinksEnd` of `SecretStoreProofs`,
`NothingIsLost` and `DuplicatesExplained` of `NotificationsProofs`, and the
theorems of the other modules that `PROJECT.json` lists without a property.
Every invariant and every action property of a passing run is proved.

Only model-checked: all liveness (`OrphansCollected`, `ReservationsEnd`,
`ExpiredGoes`, `SettledWhileLooping`), since liveness and `ENABLED` are beyond
the prover; the theorems say nothing of the violation runs.

## Observed

Two things the documentation says and the code does not do are runs of their own,
`expiry_audit` and `file_final_view`.  Others met on the way:

* README.md:253 says that earlier links are rejected after an update of the
  policy.  A retrieval whose `SELECT ... FOR UPDATE OF s` (secrets.py:250) waits
  for the row while the policy is updated still sees the version of its snapshot
  and accepts the old link; `OldLinksEnd` proves that no later statement does.
* auth.py:140 says "Old refresh token is revoked atomically".
  `refresh_token_endpoint` reads the session without a lock (auth.py:152) and
  revokes it in a later statement (auth.py:174), so two requests with one token
  both get a pair.  `ReplayBounded` says how far that goes: once for each request
  under way.
* `fallback_loop` is what remains without Redis (cleanup_service.py:338), but
  each sweep asks Redis for its lock (cleanup_service.py:152): in an outage, or
  in an instance started without Redis, nothing is deleted.
* rate_limit.py:87 says "Fail open".  That holds for an instance that started
  without Redis; an outage afterwards raises from `evalsha` and ends the request
  with status 500.  `Retry-After` is truncated to whole seconds, so a client that
  keeps to it can be refused again, and no code sets the `user_id` that
  `limiter` looks for: every limit counts by address.
* Two CLI processes that overlap hold the same refresh token.  The slower one is
  refused and clears the file, the fresh pair of the other with it; and
  `config set-url` writes back the pair it read when it started.
* Several mutations of the service end their transaction with an audit row whose
  failure is swallowed (`audit_service.log`), and with it everything the
  transaction did: a download is sent uncounted (files.py:350), and a creation or
  an update reports success for rows that are not there, with its quota committed.
  `FileObjects` has the former at every view; `QuotaLedger` does not have the
  latter, which only charges too much.
* `send_smtp` (notification_worker.py:98) gives smtplib no timeout, while
  `_send` (verification_service.py:26) does: a silent server holds the
  handler, a thread of the pool and one of the ten messages that
  `prefetch_count` allows, and ten of them stop the consumer.  A notification can
  be delivered, taken for a failure, repeated with every retry and reported as
  permanently failed (notification_worker.py:140).
* Deactivating a user leaves the rows of `sessions` as they are (admin.py:206).
  A CLI that refreshes meanwhile is answered with 401 and clears its file, and the
  session is valid again, with nobody holding it, once the user is reactivated.
* `config set-url` to another server keeps the pair of the first: the next refresh
  is refused there and clears it, and the session of the first stays open.
  `CliSession` has one server and does not follow this.
* A log-in of the CLI whose `/me` or whose save fails leaves an open session that
  nobody holds.  Log-out clears the file also when the server did not hear of it.

## Plan

Done: `SecretStore` with `BurnAfterRead`, `FileObjects`, `AuthSessions`,
`QuotaLedger`, `ExpiryCoordinator`, `Notifications`, `RateLimit`, `LocationGate`,
`CliSession`, and the abstract modules `TokenRotation`, `ObjectBilling` and
`DeliverOrReport` with their refinement theorems.  What is left, in this order:

1. `FileCrypto`: the framing of encrypted objects over bounded inputs.
2. A ledger for each user, with the administrator who replaces somebody else's
   file charged in one and billed in the other; `ObjectBilling` is the interface
   to `FileObjects`.
3. A third interface, between `SecretStore.View` and `LocationGate.View`: a view
   passes only with the version of the policy it was authorized under.
4. An abstract specification for `RateLimit` (a bounded set of admissions).

## Not modelled

The order in which the parts of a handler stand (rate limit, authentication,
policy, handler) is not composed into one specification: each part only lets a
request through or ends it, and keeps no state of another part.

Seven hazards in `PROJECT.json` have no property, each with a note.  In five the
code goes wrong and a property exempts the case by name: an upload that outlives
its lease or is undone after its commit, the leases of a removed account, a count
that is stale when it reaches Redis, a replacement by an administrator, and an
SMTP server that is silent for ever.  The over-charge after a trigger's deletion
ends with a later call of the owner, which nothing makes happen; and the sweep
that needs Redis is a limit of the liveness that `ExpiryCoordinator` shows.

Listings, statistics, HTML and QR output, tracing, logging, configuration and
schema validation change no state the properties speak of.  Cryptography is
modelled by what it guarantees.  PostgreSQL, Redis, RabbitMQ, S3 and ClamAV are
modelled from how the code uses them.
