-------------------------- MODULE FileObjectsProofs --------------------------
(***************************************************************************)
(* Theorems about FileObjects for every value of its constants.            *)
(***************************************************************************)
EXTENDS FileObjects, SequenceTheorems, TLAPS

-----------------------------------------------------------------------------
(* Type correctness *)

\* What a request holds once its pc says so.
LEMMA RequestFields ==
  ASSUME TypeOK, NEW c \in Clients
  PROVE  /\ ~At(c, "idle") => req[c].secret \in Secrets
         /\ req[c].pc \in {"uploading", "uploaded", "failing"} =>
              /\ req[c].object \in Objects
              /\ req[c].user \in Users
              /\ req[c].expected \in Nat
         /\ req[c].pc \in {"opening", "fetched"} => req[c].version \in Nat
         /\ At(c, "sending") => req[c].view \in Nat /\ req[c].counted \in BOOLEAN
         /\ req[c].pc \in {"idle", "uploading", "uploaded", "failing",
                           "opening", "fetched", "sending"}
  BY DEF TypeOK, Request, At

\* An upload moves on.
LEMMA NextPhase ==
  ASSUME TypeOK, NEW c \in Clients,
         req[c].pc \in {"uploading", "uploaded", "failing"}
  PROVE  /\ [req[c] EXCEPT !.pc = "uploaded"] \in Request
         /\ [req[c] EXCEPT !.pc = "failing"] \in Request
<1> DEFINE Carrying == [pc : {"uploading", "uploaded", "failing"},
                        secret : Secrets, object : Objects, user : Users,
                        expected : Nat]
<1>1. req[c] \in Carrying
  BY DEF TypeOK, Request
<1>2. ASSUME NEW r \in Carrying, NEW p \in {"uploading", "uploaded", "failing"}
      PROVE  [r EXCEPT !.pc = p] \in Carrying
  BY Zenon
<1>3. Carrying \subseteq Request
  BY Zenon DEF Request
<1> QED BY <1>1, <1>2, <1>3

\* A request moves to a well-typed place.
LEMMA Moved ==
  ASSUME TypeOK, NEW c \in Clients, NEW r \in Request, Goto(c, r)
  PROVE  req' \in [Clients -> Request]
  BY DEF TypeOK, Goto

LEMMA IdleIsRequest == Idle \in Request
  BY DEF Idle, Request

\* A request ends, or fails, after its commit.
LEMMA CommittedType ==
  ASSUME TypeOK, NEW c \in Clients, At(c, "uploaded"), Committed(c)
  PROVE  /\ req' \in [Clients -> Request]
         /\ unconfirmed' \in SUBSET Objects
<1>1. req[c].object \in Objects
  BY RequestFields DEF At
<1>2. [req[c] EXCEPT !.pc = "failing"] \in Request
  BY NextPhase DEF At
<1>3. unconfirmed' \in SUBSET Objects
  BY <1>1 DEF Committed, TypeOK
<1>4. req' \in [Clients -> Request]
  BY <1>2, IdleIsRequest, Moved DEF Committed
<1> QED BY <1>3, <1>4

\* The columns of a row.
LEMMA FileFields ==
  ASSUME NEW f \in File
  PROVE  /\ f.view_count \in Nat /\ f.max_views \in Nat
         /\ f.owner \in Users \cup {Null} /\ f.expired \in BOOLEAN
         /\ f.state \in {"unborn", "live", "removed", "expired"}
  BY DEF File

\* The updates the actions make to a row of secrets yield a row.
LEMMA FileUpdates ==
  ASSUME NEW f \in File
  PROVE  /\ \A n \in Nat : [f EXCEPT !.view_count = n] \in File
         /\ [f EXCEPT !.expired = TRUE] \in File
         /\ [f EXCEPT !.state = "removed"] \in File
         /\ [f EXCEPT !.state = "expired"] \in File
         /\ \A st \in {"unborn", "live", "removed", "expired"},
               o \in Users \cup {Null} :
              [f EXCEPT !.state = st, !.owner = o] \in File
<1>1. ASSUME NEW n \in Nat PROVE [f EXCEPT !.view_count = n] \in File
  BY Zenon DEF File
<1>2. [f EXCEPT !.expired = TRUE] \in File
  BY Zenon DEF File
<1>3. ASSUME NEW st \in {"unborn", "live", "removed", "expired"}
      PROVE  [f EXCEPT !.state = st] \in File
  BY Zenon DEF File
<1>4. ASSUME NEW st \in {"unborn", "live", "removed", "expired"},
             NEW o \in Users \cup {Null}
      PROVE  [f EXCEPT !.state = st, !.owner = o] \in File
  BY Zenon DEF File
<1> QED BY <1>1, <1>2, <1>3, <1>4

\* The tables that a deletion of secrets cascades to keep their types.
LEMMA DeleteTypes ==
  ASSUME TypeOK, NEW S, DeleteRows(S)
  PROVE  /\ outbox' \in [Objects -> {"none", "queued", "waiting", "processed"}]
         /\ versions' \in [Secrets -> Seq(Version)]
<1>1. outbox' \in [Objects -> {"none", "queued", "waiting", "processed"}]
  BY DEF DeleteRows, Enqueued, TypeOK
<1>2. <<>> \in Seq(Version)
  OBVIOUS
<1>3. \A s \in Secrets : versions[s] \in Seq(Version)
  BY DEF TypeOK
<1> QED BY <1>1, <1>2, <1>3 DEF DeleteRows

\* The updates a clean-up makes to its batch yield a batch.
LEMMA WorkUpdates ==
  ASSUME NEW b \in Work
  PROVE  /\ \A o \in Objects : [b EXCEPT !.deleted = o] \in Work
         /\ \A o \in Objects :
              [b EXCEPT !.deleted = Null, !.queued = @ \ {o}] \in Work
         /\ \A o \in Objects :
              [b EXCEPT !.deleted = Null, !.expired = @ \ {o}] \in Work
  BY DEF Work

\* A foreign key holds on when neither side of it changes.
LEMMA ForeignKeys ==
  ASSUME TypeOK, users' = users,
         \A s \in Secrets : files'[s].owner \in {files[s].owner, Null},
         uploader' = uploader,
         \A o \in Objects : pending'[o] # "none" => pending[o] # "none"
  PROVE  /\ \A s \in Secrets : files'[s].owner # Null =>
              users'[files'[s].owner] # "removed"
         /\ \A o \in Objects : pending'[o] # "none" =>
              uploader'[o] # Null /\ users'[uploader'[o]] # "removed"
  BY DEF TypeOK

\* The count of a view number goes up, or nothing does if there is no such view.
LEMMA SentOnce ==
  ASSUME NEW a \in [Secrets -> [1..MaxViews -> Nat]], NEW s \in Secrets,
         NEW n \in Nat
  PROVE  /\ OneMore(a, s, n) \in [Secrets -> [1..MaxViews -> Nat]]
         /\ \A r \in Secrets, m \in Nat : r # s \/ m # n => OneMore(a, s, n)[r][m] = a[r][m]
         /\ n \in 1..MaxViews => OneMore(a, s, n)[s][n] = a[s][n] + 1
<1>1. PICK f \in [1..MaxViews -> Nat] : f = a[s]
  OBVIOUS
<1>2. PICK row : row = [f EXCEPT ![n] = @ + 1]
  OBVIOUS
<1>3. OneMore(a, s, n) = [a EXCEPT ![s] = row]
  BY <1>1, <1>2 DEF OneMore
<1>4. row \in [1..MaxViews -> Nat]
  <2>1. CASE n \in 1..MaxViews
    BY <1>2, <2>1
  <2>2. CASE n \notin 1..MaxViews
    BY <1>2, <2>2
  <2> QED BY <2>1, <2>2
<1>5. /\ \A m \in Nat : m # n => row[m] = a[s][m]
      /\ n \in 1..MaxViews => row[n] = a[s][n] + 1
  BY <1>1, <1>2
<1> QED BY <1>3, <1>4, <1>5

\* Every step keeps the types; one case per action.
LEMMA FileTypeStep == TypeOK /\ [Next]_vars => TypeOK'
<1> SUFFICES ASSUME TypeOK, [Next]_vars PROVE TypeOK'
  OBVIOUS
<1> USE DEF tables, history
<1>1. ASSUME NEW c \in Clients, NEW u \in Users, NEW s \in Secrets,
             NEW o \in Objects, NEW e \in Nat, Stage(c, u, s, o, e)
      PROVE  TypeOK'
  <2>1. [pc |-> "uploading", secret |-> s, object |-> o, user |-> u,
         expected |-> e] \in Request
    BY DEF Request
  <2>2. req' \in [Clients -> Request]
    BY <1>1, <2>1, Moved DEF Stage
  <2>3. /\ pending' \in [Objects -> {"none", "held", "lapsed"}]
        /\ uploader' \in [Objects -> Users \cup {Null}]
    BY <1>1 DEF Stage, TypeOK
  <2>4. \A q \in Objects : pending'[q] # "none" =>
          uploader'[q] # Null /\ users[uploader'[q]] # "removed"
    BY <1>1, FileConstants DEF Stage, TypeOK
  <2> QED BY <1>1, <2>2, <2>3, <2>4 DEF Stage, TypeOK
<1>2. ASSUME NEW c \in Clients, NEW u \in Users, NEW s \in Secrets,
             NEW o \in Objects, CreateFile(c, u, s, o)
      PROVE  TypeOK'
  BY <1>1, <1>2 DEF CreateFile
<1>3. ASSUME NEW c \in Clients, NEW u \in Users, NEW s \in Secrets,
             NEW o \in Objects, ReplaceFile(c, u, s, o)
      PROVE  TypeOK'
  <2>1. CurrentVersion(s) \in Nat
    BY DEF CurrentVersion, TypeOK
  <2> QED BY <1>1, <1>3, <2>1 DEF ReplaceFile
<1>4. ASSUME NEW c \in Clients, Upload(c) PROVE TypeOK'
  <2>1. req' \in [Clients -> Request]
    BY <1>4, NextPhase, Moved DEF Upload, At
  <2>2. bucket' \in SUBSET Objects
    BY <1>4, RequestFields DEF Upload, At, TypeOK
  <2> QED BY <1>4, <2>1, <2>2 DEF Upload, TypeOK
<1>5. ASSUME NEW c \in Clients, NEW n \in 1..MaxViews, PublishCreate(c, n)
      PROVE  TypeOK'
  <2> DEFINE s   == req[c].secret
             u   == req[c].user
             o   == req[c].object
             row == [state |-> "live", owner |-> u, max_views |-> n,
                     view_count |-> 0, expired |-> FALSE]
             ver == [object |-> o, base |-> 0]
  <2>1. s \in Secrets /\ u \in Users /\ o \in Objects /\ u # Null
    BY <1>5, RequestFields, FileConstants DEF PublishCreate, At
  <2>2. row \in File
    BY <2>1, FileConstants DEF File
  <2>3. <<ver>> \in Seq(Version)
    <3>1. ver \in Version
      BY <2>1 DEF Version
    <3> QED BY <3>1
  <2>4. files' = [files EXCEPT ![s] = row]
    BY <1>5 DEF PublishCreate
  <2>5. versions' = [versions EXCEPT ![s] = <<ver>>]
    BY <1>5 DEF PublishCreate
  <2>6. req' \in [Clients -> Request] /\ unconfirmed' \in SUBSET Objects
    BY <1>5, CommittedType DEF PublishCreate
  <2>7. pending' \in [Objects -> {"none", "held", "lapsed"}]
    BY <1>5 DEF PublishCreate, TypeOK
  <2>8. \A q \in Objects : pending'[q] # "none" => pending[q] # "none"
    BY <1>5, <2>1 DEF PublishCreate, TypeOK
  <2>9. files' \in [Secrets -> File] /\ versions' \in [Secrets -> Seq(Version)]
    <3> HIDE DEF row, ver
    <3> QED BY <2>2, <2>3, <2>4, <2>5 DEF TypeOK
  <2>10. \A r \in Secrets : files'[r].owner # Null =>
           users[files'[r].owner] # "removed"
    BY <1>5, <2>1, <2>4 DEF PublishCreate, TypeOK
  <2>11. \A q \in Objects : pending'[q] # "none" =>
           uploader[q] # Null /\ users[uploader[q]] # "removed"
    BY <2>8 DEF TypeOK
  <2> QED BY <1>5, <2>6, <2>7, <2>9, <2>10, <2>11 DEF PublishCreate, TypeOK
<1>6. ASSUME NEW c \in Clients, PublishReplace(c) PROVE TypeOK'
  <2> DEFINE s   == req[c].secret
             o   == req[c].object
             ver == [object |-> o, base |-> req[c].expected]
  <2>1. s \in Secrets /\ o \in Objects /\ req[c].expected \in Nat
    BY <1>6, RequestFields DEF PublishReplace, At
  <2>2. Append(versions[s], ver) \in Seq(Version)
    <3>1. ver \in Version
      BY <2>1 DEF Version
    <3>2. versions[s] \in Seq(Version)
      BY <2>1 DEF TypeOK
    <3> HIDE DEF ver
    <3> QED BY <3>1, <3>2
  <2>3. versions' = [versions EXCEPT ![s] = Append(versions[s], ver)]
    BY <1>6, <2>1 DEF PublishReplace, TypeOK
  <2>4. versions' \in [Secrets -> Seq(Version)]
    <3> HIDE DEF ver
    <3> QED BY <2>2, <2>3 DEF TypeOK
  <2>5. req' \in [Clients -> Request] /\ unconfirmed' \in SUBSET Objects
    BY <1>6, CommittedType DEF PublishReplace
  <2>6. pending' \in [Objects -> {"none", "held", "lapsed"}]
    BY <1>6 DEF PublishReplace, TypeOK
  <2>7. \A q \in Objects : pending'[q] # "none" => pending[q] # "none"
    BY <1>6, <2>1 DEF PublishReplace, TypeOK
  <2> QED BY <1>6, <2>4, <2>5, <2>6, <2>7 DEF PublishReplace, TypeOK
<1>7. ASSUME NEW c \in Clients, FailUpload(c) PROVE TypeOK'
  <2>1. req' \in [Clients -> Request]
    BY <1>7, NextPhase, Moved DEF FailUpload
  <2> QED BY <1>7, <2>1 DEF FailUpload, TypeOK
<1>8. ASSUME NEW c \in Clients, Undo(c) \/ Abandon(c) PROVE TypeOK'
  <2>1. req' \in [Clients -> Request]
    BY <1>8, IdleIsRequest, Moved DEF Undo, Abandon
  <2>2. bucket' \in SUBSET Objects
    BY <1>8 DEF Undo, Abandon, TypeOK
  <2> QED BY <1>8, <2>1, <2>2 DEF Undo, Abandon, TypeOK
<1>9. ASSUME NEW c \in Clients, NEW s \in Secrets, OpenFile(c, s) PROVE TypeOK'
  <2>1. CurrentVersion(s) \in Nat
    BY DEF CurrentVersion, TypeOK
  <2>2. [pc |-> "opening", secret |-> s, version |-> CurrentVersion(s)] \in Request
    BY <2>1 DEF Request
  <2>3. req' \in [Clients -> Request]
    BY <1>9, <2>2, Moved DEF OpenFile
  <2> QED BY <1>9, <2>3 DEF OpenFile, TypeOK
<1>10. ASSUME NEW c \in Clients, Fetch(c) PROVE TypeOK'
  <2>1. [req[c] EXCEPT !.pc = "fetched"] \in Request
    <3> DEFINE Reading == [pc : {"opening", "fetched"}, secret : Secrets,
                           version : Nat]
    <3>1. req[c] \in Reading
      BY <1>10 DEF TypeOK, Request, Fetch, At
    <3>2. ASSUME NEW r \in Reading PROVE [r EXCEPT !.pc = "fetched"] \in Reading
      BY Zenon
    <3>3. Reading \subseteq Request
      BY Zenon DEF Request
    <3> QED BY <3>1, <3>2, <3>3
  <2>2. req' \in [Clients -> Request]
    BY <1>10, <2>1, Moved DEF Fetch
  <2> QED BY <1>10, <2>2 DEF Fetch, TypeOK
<1>11. ASSUME NEW c \in Clients, DownloadFile(c) PROVE TypeOK'
  <2> DEFINE s     == req[c].secret
             count == LockedCount(s) + 1
  <2>1. s \in Secrets
    BY <1>11, RequestFields DEF DownloadFile, At
  <2>2. PICK kept \in BOOLEAN :
          /\ CountView(s, count, kept)
          /\ Goto(c, [pc |-> "sending", secret |-> s, view |-> count,
                      counted |-> kept])
    BY <1>11 DEF DownloadFile, AuditOutcomes
  <2> DEFINE new == IF kept THEN count ELSE files[s].view_count
  <2>3. files[s] \in File /\ count \in Nat /\ new \in Nat
    BY <2>1, FileFields DEF TypeOK, LockedCount
  <2>4. req' \in [Clients -> Request]
    <3>1. [pc |-> "sending", secret |-> s, view |-> count, counted |-> kept] \in Request
      BY <2>1, <2>3 DEF Request
    <3> HIDE DEF s, count
    <3> QED BY <2>2, <3>1, Moved
  <2>5. files' = [files EXCEPT ![s] = [files[s] EXCEPT !.view_count = new]]
    BY <2>1, <2>2 DEF CountView, TypeOK
  <2>6. [files[s] EXCEPT !.view_count = new] \in File
    <3>1. \A n \in Nat : [files[s] EXCEPT !.view_count = n] \in File
      BY <2>3, FileUpdates
    <3> QED BY <2>3, <3>1, Zenon
  <2>7. files' \in [Secrets -> File]
    BY <2>5, <2>6, Zenon DEF TypeOK
  <2>8. \A r \in Secrets : files'[r].owner = files[r].owner
    <3>1. [files[s] EXCEPT !.view_count = new].owner = files[s].owner
      BY <2>3 DEF File
    <3> HIDE DEF new, s
    <3> QED BY <2>5, <3>1 DEF TypeOK
  <2> QED BY <1>11, <2>4, <2>7, <2>8 DEF DownloadFile, TypeOK
<1>12. ASSUME NEW c \in Clients, Send(c) PROVE TypeOK'
  <2>1. req[c].secret \in Secrets /\ req[c].view \in Nat
    BY <1>12, RequestFields DEF Send, At
  <2>2. req' \in [Clients -> Request]
    BY <1>12, IdleIsRequest, Moved DEF Send
  <2>3. PICK s \in Secrets, n \in Nat : s = req[c].secret /\ n = req[c].view
    BY <2>1
  <2>4. /\ \/ disclosed' = disclosed
           \/ disclosed' = OneMore(disclosed, s, n)
        /\ \/ uncounted' = uncounted
           \/ uncounted' = OneMore(uncounted, s, n)
    BY <1>12, <2>3 DEF Send
  <2>5. /\ disclosed \in [Secrets -> [1..MaxViews -> Nat]]
        /\ uncounted \in [Secrets -> [1..MaxViews -> Nat]]
    BY Zenon DEF TypeOK
  <2>6. /\ disclosed' \in [Secrets -> [1..MaxViews -> Nat]]
        /\ uncounted' \in [Secrets -> [1..MaxViews -> Nat]]
    <3>1. /\ OneMore(disclosed, s, n) \in [Secrets -> [1..MaxViews -> Nat]]
          /\ OneMore(uncounted, s, n) \in [Secrets -> [1..MaxViews -> Nat]]
      BY <2>5, SentOnce
    <3> QED BY <2>4, <2>5, <3>1, Zenon
  <2> QED BY <1>12, <2>2, <2>6 DEF TypeOK, Send
<1>13. ASSUME NEW s \in Secrets, NEW u \in Users, DeleteFile(u, s) PROVE TypeOK'
  <2>1. [files[s] EXCEPT !.state = "removed"] \in File
    BY FileUpdates DEF TypeOK
  <2>2. files' = [files EXCEPT ![s] = [files[s] EXCEPT !.state = "removed"]]
    BY <1>13 DEF DeleteFile, TypeOK
  <2>3. files' \in [Secrets -> File]
    BY <2>1, <2>2, Zenon DEF TypeOK
  <2>4. \A r \in Secrets : files'[r].owner = files[r].owner
    <3>1. [files[s] EXCEPT !.state = "removed"].owner = files[s].owner
      BY DEF File, TypeOK
    <3> QED BY <2>2, <3>1 DEF TypeOK
  <2> QED BY <1>13, <2>3, <2>4, DeleteTypes DEF DeleteFile, TypeOK
<1>14. ASSUME NEW s \in Secrets, ExpireFile(s) PROVE TypeOK'
  <2>1. [files[s] EXCEPT !.state = "expired"] \in File
    BY FileUpdates DEF TypeOK
  <2>2. files' = [files EXCEPT ![s] = [files[s] EXCEPT !.state = "expired"]]
    BY <1>14 DEF ExpireFile, TypeOK
  <2>3. files' \in [Secrets -> File]
    BY <2>1, <2>2, Zenon DEF TypeOK
  <2>4. \A r \in Secrets : files'[r].owner = files[r].owner
    <3>1. [files[s] EXCEPT !.state = "expired"].owner = files[s].owner
      BY DEF File, TypeOK
    <3> QED BY <2>2, <3>1 DEF TypeOK
  <2> QED BY <1>14, <2>3, <2>4, DeleteTypes DEF ExpireFile, TypeOK
<1>15. ASSUME Sweep PROVE TypeOK'
  <2> DEFINE U == {u \in Users : users[u] = "due"}
             S == {s \in Secrets : /\ Live(s)
                     /\ \/ files[s].expired
                        \/ files[s].view_count >= files[s].max_views}
  <2>1. ASSUME NEW s \in Secrets
        PROVE  /\ files'[s] \in File
               /\ files'[s].owner # Null => users'[files'[s].owner] # "removed"
    <3> DEFINE st == IF s \in S THEN "expired" ELSE files[s].state
               o  == IF files[s].owner \in U THEN Null ELSE files[s].owner
    <3>1. files[s] \in File
      BY DEF TypeOK
    <3>2. /\ st \in {"unborn", "live", "removed", "expired"}
          /\ o \in Users \cup {Null}
      BY <3>1, FileFields
    <3>3. [files[s] EXCEPT !.state = st, !.owner = o] \in File
      BY <3>1, <3>2, FileUpdates
    <3>4. files'[s] = [files[s] EXCEPT !.state = st, !.owner = o]
      BY <1>15 DEF Sweep
    <3>5. files'[s].owner = o
      BY <3>1, <3>4 DEF File
    <3>6. o # Null => o \in Users /\ o \notin U /\ users[o] # "removed"
      BY <3>1, FileFields DEF TypeOK
    <3>7. users' = [u \in Users |-> IF u \in U THEN "removed" ELSE users[u]]
      BY <1>15 DEF Sweep
    <3> HIDE DEF o, U
    <3> QED BY <3>3, <3>4, <3>5, <3>6, <3>7
  <2>2. files' \in [Secrets -> File]
    BY <1>15, <2>1 DEF Sweep
  <2>3. DeleteRows(S)
    BY <1>15 DEF Sweep
  <2>4. /\ users' \in [Users -> {"active", "due", "removed"}]
        /\ pending' \in [Objects -> {"none", "held", "lapsed"}]
    BY <1>15 DEF Sweep, LeasesWithout, TypeOK
  <2>5. \A o \in Objects : pending'[o] # "none" =>
          uploader'[o] # Null /\ users'[uploader'[o]] # "removed"
    BY <1>15 DEF Sweep, LeasesWithout, TypeOK
  <2> HIDE DEF S
  <2> QED BY <1>15, <2>1, <2>2, <2>3, <2>4, <2>5, DeleteTypes DEF Sweep, TypeOK
<1>16. ASSUME NEW u \in Users, SwitchUserActivation(u) PROVE TypeOK'
  BY <1>16 DEF SwitchUserActivation, TypeOK, File
<1>17. ASSUME NEW s \in Secrets, Elapse(s) PROVE TypeOK'
  <2>1. [files[s] EXCEPT !.expired = TRUE] \in File
    BY FileUpdates DEF TypeOK
  <2>2. files' = [files EXCEPT ![s] = [files[s] EXCEPT !.expired = TRUE]]
    BY <1>17 DEF Elapse, TypeOK
  <2>3. files' \in [Secrets -> File]
    BY <2>1, <2>2, Zenon DEF TypeOK
  <2>4. \A r \in Secrets : files'[r].owner = files[r].owner
    <3>1. [files[s] EXCEPT !.expired = TRUE].owner = files[s].owner
      BY DEF File, TypeOK
    <3> QED BY <2>2, <3>1 DEF TypeOK
  <2> QED BY <1>17, <2>3, <2>4 DEF Elapse, TypeOK
<1>18. ASSUME NEW o \in Objects, LeaseLapses(o) \/ BackoffOver(o) PROVE TypeOK'
  BY <1>18 DEF LeaseLapses, BackoffOver, TypeOK
<1>19. ASSUME NEW w \in Workers, CleanupStep(w) PROVE TypeOK'
  <2>1. work' \in [Workers -> Work]
    <3>1. /\ work[w] \in Work
          /\ \A o \in Objects : [work[w] EXCEPT !.deleted = o] \in Work
          /\ \A o \in Objects : [work[w] EXCEPT !.deleted = Null,
                                   !.queued = @ \ {o}] \in Work
          /\ \A o \in Objects : [work[w] EXCEPT !.deleted = Null,
                                   !.expired = @ \ {o}] \in Work
          /\ AtRest \in Work
          /\ [queued |-> {o \in Objects : outbox[o] = "queued"},
              expired |-> DueLeases, deleted |-> Null] \in Work
      BY WorkUpdates DEF TypeOK, AtRest, Work, DueLeases
    <3>2. work[w].queued \subseteq Objects /\ work[w].expired \subseteq Objects
      BY <3>1 DEF Work
    <3>3. PICK b \in Work : work' = [work EXCEPT ![w] = b]
      <4>1. CASE StartCleanup(w)
        BY <3>1, <4>1 DEF StartCleanup
      <4>2. ASSUME NEW o \in Objects, DeleteQueued(w, o) \/ DeletePending(w, o)
            PROVE  \E b \in Work : work' = [work EXCEPT ![w] = b]
        <5>1. work' = [work EXCEPT ![w] = [work[w] EXCEPT !.deleted = o]]
          BY <4>2 DEF DeleteQueued, DeletePending, TypeOK
        <5> QED BY <3>1, <5>1
      <4>3. ASSUME NEW o \in Objects, work' = [work EXCEPT ![w].deleted = Null,
                                                     ![w].queued = @ \ {o}]
            PROVE  \E b \in Work : work' = [work EXCEPT ![w] = b]
        <5>1. work' = [work EXCEPT ![w] = [work[w] EXCEPT !.deleted = Null,
                                             !.queued = @ \ {o}]]
          BY <4>3 DEF TypeOK
        <5> QED BY <3>1, <5>1
      <4>4. ASSUME NEW o \in Objects, work' = [work EXCEPT ![w].deleted = Null,
                                                     ![w].expired = @ \ {o}]
            PROVE  \E b \in Work : work' = [work EXCEPT ![w] = b]
        <5>1. work' = [work EXCEPT ![w] = [work[w] EXCEPT !.deleted = Null,
                                             !.expired = @ \ {o}]]
          BY <4>4 DEF TypeOK
        <5> QED BY <3>1, <5>1
      <4>5. CASE CrashCleanup(w)
        BY <3>1, <4>5 DEF CrashCleanup
      <4> QED BY <1>19, <3>2, <4>1, <4>2, <4>3, <4>4, <4>5
              DEF CleanupStep, MarkProcessed, Retry, ForgetPending, SkipPending
    <3> QED BY <3>3 DEF TypeOK
  <2>2. /\ bucket' \in SUBSET Objects
        /\ outbox' \in [Objects -> {"none", "queued", "waiting", "processed"}]
        /\ pending' \in [Objects -> {"none", "held", "lapsed"}]
        /\ \A o \in Objects : pending'[o] # "none" => pending[o] # "none"
    BY <1>19 DEF CleanupStep, StartCleanup, DeleteQueued, MarkProcessed,
       Retry, DueAgain, DeletePending, ForgetPending, SkipPending, CrashCleanup, TypeOK
  <2>3. UNCHANGED <<files, versions, users, uploader, req, disclosed, history>>
    BY <1>19 DEF CleanupStep, StartCleanup, DeleteQueued, MarkProcessed,
       Retry, DeletePending, ForgetPending, SkipPending, CrashCleanup
  <2> QED BY <2>1, <2>2, <2>3 DEF TypeOK
<1>20. CASE UNCHANGED vars
  BY <1>20 DEF vars, TypeOK
<1> QED
  BY <1>2, <1>3, <1>4, <1>5, <1>6, <1>7, <1>8, <1>9, <1>10, <1>11, <1>12, <1>13,
     <1>14, <1>15, <1>16, <1>17, <1>18, <1>19, <1>20
     DEF Next, UploadStep, DownloadStep, SystemStep

\* Every reachable state is well typed, and no row refers to a removed account.
THEOREM FileTypeCorrect == Spec => []TypeOK
<1>1. Init => TypeOK
  BY FileConstants DEF Init, TypeOK, File, Idle, Request, AtRest, Work
<1>2. TypeOK /\ [Next]_vars => TypeOK'
  BY FileTypeStep
<1> QED BY <1>1, <1>2, PTL DEF Spec

-----------------------------------------------------------------------------
(* The inductive invariants *)

\* An object key that was never used is nowhere.
Unused(o) ==
  /\ pending[o] = "none" /\ outbox[o] = "none" /\ o \notin bucket /\ ~Named(o)
  /\ \A c \in Clients : ~Uploads(c, o)
  /\ \A w \in Workers : o \notin work[w].queued /\ o \notin work[w].expired

Fresh == \A o \in Objects : uploader[o] = Null => Unused(o)

\* One request uploads an object, and one secret names it.
OneUpload ==
  \A o \in Objects : \A c, d \in Clients : Uploads(c, o) /\ Uploads(d, o) => c = d

OneName ==
  \A o \in Objects : \A s, r \in Secrets : Holds(s, o) /\ Holds(r, o) => s = r

\* What is deleted or was never created has no versions.
Gone == \A s \in Secrets : ~Live(s) => versions[s] = <<>>

\* A leased object is neither published nor queued; what is queued is not
\* published; one that is still uploaded under a lapsed lease has overrun.
Leased ==
  \A o \in Objects :
    /\ pending[o] # "none" => outbox[o] = "none" /\ ~Named(o)
    /\ outbox[o] # "none" => ~Named(o)
    /\ pending[o] = "lapsed" => \A c \in Clients : Uploads(c, o) => o \in overran

\* An object on its way is not published, and once it is uploaded it stays.
Uploading ==
  \A o \in Objects : \A c \in Clients : Uploads(c, o) =>
    /\ ~At(c, "failing") => outbox[o] = "none" /\ ~Named(o)
    /\ At(c, "uploaded") => o \in bucket \cup overran
    /\ At(c, "failing") => (Named(o) => o \in unconfirmed)

\* A queued object is deleted for good.
Queue ==
  \A o \in Objects :
    /\ outbox[o] = "processed" => o \notin bucket
    /\ \A w \in Workers : o \in work[w].queued =>
         /\ outbox[o] # "none"
         /\ o \notin work[w].expired
         /\ work[w].deleted = o => o \notin bucket

\* An object that a clean-up takes for abandoned is, unless it has overrun.
Abandoned ==
  \A o \in Objects : \A w \in Workers : o \in work[w].expired =>
    /\ Named(o) => o \in overran
    /\ \A c \in Clients : Uploads(c, o) => o \in overran
    /\ work[w].deleted = o => o \notin bucket \/ o \in overran

\* Whatever is in the bucket or on its way there is remembered.
Kept ==
  \A o \in Objects : (o \in bucket \/ \E c \in Clients : Uploads(c, o)) =>
    \/ pending[o] # "none"
    \/ Named(o)
    \/ outbox[o] # "none"
    \/ Forgotten(o)

ObjectInv ==
  /\ TypeOK /\ Fresh /\ OneUpload /\ OneName /\ Gone /\ Leased /\ Uploading
  /\ Queue /\ Abandoned /\ Kept /\ VersionsBacked

\* An upload in flight was admitted below the limit on versions.
Admitted ==
  \A c \in Clients : req[c].pc \in {"uploading", "uploaded"} =>
    req[c].expected < MAX_SECRET_VERSIONS

\* Nothing was ever sent, or is about to be, for a secret not yet created.
Untold ==
  \A s \in Secrets : files[s].state = "unborn" =>
    /\ \A n \in 1..MaxViews : disclosed[s][n] = 0 /\ uncounted[s][n] = 0
    /\ \A c \in Clients : ~(At(c, "sending") /\ req[c].secret = s)

-----------------------------------------------------------------------------
(* Steps, as the objects see them *)

Phases == {"uploading", "uploaded", "failing"}

\* The requests that upload are the same, in the same phases.
SameUploads ==
  \A c \in Clients :
    /\ req'[c].pc \in Phases <=> req[c].pc \in Phases
    /\ req[c].pc \in Phases => req'[c] = req[c]

SameObjects == UNCHANGED <<versions, pending, uploader, outbox, bucket, work,
                           overran, unconfirmed>>

AccountsStay == \A u \in Users : users[u] = "removed" => users'[u] = "removed"

RowsStay == \A s \in Secrets : Live(s) => Live(s)'

\* What stays when the uploads do.
LEMMA UploadsKept ==
  ASSUME SameUploads, NEW c \in Clients, NEW o \in Objects
  PROVE  /\ Uploads(c, o)' <=> Uploads(c, o)
         /\ Uploads(c, o) => /\ At(c, "uploaded")' <=> At(c, "uploaded")
                             /\ At(c, "failing")' <=> At(c, "failing")
  BY DEF SameUploads, Phases, Uploads, At

\* What stays when the versions do.
LEMMA NamesKept ==
  ASSUME versions' = versions, NEW o \in Objects
  PROVE  /\ Named(o)' <=> Named(o)
         /\ \A s \in Secrets : Holds(s, o)' <=> Holds(s, o)
  BY DEF Named, Holds

\* Reads, edits of other tables and the clock change nothing here.
LEMMA QuietStep ==
  ASSUME ObjectInv, TypeOK', SameUploads, SameObjects, AccountsStay, RowsStay
  PROVE  ObjectInv'
<1> USE DEF SameObjects, history
<1>0. TypeOK /\ TypeOK'
  BY DEF ObjectInv
<1>1. /\ \A c \in Clients, o \in Objects : Uploads(c, o)' <=> Uploads(c, o)
      /\ \A c \in Clients, o \in Objects : Uploads(c, o) =>
           /\ At(c, "uploaded")' <=> At(c, "uploaded")
           /\ At(c, "failing")' <=> At(c, "failing")
      /\ \A o \in Objects : Named(o)' <=> Named(o)
      /\ \A o \in Objects, s \in Secrets : Holds(s, o)' <=> Holds(s, o)
  BY UploadsKept, NamesKept
<1>2. Fresh'
  BY <1>1 DEF ObjectInv, Fresh, Unused
<1>3. OneUpload' /\ OneName'
  BY <1>1 DEF ObjectInv, OneUpload, OneName
<1>4. Gone'
  BY <1>1 DEF ObjectInv, Gone, RowsStay
<1>5. Leased' /\ Queue' /\ Abandoned'
  BY <1>1 DEF ObjectInv, Leased, Queue, Abandoned
<1>6. Uploading'
  BY <1>1 DEF ObjectInv, Uploading
<1>7. Kept'
  BY <1>0, <1>1 DEF ObjectInv, Kept, Forgotten, AccountsStay, TypeOK
<1>8. VersionsBacked'
  BY <1>0 DEF ObjectInv, VersionsBacked, Gone, RowsStay
<1> QED BY <1>0, <1>2, <1>3, <1>4, <1>5, <1>6, <1>7, <1>8 DEF ObjectInv

\* What one request's move shows of the uploads.
LEMMA UploadsMoved ==
  ASSUME TypeOK, NEW c \in Clients, NEW r, Goto(c, r), NEW d \in Clients
  PROVE  /\ \A p : At(d, p)' <=> IF d = c THEN r.pc = p ELSE At(d, p)
         /\ \A o \in Objects :
              Uploads(d, o)' <=> IF d = c THEN r.pc \in Phases /\ r.object = o
                                          ELSE Uploads(d, o)
  BY DEF TypeOK, Goto, At, Uploads, Phases

\* A lease is taken on an unused object.
LEMMA StageStep ==
  ASSUME ObjectInv, TypeOK', NEW c \in Clients, NEW u \in Users,
         NEW s \in Secrets, NEW o \in Objects, NEW e \in Nat, Stage(c, u, s, o, e)
  PROVE  ObjectInv'
<1> USE DEF history
<1>0. TypeOK /\ TypeOK'
  BY DEF ObjectInv
<1>1. Unused(o)
  BY DEF ObjectInv, Fresh, Stage
<1>2. /\ \A d \in Clients, q \in Objects :
           Uploads(d, q)' <=> IF d = c THEN q = o ELSE Uploads(d, q)
      /\ \A d \in Clients :
           /\ At(d, "uploaded")' <=> d # c /\ At(d, "uploaded")
           /\ At(d, "failing")' <=> d # c /\ At(d, "failing")
  BY <1>0, UploadsMoved DEF Stage, Phases
<1>3. /\ \A q \in Objects : Named(q)' <=> Named(q)
      /\ \A q \in Objects, t \in Secrets : Holds(t, q)' <=> Holds(t, q)
  BY NamesKept DEF Stage
<1>4. /\ \A q \in Objects : pending'[q] = IF q = o THEN "held" ELSE pending[q]
      /\ \A q \in Objects : uploader'[q] = IF q = o THEN u ELSE uploader[q]
      /\ u # Null
      /\ UNCHANGED <<files, versions, users, outbox, bucket, work, history>>
  BY <1>0, FileConstants DEF Stage, TypeOK
<1>5. \A d \in Clients : ~Uploads(d, o)
  BY <1>1 DEF Unused
<1>6. Fresh'
  BY <1>1, <1>2, <1>3, <1>4 DEF ObjectInv, Fresh, Unused
<1>7. OneUpload' /\ OneName'
  BY <1>2, <1>3, <1>5 DEF ObjectInv, OneUpload, OneName
<1>8. Gone' /\ VersionsBacked'
  BY <1>4 DEF ObjectInv, Gone, VersionsBacked, Live
<1>9. Leased' /\ Queue' /\ Abandoned'
  BY <1>1, <1>2, <1>3, <1>4 DEF ObjectInv, Leased, Queue, Abandoned, Unused
<1>10. Uploading'
  BY <1>1, <1>2, <1>3, <1>4 DEF ObjectInv, Uploading, Unused
<1>11. Kept'
  <2>1. ASSUME NEW q \in Objects, q # o PROVE Forgotten(q)' <=> Forgotten(q)
    BY <1>4, <2>1 DEF Forgotten
  <2> QED BY <1>2, <1>3, <1>4, <2>1 DEF ObjectInv, Kept
<1> QED BY <1>0, <1>6, <1>7, <1>8, <1>9, <1>10, <1>11 DEF ObjectInv

\* The object of an upload arrives, or the upload fails.
LEMMA PhaseStep ==
  ASSUME ObjectInv, TypeOK', NEW c \in Clients, Upload(c) \/ FailUpload(c)
  PROVE  ObjectInv'
<1> USE DEF history, tables
<1>o. PICK o : o = req[c].object
  OBVIOUS
<1>0. TypeOK /\ TypeOK' /\ o \in Objects /\ Uploads(c, o)
  BY <1>o, RequestFields DEF ObjectInv, Upload, FailUpload, At, Uploads
<1>1. \A d \in Clients, q \in Objects : Uploads(d, q)' <=> Uploads(d, q)
  <2>1. PICK p \in {"uploaded", "failing"} : Goto(c, [req[c] EXCEPT !.pc = p])
    BY DEF Upload, FailUpload
  <2>2. req[c].pc \in Phases
    BY DEF Upload, FailUpload, At, Phases
  <2>3. /\ [req[c] EXCEPT !.pc = p].pc \in Phases
        /\ [req[c] EXCEPT !.pc = p].object = req[c].object
    BY <1>0, <2>2 DEF TypeOK, Request, Phases
  <2>4. PICK r : r = [req[c] EXCEPT !.pc = p]
    OBVIOUS
  <2>5. Goto(c, r) /\ r.pc \in Phases /\ r.object = req[c].object
    BY <2>1, <2>3, <2>4
  <2>6. \A q \in Objects : Uploads(c, q) <=> req[c].object = q
    BY <2>2 DEF Uploads, Phases
  <2>7. \A d \in Clients, q \in Objects :
          Uploads(d, q)' <=> IF d = c THEN r.pc \in Phases /\ r.object = q
                                      ELSE Uploads(d, q)
    BY <1>0, <2>5, UploadsMoved
  <2> QED BY <2>5, <2>6, <2>7
<1>2. \A d \in Clients : d # c =>
        /\ At(d, "uploaded")' <=> At(d, "uploaded")
        /\ At(d, "failing")' <=> At(d, "failing")
  BY <1>0 DEF Upload, FailUpload, Goto, At, TypeOK
<1>3. /\ At(c, "uploaded")' => Upload(c)
      /\ ~At(c, "failing")
  BY <1>0, SMTT(30) DEF Upload, FailUpload, Goto, At, TypeOK, Request
<1>4. /\ \A q \in Objects : Named(q)' <=> Named(q)
      /\ \A q \in Objects, t \in Secrets : Holds(t, q)' <=> Holds(t, q)
  BY NamesKept DEF Upload, FailUpload
<1>5. /\ bucket' = IF Upload(c) THEN bucket \cup {o} ELSE bucket
      /\ UNCHANGED <<tables, uploader, work, history>>
  BY <1>o DEF Upload, FailUpload, At
<1>6. outbox[o] = "none" /\ ~Named(o) /\ uploader[o] # Null
  BY <1>0, <1>3 DEF ObjectInv, Uploading, Fresh, Unused
<1>7. \A d \in Clients : Uploads(d, o) => d = c
  BY <1>0 DEF ObjectInv, OneUpload
<1>8. Fresh'
  BY <1>1, <1>4, <1>5, <1>6 DEF ObjectInv, Fresh, Unused
<1>9. OneUpload' /\ OneName' /\ Gone'
  BY <1>1, <1>4, <1>5 DEF ObjectInv, OneUpload, OneName, Gone, Live
<1>10. VersionsBacked'
  BY <1>5 DEF ObjectInv, VersionsBacked, Live
<1>11. Leased'
  BY <1>0, <1>1, <1>4, <1>5 DEF ObjectInv, Leased
<1>12. Queue' /\ Abandoned'
  BY <1>0, <1>1, <1>4, <1>5, <1>6 DEF ObjectInv, Queue, Abandoned
<1>13. Uploading'
  <2>1. ASSUME NEW q \in Objects, NEW d \in Clients, d # c, Uploads(d, q)
        PROVE  /\ ~At(d, "failing") => outbox[q] = "none" /\ ~Named(q)
               /\ At(d, "uploaded") => q \in bucket \cup overran
               /\ At(d, "failing") => (Named(q) => q \in unconfirmed)
    BY <2>1 DEF ObjectInv, Uploading
  <2>2. \A q \in Objects : Uploads(c, q) => q = o
    BY <1>o DEF Uploads
  <2>3. bucket \subseteq bucket'
    BY <1>5
  <2>4. ASSUME NEW q \in Objects, NEW d \in Clients, d # c, Uploads(d, q)'
        PROVE  /\ ~At(d, "failing")' => outbox'[q] = "none" /\ ~Named(q)'
               /\ At(d, "uploaded")' => q \in bucket' \cup overran'
               /\ At(d, "failing")' => (Named(q)' => q \in unconfirmed')
    BY <1>1, <1>2, <1>4, <1>5, <2>1, <2>3, <2>4
  <2>5. /\ outbox'[o] = "none" /\ ~Named(o)'
        /\ At(c, "uploaded")' => o \in bucket'
    BY <1>0, <1>3, <1>4, <1>5, <1>6
  <2> QED BY <1>1, <2>2, <2>4, <2>5 DEF Uploading
<1>14. Kept'
  BY <1>0, <1>1, <1>4, <1>5 DEF ObjectInv, Kept, Forgotten
<1> QED BY <1>0, <1>8, <1>9, <1>10, <1>11, <1>12, <1>13, <1>14 DEF ObjectInv

\* A request ends; it may have taken its unpublished object out of the bucket.
LEMMA ReleaseStep ==
  ASSUME ObjectInv, TypeOK', NEW c \in Clients, Undo(c) \/ Abandon(c)
  PROVE  ObjectInv'
<1> USE DEF history, tables
<1> DEFINE o == req[c].object
<1>0. TypeOK /\ TypeOK'
  BY DEF ObjectInv
<1>1. /\ \A d \in Clients, q \in Objects : Uploads(d, q)' <=> d # c /\ Uploads(d, q)
      /\ \A d \in Clients :
           /\ At(d, "uploaded")' <=> d # c /\ At(d, "uploaded")
           /\ At(d, "failing")' <=> d # c /\ At(d, "failing")
  BY <1>0, UploadsMoved DEF Undo, Abandon, Idle, Phases
<1>2. /\ \A q \in Objects : Named(q)' <=> Named(q)
      /\ \A q \in Objects, t \in Secrets : Holds(t, q)' <=> Holds(t, q)
  BY NamesKept DEF Undo, Abandon
<1>3. /\ bucket' \in {bucket, bucket \ {o}}
      /\ bucket' # bucket => /\ o \in Objects /\ Uploads(c, o)
                             /\ Named(o) => o \in unconfirmed
      /\ UNCHANGED <<tables, uploader, work, history>>
  <2>1. CASE Abandon(c)
    BY <2>1 DEF Abandon
  <2>2. CASE Undo(c)
    <3>1. o \in Objects /\ Uploads(c, o) /\ At(c, "failing")
      BY <1>0, <2>2, RequestFields DEF Undo, At, Uploads
    <3>2. Named(o) => o \in unconfirmed
      BY <3>1 DEF ObjectInv, Uploading
    <3> QED BY <2>2, <3>1, <3>2 DEF Undo
  <2> QED BY <2>1, <2>2
<1>4. \A d \in Clients : bucket' # bucket /\ Uploads(d, o) => d = c
  BY <1>3 DEF ObjectInv, OneUpload
<1> HIDE DEF o
<1>5. Fresh'
  BY <1>1, <1>2, <1>3 DEF ObjectInv, Fresh, Unused
<1>6. OneUpload' /\ OneName' /\ Gone'
  BY <1>1, <1>2, <1>3 DEF ObjectInv, OneUpload, OneName, Gone, Live
<1>7. Leased' /\ Queue' /\ Abandoned'
  BY <1>1, <1>2, <1>3 DEF ObjectInv, Leased, Queue, Abandoned
<1>8. Uploading'
  BY <1>1, <1>2, <1>3, <1>4 DEF ObjectInv, Uploading
<1>9. Kept'
  BY <1>1, <1>2, <1>3 DEF ObjectInv, Kept, Forgotten
<1>10. VersionsBacked'
  <2>1. ASSUME NEW s \in Secrets, NEW v \in 1..Len(versions[s]),
               versions[s][v].object = o
        PROVE  Named(o)
    BY <2>1 DEF Named, Holds
  <2> QED BY <1>3, <2>1 DEF ObjectInv, VersionsBacked, Live
<1> QED BY <1>0, <1>5, <1>6, <1>7, <1>8, <1>9, <1>10 DEF ObjectInv

\* A new version names its object, and nothing else is named or forgotten.
LEMMA VersionNamed ==
  ASSUME TypeOK, NEW o \in Objects, NEW s \in Secrets, NEW v \in Version,
         v.object = o, versions' = [versions EXCEPT ![s] = Append(versions[s], v)]
  PROVE  /\ \A t \in Secrets, q \in Objects :
              Holds(t, q)' <=> Holds(t, q) \/ (t = s /\ q = o)
         /\ \A q \in Objects : Named(q)' <=> Named(q) \/ q = o
<1>1. \A t \in Secrets : Len(versions[t]) \in Nat /\ versions[t] \in Seq(Version)
  BY DEF TypeOK
<1>2. ASSUME NEW t \in Secrets, NEW q \in Objects, t # s
      PROVE  Holds(t, q)' <=> Holds(t, q)
  BY <1>2 DEF Holds, TypeOK
<1>3. /\ Len(versions'[s]) = Len(versions[s]) + 1
      /\ \A i \in 1..Len(versions[s]) : versions'[s][i] = versions[s][i]
      /\ versions'[s][Len(versions[s]) + 1] = v
  BY <1>1 DEF TypeOK
<1>4. ASSUME NEW q \in Objects PROVE Holds(s, q)' <=> Holds(s, q) \/ q = o
  BY <1>1, <1>3 DEF Holds
<1> QED BY <1>2, <1>4 DEF Named

\* The transaction that commits version v of s, which names the object o.
Publishes(c, o, s, v) ==
  /\ At(c, "uploaded") /\ o = req[c].object /\ v.object = o
  /\ versions' = [versions EXCEPT ![s] = Append(versions[s], v)]
  /\ \A r \in Secrets : Live(r)' <=> r = s \/ Live(r)
  /\ pending' = [pending EXCEPT ![o] = "none"]
  /\ Committed(c)
  /\ UNCHANGED <<users, uploader, outbox, bucket, work, overran, uncounted>>

\* A version that names the uploaded object is committed, and its lease ends.
LEMMA PublishStep ==
  ASSUME ObjectInv, TypeOK', NEW c \in Clients, NEW o \in Objects,
         NEW s \in Secrets, NEW v \in Version, Publishes(c, o, s, v)
  PROVE  ObjectInv'
<1> USE DEF Publishes
<1>0. TypeOK /\ TypeOK' /\ Uploads(c, o)
  BY DEF ObjectInv, At, Uploads
<1>1. /\ outbox[o] = "none" /\ ~Named(o) /\ uploader[o] # Null
      /\ o \in bucket \cup overran
      /\ \A d \in Clients : Uploads(d, o) => d = c
  BY <1>0 DEF ObjectInv, Uploading, Fresh, Unused, OneUpload, At
<1>2. /\ \A d \in Clients, q \in Objects :
           Uploads(d, q)' => Uploads(d, q) /\ (d = c => o \in unconfirmed' /\ q = o)
      /\ \A d \in Clients : d # c => \A q \in Objects :
           Uploads(d, q)' <=> Uploads(d, q)
      /\ \A d \in Clients :
           /\ d # c => (At(d, "uploaded")' <=> At(d, "uploaded"))
           /\ d # c => (At(d, "failing")' <=> At(d, "failing"))
      /\ ~At(c, "uploaded")'
      /\ \A q \in Objects : Uploads(c, q)' => At(c, "failing")'
      /\ unconfirmed \subseteq unconfirmed'
  <2>1. CASE Goto(c, Idle) /\ UNCHANGED unconfirmed
    BY <1>0, <2>1, UploadsMoved DEF Idle, Phases
  <2>2. CASE /\ Goto(c, [req[c] EXCEPT !.pc = "failing"])
             /\ unconfirmed' = unconfirmed \cup {req[c].object}
    <3>1. PICK r : r = [req[c] EXCEPT !.pc = "failing"]
      OBVIOUS
    <3>2. Goto(c, r) /\ r.pc = "failing" /\ r.object = o
      BY <1>0, <2>2, <3>1 DEF TypeOK, Request, At
    <3>3. \A d \in Clients :
            /\ \A p : At(d, p)' <=> IF d = c THEN r.pc = p ELSE At(d, p)
            /\ \A q \in Objects :
                 Uploads(d, q)' <=> IF d = c THEN r.pc \in Phases /\ r.object = q
                                             ELSE Uploads(d, q)
      BY <1>0, <3>2, UploadsMoved
    <3> QED BY <1>0, <2>2, <3>2, <3>3
  <2> QED BY <2>1, <2>2 DEF Committed
<1>3. \A t \in Secrets : Len(versions[t]) \in Nat /\ versions[t] \in Seq(Version)
  BY <1>0 DEF TypeOK
<1>4. \A t \in Secrets, q \in Objects :
        Holds(t, q)' <=> Holds(t, q) \/ (t = s /\ q = o)
  BY <1>0, VersionNamed
<1>5. \A q \in Objects : Named(q)' <=> Named(q) \/ q = o
  BY <1>0, VersionNamed
<1>6. /\ \A q \in Objects : pending'[q] = IF q = o THEN "none" ELSE pending[q]
  BY <1>0 DEF TypeOK
<1>7. Fresh'
  BY <1>1, <1>2, <1>5, <1>6 DEF ObjectInv, Fresh, Unused
<1>8. OneUpload'
  BY <1>2 DEF ObjectInv, OneUpload
<1>9. OneName'
  <2>1. \A t \in Secrets : ~Holds(t, o)
    BY <1>1 DEF Named
  <2> QED BY <1>4, <2>1 DEF ObjectInv, OneName
<1>10. Gone'
  BY <1>0 DEF ObjectInv, Gone, TypeOK
<1>11. Leased'
  BY <1>1, <1>2, <1>5, <1>6 DEF ObjectInv, Leased
<1>12. Queue'
  BY <1>1, <1>2 DEF ObjectInv, Queue
<1>13. Abandoned'
  <2>1. ASSUME NEW w \in Workers, o \in work[w].expired PROVE o \in overran
    BY <1>0, <2>1 DEF ObjectInv, Abandoned
  <2> QED BY <1>2, <1>5, <2>1 DEF ObjectInv, Abandoned
<1>14. Uploading'
  BY <1>1, <1>2, <1>5 DEF ObjectInv, Uploading
<1>15. Kept'
  BY <1>2, <1>5, <1>6 DEF ObjectInv, Kept, Forgotten
<1>16. VersionsBacked'
  <2>1. ASSUME NEW t \in Secrets, t # s, Live(t)',
               NEW i \in 1..Len(versions'[t])
        PROVE  versions'[t][i].object \in bucket \cup overran \cup unconfirmed
    BY <1>0, <2>1 DEF ObjectInv, VersionsBacked, TypeOK
  <2>2. /\ Len(versions'[s]) = Len(versions[s]) + 1
        /\ \A i \in 1..Len(versions[s]) : versions'[s][i] = versions[s][i]
        /\ versions'[s][Len(versions[s]) + 1] = v
    BY <1>0, <1>3 DEF TypeOK
  <2>3. \A i \in 1..Len(versions[s]) :
          versions[s][i].object \in bucket \cup overran \cup unconfirmed
    <3>1. CASE Live(s)
      BY <3>1 DEF ObjectInv, VersionsBacked
    <3>2. CASE ~Live(s)
      BY <3>2 DEF ObjectInv, Gone
    <3> QED BY <3>1, <3>2
  <2>4. ASSUME NEW i \in 1..Len(versions'[s])
        PROVE  versions'[s][i].object \in bucket \cup overran \cup unconfirmed
    BY <1>1, <1>3, <2>2, <2>3, <2>4
  <2> QED BY <1>2, <2>1, <2>4 DEF VersionsBacked
<1> QED BY <1>0, <1>7, <1>8, <1>9, <1>10, <1>11, <1>12, <1>13, <1>14, <1>15, <1>16
        DEF ObjectInv

\* What is deleted names nothing any more, and what it named is queued.
LEMMA RowsUnnamed ==
  ASSUME TypeOK, NEW S \in SUBSET Secrets, DeleteRows(S)
  PROVE  /\ \A s \in Secrets, o \in Objects : Holds(s, o)' <=> Holds(s, o) /\ s \notin S
         /\ \A o \in Objects : Named(o)' <=> \E s \in Secrets : Holds(s, o) /\ s \notin S
         /\ \A o \in Objects :
              /\ outbox[o] # "none" => outbox'[o] = outbox[o]
              /\ outbox[o] = "none" =>
                   outbox'[o] = IF \E s \in S : Holds(s, o) THEN "queued" ELSE "none"
<1>1. \A s \in Secrets, o \in Objects : Holds(s, o)' <=> Holds(s, o) /\ s \notin S
  BY DEF Holds, DeleteRows, TypeOK
<1> QED BY <1>1 DEF Named, DeleteRows, Enqueued

\* Rows of secrets go, and perhaps leases with the accounts that took them.
LEMMA RemoveStep ==
  ASSUME ObjectInv, TypeOK', NEW S \in SUBSET Secrets, DeleteRows(S),
         \A s \in Secrets : Live(s) /\ s \notin S => Live(s)',
         \A s \in S : ~Live(s)',
         AccountsStay,
         \A o \in Objects :
           \/ pending'[o] = pending[o]
           \/ /\ pending'[o] = "none"
              /\ uploader[o] # Null
              /\ users'[uploader[o]] = "removed",
         UNCHANGED <<uploader, bucket, req, work, history>>
  PROVE  ObjectInv'
<1> USE DEF history
<1>0. TypeOK /\ TypeOK'
  BY DEF ObjectInv
<1>1. /\ \A c \in Clients, o \in Objects : Uploads(c, o)' <=> Uploads(c, o)
      /\ \A c \in Clients : /\ At(c, "uploaded")' <=> At(c, "uploaded")
                            /\ At(c, "failing")' <=> At(c, "failing")
  BY DEF Uploads, At
<1>2. \A s \in Secrets, o \in Objects : Holds(s, o)' <=> Holds(s, o) /\ s \notin S
  BY <1>0, RowsUnnamed
<1>3. \A o \in Objects : Named(o)' <=> \E s \in Secrets : Holds(s, o) /\ s \notin S
  BY <1>0, RowsUnnamed
<1>4. \A o \in Objects :
        /\ outbox[o] # "none" => outbox'[o] = outbox[o]
        /\ outbox[o] = "none" =>
             outbox'[o] = IF \E s \in S : Holds(s, o) THEN "queued" ELSE "none"
  BY <1>0, RowsUnnamed
<1>5. \A o \in Objects : ~Named(o) => ~Named(o)' /\ outbox'[o] = outbox[o]
  <2>1. ASSUME NEW o \in Objects, ~Named(o)
        PROVE  ~ \E s \in S : Holds(s, o)
    BY <2>1 DEF Named
  <2> QED BY <1>0, <1>3, <1>4, <2>1 DEF Named, TypeOK
<1>6. Fresh'
  <2>1. \A o \in Objects : pending[o] = "none" => pending'[o] = "none"
    OBVIOUS
  <2> QED BY <1>1, <1>5, <2>1 DEF ObjectInv, Fresh, Unused
<1>7. OneUpload' /\ OneName'
  BY <1>1, <1>2 DEF ObjectInv, OneUpload, OneName
<1>8. Gone'
  <2>1. \A s \in Secrets : versions'[s] = IF s \in S THEN <<>> ELSE versions[s]
    BY DEF DeleteRows
  <2> QED BY <2>1 DEF ObjectInv, Gone
<1>9. Leased'
  <2>1. ASSUME NEW o \in Objects, Named(o)' PROVE outbox'[o] = "none"
    <3>1. PICK s \in Secrets : Holds(s, o) /\ s \notin S
      BY <1>3, <2>1
    <3>2. \A r \in S : ~Holds(r, o)
      BY <3>1 DEF ObjectInv, OneName
    <3>3. outbox[o] = "none"
      BY <3>1 DEF ObjectInv, Leased, Named
    <3> QED BY <1>4, <3>2, <3>3
  <2>2. \A o \in Objects : pending'[o] # "none" => pending'[o] = pending[o]
    OBVIOUS
  <2> QED BY <1>1, <1>5, <2>1, <2>2 DEF ObjectInv, Leased
<1>10. Uploading'
  <2>1. \A o \in Objects : Named(o)' => Named(o)
    BY <1>5
  <2> QED BY <1>1, <1>5, <2>1 DEF ObjectInv, Uploading
<1>11. Queue'
  BY <1>4 DEF ObjectInv, Queue
<1>12. Abandoned'
  BY <1>1, <1>5 DEF ObjectInv, Abandoned
<1>13. Kept'
  <2>1. ASSUME NEW o \in Objects, Forgotten(o) PROVE Forgotten(o)'
    <3>1. uploader[o] # Null => uploader[o] \in Users
      BY <1>0 DEF TypeOK
    <3> QED BY <2>1, <3>1 DEF Forgotten, AccountsStay
  <2>2. ASSUME NEW o \in Objects, Named(o) PROVE Named(o)' \/ outbox'[o] # "none"
    BY <1>3, <1>4, <2>2 DEF Named
  <2>3. ASSUME NEW o \in Objects, pending[o] # "none"
        PROVE  pending'[o] # "none" \/ Forgotten(o)'
    BY <2>3 DEF Forgotten
  <2> QED BY <1>1, <1>4, <2>1, <2>2, <2>3 DEF ObjectInv, Kept
<1>14. VersionsBacked'
  BY <1>0 DEF ObjectInv, VersionsBacked, Gone, DeleteRows
<1> QED BY <1>0, <1>6, <1>7, <1>8, <1>9, <1>10, <1>11, <1>12, <1>13, <1>14
        DEF ObjectInv

\* A lease lapses, or a back-off ends.
LEMMA ClockStep ==
  ASSUME ObjectInv, TypeOK', NEW o \in Objects, LeaseLapses(o) \/ BackoffOver(o)
  PROVE  ObjectInv'
<1> USE DEF history
<1>0. TypeOK /\ TypeOK'
  BY DEF ObjectInv
<1>1. /\ \A c \in Clients, q \in Objects : Uploads(c, q)' <=> Uploads(c, q)
      /\ \A c \in Clients : /\ At(c, "uploaded")' <=> At(c, "uploaded")
                            /\ At(c, "failing")' <=> At(c, "failing")
      /\ \A q \in Objects : Named(q)' <=> Named(q)
      /\ \A q \in Objects, s \in Secrets : Holds(s, q)' <=> Holds(s, q)
      /\ UNCHANGED <<files, versions, users, uploader, bucket, work, unconfirmed>>
  BY NamesKept DEF LeaseLapses, BackoffOver, Uploads, At
<1>2. /\ \A q \in Objects :
           /\ pending'[q] # "none" <=> pending[q] # "none"
           /\ pending'[q] = "lapsed" => \/ pending[q] = "lapsed"
                                        \/ \A c \in Clients : Uploads(c, q) => q \in overran'
           /\ outbox'[q] # "none" <=> outbox[q] # "none"
           /\ outbox'[q] = "processed" => outbox[q] = "processed"
      /\ overran \subseteq overran'
  BY <1>0 DEF LeaseLapses, BackoffOver, TypeOK
<1>3. Fresh'
  BY <1>1, <1>2 DEF ObjectInv, Fresh, Unused
<1>4. OneUpload' /\ OneName' /\ Gone'
  BY <1>1 DEF ObjectInv, OneUpload, OneName, Gone, Live
<1>5. Leased' /\ Queue' /\ Abandoned'
  BY <1>1, <1>2 DEF ObjectInv, Leased, Queue, Abandoned
<1>6. Uploading'
  BY <1>1, <1>2 DEF ObjectInv, Uploading
<1>7. Kept'
  BY <1>1, <1>2 DEF ObjectInv, Kept, Forgotten
<1>8. VersionsBacked'
  BY <1>1, <1>2 DEF ObjectInv, VersionsBacked, Live
<1> QED BY <1>0, <1>3, <1>4, <1>5, <1>6, <1>7, <1>8 DEF ObjectInv

\* What any step of a clean-up does to the object o and to its own batch.
LEMMA CleanupEffect ==
  ASSUME TypeOK, Queue, NEW w \in Workers, CleanupStep(w), NEW o \in Objects
  PROVE  /\ o \in work'[w].queued => o \in work[w].queued \/ outbox[o] = "queued"
         /\ o \in work'[w].expired => o \in work[w].expired \/ pending[o] = "lapsed"
         /\ o \in work'[w].queued /\ o \in work'[w].expired =>
              \/ o \in work[w].queued /\ o \in work[w].expired
              \/ outbox[o] # "none" /\ pending[o] # "none"
         /\ work'[w].deleted = o => \/ o \notin bucket'
                                    \/ /\ work[w].deleted = o
                                       /\ o \in work'[w].queued => o \in work[w].queued
                                       /\ o \in work'[w].expired => o \in work[w].expired
         /\ o \in bucket' => o \in bucket
         /\ o \in bucket /\ o \notin bucket' =>
              o \in work[w].queued \/ o \in work[w].expired
         /\ \/ pending'[o] = pending[o]
            \/ /\ pending'[o] = "none"
               /\ o \in work[w].expired /\ work[w].deleted = o
         /\ outbox'[o] = "none" <=> outbox[o] = "none"
         /\ outbox'[o] = "processed" =>
              \/ outbox[o] = "processed"
              \/ o \in work[w].queued /\ work[w].deleted = o
<1> USE DEF tables, history
<1>0. Null \notin Objects /\ work[w] \in Work
  BY FileConstants DEF TypeOK
<1>1. CASE StartCleanup(w)
  BY <1>0, <1>1 DEF StartCleanup, DueLeases, TypeOK
<1>2. ASSUME NEW q \in Objects, DeleteQueued(w, q) \/ DeletePending(w, q)
      PROVE  /\ bucket' = bucket \ {q} /\ UNCHANGED <<pending, outbox>>
             /\ q \in work[w].queued \/ q \in work[w].expired
             /\ work'[w].queued = work[w].queued
             /\ work'[w].expired = work[w].expired
             /\ work'[w].deleted = q
  BY <1>0, <1>2 DEF DeleteQueued, DeletePending, TypeOK, Work
<1>3. ASSUME MarkProcessed(w) \/ ForgetPending(w) \/ CrashCleanup(w)
      PROVE  /\ work'[w].queued \subseteq work[w].queued
             /\ work'[w].expired \subseteq work[w].expired
             /\ work'[w].deleted = Null
             /\ bucket' = bucket
  <2>1. CASE MarkProcessed(w)
    BY <1>0, <2>1 DEF MarkProcessed, TypeOK, Work
  <2>2. CASE ForgetPending(w)
    BY <1>0, <2>2 DEF ForgetPending, TypeOK, Work
  <2>3. CASE CrashCleanup(w)
    BY <1>0, <2>3 DEF CrashCleanup, AtRest, TypeOK, Work
  <2> QED BY <1>3, <2>1, <2>2, <2>3
<1>4. CASE MarkProcessed(w)
  <2>1. /\ pending' = pending
        /\ outbox' = [outbox EXCEPT ![work[w].deleted] = "processed"]
        /\ work[w].deleted \in work[w].queued
    BY <1>4 DEF MarkProcessed
  <2>2. \A q \in work[w].queued : q \in Objects /\ outbox[q] # "none"
    BY <1>0 DEF Work, Queue
  <2>3. outbox'[o] = IF o = work[w].deleted THEN "processed" ELSE outbox[o]
    BY <2>1, <2>2 DEF TypeOK
  <2>4. /\ outbox'[o] = "none" <=> outbox[o] = "none"
        /\ outbox'[o] = "processed" =>
             \/ outbox[o] = "processed"
             \/ o \in work[w].queued /\ work[w].deleted = o
    BY <2>1, <2>2, <2>3
  <2> QED BY <1>0, <1>3, <1>4, <2>1, <2>4
<1>5. CASE ForgetPending(w)
  <2>1. /\ outbox' = outbox
        /\ pending' = [pending EXCEPT ![work[w].deleted] = "none"]
        /\ work[w].deleted \in work[w].expired
    BY <1>5 DEF ForgetPending
  <2> QED BY <1>0, <1>3, <1>5, <2>1 DEF TypeOK
<1>6. CASE CrashCleanup(w)
  BY <1>0, <1>3, <1>6 DEF CrashCleanup
<1>7. ASSUME NEW q \in Objects, Retry(w, q) \/ SkipPending(w, q)
      PROVE  /\ bucket' \in {bucket, bucket \ {q}} /\ pending' = pending
             /\ q \in work[w].queued \/ q \in work[w].expired
             /\ work'[w].queued \subseteq work[w].queued
             /\ work'[w].expired \subseteq work[w].expired
             /\ work'[w].deleted = Null
             /\ outbox'[o] = "none" <=> outbox[o] = "none"
             /\ outbox'[o] = "processed" => outbox[o] = "processed"
  <2>1. CASE Retry(w, q)
    <3>1. outbox'[o] = IF o = q /\ outbox[q] # "processed" THEN "waiting" ELSE outbox[o]
      BY <2>1 DEF Retry, DueAgain, TypeOK
    <3>2. outbox[q] # "none"
      BY <2>1 DEF Retry, Queue
    <3> QED BY <1>0, <2>1, <3>1, <3>2 DEF Retry, TypeOK, Work
  <2>2. CASE SkipPending(w, q)
    BY <1>0, <2>2 DEF SkipPending, TypeOK, Work
  <2> QED BY <1>7, <2>1, <2>2
<1> QED
  BY <1>0, <1>1, <1>2, <1>4, <1>5, <1>6, <1>7 DEF CleanupStep

\* A step of a clean-up takes away only what nothing names.
LEMMA CleanStep ==
  ASSUME ObjectInv, TypeOK', NEW w \in Workers, CleanupStep(w)
  PROVE  ObjectInv'
<1>0. TypeOK /\ TypeOK' /\ Queue
  BY DEF ObjectInv
<1>1. UNCHANGED <<files, versions, users, uploader, req, disclosed, history>>
  BY DEF CleanupStep, StartCleanup, DeleteQueued, MarkProcessed, Retry,
     DeletePending, ForgetPending, SkipPending, CrashCleanup, tables, history
<1>2. \A v \in Workers : v # w => work'[v] = work[v]
  BY <1>0 DEF CleanupStep, StartCleanup, DeleteQueued, MarkProcessed, Retry,
     DeletePending, ForgetPending, SkipPending, CrashCleanup, TypeOK
<1>3. /\ \A c \in Clients, q \in Objects : Uploads(c, q)' <=> Uploads(c, q)
      /\ \A c \in Clients : /\ At(c, "uploaded")' <=> At(c, "uploaded")
                            /\ At(c, "failing")' <=> At(c, "failing")
      /\ \A q \in Objects : Named(q)' <=> Named(q)
      /\ \A q \in Objects, s \in Secrets : Holds(s, q)' <=> Holds(s, q)
  BY <1>1, NamesKept DEF Uploads, At
<1> USE DEF history
<1>4. ASSUME NEW o \in Objects, o \in bucket, o \notin bucket'
      PROVE  /\ Named(o) => o \in overran
             /\ \A c \in Clients : Uploads(c, o) /\ ~At(c, "failing") => o \in overran
  <2>1. CASE o \in work[w].queued
    BY <2>1 DEF ObjectInv, Queue, Leased, Uploading
  <2>2. CASE o \in work[w].expired
    BY <2>2 DEF ObjectInv, Abandoned
  <2> QED BY <1>0, <1>4, <2>1, <2>2, CleanupEffect
<1>5. Fresh'
  BY <1>0, <1>1, <1>2, <1>3, CleanupEffect DEF ObjectInv, Fresh, Unused
<1>6. OneUpload' /\ OneName' /\ Gone'
  BY <1>1, <1>3 DEF ObjectInv, OneUpload, OneName, Gone, Live
<1>7. Leased'
  <2>1. \A o \in Objects : /\ pending'[o] # "none" => pending'[o] = pending[o]
                           /\ outbox'[o] = "none" <=> outbox[o] = "none"
    BY <1>0, CleanupEffect
  <2> QED BY <1>1, <1>3, <2>1 DEF ObjectInv, Leased
<1>8. Uploading'
  <2>1. \A o \in Objects : outbox'[o] = "none" <=> outbox[o] = "none"
    BY <1>0, CleanupEffect
  <2>2. \A o \in Objects, c \in Clients :
          Uploads(c, o) /\ At(c, "uploaded") => o \in bucket' \cup overran
    BY <1>4 DEF ObjectInv, Uploading, At
  <2> QED BY <1>1, <1>3, <2>1, <2>2 DEF ObjectInv, Uploading
<1>9. Queue'
  <2>1. ASSUME NEW o \in Objects, outbox'[o] = "processed" PROVE o \notin bucket'
    BY <1>0, <2>1, CleanupEffect DEF ObjectInv, Queue
  <2>2. ASSUME NEW o \in Objects, NEW v \in Workers, v # w, o \in work'[v].queued
        PROVE  /\ outbox'[o] # "none" /\ o \notin work'[v].expired
               /\ work'[v].deleted = o => o \notin bucket'
    BY <1>0, <1>2, <2>2, CleanupEffect DEF ObjectInv, Queue
  <2>3. ASSUME NEW o \in Objects, o \in work'[w].queued
        PROVE  /\ outbox'[o] # "none" /\ o \notin work'[w].expired
               /\ work'[w].deleted = o => o \notin bucket'
    BY <1>0, <2>3, CleanupEffect DEF ObjectInv, Queue, Leased
  <2> QED BY <2>1, <2>2, <2>3 DEF Queue
<1>10. Abandoned'
  <2>1. ASSUME NEW o \in Objects, NEW v \in Workers, v # w, o \in work'[v].expired
        PROVE  /\ Named(o) => o \in overran
               /\ \A c \in Clients : Uploads(c, o) => o \in overran
               /\ work'[v].deleted = o => o \notin bucket' \/ o \in overran
    BY <1>0, <1>2, <2>1, CleanupEffect DEF ObjectInv, Abandoned
  <2>2. ASSUME NEW o \in Objects, o \in work'[w].expired
        PROVE  /\ Named(o) => o \in overran
               /\ \A c \in Clients : Uploads(c, o) => o \in overran
               /\ work'[w].deleted = o => o \notin bucket' \/ o \in overran
    BY <1>0, <2>2, CleanupEffect DEF ObjectInv, Abandoned, Leased
  <2> QED BY <1>1, <1>3, <2>1, <2>2 DEF Abandoned
<1>11. Kept'
  <2>1. ASSUME NEW o \in Objects, pending[o] # "none", pending'[o] = "none"
        PROVE  \/ o \in overran
               \/ o \notin bucket' /\ \A c \in Clients : ~Uploads(c, o)
    BY <1>0, <2>1, CleanupEffect DEF ObjectInv, Abandoned
  <2>2. \A o \in Objects : /\ outbox'[o] = "none" <=> outbox[o] = "none"
                           /\ o \in bucket' => o \in bucket
    BY <1>0, CleanupEffect
  <2> QED BY <1>1, <1>3, <2>1, <2>2 DEF ObjectInv, Kept, Forgotten
<1>12. VersionsBacked'
  <2>1. ASSUME NEW s \in Secrets, NEW v \in 1..Len(versions[s])
        PROVE  versions[s][v].object \in Objects /\ Named(versions[s][v].object)
    <3>1. versions[s] \in Seq(Version) /\ Len(versions[s]) \in Nat
      BY <1>0 DEF TypeOK
    <3>2. versions[s][v] \in Version
      BY <3>1, ElementOfSeq
    <3> QED BY <3>2 DEF Named, Holds, Version
  <2> QED BY <1>1, <1>4, <2>1 DEF ObjectInv, VersionsBacked, Live
<1> QED BY <1>0, <1>5, <1>6, <1>7, <1>8, <1>9, <1>10, <1>11, <1>12 DEF ObjectInv

\* A download touches no upload.
LEMMA DownloadQuiet ==
  ASSUME ObjectInv, TypeOK', NEW c \in Clients, DownloadStep(c)
  PROVE  ObjectInv'
<1> USE DEF tables, history
<1>0. TypeOK /\ TypeOK'
  BY DEF ObjectInv
<1>1. /\ req[c].pc \notin Phases /\ req'[c].pc \notin Phases
      /\ \A d \in Clients : d # c => req'[d] = req[d]
  <2>1. ASSUME NEW s \in Secrets, OpenFile(c, s)
        PROVE  req[c].pc = "idle" /\ req'[c].pc = "opening"
    BY <1>0, <2>1 DEF OpenFile, Goto, At, TypeOK
  <2>2. ASSUME Fetch(c) PROVE req[c].pc = "opening" /\ req'[c].pc = "fetched"
    BY <1>0, <2>2 DEF Fetch, Goto, At, TypeOK, Request
  <2>3. ASSUME DownloadFile(c) PROVE req[c].pc = "fetched" /\ req'[c].pc = "sending"
    BY <1>0, <2>3 DEF DownloadFile, Goto, At, TypeOK
  <2>4. ASSUME Send(c) PROVE req[c].pc = "sending" /\ req'[c].pc = "idle"
    BY <1>0, <2>4 DEF Send, Goto, At, TypeOK, Idle
  <2>5. \A d \in Clients : d # c => req'[d] = req[d]
    BY <1>0 DEF DownloadStep, OpenFile, Fetch, DownloadFile, Send, Goto, TypeOK
  <2> QED BY <2>1, <2>2, <2>3, <2>4, <2>5 DEF DownloadStep, Phases
<1>2. SameUploads
  BY <1>1 DEF SameUploads
<1>3. SameObjects /\ AccountsStay
  BY DEF DownloadStep, OpenFile, Fetch, DownloadFile, Send, SameObjects, AccountsStay
<1>4. RowsStay
  <2>1. CASE DownloadFile(c)
    <3>1. req[c].secret \in Secrets /\ req[c].secret \in DOMAIN files
      BY <1>0, <2>1, RequestFields DEF DownloadFile, At, TypeOK
    <3>2. \A s \in Secrets : files'[s].state = files[s].state
      <4>1. PICK n : files' = [files EXCEPT ![req[c].secret].view_count = n]
        BY <2>1 DEF DownloadFile, CountView
      <4> QED BY <1>0, <3>1, <4>1 DEF TypeOK, File
    <3> QED BY <3>2 DEF RowsStay, Live
  <2>2. CASE files' = files
    BY <2>2 DEF RowsStay, Live
  <2> QED BY <2>1, <2>2 DEF DownloadStep, OpenFile, Fetch, Send
<1> QED BY <1>2, <1>3, <1>4, QuietStep

LEMMA PublishEffect ==
  ASSUME ObjectInv, NEW c \in Clients,
         PublishReplace(c) \/ \E n \in 1..MaxViews : PublishCreate(c, n)
  PROVE  \E o \in Objects, s \in Secrets, v \in Version : Publishes(c, o, s, v)
<1>0. TypeOK
  BY DEF ObjectInv
<1>1. PICK s, o : s = req[c].secret /\ o = req[c].object
  OBVIOUS
<1>2. ASSUME NEW n \in 1..MaxViews, PublishCreate(c, n)
      PROVE  \E v \in Version : Publishes(c, o, s, v)
  <2>1. PICK v : v = [object |-> o, base |-> 0]
    OBVIOUS
  <2>2. s \in Secrets /\ o \in Objects /\ v \in Version /\ v.object = o
    BY <1>0, <1>1, <1>2, <2>1, RequestFields DEF PublishCreate, At, Version
  <2>3. versions[s] = <<>>
    BY <1>1, <1>2, <2>2 DEF PublishCreate, ObjectInv, Gone, Live
  <2>4. <<v>> = Append(<<>>, v)
    OBVIOUS
  <2>5. versions' = [versions EXCEPT ![s] = Append(versions[s], v)]
    BY <1>1, <1>2, <2>1, <2>3, <2>4 DEF PublishCreate
  <2>6. \A r \in Secrets : Live(r)' <=> r = s \/ Live(r)
    BY <1>0, <1>1, <1>2 DEF PublishCreate, Live, TypeOK
  <2>7. /\ At(c, "uploaded") /\ Committed(c)
        /\ pending' = [pending EXCEPT ![o] = "none"]
        /\ UNCHANGED <<users, uploader, outbox, bucket, work, overran, uncounted>>
    BY <1>1, <1>2 DEF PublishCreate, tables, history
  <2> QED BY <1>1, <2>2, <2>5, <2>6, <2>7 DEF Publishes
<1>3. ASSUME PublishReplace(c) PROVE \E v \in Version : Publishes(c, o, s, v)
  <2>1. PICK v : v = [object |-> o, base |-> req[c].expected]
    OBVIOUS
  <2>2. s \in Secrets /\ o \in Objects /\ v \in Version /\ v.object = o
    BY <1>0, <1>1, <1>3, <2>1, RequestFields DEF PublishReplace, At, Version
  <2>3. versions' = [versions EXCEPT ![s] = Append(versions[s], v)]
    BY <1>0, <1>1, <1>3, <2>1, <2>2 DEF PublishReplace, TypeOK
  <2>4. \A r \in Secrets : Live(r)' <=> r = s \/ Live(r)
    BY <1>1, <1>3 DEF PublishReplace, Live
  <2>5. /\ At(c, "uploaded") /\ Committed(c)
        /\ pending' = [pending EXCEPT ![o] = "none"]
        /\ UNCHANGED <<users, uploader, outbox, bucket, work, overran, uncounted>>
    BY <1>1, <1>3 DEF PublishReplace, tables, history
  <2> QED BY <1>1, <2>2, <2>3, <2>4, <2>5 DEF Publishes
<1>4. s \in Secrets /\ o \in Objects
  BY <1>0, <1>1, RequestFields DEF PublishCreate, PublishReplace, At
<1> QED BY <1>2, <1>3, <1>4

\* The invariant is inductive; one case per action.
LEMMA ObjectStep == ObjectInv /\ [Next]_vars => ObjectInv'
<1> SUFFICES ASSUME ObjectInv, [Next]_vars PROVE ObjectInv'
  OBVIOUS
<1> USE DEF tables, history
<1>0. TypeOK /\ TypeOK'
  BY FileTypeStep DEF ObjectInv
<1>1. ASSUME NEW c \in Clients, NEW u \in Users, NEW s \in Secrets,
             NEW o \in Objects, CreateFile(c, u, s, o) \/ ReplaceFile(c, u, s, o)
      PROVE  ObjectInv'
  <2>1. CurrentVersion(s) \in Nat
    BY <1>0 DEF CurrentVersion, TypeOK
  <2> QED BY <1>0, <1>1, <2>1, StageStep DEF CreateFile, ReplaceFile
<1>2. ASSUME NEW c \in Clients, Upload(c) \/ FailUpload(c) PROVE ObjectInv'
  BY <1>0, <1>2, PhaseStep
<1>3. ASSUME NEW c \in Clients,
             PublishReplace(c) \/ \E n \in 1..MaxViews : PublishCreate(c, n)
      PROVE  ObjectInv'
  BY <1>0, <1>3, PublishEffect, PublishStep
<1>5. ASSUME NEW c \in Clients, Undo(c) \/ Abandon(c) PROVE ObjectInv'
  BY <1>0, <1>5, ReleaseStep
<1>6. ASSUME NEW c \in Clients, DownloadStep(c) PROVE ObjectInv'
  BY <1>0, <1>6, DownloadQuiet
<1>7. ASSUME NEW s \in Secrets, ExpireFile(s) \/ \E u \in Users : DeleteFile(u, s)
      PROVE  ObjectInv'
  <2>1. /\ DeleteRows({s}) /\ {s} \in SUBSET Secrets
        /\ UNCHANGED <<users, pending, uploader, bucket, req, work, history>>
    BY <1>7 DEF DeleteFile, ExpireFile
  <2>2. /\ \A r \in Secrets : r # s => files'[r] = files[r]
        /\ files'[s].state # "live"
    BY <1>0, <1>7 DEF DeleteFile, ExpireFile, TypeOK, File
  <2>3. /\ \A r \in Secrets : Live(r) /\ r \notin {s} => Live(r)'
        /\ \A r \in {s} : ~Live(r)'
        /\ AccountsStay
    BY <2>1, <2>2 DEF Live, AccountsStay
  <2> QED BY <1>0, <2>1, <2>3, RemoveStep
<1>8. CASE Sweep
  <2>1. PICK S \in SUBSET Secrets, U \in SUBSET Users :
          /\ S = {s \in Secrets : /\ Live(s)
                    /\ \/ files[s].expired
                       \/ files[s].view_count >= files[s].max_views}
          /\ U = {u \in Users : users[u] = "due"}
    OBVIOUS
  <2>2. /\ \A s \in Secrets : files'[s] =
             [files[s] EXCEPT !.state = IF s \in S THEN "expired" ELSE @,
                              !.owner = IF @ \in U THEN Null ELSE @]
        /\ DeleteRows(S)
        /\ users' = [u \in Users |-> IF u \in U THEN "removed" ELSE users[u]]
        /\ pending' = [o \in Objects |->
                         IF uploader[o] \in U THEN "none" ELSE pending[o]]
        /\ UNCHANGED <<uploader, bucket, req, work, history>>
    BY <1>8, <2>1 DEF Sweep, LeasesWithout
  <2>3. ASSUME NEW s \in Secrets
        PROVE  files'[s].state = IF s \in S THEN "expired" ELSE files[s].state
    <3> DEFINE st == IF s \in S THEN "expired" ELSE files[s].state
               ow == IF files[s].owner \in U THEN Null ELSE files[s].owner
    <3>1. files'[s] = [files[s] EXCEPT !.state = st, !.owner = ow]
      BY <2>2
    <3>2. \A x, y : [files[s] EXCEPT !.state = x, !.owner = y].state = x
      BY <1>0 DEF TypeOK, File
    <3> HIDE DEF ow
    <3> QED BY <3>1, <3>2
  <2>4. /\ \A s \in Secrets : Live(s) /\ s \notin S => Live(s)'
        /\ \A s \in S : ~Live(s)'
    BY <2>3 DEF Live
  <2>5. AccountsStay /\ Null \notin U
    BY <2>2, FileConstants DEF AccountsStay
  <2>6. \A o \in Objects :
          \/ pending'[o] = pending[o]
          \/ /\ pending'[o] = "none" /\ uploader[o] # Null
             /\ users'[uploader[o]] = "removed"
    BY <1>0, <2>2, <2>5 DEF TypeOK
  <2> QED BY <1>0, <2>2, <2>4, <2>5, <2>6, RemoveStep
<1>9. ASSUME \/ \E u \in Users : SwitchUserActivation(u)
             \/ \E s \in Secrets : Elapse(s)
             \/ UNCHANGED vars
      PROVE  ObjectInv'
  <2>1. SameUploads /\ SameObjects
    BY <1>9 DEF SameUploads, SameObjects, SwitchUserActivation, Elapse, vars
  <2>2. AccountsStay
    BY <1>0, <1>9 DEF AccountsStay, SwitchUserActivation, Elapse, vars, TypeOK
  <2>3. RowsStay
    <3>1. \A s \in Secrets : files'[s].state = files[s].state
      <4>1. ASSUME NEW s \in Secrets, Elapse(s)
            PROVE  \A r \in Secrets : files'[r].state = files[r].state
        <5>1. [files[s] EXCEPT !.expired = TRUE].state = files[s].state
          BY <1>0 DEF TypeOK, File
        <5>2. files' = [files EXCEPT ![s] = [files[s] EXCEPT !.expired = TRUE]]
          BY <1>0, <4>1 DEF Elapse, TypeOK
        <5> QED BY <1>0, <5>1, <5>2 DEF TypeOK
      <4> QED BY <1>9, <4>1 DEF SwitchUserActivation, vars
    <3> QED BY <3>1 DEF RowsStay, Live
  <2> QED BY <1>0, <2>1, <2>2, <2>3, QuietStep
<1>10. ASSUME NEW o \in Objects, LeaseLapses(o) \/ BackoffOver(o) PROVE ObjectInv'
  BY <1>0, <1>10, ClockStep
<1>11. ASSUME NEW w \in Workers, CleanupStep(w) PROVE ObjectInv'
  BY <1>0, <1>11, CleanStep
<1>12. ASSUME NEW c \in Clients, UploadStep(c) PROVE ObjectInv'
  BY <1>1, <1>2, <1>3, <1>5, <1>12 DEF UploadStep
<1>13. CASE SystemStep
  BY <1>7, <1>8, <1>9, <1>10, <1>13 DEF SystemStep
<1> QED
  BY <1>5, <1>6, <1>9, <1>11, <1>12, <1>13 DEF Next

\* Nothing is stored or under way at first.
LEMMA ObjectInit == Init => ObjectInv
<1> SUFFICES ASSUME Init PROVE ObjectInv
  OBVIOUS
<1>1. TypeOK
  BY FileConstants DEF Init, TypeOK, File, Idle, Request, AtRest, Work
<1>2. /\ \A s \in Secrets, o \in Objects : ~Holds(s, o)
      /\ \A o \in Objects : ~Named(o)
      /\ \A c \in Clients, o \in Objects : ~Uploads(c, o)
      /\ \A s \in Secrets : ~Live(s)
  BY DEF Init, Holds, Named, Uploads, Idle, Live
<1> QED
  BY <1>1, <1>2 DEF Init, AtRest, ObjectInv, Fresh, Unused, OneUpload, OneName, Gone,
     Leased, Uploading, Queue, Abandoned, Kept, VersionsBacked

\* Hence it holds in every reachable state.
LEMMA ObjectsInvariant == Spec => []ObjectInv
<1> QED BY ObjectInit, ObjectStep, PTL DEF Spec

\* The object of every version of a stored secret is in the bucket, whatever
\* requests, clean-ups and crashes there were; the two exceptions are those the
\* property names.
THEOREM NoVersionLosesItsObject == Spec => []VersionsBacked
<1>1. ObjectInv => VersionsBacked
  BY DEF ObjectInv
<1> QED BY <1>1, ObjectsInvariant, PTL

\* No object lies in the bucket that nothing remembers.
THEOREM NoObjectIsForgotten == Spec => []ObjectsAccounted
<1>1. ObjectInv => ObjectsAccounted
  <2> SUFFICES ASSUME ObjectInv, NEW o \in bucket
               PROVE  Accounted(o) \/ Forgotten(o)
    BY DEF ObjectsAccounted
  <2>1. o \in Objects /\ outbox[o] # "processed"
    BY DEF ObjectInv, Queue, TypeOK
  <2>2. outbox[o] \in {"none", "queued", "waiting"}
    BY <2>1 DEF ObjectInv, TypeOK
  <2> QED BY <2>1, <2>2 DEF ObjectInv, Kept, Accounted
<1> QED BY <1>1, ObjectsInvariant, PTL

\* A step leaves the versions of a secret alone, empties them or appends one.
LEMMA VersionsStep ==
  ASSUME TypeOK, [Next]_vars, NEW s \in Secrets
  PROVE  \/ versions'[s] = versions[s]
         \/ versions'[s] = <<>>
         \/ \E c \in Clients : \E v \in Version :
              /\ At(c, "uploaded") /\ v.base = req[c].expected
              /\ \/ v.base = 0 /\ versions'[s] = <<v>>
                 \/ v.base = Len(versions[s]) /\ versions'[s] = Append(versions[s], v)
<1> USE DEF tables, history
<1>1. ASSUME NEW c \in Clients, NEW n \in 1..MaxViews, PublishCreate(c, n),
             req[c].secret = s
      PROVE  /\ req[c].expected = 0 /\ At(c, "uploaded")
             /\ \E v \in Version : v.base = 0 /\ versions'[s] = <<v>>
  <2>1. PICK v : v = [object |-> req[c].object, base |-> 0]
    OBVIOUS
  <2>2. v \in Version /\ v.base = 0
    BY <1>1, <2>1, RequestFields DEF PublishCreate, At, Version
  <2>3. versions' = [versions EXCEPT ![s] = <<v>>]
    BY <1>1, <2>1 DEF PublishCreate
  <2> QED BY <1>1, <2>2, <2>3 DEF PublishCreate, TypeOK
<1>2. ASSUME NEW c \in Clients, PublishReplace(c), req[c].secret = s
      PROVE  \E v \in Version :
               /\ At(c, "uploaded") /\ v.base = req[c].expected
               /\ v.base = Len(versions[s]) /\ versions'[s] = Append(versions[s], v)
  <2>1. PICK v : v = [object |-> req[c].object, base |-> req[c].expected]
    OBVIOUS
  <2>2. v \in Version /\ v.base = req[c].expected
    BY <1>2, <2>1, RequestFields DEF PublishReplace, At, Version
  <2>3. v.base = Len(versions[s])
    BY <1>2, <2>2 DEF PublishReplace, UnchangedDuringUpload, CurrentVersion
  <2>4. versions'[s] = Append(versions[s], v)
    BY <1>2, <2>1 DEF PublishReplace, TypeOK
  <2> QED BY <1>2, <2>2, <2>3, <2>4 DEF PublishReplace
<1>3. ASSUME NEW c \in Clients, UploadStep(c) PROVE
        \/ versions'[s] = versions[s]
        \/ /\ req[c].secret = s
           /\ PublishReplace(c) \/ \E n \in 1..MaxViews : PublishCreate(c, n)
  BY <1>3 DEF UploadStep, CreateFile, ReplaceFile, Stage, Upload, PublishCreate,
     PublishReplace, FailUpload, Undo, TypeOK
<1>4. ASSUME SystemStep PROVE versions'[s] \in {versions[s], <<>>}
  BY <1>4 DEF SystemStep, DeleteFile, ExpireFile, Sweep, DeleteRows,
     SwitchUserActivation, Elapse, LeaseLapses, BackoffOver
<1>5. ASSUME NEW c \in Clients, DownloadStep(c) \/ Abandon(c)
      PROVE  versions' = versions
  BY <1>5 DEF DownloadStep, OpenFile, Fetch, DownloadFile, Send, Abandon
<1>6. ASSUME NEW w \in Workers, CleanupStep(w) PROVE versions' = versions
  BY <1>6 DEF CleanupStep, StartCleanup, DeleteQueued, MarkProcessed, Retry,
     DeletePending, ForgetPending, SkipPending, CrashCleanup
<1>7. CASE UNCHANGED vars
  BY <1>7 DEF vars
<1>8. ASSUME NEW c \in Clients, UploadStep(c), versions'[s] # versions[s]
      PROVE  \E v \in Version :
              /\ At(c, "uploaded") /\ v.base = req[c].expected
              /\ \/ v.base = 0 /\ versions'[s] = <<v>>
                 \/ v.base = Len(versions[s]) /\ versions'[s] = Append(versions[s], v)
  <2>1. CASE PublishReplace(c)
    BY <1>2, <1>3, <1>8, <2>1
  <2>2. CASE \E n \in 1..MaxViews : PublishCreate(c, n)
    BY <1>1, <1>3, <1>8, <2>2
  <2> QED BY <1>3, <1>8, <2>1, <2>2
<1> QED BY <1>4, <1>5, <1>6, <1>7, <1>8 DEF Next

\* What the requests were admitted with stays.
LEMMA AdmittedStep ==
  ASSUME TypeOK, Admitted, [Next]_vars
  PROVE  Admitted'
<1> USE DEF tables, history
<1>1. ASSUME NEW c \in Clients, NEW r, Goto(c, r),
             r.pc \in {"uploading", "uploaded"} => r.expected < MAX_SECRET_VERSIONS
      PROVE  Admitted'
  BY <1>1 DEF Admitted, Goto, TypeOK
<1>2. ASSUME NEW c \in Clients, NEW u \in Users, NEW s \in Secrets, NEW o \in Objects,
             CreateFile(c, u, s, o) \/ ReplaceFile(c, u, s, o)
      PROVE  Admitted'
  <2>1. PICK e : e < MAX_SECRET_VERSIONS /\ Stage(c, u, s, o, e)
    BY <1>2, FileConstants DEF CreateFile, ReplaceFile
  <2>2. PICK r : r = [pc |-> "uploading", secret |-> s, object |-> o, user |-> u,
                      expected |-> e]
    OBVIOUS
  <2>3. Goto(c, r) /\ r.expected < MAX_SECRET_VERSIONS
    BY <2>1, <2>2 DEF Stage
  <2> QED BY <1>1, <2>3
<1>3. ASSUME NEW c \in Clients, Upload(c) PROVE Admitted'
  <2>1. PICK r : r = [req[c] EXCEPT !.pc = "uploaded"]
    OBVIOUS
  <2>2. req[c].expected < MAX_SECRET_VERSIONS
    BY <1>3 DEF Upload, At, Admitted
  <2>3. r.expected = req[c].expected
    BY <1>3, <2>1 DEF Upload, At, TypeOK, Request
  <2> QED BY <1>1, <1>3, <2>1, <2>2, <2>3 DEF Upload
<1>4. ASSUME NEW c \in Clients, Goto(c, [req[c] EXCEPT !.pc = "failing"]),
             req[c].pc \in {"uploading", "uploaded"}
      PROVE  Admitted'
  <2>1. PICK r : r = [req[c] EXCEPT !.pc = "failing"]
    OBVIOUS
  <2>2. r.pc = "failing"
    BY <1>4, <2>1 DEF TypeOK, Request
  <2> QED BY <1>1, <1>4, <2>1, <2>2
<1>5. ASSUME NEW c \in Clients, Goto(c, Idle) PROVE Admitted'
  <2>1. Idle.pc = "idle"
    BY DEF Idle
  <2> QED BY <1>1, <1>5, <2>1
<1>6. ASSUME NEW c \in Clients, UploadStep(c) \/ Abandon(c) PROVE Admitted'
  BY <1>2, <1>3, <1>4, <1>5, <1>6
     DEF UploadStep, PublishCreate, PublishReplace, Committed, FailUpload, Undo,
         Abandon, At
<1>7. ASSUME NEW c \in Clients, DownloadStep(c) PROVE Admitted'
  <2>1. ASSUME NEW s \in Secrets, OpenFile(c, s) PROVE Admitted'
    <3>1. PICK r : r = [pc |-> "opening", secret |-> s, version |-> CurrentVersion(s)]
      OBVIOUS
    <3> QED BY <1>1, <2>1, <3>1 DEF OpenFile
  <2>2. CASE Fetch(c)
    <3>1. PICK r : r = [req[c] EXCEPT !.pc = "fetched"]
      OBVIOUS
    <3>2. r.pc = "fetched"
      BY <2>2, <3>1 DEF Fetch, At, TypeOK, Request
    <3> QED BY <1>1, <2>2, <3>1, <3>2 DEF Fetch
  <2>3. CASE DownloadFile(c)
    <3>1. PICK n, k : Goto(c, [pc |-> "sending", secret |-> req[c].secret,
                               view |-> n, counted |-> k])
      BY <2>3 DEF DownloadFile
    <3>2. PICK r : r = [pc |-> "sending", secret |-> req[c].secret,
                        view |-> n, counted |-> k]
      OBVIOUS
    <3> QED BY <1>1, <3>1, <3>2
  <2>4. CASE Send(c)
    BY <1>5, <2>4 DEF Send
  <2> QED BY <1>7, <2>1, <2>2, <2>3, <2>4 DEF DownloadStep
<1>8. ASSUME \/ \E w \in Workers : CleanupStep(w)
             \/ SystemStep
             \/ UNCHANGED vars
      PROVE  Admitted'
  <2>1. req' = req
    BY <1>8 DEF CleanupStep, StartCleanup, DeleteQueued, MarkProcessed, Retry,
       DeletePending, ForgetPending, SkipPending, CrashCleanup, SystemStep,
       DeleteFile, ExpireFile, Sweep, SwitchUserActivation, Elapse, LeaseLapses,
       BackoffOver, vars
  <2> QED BY <2>1 DEF Admitted
<1> QED BY <1>6, <1>7, <1>8 DEF Next

\* Replacements come one after the other, each on top of the version its
\* uploader had seen, and never more of them than the setting allows.
THEOREM ReplacementsComeInTurn == Spec => []ReplacementsInTurn
<1>1. Init => Admitted /\ ReplacementsInTurn
  BY FileConstants DEF Init, Admitted, ReplacementsInTurn, Idle
<1>2. TypeOK /\ Admitted /\ ReplacementsInTurn /\ [Next]_vars => ReplacementsInTurn'
  <2> SUFFICES ASSUME TypeOK, Admitted, ReplacementsInTurn, [Next]_vars,
                      NEW s \in Secrets
               PROVE  /\ Len(versions'[s]) <= MAX_SECRET_VERSIONS
                      /\ \A v \in 1..Len(versions'[s]) : versions'[s][v].base = v - 1
    BY DEF ReplacementsInTurn
  <2>1. /\ versions[s] \in Seq(Version) /\ Len(versions[s]) \in Nat
        /\ Len(versions[s]) <= MAX_SECRET_VERSIONS
        /\ \A v \in 1..Len(versions[s]) : versions[s][v].base = v - 1
    BY DEF TypeOK, ReplacementsInTurn
  <2>2. CASE versions'[s] = versions[s]
    BY <2>1, <2>2
  <2>3. CASE versions'[s] = <<>>
    BY <2>3, FileConstants
  <2>4. ASSUME NEW v \in Version, v.base = 0, versions'[s] = <<v>>
        PROVE  /\ Len(versions'[s]) <= MAX_SECRET_VERSIONS
               /\ \A i \in 1..Len(versions'[s]) : versions'[s][i].base = i - 1
    BY <2>4, FileConstants
  <2>5. ASSUME NEW c \in Clients, At(c, "uploaded"), NEW v \in Version,
               v.base = req[c].expected, v.base = Len(versions[s]),
               versions'[s] = Append(versions[s], v)
        PROVE  /\ Len(versions'[s]) <= MAX_SECRET_VERSIONS
               /\ \A i \in 1..Len(versions'[s]) : versions'[s][i].base = i - 1
    <3>1. Len(versions[s]) < MAX_SECRET_VERSIONS
      BY <2>5 DEF Admitted, At
    <3>2. /\ Len(versions'[s]) = Len(versions[s]) + 1
          /\ \A i \in 1..Len(versions[s]) : versions'[s][i] = versions[s][i]
          /\ versions'[s][Len(versions[s]) + 1] = v
      BY <2>1, <2>5
    <3> QED BY <2>1, <2>5, <3>1, <3>2, FileConstants
  <2> QED BY <2>2, <2>3, <2>4, <2>5, VersionsStep
<1> QED BY <1>1, <1>2, AdmittedStep, FileTypeCorrect, PTL DEF Spec

-----------------------------------------------------------------------------
(* Views *)

\* No answer on its way runs ahead of the count by more than one view.
InStep ==
  \A c \in Clients : At(c, "sending") =>
    req[c].view <= files[req[c].secret].view_count + 1

ViewsCounted ==
  /\ AnswersMatchCount
  /\ InStep
  /\ Untold
  /\ \A s \in Secrets : files[s].max_views <= MaxViews

\* A step that sends nothing, counts nothing and creates nothing.
LEMMA CalmStep ==
  ASSUME TypeOK, ViewsCounted, disclosed' = disclosed, uncounted' = uncounted,
         \A s \in Secrets :
           /\ files'[s].max_views = files[s].max_views
           /\ files'[s].view_count = files[s].view_count
           /\ Live(s)' => Live(s)
           /\ files'[s].state = "unborn" => files[s].state = "unborn",
         \A c \in Clients : At(c, "sending")' => At(c, "sending") /\ req'[c] = req[c]
  PROVE  ViewsCounted'
<1>1. Untold'
  BY DEF ViewsCounted, Untold, At
<1>2. ASSUME NEW s \in Secrets
      PROVE  /\ Live(s)' => files'[s].view_count < files'[s].max_views
             /\ \A n \in 1..MaxViews :
                  /\ disclosed'[s][n] <= (IF n <= files'[s].view_count THEN 1 ELSE 0)
                  /\ uncounted'[s][n] > 0 => n <= files'[s].view_count + 1
  BY DEF ViewsCounted, AnswersMatchCount
<1>3. ASSUME NEW c \in Clients, At(c, "sending")'
      PROVE  /\ req'[c].view <= files'[req'[c].secret].view_count + 1
             /\ req'[c].counted =>
                  /\ req'[c].view <= files'[req'[c].secret].view_count
                  /\ disclosed'[req'[c].secret][req'[c].view] = 0
                  /\ \A d \in Clients : (d # c /\ At(d, "sending")' /\ req'[d].counted) =>
                       req'[d].secret # req'[c].secret \/ req'[d].view # req'[c].view
  <2>1. /\ At(c, "sending") /\ req'[c] = req[c]
        /\ req[c].secret \in Secrets
    BY <1>3, RequestFields DEF At
  <2>2. /\ req[c].view <= files[req[c].secret].view_count + 1
        /\ req[c].counted =>
             /\ req[c].view <= files[req[c].secret].view_count
             /\ disclosed[req[c].secret][req[c].view] = 0
             /\ \A d \in Clients : (d # c /\ At(d, "sending") /\ req[d].counted) =>
                  req[d].secret # req[c].secret \/ req[d].view # req[c].view
    BY <2>1 DEF ViewsCounted, AnswersMatchCount, InStep
  <2> QED BY <2>1, <2>2
<1>4. AnswersMatchCount' /\ InStep'
  BY <1>2, <1>3 DEF AnswersMatchCount, InStep
<1>5. \A s \in Secrets : files'[s].max_views <= MaxViews
  BY DEF ViewsCounted
<1> QED BY <1>1, <1>4, <1>5 DEF ViewsCounted

\* A view is counted, or rolled back, and its answer is on the way.
LEMMA CountedStep ==
  ASSUME TypeOK, ViewsCounted, NEW c \in Clients, DownloadFile(c)
  PROVE  ViewsCounted'
<1>1. PICK s, count : s = req[c].secret /\ count = files[s].view_count + 1
  OBVIOUS
<1>2. s \in Secrets /\ files[s] \in File
  BY <1>1, RequestFields DEF DownloadFile, At, TypeOK
<1>3. /\ files[s].view_count \in Nat /\ files[s].max_views \in Nat
      /\ files[s].state = "live" /\ files[s].view_count < files[s].max_views
  BY <1>1, <1>2, FileFields DEF DownloadFile, LockedCount, Live
<1>4. PICK kept \in BOOLEAN :
        /\ kept => count < files[s].max_views
        /\ CountView(s, count, kept)
        /\ Goto(c, [pc |-> "sending", secret |-> s, view |-> count,
                    counted |-> kept])
  <2>1. PICK kept \in AuditOutcomes(s, count) :
          /\ CountView(s, count, kept)
          /\ Goto(c, [pc |-> "sending", secret |-> s, view |-> count,
                      counted |-> kept])
    BY <1>1 DEF DownloadFile, LockedCount
  <2>2. kept \in BOOLEAN /\ (kept => count < files[s].max_views)
    <3>1. CASE count >= files[s].max_views
      BY <2>1, <3>1, Zenon DEF AuditOutcomes, Spent
    <3>2. CASE ~(count >= files[s].max_views)
      <4>1. kept \in BOOLEAN
        BY <2>1, <3>2, Zenon DEF AuditOutcomes, Spent
      <4>2. count < files[s].max_views
        BY <1>1, <1>3, <3>2
      <4> QED BY <4>1, <4>2
    <3> QED BY <3>1, <3>2
  <2> QED BY <2>1, <2>2
<1>5. /\ \A r \in Secrets : r # s => files'[r] = files[r]
      /\ files'[s].max_views = files[s].max_views
      /\ files'[s].state = files[s].state
      /\ files'[s].view_count = IF kept THEN count ELSE files[s].view_count
  <2>1. files' = [files EXCEPT ![s] = [files[s] EXCEPT !.view_count =
                    IF kept THEN count ELSE files[s].view_count]]
    BY <1>2, <1>4 DEF CountView, TypeOK
  <2>2. \A n : /\ [files[s] EXCEPT !.view_count = n].view_count = n
               /\ [files[s] EXCEPT !.view_count = n].max_views = files[s].max_views
               /\ [files[s] EXCEPT !.view_count = n].state = files[s].state
    BY <1>2 DEF File
  <2> QED BY <1>2, <2>1, <2>2 DEF TypeOK
<1>6. /\ \A d \in Clients : d # c => req'[d] = req[d]
      /\ req'[c].pc = "sending" /\ req'[c].secret = s /\ req'[c].view = count
      /\ req'[c].counted = kept
      /\ disclosed' = disclosed /\ uncounted' = uncounted
  BY <1>4 DEF DownloadFile, Goto, TypeOK, history
<1>7. Untold'
  BY <1>3, <1>5, <1>6 DEF ViewsCounted, Untold, At
<1>8. \A d \in Clients : At(d, "sending") =>
        /\ req[d].secret \in Secrets /\ req[d].view \in Nat
        /\ files[req[d].secret].view_count \in Nat
  <2>1. ASSUME NEW d \in Clients, At(d, "sending")
        PROVE  req[d].secret \in Secrets /\ req[d].view \in Nat
    BY <2>1, RequestFields DEF At
  <2>2. \A r \in Secrets : files[r].view_count \in Nat
    BY FileFields, SMTT(30) DEF TypeOK
  <2> QED BY <2>1, <2>2
<1>9. \A r \in Secrets : /\ files[r].view_count \in Nat /\ files'[r].view_count \in Nat
                         /\ files[r].view_count <= files'[r].view_count
  <2>1. \A r \in Secrets : files[r].view_count \in Nat
    BY FileFields, SMTT(30) DEF TypeOK
  <2> QED BY <1>1, <1>2, <1>5, <2>1
<1>10. ASSUME NEW r \in Secrets
       PROVE  /\ Live(r)' => files'[r].view_count < files'[r].max_views
              /\ \A n \in 1..MaxViews :
                   /\ disclosed'[r][n] <= (IF n <= files'[r].view_count THEN 1 ELSE 0)
                   /\ uncounted'[r][n] > 0 => n <= files'[r].view_count + 1
  <2>1. /\ Live(r) => files[r].view_count < files[r].max_views
        /\ \A n \in 1..MaxViews :
             /\ disclosed[r][n] <= (IF n <= files[r].view_count THEN 1 ELSE 0)
             /\ uncounted[r][n] > 0 => n <= files[r].view_count + 1
    BY DEF ViewsCounted, AnswersMatchCount
  <2>2. \A n \in 1..MaxViews : disclosed[r][n] \in Nat
    <3>1. disclosed \in [Secrets -> [1..MaxViews -> Nat]]
      BY Zenon DEF TypeOK
    <3> QED BY <3>1
  <2>3. Live(r)' => files'[r].view_count < files'[r].max_views
    BY <1>1, <1>3, <1>4, <1>5, <2>1 DEF Live
  <2>4. ASSUME NEW n \in 1..MaxViews
        PROVE  /\ disclosed'[r][n] <= (IF n <= files'[r].view_count THEN 1 ELSE 0)
               /\ uncounted'[r][n] > 0 => n <= files'[r].view_count + 1
    BY <1>6, <1>9, <2>1, <2>2, FileConstants
  <2> QED BY <2>3, <2>4
<1>11. ASSUME NEW d \in Clients, d # c, At(d, "sending"), req[d].counted
       PROVE  /\ req[d].view <= files'[req[d].secret].view_count
              /\ disclosed[req[d].secret][req[d].view] = 0
              /\ \A e \in Clients : (e # d /\ At(e, "sending") /\ req[e].counted) =>
                   req[e].secret # req[d].secret \/ req[e].view # req[d].view
              /\ req[d].secret # s \/ req[d].view # count
  <2>1. /\ req[d].view <= files[req[d].secret].view_count
        /\ disclosed[req[d].secret][req[d].view] = 0
        /\ \A e \in Clients : (e # d /\ At(e, "sending") /\ req[e].counted) =>
             req[e].secret # req[d].secret \/ req[e].view # req[d].view
    BY <1>11 DEF ViewsCounted, AnswersMatchCount
  <2>2. req[d].view <= files'[req[d].secret].view_count
    BY <1>8, <1>9, <1>11, <2>1
  <2>3. req[d].secret # s \/ req[d].view # count
    BY <1>1, <1>3, <2>1
  <2> QED BY <2>1, <2>2, <2>3
<1>12. kept =>
         /\ disclosed[s][count] = 0
         /\ \A e \in Clients : (e # c /\ At(e, "sending") /\ req[e].counted) =>
              req[e].secret # s \/ req[e].view # count
  <2> SUFFICES ASSUME kept
               PROVE  /\ disclosed[s][count] = 0
                      /\ \A e \in Clients :
                           (e # c /\ At(e, "sending") /\ req[e].counted) =>
                             req[e].secret # s \/ req[e].view # count
    OBVIOUS
  <2>1. count \in 1..MaxViews
    BY <1>1, <1>2, <1>3, FileConstants DEF ViewsCounted
  <2>2. disclosed[s][count] = 0
    <3>1. disclosed[s][count] <= IF count <= files[s].view_count THEN 1 ELSE 0
      BY <1>2, <2>1 DEF ViewsCounted, AnswersMatchCount
    <3>2. disclosed[s] \in [1..MaxViews -> Nat]
      BY <1>2 DEF TypeOK
    <3>3. ~(count <= files[s].view_count)
      BY <1>1, <1>3
    <3>4. disclosed[s][count] \in Nat
      BY <2>1, <3>2
    <3>5. disclosed[s][count] <= 0
      BY <3>1, <3>3
    <3> QED BY <3>4, <3>5
  <2> QED BY <1>11, <2>2
<1>13. ASSUME NEW d \in Clients, At(d, "sending")'
       PROVE  /\ req'[d].view <= files'[req'[d].secret].view_count + 1
              /\ req'[d].counted =>
                   /\ req'[d].view <= files'[req'[d].secret].view_count
                   /\ disclosed'[req'[d].secret][req'[d].view] = 0
                   /\ \A e \in Clients : (e # d /\ At(e, "sending")' /\ req'[e].counted) =>
                        req'[e].secret # req'[d].secret \/ req'[e].view # req'[d].view
  <2>1. \A e \in Clients : (e # c /\ At(e, "sending")') => At(e, "sending") /\ req'[e] = req[e]
    BY <1>6 DEF At
  <2>2. CASE d = c
    <3>1. req'[d].view <= files'[req'[d].secret].view_count + 1
      BY <1>1, <1>2, <1>3, <1>6, <1>9, <2>2
    <3>2. ASSUME kept
          PROVE  /\ req'[d].view <= files'[req'[d].secret].view_count
                 /\ disclosed'[req'[d].secret][req'[d].view] = 0
                 /\ \A e \in Clients : (e # d /\ At(e, "sending")' /\ req'[e].counted) =>
                      req'[e].secret # req'[d].secret \/ req'[e].view # req'[d].view
      BY <1>1, <1>3, <1>5, <1>6, <1>12, <2>1, <2>2, <3>2
    <3> QED BY <1>6, <2>2, <3>1, <3>2
  <2>3. CASE d # c
    <3>1. req'[d] = req[d] /\ At(d, "sending")
      BY <1>13, <2>1, <2>3
    <3>2. req'[d].view <= files'[req'[d].secret].view_count + 1
      BY <1>8, <1>9, <3>1 DEF ViewsCounted, InStep
    <3>3. ASSUME req[d].counted, NEW e \in Clients, e # d, At(e, "sending")',
                 req'[e].counted
          PROVE  req'[e].secret # req[d].secret \/ req'[e].view # req[d].view
      BY <1>6, <1>11, <2>1, <2>3, <3>1, <3>3
    <3> QED BY <1>6, <1>11, <2>3, <3>1, <3>2, <3>3
  <2> QED BY <2>2, <2>3
<1>14. AnswersMatchCount' /\ InStep'
  BY <1>10, <1>13 DEF AnswersMatchCount, InStep
<1>15. \A r \in Secrets : files'[r].max_views <= MaxViews
  BY <1>5 DEF ViewsCounted
<1> QED BY <1>7, <1>14, <1>15 DEF ViewsCounted

\* An answer leaves.
LEMMA SentStep ==
  ASSUME TypeOK, ViewsCounted, NEW c \in Clients, Send(c)
  PROVE  ViewsCounted'
<1>1. PICK s \in Secrets, n \in Nat : s = req[c].secret /\ n = req[c].view
  BY RequestFields DEF Send, At
<1>2. s \in Secrets /\ n \in Nat /\ At(c, "sending") /\ files' = files
  BY <1>1, RequestFields DEF Send, At, tables
<1>3. PICK x, y :
        /\ x \in {0, 1} /\ y \in {0, 1}
        /\ x = 1 => req[c].counted
        /\ \A r \in Secrets, m \in 1..MaxViews :
             /\ r # s \/ m # n => /\ disclosed'[r][m] = disclosed[r][m]
                                 /\ uncounted'[r][m] = uncounted[r][m]
        /\ n \in 1..MaxViews => /\ disclosed'[s][n] = disclosed[s][n] + x
                                /\ uncounted'[s][n] = uncounted[s][n] + y
  <2>1. /\ disclosed \in [Secrets -> [1..MaxViews -> Nat]]
        /\ uncounted \in [Secrets -> [1..MaxViews -> Nat]]
    BY Zenon DEF TypeOK
  <2>2. n \in 1..MaxViews => disclosed[s][n] \in Nat /\ uncounted[s][n] \in Nat
    BY <2>1
  <2>3. CASE /\ req[c].counted
             /\ disclosed' = OneMore(disclosed, s, n)
             /\ uncounted' = uncounted
    <3>1. /\ \A r \in Secrets, m \in Nat : r # s \/ m # n =>
               OneMore(disclosed, s, n)[r][m] = disclosed[r][m]
          /\ n \in 1..MaxViews => OneMore(disclosed, s, n)[s][n] = disclosed[s][n] + 1
      BY <2>1, SentOnce
    <3>2. disclosed' = OneMore(disclosed, s, n)
      BY <2>3
    <3> WITNESS 1, 0
    <3> QED BY <2>2, <2>3, <3>1, <3>2
  <2>4. CASE /\ uncounted' = OneMore(uncounted, s, n)
             /\ disclosed' = disclosed
    <3>1. /\ \A r \in Secrets, m \in Nat : r # s \/ m # n =>
               OneMore(uncounted, s, n)[r][m] = uncounted[r][m]
          /\ n \in 1..MaxViews => OneMore(uncounted, s, n)[s][n] = uncounted[s][n] + 1
      BY <2>1, SentOnce
    <3>2. uncounted' = OneMore(uncounted, s, n)
      BY <2>4
    <3> WITNESS 0, 1
    <3> QED BY <2>2, <2>4, <3>1, <3>2
  <2> QED BY <1>1, <2>3, <2>4 DEF Send
<1>4. \A d \in Clients : At(d, "sending")' => d # c /\ At(d, "sending") /\ req'[d] = req[d]
  <2>1. \A d \in Clients : d # c => req'[d] = req[d]
    BY DEF Send, Goto, TypeOK
  <2>2. req'[c].pc = "idle"
    BY DEF Send, Goto, Idle, TypeOK
  <2> QED BY <2>1, <2>2 DEF At
<1>5. Untold'
  <2>1. files[s].state # "unborn"
    BY <1>1, <1>2 DEF ViewsCounted, Untold
  <2> QED BY <1>2, <1>3, <1>4, <2>1 DEF ViewsCounted, Untold
<1>6. /\ n <= files[s].view_count + 1
      /\ req[c].counted =>
           /\ n <= files[s].view_count /\ disclosed[s][n] = 0
           /\ \A d \in Clients : (d # c /\ At(d, "sending") /\ req[d].counted) =>
                req[d].secret # s \/ req[d].view # n
  BY <1>1, <1>2 DEF ViewsCounted, AnswersMatchCount, InStep
<1>7. \A r \in Secrets, m \in 1..MaxViews :
        disclosed[r][m] \in Nat /\ uncounted[r][m] \in Nat
  <2>1. /\ disclosed \in [Secrets -> [1..MaxViews -> Nat]]
        /\ uncounted \in [Secrets -> [1..MaxViews -> Nat]]
    BY Zenon DEF TypeOK
  <2> QED BY <2>1
<1>8. ASSUME NEW r \in Secrets
      PROVE  /\ Live(r)' => files'[r].view_count < files'[r].max_views
             /\ \A m \in 1..MaxViews :
                  /\ disclosed'[r][m] <= (IF m <= files'[r].view_count THEN 1 ELSE 0)
                  /\ uncounted'[r][m] > 0 => m <= files'[r].view_count + 1
  <2>1. /\ Live(r) => files[r].view_count < files[r].max_views
        /\ \A m \in 1..MaxViews :
             /\ disclosed[r][m] <= (IF m <= files[r].view_count THEN 1 ELSE 0)
             /\ uncounted[r][m] > 0 => m <= files[r].view_count + 1
    BY DEF ViewsCounted, AnswersMatchCount
  <2>2. ASSUME NEW m \in 1..MaxViews
        PROVE  /\ disclosed'[r][m] <= (IF m <= files[r].view_count THEN 1 ELSE 0)
               /\ uncounted'[r][m] > 0 => m <= files[r].view_count + 1
    BY <1>3, <1>6, <1>7, <2>1
  <2> QED BY <1>2, <2>1, <2>2 DEF Live
<1>9. ASSUME NEW d \in Clients, At(d, "sending")'
      PROVE  /\ req'[d].view <= files'[req'[d].secret].view_count + 1
             /\ req'[d].counted =>
                  /\ req'[d].view <= files'[req'[d].secret].view_count
                  /\ disclosed'[req'[d].secret][req'[d].view] = 0
                  /\ \A e \in Clients : (e # d /\ At(e, "sending")' /\ req'[e].counted) =>
                       req'[e].secret # req'[d].secret \/ req'[e].view # req'[d].view
  <2>1. d # c /\ req'[d] = req[d] /\ At(d, "sending")
    BY <1>4, <1>9
  <2>2. req[d].view <= files[req[d].secret].view_count + 1
    BY <2>1 DEF ViewsCounted, InStep
  <2>3. ASSUME req[d].counted
        PROVE  /\ req[d].view <= files[req[d].secret].view_count
               /\ disclosed'[req[d].secret][req[d].view] = 0
               /\ \A e \in Clients : (e # d /\ At(e, "sending") /\ req[e].counted) =>
                    req[e].secret # req[d].secret \/ req[e].view # req[d].view
    <3>1. /\ req[d].view <= files[req[d].secret].view_count
          /\ disclosed[req[d].secret][req[d].view] = 0
          /\ \A e \in Clients : (e # d /\ At(e, "sending") /\ req[e].counted) =>
               req[e].secret # req[d].secret \/ req[e].view # req[d].view
      BY <2>1, <2>3 DEF ViewsCounted, AnswersMatchCount
    <3>2. disclosed'[req[d].secret][req[d].view] = 0
      <4>1. req[d].secret \in Secrets /\ req[d].view \in Nat
        BY <2>1, RequestFields DEF At
      <4>2. CASE disclosed' = disclosed
        BY <3>1, <4>2
      <4>3. CASE req[c].counted /\ disclosed' = OneMore(disclosed, s, n)
        <5>1. req[d].secret # s \/ req[d].view # n
          BY <1>6, <2>1, <2>3, <4>3
        <5>2. disclosed \in [Secrets -> [1..MaxViews -> Nat]]
          BY Zenon DEF TypeOK
        <5>3. \A r \in Secrets, m \in Nat : r # s \/ m # n =>
                OneMore(disclosed, s, n)[r][m] = disclosed[r][m]
          BY <5>2, SentOnce
        <5> QED BY <3>1, <4>1, <4>3, <5>1, <5>3
      <4> QED BY <1>1, <4>2, <4>3 DEF Send
    <3> QED BY <3>1, <3>2
  <2> QED BY <1>2, <1>4, <2>1, <2>2, <2>3
<1>10. AnswersMatchCount' /\ InStep'
  BY <1>8, <1>9 DEF AnswersMatchCount, InStep
<1> QED BY <1>2, <1>5, <1>10 DEF ViewsCounted

\* A secret is created, with all its views ahead.
LEMMA CreatedStep ==
  ASSUME TypeOK, ViewsCounted, NEW c \in Clients, NEW n \in 1..MaxViews,
         PublishCreate(c, n)
  PROVE  ViewsCounted'
<1>1. PICK s : s = req[c].secret
  OBVIOUS
<1>2. s \in Secrets /\ n \in Nat /\ n >= 1 /\ n <= MaxViews
  BY <1>1, RequestFields, FileConstants DEF PublishCreate, At
<1>3. /\ \A r \in Secrets : r # s => files'[r] = files[r]
      /\ files'[s].max_views = n /\ files'[s].view_count = 0
      /\ files'[s].state = "live" /\ files[s].state = "unborn"
      /\ disclosed' = disclosed /\ uncounted' = uncounted
  BY <1>1, <1>2 DEF PublishCreate, TypeOK
<1>4. \A d \in Clients : At(d, "sending")' => At(d, "sending") /\ req'[d] = req[d]
  <2>1. req'[c].pc \in {"idle", "failing"}
    <3>1. [req[c] EXCEPT !.pc = "failing"].pc = "failing"
      BY DEF PublishCreate, At, TypeOK, Request
    <3>2. req' = [req EXCEPT ![c] = Idle]
          \/ req' = [req EXCEPT ![c] = [req[c] EXCEPT !.pc = "failing"]]
      BY DEF PublishCreate, Committed, Goto
    <3>3. req'[c] = Idle \/ req'[c] = [req[c] EXCEPT !.pc = "failing"]
      BY <3>2 DEF TypeOK
    <3>4. Idle.pc = "idle"
      BY DEF Idle
    <3> QED BY <3>1, <3>3, <3>4
  <2>2. \A d \in Clients : d # c => req'[d] = req[d]
    BY DEF PublishCreate, Committed, Goto, TypeOK
  <2> QED BY <2>1, <2>2 DEF At
<1>5. /\ \A m \in 1..MaxViews : disclosed[s][m] = 0 /\ uncounted[s][m] = 0
      /\ \A d \in Clients : At(d, "sending") => req[d].secret # s
  BY <1>2, <1>3 DEF ViewsCounted, Untold
<1>6. Untold'
  BY <1>3, <1>4 DEF ViewsCounted, Untold
<1>7. ASSUME NEW r \in Secrets
      PROVE  /\ Live(r)' => files'[r].view_count < files'[r].max_views
             /\ \A m \in 1..MaxViews :
                  /\ disclosed'[r][m] <= (IF m <= files'[r].view_count THEN 1 ELSE 0)
                  /\ uncounted'[r][m] > 0 => m <= files'[r].view_count + 1
  <2>1. /\ Live(r) => files[r].view_count < files[r].max_views
        /\ \A m \in 1..MaxViews :
             /\ disclosed[r][m] <= (IF m <= files[r].view_count THEN 1 ELSE 0)
             /\ uncounted[r][m] > 0 => m <= files[r].view_count + 1
    BY DEF ViewsCounted, AnswersMatchCount
  <2>2. CASE r # s
    BY <1>3, <2>1, <2>2 DEF Live
  <2>3. CASE r = s
    BY <1>2, <1>3, <1>5, <2>3
  <2> QED BY <2>2, <2>3
<1>8. ASSUME NEW d \in Clients, At(d, "sending")'
      PROVE  /\ req'[d].view <= files'[req'[d].secret].view_count + 1
             /\ req'[d].counted =>
                  /\ req'[d].view <= files'[req'[d].secret].view_count
                  /\ disclosed'[req'[d].secret][req'[d].view] = 0
                  /\ \A e \in Clients : (e # d /\ At(e, "sending")' /\ req'[e].counted) =>
                       req'[e].secret # req'[d].secret \/ req'[e].view # req'[d].view
  <2>1. /\ At(d, "sending") /\ req'[d] = req[d] /\ req[d].secret # s
        /\ req[d].secret \in Secrets
    BY <1>4, <1>5, <1>8, RequestFields DEF At
  <2>2. files'[req[d].secret] = files[req[d].secret]
    BY <1>3, <2>1
  <2>3. /\ req[d].view <= files[req[d].secret].view_count + 1
        /\ req[d].counted =>
             /\ req[d].view <= files[req[d].secret].view_count
             /\ disclosed[req[d].secret][req[d].view] = 0
             /\ \A e \in Clients : (e # d /\ At(e, "sending") /\ req[e].counted) =>
                  req[e].secret # req[d].secret \/ req[e].view # req[d].view
    BY <2>1 DEF ViewsCounted, AnswersMatchCount, InStep
  <2> QED BY <1>3, <1>4, <2>1, <2>2, <2>3
<1>9. AnswersMatchCount' /\ InStep'
  BY <1>7, <1>8 DEF AnswersMatchCount, InStep
<1>10. \A r \in Secrets : files'[r].max_views <= MaxViews
  BY <1>2, <1>3 DEF ViewsCounted
<1> QED BY <1>6, <1>9, <1>10 DEF ViewsCounted

\* The count of views is kept by every step; one case per action.
LEMMA ViewsStep ==
  ASSUME TypeOK, ViewsCounted, [Next]_vars
  PROVE  ViewsCounted'
<1> USE DEF tables, history
<1>1. ASSUME files' = files, disclosed' = disclosed, uncounted' = uncounted, req' = req
      PROVE  ViewsCounted'
  BY <1>1, CalmStep DEF Live, At
<1>2. ASSUME NEW c \in Clients, files' = files, disclosed' = disclosed, uncounted' = uncounted,
             \A d \in Clients : d # c => req'[d] = req[d],
             req'[c].pc # "sending"
      PROVE  ViewsCounted'
  BY <1>2, CalmStep DEF Live, At
<1>3. ASSUME NEW c \in Clients, NEW r, Goto(c, r), r.pc # "sending",
             files' = files, disclosed' = disclosed, uncounted' = uncounted
      PROVE  ViewsCounted'
  BY <1>2, <1>3 DEF Goto, TypeOK
<1>4. ASSUME NEW c \in Clients, Upload(c) \/ PublishReplace(c) \/ FailUpload(c)
                                \/ Fetch(c)
      PROVE  ViewsCounted'
  <2>1. \A p : req[c].pc # "idle" => [req[c] EXCEPT !.pc = p].pc = p
    BY DEF TypeOK, Request
  <2>2. \/ Goto(c, Idle)
        \/ \E p \in {"uploaded", "failing", "fetched"} :
             Goto(c, [req[c] EXCEPT !.pc = p])
    BY <1>4 DEF Upload, PublishReplace, Committed, FailUpload, Fetch
  <2>3. req[c].pc # "idle" /\ Idle.pc = "idle"
    BY <1>4 DEF Upload, PublishReplace, FailUpload, Fetch, At, Idle
  <2>4. files' = files /\ disclosed' = disclosed /\ uncounted' = uncounted
    BY <1>4 DEF Upload, PublishReplace, FailUpload, Fetch
  <2>5. CASE Goto(c, Idle)
    BY <1>3, <2>3, <2>4, <2>5
  <2>6. ASSUME NEW p \in {"uploaded", "failing", "fetched"},
               Goto(c, [req[c] EXCEPT !.pc = p])
        PROVE  ViewsCounted'
    <3>1. PICK r : r = [req[c] EXCEPT !.pc = p]
      OBVIOUS
    <3>2. Goto(c, r) /\ r.pc # "sending"
      BY <2>1, <2>3, <2>6, <3>1
    <3> QED BY <1>3, <2>4, <3>2
  <2> QED BY <2>2, <2>5, <2>6
<1>5. ASSUME NEW c \in Clients, Undo(c) \/ Abandon(c) PROVE ViewsCounted'
  BY <1>3, <1>5 DEF Undo, Abandon, Idle
<1>6. ASSUME NEW c \in Clients, NEW u \in Users, NEW s \in Secrets, NEW o \in Objects,
             CreateFile(c, u, s, o) \/ ReplaceFile(c, u, s, o)
      PROVE  ViewsCounted'
  <2>1. PICK e : Stage(c, u, s, o, e)
    BY <1>6 DEF CreateFile, ReplaceFile
  <2>2. PICK r : r = [pc |-> "uploading", secret |-> s, object |-> o, user |-> u,
                      expected |-> e]
    OBVIOUS
  <2> QED BY <1>3, <2>1, <2>2 DEF Stage
<1>7. ASSUME NEW c \in Clients, UploadStep(c) PROVE ViewsCounted'
  BY <1>4, <1>5, <1>6, <1>7, CreatedStep DEF UploadStep
<1>8. ASSUME NEW c \in Clients, DownloadStep(c) PROVE ViewsCounted'
  <2>1. ASSUME NEW s \in Secrets, OpenFile(c, s) PROVE ViewsCounted'
    <3>1. PICK r : r = [pc |-> "opening", secret |-> s, version |-> CurrentVersion(s)]
      OBVIOUS
    <3> QED BY <1>3, <2>1, <3>1 DEF OpenFile
  <2> QED BY <1>4, <1>8, <2>1, CountedStep, SentStep DEF DownloadStep
<1>9. ASSUME SystemStep PROVE ViewsCounted'
  <2>1. disclosed' = disclosed /\ uncounted' = uncounted /\ req' = req
    BY <1>9 DEF SystemStep, DeleteFile, ExpireFile, Sweep, SwitchUserActivation,
       Elapse, LeaseLapses, BackoffOver
  <2>2. ASSUME NEW s \in Secrets, NEW r \in Secrets,
               \/ \E u \in Users : DeleteFile(u, r)
               \/ ExpireFile(r) \/ Elapse(r)
        PROVE  /\ files'[s].max_views = files[s].max_views
               /\ files'[s].view_count = files[s].view_count
               /\ files'[s].state = "live" => files[s].state = "live"
               /\ files'[s].state = "unborn" => files[s].state = "unborn"
    <3>1. ASSUME NEW f \in File PROVE
            /\ \A st \in {"removed", "expired"} :
                 /\ [f EXCEPT !.state = st].max_views = f.max_views
                 /\ [f EXCEPT !.state = st].view_count = f.view_count
                 /\ [f EXCEPT !.state = st].state = st
            /\ [f EXCEPT !.expired = TRUE].max_views = f.max_views
            /\ [f EXCEPT !.expired = TRUE].view_count = f.view_count
            /\ [f EXCEPT !.expired = TRUE].state = f.state
      BY DEF File
    <3>2. files[r] \in File /\ files[s] \in File
      BY DEF TypeOK
    <3>3. \/ \E st \in {"removed", "expired"} :
               files' = [files EXCEPT ![r] = [files[r] EXCEPT !.state = st]]
          \/ files' = [files EXCEPT ![r] = [files[r] EXCEPT !.expired = TRUE]]
      BY <2>2 DEF DeleteFile, ExpireFile, Elapse, TypeOK
    <3>4. \/ \E st \in {"removed", "expired"} :
               files'[s] = IF s = r THEN [files[r] EXCEPT !.state = st] ELSE files[s]
          \/ files'[s] = IF s = r THEN [files[r] EXCEPT !.expired = TRUE] ELSE files[s]
      BY <3>3 DEF TypeOK
    <3>5. CASE files'[s] = files[s]
      BY <3>5
    <3>6. CASE files'[s] # files[s]
      <4>1. s = r
        BY <3>4, <3>6
      <4>2. ASSUME NEW st \in {"removed", "expired"},
                   files'[s] = [files[s] EXCEPT !.state = st]
            PROVE  /\ files'[s].max_views = files[s].max_views
                   /\ files'[s].view_count = files[s].view_count
                   /\ files'[s].state = st
        BY <3>1, <3>2, <4>2
      <4>3. CASE files'[s] = [files[s] EXCEPT !.expired = TRUE]
        BY <3>1, <3>2, <4>3
      <4> QED BY <3>4, <4>1, <4>2, <4>3
    <3> QED BY <3>5, <3>6
  <2>3. ASSUME NEW s \in Secrets, Sweep
        PROVE  /\ files'[s].max_views = files[s].max_views
               /\ files'[s].view_count = files[s].view_count
               /\ files'[s].state = "live" => files[s].state = "live"
               /\ files'[s].state = "unborn" => files[s].state = "unborn"
    <3>1. PICK x, y : /\ files'[s] = [files[s] EXCEPT !.state = x, !.owner = y]
                      /\ x \in {"expired", files[s].state}
      BY <2>3 DEF Sweep
    <3>2. /\ [files[s] EXCEPT !.state = x, !.owner = y].state = x
          /\ [files[s] EXCEPT !.state = x, !.owner = y].max_views = files[s].max_views
          /\ [files[s] EXCEPT !.state = x, !.owner = y].view_count = files[s].view_count
      BY DEF TypeOK, File
    <3> QED BY <3>1, <3>2
  <2>4. ASSUME \/ \E u \in Users : SwitchUserActivation(u)
               \/ \E o \in Objects : LeaseLapses(o) \/ BackoffOver(o)
        PROVE  files' = files
    BY <2>4 DEF SwitchUserActivation, LeaseLapses, BackoffOver
  <2>5. \A s \in Secrets :
           /\ files'[s].max_views = files[s].max_views
           /\ files'[s].view_count = files[s].view_count
           /\ files'[s].state = "live" => files[s].state = "live"
           /\ files'[s].state = "unborn" => files[s].state = "unborn"
    BY <1>9, <2>2, <2>3, <2>4 DEF SystemStep
  <2> QED BY <2>1, <2>5, CalmStep DEF Live, At
<1>10. ASSUME NEW w \in Workers, CleanupStep(w) PROVE ViewsCounted'
  <2>1. files' = files /\ disclosed' = disclosed /\ uncounted' = uncounted /\ req' = req
    BY <1>10 DEF CleanupStep, StartCleanup, DeleteQueued, MarkProcessed, Retry,
       DeletePending, ForgetPending, SkipPending, CrashCleanup
  <2> QED BY <1>1, <2>1
<1>11. CASE UNCHANGED vars
  BY <1>1, <1>11 DEF vars
<1> QED BY <1>5, <1>7, <1>8, <1>9, <1>10, <1>11 DEF Next

\* However many downloads race, a view that counted is given out at most once
\* and a stored file has views left; what failed audit rows give out besides is
\* never more than one view ahead of the count.
THEOREM AnswersAndCount == Spec => []AnswersMatchCount
<1>1. Init => ViewsCounted
  BY FileConstants DEF Init, ViewsCounted, AnswersMatchCount, InStep, Untold, Live,
                       At, Idle
<1>2. ViewsCounted => AnswersMatchCount
  BY DEF ViewsCounted
<1> QED BY <1>1, <1>2, ViewsStep, FileTypeCorrect, PTL DEF Spec

-----------------------------------------------------------------------------
(* The refinement of ObjectBilling *)

\* The bill as Billing sees it.
Place(outboxed, named) ==
  CASE outboxed \in {"queued", "waiting"} -> "owed"
    [] outboxed = "processed"             -> "settled"
    [] outboxed = "none" /\ named         -> "active"
    [] OTHER                              -> "absent"
BillOf(o) == Place(outbox[o], Named(o))
Bill == [o \in Objects |-> BillOf(o)]

LEMMA Places ==
  ASSUME NEW x \in {"none", "queued", "waiting", "processed"}, NEW b \in BOOLEAN
  PROVE  /\ x \in {"queued", "waiting"} => Place(x, b) = "owed"
         /\ x = "processed" => Place(x, b) = "settled"
         /\ x = "none" /\ b => Place(x, b) = "active"
         /\ x = "none" /\ ~b => Place(x, b) = "absent"
  BY DEF Place

\* What the types and the invariant leave of it.
LEMMA Billed ==
  ASSUME ObjectInv, NEW o \in Objects
  PROVE  /\ Bill[o] = "owed" <=> outbox[o] \in {"queued", "waiting"}
         /\ Bill[o] = "settled" <=> outbox[o] = "processed"
         /\ Bill[o] = "active" <=> Named(o)
         /\ Bill[o] = "absent" <=> outbox[o] = "none" /\ ~Named(o)
<1>1. outbox[o] \in {"none", "queued", "waiting", "processed"}
  BY DEF ObjectInv, TypeOK
<1>2. Named(o) \in BOOLEAN /\ (Named(o) => outbox[o] = "none")
  BY DEF ObjectInv, Leased, Named
<1> QED BY <1>1, <1>2, Places DEF Bill, BillOf

\* The mapping, in the terms of the lemmas above.
LEMMA Mapped ==
  /\ \A o : Billing!Upload(o) <=>
       Bill[o] = "absent" /\ bucket' = bucket \cup {o} /\ Bill' = Bill
  /\ \A o : Billing!Publish(o) <=>
       /\ Bill[o] = "absent" /\ Bill' = [Bill EXCEPT ![o] = "active"]
       /\ bucket' \in {bucket, bucket \cup {o}}
  /\ \A S : Billing!Delete(S) <=>
       /\ \A o \in S : Bill[o] = "active"
       /\ Bill' = [o \in Objects |-> IF o \in S THEN "owed" ELSE Bill[o]]
       /\ bucket' = bucket
  /\ \A o : Billing!Remove(o) <=> bucket' = bucket \ {o} /\ Bill' = Bill
  /\ \A o : Billing!Settle(o) <=>
       /\ Bill[o] = "owed" /\ Bill' = [Bill EXCEPT ![o] = "settled"]
       /\ bucket' = bucket \ {o}
  BY DEF Billing!Upload, Billing!Publish, Billing!Delete,
         Billing!Remove, Billing!Settle, Bill, BillOf, Place

LEMMA BillUnseen ==
  ASSUME Bill' = Bill, bucket' = bucket
  PROVE  UNCHANGED Billing!vars
  BY DEF Billing!vars, Bill, BillOf, Place

LEMMA BillingInit == Init => Billing!Init
<1> SUFFICES ASSUME Init PROVE Billing!Init
  OBVIOUS
<1>1. ObjectInv
  BY ObjectInit
<1>2. \A o \in Objects : outbox[o] = "none" /\ ~Named(o)
  BY DEF Init, Named, Holds
<1>3. Bill = [o \in Objects |-> "absent"]
  BY <1>1, <1>2, Billed DEF Bill
<1> QED BY <1>3 DEF Billing!Init, Bill, BillOf, Place, Init

\* The bill changes only as the rows and names of its objects do.
LEMMA BillStays ==
  ASSUME \A o \in Objects : outbox'[o] = outbox[o] /\ (Named(o)' <=> Named(o))
  PROVE  Bill' = Bill
<1>1. \A o \in Objects : Named(o)' = Named(o)
  BY DEF Named
<1> QED BY <1>1 DEF Bill, BillOf

LEMMA BillPublished ==
  ASSUME ObjectInv, ObjectInv', NEW c \in Clients, NEW o \in Objects,
         NEW s \in Secrets, NEW v \in Version, Publishes(c, o, s, v)
  PROVE  Billing!Next
<1>1. TypeOK /\ Uploads(c, o) /\ ~At(c, "failing")
  BY DEF ObjectInv, Publishes, At, Uploads
<1>2. outbox[o] = "none" /\ ~Named(o)
  BY <1>1 DEF ObjectInv, Uploading
<1>3. Bill[o] = "absent"
  BY <1>2, Billed
<1>4. \A q \in Objects : outbox'[q] = outbox[q] /\ (Named(q)' <=> Named(q) \/ q = o)
  BY <1>1, VersionNamed DEF Publishes
<1>5. \A q \in Objects : q # o => BillOf(q)' = BillOf(q)
  <2> SUFFICES ASSUME NEW q \in Objects, q # o PROVE BillOf(q)' = BillOf(q)
    OBVIOUS
  <2>1. Named(q)' = Named(q)
    BY <1>4 DEF Named
  <2> QED BY <1>4, <2>1 DEF BillOf
<1>6. BillOf(o)' = "active"
  <2>1. outbox'[o] = "none" /\ Named(o)'
    BY <1>2, <1>4
  <2> QED BY <2>1 DEF BillOf, Place
<1>7. Bill' = [Bill EXCEPT ![o] = "active"]
  BY <1>5, <1>6 DEF Bill
<1>8. bucket' = bucket
  BY DEF Publishes
<1>9. Billing!Publish(o)
  BY <1>3, <1>7, <1>8, Mapped
<1> QED BY <1>9 DEF Billing!Next

LEMMA BillDeleted ==
  ASSUME ObjectInv, NEW S \in SUBSET Secrets, DeleteRows(S), bucket' = bucket
  PROVE  Billing!Next
<1>1. TypeOK
  BY DEF ObjectInv
<1>2. PICK D \in SUBSET Objects : D = {o \in Objects : \E s \in S : Holds(s, o)}
  OBVIOUS
<1>3. \A o \in D : Named(o) /\ outbox[o] = "none"
  BY <1>2 DEF Named, ObjectInv, Leased
<1>4. ASSUME NEW o \in D PROVE BillOf(o)' = "owed"
  <2>1. outbox'[o] = "queued"
    BY <1>1, <1>2, <1>3, RowsUnnamed
  <2> QED BY <2>1 DEF BillOf, Place
<1>5. ASSUME NEW o \in Objects \ D PROVE BillOf(o)' = BillOf(o)
  <2>1. outbox'[o] = outbox[o]
    <3>1. outbox[o] \in {"none", "queued", "waiting", "processed"}
      BY <1>1 DEF TypeOK
    <3> QED BY <1>1, <1>2, <3>1, RowsUnnamed
  <2>2. Named(o)' <=> Named(o)
    <3>1. \A s \in S : ~Holds(s, o)
      BY <1>2
    <3> QED BY <1>1, <3>1, RowsUnnamed DEF Named
  <2>3. Named(o)' = Named(o)
    BY <2>2 DEF Named
  <2> QED BY <2>1, <2>3 DEF BillOf
<1>6. Bill' = [o \in Objects |-> IF o \in D THEN "owed" ELSE Bill[o]]
  BY <1>4, <1>5 DEF Bill
<1>7. \A o \in D : Bill[o] = "active"
  BY <1>3, Billed
<1>8. Billing!Delete(D)
  BY <1>6, <1>7, Mapped
<1> QED BY <1>8 DEF Billing!Next

\* A row of the outbox changes, and with it perhaps the bucket.
LEMMA BillOutbox ==
  ASSUME ObjectInv, NEW o \in Objects, versions' = versions,
         NEW x, outbox' = [outbox EXCEPT ![o] = x]
  PROVE  /\ \A q \in Objects : q # o => BillOf(q)' = BillOf(q)
         /\ x \in {"queued", "waiting"} => BillOf(o)' = "owed"
         /\ x = "processed" => BillOf(o)' = "settled"
<1>1. outbox'[o] = x /\ \A q \in Objects : q # o => outbox'[q] = outbox[q]
  BY DEF ObjectInv, TypeOK
<1>2. \A q \in Objects : Named(q)' = Named(q)
  BY DEF Named, Holds
<1> QED BY <1>1, <1>2 DEF BillOf, Place

LEMMA BillCleanup ==
  ASSUME ObjectInv, NEW w \in Workers, CleanupStep(w)
  PROVE  [Billing!Next]_(Billing!vars)
<1> USE DEF tables
<1>1. ASSUME outbox' = outbox, versions' = versions,
             bucket' = bucket \/ \E q \in Objects : bucket' = bucket \ {q}
      PROVE  [Billing!Next]_(Billing!vars)
  <2>1. Bill' = Bill
    BY <1>1, BillStays DEF Named, Holds
  <2>2. CASE bucket' = bucket
    BY <2>1, <2>2, BillUnseen
  <2>3. ASSUME NEW q \in Objects, bucket' = bucket \ {q}
        PROVE  Billing!Next
    <3>1. Billing!Remove(q)
      BY <2>1, <2>3, Mapped
    <3> QED BY <3>1 DEF Billing!Next
  <2> QED BY <1>1, <2>2, <2>3
<1>2. CASE StartCleanup(w) \/ ForgetPending(w) \/ CrashCleanup(w)
  BY <1>1, <1>2 DEF StartCleanup, ForgetPending, CrashCleanup
<1>3. ASSUME NEW o \in Objects,
             DeleteQueued(w, o) \/ DeletePending(w, o) \/ SkipPending(w, o)
      PROVE  [Billing!Next]_(Billing!vars)
  BY <1>1, <1>3 DEF DeleteQueued, DeletePending, SkipPending
<1>4. ASSUME MarkProcessed(w) PROVE [Billing!Next]_(Billing!vars)
  <2>1. PICK o \in Objects : o = work[w].deleted /\ o \in work[w].queued
    BY <1>4 DEF MarkProcessed, ObjectInv, TypeOK, Work
  <2>2. /\ outbox' = [outbox EXCEPT ![o] = "processed"]
        /\ versions' = versions /\ bucket' = bucket
    BY <1>4, <2>1 DEF MarkProcessed
  <2>3. outbox[o] \in {"queued", "waiting", "processed"} /\ o \notin bucket
    BY <2>1 DEF ObjectInv, Queue, TypeOK
  <2>4. Bill' = [Bill EXCEPT ![o] = "settled"]
    BY <2>2, BillOutbox DEF Bill
  <2>5. CASE outbox[o] = "processed"
    <3>1. Bill[o] = "settled"
      BY <2>5, Billed
    <3>2. Bill' = Bill
      BY <2>4, <3>1 DEF Bill
    <3> QED BY <2>2, <3>2, BillUnseen
  <2>6. CASE outbox[o] \in {"queued", "waiting"}
    <3>1. Bill[o] = "owed" /\ bucket' = bucket \ {o}
      BY <2>2, <2>3, <2>6, Billed
    <3>2. Billing!Settle(o)
      BY <2>4, <3>1, Mapped
    <3> QED BY <3>2 DEF Billing!Next
  <2> QED BY <2>3, <2>5, <2>6
<1>5. ASSUME NEW o \in Objects, Retry(w, o) PROVE [Billing!Next]_(Billing!vars)
  <2>1. /\ outbox' = [outbox EXCEPT ![o] = DueAgain(o)]
        /\ versions' = versions /\ bucket' \in {bucket, bucket \ {o}}
    BY <1>5 DEF Retry
  <2>2. outbox[o] \in {"queued", "waiting", "processed"}
    BY <1>5 DEF Retry, ObjectInv, Queue, TypeOK
  <2>3. BillOf(o)' = Bill[o]
    <3>1. CASE outbox[o] = "processed"
      BY <2>1, <3>1, Billed, BillOutbox DEF DueAgain
    <3>2. CASE outbox[o] \in {"queued", "waiting"}
      BY <2>1, <3>2, Billed, BillOutbox DEF DueAgain
    <3> QED BY <2>2, <3>1, <3>2
  <2>4. Bill' = Bill
    BY <2>1, <2>3, BillOutbox DEF Bill
  <2>5. CASE bucket' = bucket
    BY <2>4, <2>5, BillUnseen
  <2>6. CASE bucket' = bucket \ {o}
    <3>1. Billing!Remove(o)
      BY <2>4, <2>6, Mapped
    <3> QED BY <3>1 DEF Billing!Next
  <2> QED BY <2>1, <2>5, <2>6
<1> QED BY <1>2, <1>3, <1>4, <1>5 DEF CleanupStep

LEMMA BillingStep ==
  ASSUME ObjectInv, ObjectInv', [Next]_vars
  PROVE  [Billing!Next]_(Billing!vars)
<1> USE DEF tables
<1>0. TypeOK
  BY DEF ObjectInv
<1>1. ASSUME outbox' = outbox, versions' = versions, bucket' = bucket
      PROVE  UNCHANGED Billing!vars
  <2>1. Bill' = Bill
    BY <1>1, BillStays DEF Named, Holds
  <2> QED BY <1>1, <2>1, BillUnseen
<1>2. ASSUME NEW c \in Clients,
             \/ \E u \in Users, s \in Secrets, o \in Objects :
                  CreateFile(c, u, s, o) \/ ReplaceFile(c, u, s, o)
             \/ FailUpload(c) \/ DownloadStep(c) \/ Abandon(c)
      PROVE  UNCHANGED Billing!vars
  <2>1. CASE \E u \in Users, s \in Secrets, o \in Objects :
               CreateFile(c, u, s, o) \/ ReplaceFile(c, u, s, o)
    BY <1>1, <2>1 DEF CreateFile, ReplaceFile, Stage
  <2>2. CASE FailUpload(c) \/ Abandon(c)
    BY <1>1, <2>2 DEF FailUpload, Abandon
  <2>3. CASE DownloadStep(c)
    BY <1>1, <2>3 DEF DownloadStep, OpenFile, Fetch, DownloadFile, Send
  <2> QED BY <1>2, <2>1, <2>2, <2>3
<1>3. ASSUME NEW c \in Clients, Upload(c) PROVE Billing!Next
  <2>1. PICK o \in Objects : o = req[c].object
    BY <1>0, <1>3, RequestFields DEF Upload, At
  <2>2. bucket' = bucket \cup {o} /\ outbox' = outbox /\ versions' = versions
    BY <1>3, <2>1 DEF Upload
  <2>3. outbox[o] = "none" /\ ~Named(o)
    BY <1>3, <2>1 DEF Upload, At, ObjectInv, Uploading, Uploads
  <2>4. Bill[o] = "absent" /\ Bill' = Bill
    BY <2>2, <2>3, Billed, BillStays DEF Named, Holds
  <2>5. Billing!Upload(o)
    BY <2>2, <2>4, Mapped
  <2> QED BY <2>5 DEF Billing!Next
<1>4. ASSUME NEW c \in Clients, Undo(c) PROVE [Billing!Next]_(Billing!vars)
  <2>1. PICK o \in Objects : o = req[c].object
    BY <1>0, <1>4, RequestFields DEF Undo, At
  <2>2. bucket' \in {bucket, bucket \ {o}} /\ outbox' = outbox /\ versions' = versions
    BY <1>4, <2>1 DEF Undo
  <2>3. Bill' = Bill
    BY <2>2, BillStays DEF Named, Holds
  <2>4. CASE bucket' = bucket
    BY <2>3, <2>4, BillUnseen
  <2>5. CASE bucket' = bucket \ {o}
    <3>1. Billing!Remove(o)
      BY <2>3, <2>5, Mapped
    <3> QED BY <3>1 DEF Billing!Next
  <2> QED BY <2>2, <2>4, <2>5
<1>5. ASSUME NEW c \in Clients,
             PublishReplace(c) \/ \E n \in 1..MaxViews : PublishCreate(c, n)
      PROVE  Billing!Next
  BY <1>5, PublishEffect, BillPublished
<1>6. ASSUME NEW s \in Secrets, ExpireFile(s) \/ \E u \in Users : DeleteFile(u, s)
      PROVE  Billing!Next
  <2>1. DeleteRows({s}) /\ {s} \in SUBSET Secrets /\ bucket' = bucket
    BY <1>6 DEF ExpireFile, DeleteFile
  <2> QED BY <2>1, BillDeleted
<1>7. CASE Sweep
  <2>1. PICK S \in SUBSET Secrets : DeleteRows(S)
    BY <1>7 DEF Sweep
  <2> QED BY <1>7, <2>1, BillDeleted DEF Sweep
<1>8. ASSUME \/ \E u \in Users : SwitchUserActivation(u)
             \/ \E s \in Secrets : Elapse(s)
             \/ \E o \in Objects : LeaseLapses(o)
             \/ UNCHANGED vars
      PROVE  UNCHANGED Billing!vars
  BY <1>1, <1>8 DEF SwitchUserActivation, Elapse, LeaseLapses, vars
<1>9. ASSUME NEW o \in Objects, BackoffOver(o) PROVE UNCHANGED Billing!vars
  <2>1. /\ outbox[o] = "waiting" /\ outbox' = [outbox EXCEPT ![o] = "queued"]
        /\ versions' = versions /\ bucket' = bucket
    BY <1>9 DEF BackoffOver
  <2>2. BillOf(o)' = Bill[o]
    BY <2>1, Billed, BillOutbox
  <2>3. Bill' = Bill
    BY <2>1, <2>2, BillOutbox DEF Bill
  <2> QED BY <2>1, <2>3, BillUnseen
<1>10. ASSUME NEW c \in Clients, UploadStep(c) PROVE [Billing!Next]_(Billing!vars)
  BY <1>2, <1>3, <1>4, <1>5, <1>10 DEF UploadStep
<1>11. CASE SystemStep
  BY <1>6, <1>7, <1>8, <1>9, <1>11 DEF SystemStep
<1>12. ASSUME NEW w \in Workers, CleanupStep(w) PROVE [Billing!Next]_(Billing!vars)
  BY <1>12, BillCleanup
<1> QED BY <1>2, <1>8, <1>10, <1>11, <1>12 DEF Next

\* Uploads, deletions, sweeps and retries of any number of requests and
\* workers: an object is billed from its publication until it has left the
\* bucket, is paid off once, and never comes back.
THEOREM BillingKept == Spec => KeepsBilling
<1>1. ObjectInv /\ ObjectInv' /\ [Next]_vars => [Billing!Next]_(Billing!vars)
  BY BillingStep
<1>2. Spec => Billing!Spec
  BY <1>1, BillingInit, ObjectsInvariant, PTL DEF Spec, Billing!Spec
<1> QED BY <1>2 DEF KeepsBilling
=============================================================================
