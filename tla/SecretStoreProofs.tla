-------------------------- MODULE SecretStoreProofs --------------------------
(***************************************************************************)
(* Theorems about SecretStore for every value of its constants.            *)
(***************************************************************************)
EXTENDS SecretStore, SequenceTheorems, TLAPS

-----------------------------------------------------------------------------
(* Type correctness *)

\* What a request holds once its pc says so.
LEMMA RequestFields ==
  ASSUME TypeOK, NEW c \in Clients
  PROVE  /\ ~At(c, "idle") => req[c].secret \in Secrets
         /\ At(c, "authorized") => req[c].link \in Nat
         /\ At(c, "locking") =>
              /\ req[c].link \in Nat
              /\ req[c].snap \in [view_count : Nat, policy_version : Nat]
         /\ At(c, "answering") =>
              /\ req[c].view \in Nat
              /\ req[c].version \in Nat
              /\ req[c].text \in Texts \cup {Null}
         /\ At(c, "editing") => /\ req[c].user \in Users
                                /\ req[c].seen \in Nat
         /\ At(c, "rotating") => [req[c] EXCEPT !.pc = "rotated"] \in Request
  BY DEF TypeOK, Request, At

\* The rows of a cascade keep their types.
LEMMA CascadeTypes ==
  ASSUME TypeOK, NEW S, Cascade(S)
  PROVE  /\ keys' \in [Secrets -> Nat]
         /\ versions' \in [Secrets -> Seq(Version)]
         /\ policy' \in [Secrets -> Nat]
  BY DEF TypeOK, Cascade

\* A counter of a function is bumped, or nothing is if it has no such counter.
LEMMA BumpType ==
  ASSUME NEW D, NEW f \in [D -> Nat], NEW x
  PROVE  [f EXCEPT ![x] = @ + 1] \in [D -> Nat]
<1>1. CASE x \in D
  BY <1>1
<1>2. CASE x \notin D
  BY <1>2
<1> QED BY <1>1, <1>2

LEMMA LoggedType ==
  ASSUME TypeOK, NEW s \in Secrets, NEW a \in AuditAction
  PROVE  Logged(s, a) \in [Secrets -> [AuditAction -> Nat]]
  BY DEF TypeOK, Logged

\* The columns of a row.
LEMMA RowFields ==
  ASSUME NEW r \in Row
  PROVE  /\ r.view_count \in Nat /\ r.max_views \in Nat
         /\ r.current_version \in Nat /\ r.content \in Cipher
         /\ r.owner \in Users \cup {Null}
         /\ r.state \in {"unborn", "live", "burned", "removed", "expired"}
         /\ r.age \in {"fresh", "expired", "lapsed"}
  BY DEF Row

\* The updates the actions make to a row of secrets yield a row.
LEMMA RowUpdates ==
  ASSUME NEW r \in Row
  PROVE  /\ \A k \in Cipher : [r EXCEPT !.content = k] \in Row
         /\ \A k \in Cipher, n \in Nat :
              [r EXCEPT !.content = k, !.current_version = n] \in Row
         /\ \A n \in Nat, st \in {"burned", "live"} :
              [r EXCEPT !.view_count = n, !.state = st] \in Row
         /\ \A st \in {"removed", "expired"} : [r EXCEPT !.state = st] \in Row
         /\ \A a \in {"expired", "lapsed"} : [r EXCEPT !.age = a] \in Row
         /\ \A st \in {"unborn", "live", "burned", "removed", "expired"},
               o \in Users \cup {Null} :
              [r EXCEPT !.state = st, !.owner = o] \in Row
<1>2. ASSUME NEW k \in Cipher PROVE [r EXCEPT !.content = k] \in Row
  BY Zenon DEF Row
<1>3. ASSUME NEW k \in Cipher, NEW n \in Nat
      PROVE  [r EXCEPT !.content = k, !.current_version = n] \in Row
  BY Zenon DEF Row
<1>4. ASSUME NEW n \in Nat, NEW st \in {"burned", "live"}
      PROVE  [r EXCEPT !.view_count = n, !.state = st] \in Row
  <2>1. st \in {"unborn", "live", "burned", "removed", "expired"}
    OBVIOUS
  <2> QED BY <2>1, Zenon DEF Row
<1>5. ASSUME NEW st \in {"removed", "expired"}
      PROVE  [r EXCEPT !.state = st] \in Row
  <2>1. st \in {"unborn", "live", "burned", "removed", "expired"}
    OBVIOUS
  <2> QED BY <2>1, Zenon DEF Row
<1>6. ASSUME NEW a \in {"expired", "lapsed"} PROVE [r EXCEPT !.age = a] \in Row
  <2>1. a \in {"fresh", "expired", "lapsed"}
    OBVIOUS
  <2> QED BY <2>1, Zenon DEF Row
<1>7. ASSUME NEW st \in {"unborn", "live", "burned", "removed", "expired"},
             NEW o \in Users \cup {Null}
      PROVE  [r EXCEPT !.state = st, !.owner = o] \in Row
  BY Zenon DEF Row
<1> QED BY <1>2, <1>3, <1>4, <1>5, <1>6, <1>7

LEMMA InsertTypes ==
  ASSUME TypeOK, NEW s \in Secrets, NEW t \in Texts \cup {Null},
         NEW origin \in {"create", "update", "restore"}, NEW base \in Nat,
         InsertTextVersion(s, t, origin, base)
  PROVE  /\ secrets' \in [Secrets -> Row]
         /\ keys' \in [Secrets -> Nat]
         /\ versions' \in [Secrets -> Seq(Version)]
<1>1. keys[s] + 1 \in Nat /\ secrets[s] \in Row
  BY DEF TypeOK
<1> DEFINE cipher == Seal(t, keys[s] + 1)
<1>2. cipher \in Cipher
  BY <1>1 DEF Seal, Cipher
<1>3. [cipher |-> cipher, key_version |-> keys[s] + 1,
       origin |-> origin, base |-> base] \in Version
  BY <1>1, <1>2 DEF Version
<1> HIDE DEF cipher
<1>4. [secrets[s] EXCEPT !.content = cipher, !.current_version = @ + 1] \in Row
  <2>1. secrets[s].current_version + 1 \in Nat
    BY <1>1, RowFields
  <2>2. \A k \in Cipher, n \in Nat :
          [secrets[s] EXCEPT !.content = k, !.current_version = n] \in Row
    BY <1>1, RowUpdates
  <2> QED BY <1>2, <2>1, <2>2, Zenon
<1>5. secrets' = [secrets EXCEPT ![s] = [secrets[s] EXCEPT !.content = cipher,
                                             !.current_version = @ + 1]]
  BY DEF InsertTextVersion, Repointed, cipher, TypeOK
<1>6. versions' = [versions EXCEPT ![s] = Append(versions[s],
        [cipher |-> cipher, key_version |-> keys[s] + 1,
         origin |-> origin, base |-> base])]
  BY DEF InsertTextVersion, cipher, TypeOK
<1>7. versions[s] \in Seq(Version)
  BY DEF TypeOK
<1>8. versions' \in [Secrets -> Seq(Version)]
  BY <1>3, <1>6, <1>7 DEF TypeOK
<1>9. secrets' \in [Secrets -> Row]
  BY <1>4, <1>5 DEF TypeOK
<1>10. keys' \in [Secrets -> Nat]
  BY <1>1 DEF InsertTextVersion, TypeOK
<1> QED BY <1>8, <1>9, <1>10

LEMMA ResealedType ==
  ASSUME TypeOK, NEW s \in Secrets, NEW k \in Cipher
  PROVE  Resealed(s, k) \in [Secrets -> Seq(Version)]
<1> DEFINE cur == secrets[s].current_version
           vs  == versions[s]
           ver == [vs[cur] EXCEPT !.cipher = k, !.key_version = k.key]
           new == [vs EXCEPT ![cur] = ver]
<1>1. vs \in Seq(Version)
  BY DEF TypeOK
<1>2. Resealed(s, k) = [versions EXCEPT ![s] = new]
  BY DEF Resealed, TypeOK
<1>3. CASE cur \in 1..Len(vs)
  <2>1. vs[cur] \in Version /\ k.key \in Nat
    BY <1>1, <1>3, ElementOfSeq DEF Cipher
  <2>2. ver \in Version
    BY <2>1 DEF Version
  <2>3. new \in Seq(Version)
    BY <1>1, <1>3, <2>2, ExceptSeq
  <2> QED BY <1>2, <2>3 DEF TypeOK
<1>4. CASE cur \notin 1..Len(vs)
  <2>1. DOMAIN vs = 1..Len(vs)
    BY <1>1
  <2>2. new = vs
    BY <1>1, <1>4, <2>1
  <2> QED BY <1>1, <1>2, <2>2 DEF TypeOK
<1> QED BY <1>3, <1>4

\* Every step keeps the types; one case per action.
LEMMA TypeStep == TypeOK /\ [Next]_vars => TypeOK'
<1> SUFFICES ASSUME TypeOK, [Next]_vars PROVE TypeOK'
  OBVIOUS
<1> USE DEF tables
<1>1. ASSUME NEW c \in Clients, NEW s \in Secrets, Authorize(c, s)
      PROVE  TypeOK'
  BY <1>1 DEF TypeOK, Authorize, Goto, Request
<1>2. ASSUME NEW c \in Clients, StartRead(c) PROVE TypeOK'
  <2>1. /\ req[c].secret \in Secrets /\ req[c].link \in Nat
        /\ secrets[req[c].secret].view_count \in Nat
        /\ policy[req[c].secret] \in Nat
    BY <1>2, RequestFields, RowFields DEF StartRead, At, TypeOK
  <2>2. req' \in [Clients -> Request]
    BY <1>2, <2>1 DEF StartRead, Goto, Request, TypeOK
  <2> QED BY <1>2, <2>2 DEF TypeOK, StartRead
<1>4. ASSUME NEW c \in Clients, Answer(c) PROVE TypeOK'
  <2>1. req[c].secret \in Secrets /\ req[c].view \in Nat
    BY <1>4, RequestFields DEF Answer, At
  <2>2. req' \in [Clients -> Request]
    BY <1>4 DEF Answer, Goto, Idle, Request, TypeOK
  <2>3. disclosed' \in [Secrets -> [1..MaxViews -> Nat]]
    <3> DEFINE row == disclosed[req[c].secret]
    <3>1. row \in [1..MaxViews -> Nat]
      BY <2>1 DEF TypeOK
    <3>2. [row EXCEPT ![req[c].view] = @ + 1] \in [1..MaxViews -> Nat]
      BY <3>1, BumpType
    <3> QED BY <1>4, <2>1, <3>2 DEF Answer, TypeOK
  <2> QED BY <1>4, <2>2, <2>3 DEF TypeOK, Answer
<1>5. ASSUME NEW c \in Clients, Abandon(c) PROVE TypeOK'
  BY <1>5 DEF TypeOK, Abandon, Goto, Idle, Request
<1>6. ASSUME NEW c \in Clients, NEW u \in Users, NEW s \in Secrets,
             ReadVersions(c, u, s)
      PROVE  TypeOK'
  <2>1. secrets[s].current_version \in Nat
    BY RowFields DEF TypeOK
  <2> QED BY <1>6, <2>1 DEF TypeOK, ReadVersions, Goto, Request
<1>7. ASSUME NEW c \in Clients, NEW t \in Texts, UpdateSecret(c, t)
      PROVE  TypeOK'
  <2>1. req[c].secret \in Secrets /\ req[c].seen \in Nat
    BY <1>7, RequestFields DEF UpdateSecret, At
  <2>2. /\ secrets' \in [Secrets -> Row] /\ keys' \in [Secrets -> Nat]
        /\ versions' \in [Secrets -> Seq(Version)]
    BY <1>7, <2>1, InsertTypes DEF UpdateSecret
  <2>3. audit' \in [Secrets -> [AuditAction -> Nat]]
    BY <1>7, <2>1, LoggedType DEF UpdateSecret, AuditAction
  <2>4. req' \in [Clients -> Request]
    BY <1>7 DEF UpdateSecret, Goto, Idle, Request, TypeOK
  <2> QED BY <1>7, <2>2, <2>3, <2>4 DEF TypeOK, UpdateSecret
<1>8. ASSUME NEW c \in Clients, NEW u \in Users, NEW s \in Secrets,
             RotateCheck(c, u, s)
      PROVE  TypeOK'
  BY <1>8 DEF TypeOK, RotateCheck, Goto, Request
<1>10. ASSUME NEW c \in Clients, RotateAudit(c) PROVE TypeOK'
  <2>1. req[c].secret \in Secrets
    BY <1>10, RequestFields DEF RotateAudit, At
  <2>2. audit' \in [Secrets -> [AuditAction -> Nat]]
    BY <1>10, <2>1, LoggedType DEF RotateAudit, AuditAction, TypeOK
  <2>3. req' \in [Clients -> Request]
    BY <1>10 DEF RotateAudit, Goto, Idle, Request, TypeOK
  <2> QED BY <1>10, <2>2, <2>3 DEF TypeOK, RotateAudit
<1>3. ASSUME NEW c \in Clients, View(c) PROVE TypeOK'
  <2> DEFINE s     == req[c].secret
             count == Joined(c).view_count + 1
  <2>1. s \in Secrets
    BY <1>3, RequestFields DEF View, At
  <2>2. secrets[s] \in Row /\ count \in Nat
    BY <2>1, RowFields DEF TypeOK, Joined
  <2>3. Cascade(IF Spent(s, count) THEN {s} ELSE {})
    BY <1>3 DEF View, SpendView
  <2>4. /\ keys' \in [Secrets -> Nat] /\ versions' \in [Secrets -> Seq(Version)]
        /\ policy' \in [Secrets -> Nat]
    BY <2>3, CascadeTypes
  <2>5. secrets' \in [Secrets -> Row]
    <3> DEFINE st == IF Spent(s, count) THEN "burned" ELSE "live"
    <3>1. [secrets[s] EXCEPT !.view_count = count, !.state = st] \in Row
      <4>1. st \in {"burned", "live"}
        OBVIOUS
      <4>2. \A n \in Nat, x \in {"burned", "live"} :
              [secrets[s] EXCEPT !.view_count = n, !.state = x] \in Row
        BY <2>2, RowUpdates
      <4> QED BY <2>2, <4>1, <4>2, Zenon
    <3>2. secrets' = [secrets EXCEPT ![s] =
                        [secrets[s] EXCEPT !.view_count = count, !.state = st]]
      BY <1>3, <2>1 DEF View, SpendView, TypeOK
    <3> QED BY <3>1, <3>2, Zenon DEF TypeOK
  <2>6. views' \in [Secrets -> Seq(Nat)]
    <3>1. views[s] \in Seq(Nat) /\ secrets[s].current_version \in Nat
      BY <2>1, <2>2, RowFields DEF TypeOK
    <3>2. Append(views[s], secrets[s].current_version) \in Seq(Nat)
      BY <3>1
    <3>3. views' = Recorded(s)
      BY <1>3 DEF View
    <3> QED BY <3>2, <3>3 DEF Recorded, TypeOK
  <2>7. audit' \in [Secrets -> [AuditAction -> Nat]]
    <3> DEFINE a1 == [audit[s] EXCEPT !["secret_viewed"] = @ + 1]
               a2 == [a1 EXCEPT !["secret_deleted"] =
                        IF Spent(s, count) THEN @ + 1 ELSE @]
    <3>1. a1 \in [AuditAction -> Nat]
      BY <2>1, BumpType DEF TypeOK
    <3>2. a2 \in [AuditAction -> Nat]
      BY <3>1 DEF AuditAction
    <3>3. audit' = [audit EXCEPT ![s] = a2]
      BY <1>3, <2>1 DEF View, SpendView, TypeOK
    <3> QED BY <3>2, <3>3 DEF TypeOK
  <2>8. req' \in [Clients -> Request]
    <3>1. /\ secrets[s].current_version \in Nat
          /\ secrets[s].content.text \in Texts \cup {Null}
      BY <2>2, RowFields DEF Cipher
    <3> QED BY <1>3, <2>1, <2>2, <3>1 DEF View, Goto, Request, TypeOK
  <2> QED BY <1>3, <2>4, <2>5, <2>6, <2>7, <2>8 DEF View, TypeOK
<1>9. ASSUME NEW c \in Clients, RotateKey(c) PROVE TypeOK'
  <2> DEFINE s   == req[c].secret
             new == Seal(secrets[s].content.text, keys[s] + 1)
  <2>1. s \in Secrets
    BY <1>9, RequestFields DEF RotateKey, At
  <2>2. secrets[s] \in Row /\ keys[s] + 1 \in Nat
    BY <2>1 DEF TypeOK
  <2>3. new \in Cipher
    BY <2>2, RowFields DEF Cipher, Seal
  <2>4. secrets' \in [Secrets -> Row]
    <3>1. [secrets[s] EXCEPT !.content = new] \in Row
      BY <2>2, <2>3, RowUpdates, Zenon
    <3>2. secrets' = [secrets EXCEPT ![s] = [secrets[s] EXCEPT !.content = new]]
      BY <1>9, <2>1 DEF RotateKey, TypeOK
    <3> QED BY <3>1, <3>2, Zenon DEF TypeOK
  <2>5. versions' \in [Secrets -> Seq(Version)]
    BY <1>9, <2>1, <2>2, <2>3, ResealedType DEF RotateKey, Seal
  <2>6. keys' \in [Secrets -> Nat]
    BY <1>9, <2>1, <2>2 DEF RotateKey, TypeOK
  <2>7. req' \in [Clients -> Request]
    BY <1>9, RequestFields DEF RotateKey, Goto, TypeOK
  <2> QED BY <1>9, <2>4, <2>5, <2>6, <2>7 DEF RotateKey, TypeOK
<1>11. ASSUME NEW u \in Users, NEW s \in Secrets, NEW n \in 1..MaxViews,
              NEW t \in Texts, NEW e \in BOOLEAN, NEW r \in BOOLEAN,
              CreateSecret(u, s, n, t, e, r)
       PROVE  TypeOK'
  <2> DEFINE key   == IF e THEN 0 ELSE 1
             first == [cipher |-> Seal(t, key), key_version |-> key,
                       origin |-> "create", base |-> 0]
             row   == [state |-> "live", owner |-> u, max_views |-> n,
                       view_count |-> 0, current_version |-> 1,
                       content |-> first.cipher, email_restricted |-> r,
                       age |-> "fresh"]
  <2>1. first \in Version /\ first.cipher \in Cipher /\ key \in Nat
    BY DEF Version, Cipher, Seal
  <2>2. n \in Nat
    BY ConstantsAssumption
  <2>3. row \in Row
    BY <2>1, <2>2 DEF Row
  <2>4. <<first>> \in Seq(Version)
    BY <2>1
  <2>5. audit' \in [Secrets -> [AuditAction -> Nat]]
    BY <1>11, LoggedType DEF CreateSecret, AuditAction
  <2>6. secrets' \in [Secrets -> Row]
    BY <1>11, <2>3 DEF CreateSecret, TypeOK
  <2>7. versions' \in [Secrets -> Seq(Version)]
    BY <1>11, <2>4 DEF CreateSecret, TypeOK
  <2> QED BY <1>11, <2>1, <2>5, <2>6, <2>7 DEF CreateSecret, TypeOK
<1>12. ASSUME NEW u \in Users, NEW s \in Secrets, NEW v \in 1..MAX_SECRET_VERSIONS,
              RestoreVersion(u, s, v)
       PROVE  TypeOK'
  <2>1. versions[s][v] \in Version
    BY <1>12, ElementOfSeq DEF RestoreVersion, TypeOK
  <2>2. Restored(versions[s][v]) \in Texts \cup {Null} /\ v \in Nat
    BY <2>1, ConstantsAssumption DEF Restored, Version, Cipher
  <2>3. /\ secrets' \in [Secrets -> Row] /\ keys' \in [Secrets -> Nat]
        /\ versions' \in [Secrets -> Seq(Version)]
    BY <1>12, <2>2, InsertTypes DEF RestoreVersion
  <2>4. audit' \in [Secrets -> [AuditAction -> Nat]]
    BY <1>12, LoggedType DEF RestoreVersion, AuditAction
  <2> QED BY <1>12, <2>3, <2>4 DEF RestoreVersion, TypeOK
<1>13. ASSUME NEW u \in Users, NEW s \in Secrets, UpdateLocationPolicy(u, s)
       PROVE  TypeOK'
  <2>1. audit' \in [Secrets -> [AuditAction -> Nat]]
    BY <1>13, LoggedType DEF UpdateLocationPolicy, AuditAction
  <2> QED BY <1>13, <2>1 DEF UpdateLocationPolicy, TypeOK
<1>14. ASSUME NEW u \in Users, NEW s \in Secrets, DeleteSecret(u, s)
       PROVE  TypeOK'
  <2>1. audit' \in [Secrets -> [AuditAction -> Nat]]
    BY <1>14, LoggedType DEF DeleteSecret, AuditedBeforeDelete, AuditAction
  <2>2. [secrets[s] EXCEPT !.state = "removed"] \in Row
    BY RowUpdates DEF TypeOK
  <2>3. secrets' \in [Secrets -> Row]
    BY <1>14, <2>2, Zenon DEF DeleteSecret, TypeOK
  <2> QED BY <1>14, <2>1, <2>3, CascadeTypes DEF DeleteSecret, TypeOK
<1>15. ASSUME NEW s \in Secrets, Elapse(s) PROVE TypeOK'
  <2> DEFINE age == IF secrets[s].age = "fresh" THEN "expired" ELSE "lapsed"
  <2>1. [secrets[s] EXCEPT !.age = age] \in Row
    BY RowUpdates DEF TypeOK
  <2>2. secrets' = [secrets EXCEPT ![s] = [secrets[s] EXCEPT !.age = age]]
    BY <1>15 DEF Elapse, TypeOK
  <2>3. secrets' \in [Secrets -> Row]
    BY <2>1, <2>2, Zenon DEF TypeOK
  <2> QED BY <1>15, <2>3 DEF Elapse, TypeOK
<1>16. ASSUME NEW s \in Secrets, ExpireSecret(s) PROVE TypeOK'
  <2>1. [secrets[s] EXCEPT !.state = "expired"] \in Row
    BY RowUpdates DEF TypeOK
  <2>2. secrets' \in [Secrets -> Row]
    BY <1>16, <2>1, Zenon DEF ExpireSecret, TypeOK
  <2> QED BY <1>16, <2>2, CascadeTypes DEF ExpireSecret, TypeOK
<1>17. ASSUME Sweep PROVE TypeOK'
  <2> DEFINE U == {u \in Users : users[u] = "due"}
             S == {s \in Secrets : /\ Live(s)
                     /\ \/ secrets[s].age # "fresh"
                        \/ secrets[s].view_count >= secrets[s].max_views}
             T == {s \in Secrets : \/ secrets[s].age = "lapsed"
                                   \/ secrets[s].owner \in U}
  <2>1. ASSUME NEW s \in Secrets PROVE secrets'[s] \in Row
    <3> DEFINE st == IF s \in S THEN "expired" ELSE secrets[s].state
               o  == IF secrets[s].owner \in U THEN Null ELSE secrets[s].owner
    <3>1. secrets[s] \in Row
      BY DEF TypeOK
    <3>2. /\ st \in {"unborn", "live", "burned", "removed", "expired"}
          /\ o \in Users \cup {Null}
      BY <3>1, RowFields
    <3>3. [secrets[s] EXCEPT !.state = st, !.owner = o] \in Row
      BY <3>1, <3>2, RowUpdates
    <3>4. secrets'[s] = [secrets[s] EXCEPT !.state = st, !.owner = o]
      BY <1>17 DEF Sweep
    <3> QED BY <3>3, <3>4
  <2>2. secrets' \in [Secrets -> Row]
    BY <1>17, <2>1 DEF Sweep
  <2>3. Cascade(S)
    BY <1>17 DEF Sweep
  <2>4. users' \in [Users -> {"active", "due", "removed"}]
    BY <1>17 DEF Sweep, TypeOK
  <2>5. tracking' \in [Secrets -> BOOLEAN] /\ views' \in [Secrets -> Seq(Nat)]
    <3>1. \A s \in Secrets : (tracking[s] /\ s \notin T) \in BOOLEAN
      OBVIOUS
    <3>2. tracking' = [s \in Secrets |-> tracking[s] /\ s \notin T]
      BY <1>17 DEF Sweep
    <3>4. views' \in [Secrets -> Seq(Nat)]
      <4>1. views' = [s \in Secrets |-> IF s \in T THEN <<>> ELSE views[s]]
        BY <1>17 DEF Sweep
      <4>2. \A s \in Secrets : views[s] \in Seq(Nat) /\ <<>> \in Seq(Nat)
        BY DEF TypeOK
      <4> HIDE DEF T
      <4> QED BY <4>1, <4>2
    <3> HIDE DEF T
    <3>3. tracking' \in [Secrets -> BOOLEAN]
      BY <3>1, <3>2, Zenon
    <3> QED BY <3>3, <3>4
  <2> QED BY <1>17, <2>2, <2>3, <2>4, <2>5, CascadeTypes DEF Sweep, TypeOK
<1>18. ASSUME NEW a \in Users, NEW u \in Users, SwitchUserActivation(a, u)
       PROVE  TypeOK'
  BY <1>18 DEF SwitchUserActivation, TypeOK
<1>19. CASE UNCHANGED vars
  BY <1>19 DEF vars, TypeOK
<1> QED
  BY <1>1, <1>2, <1>3, <1>4, <1>5, <1>6, <1>7, <1>8, <1>9, <1>10, <1>11, <1>12,
     <1>13, <1>14, <1>15, <1>16, <1>17, <1>18, <1>19
     DEF Next, ClientStep, OwnerStep, SystemStep

\* Every reachable state is well typed.
THEOREM TypeCorrect == Spec => []TypeOK
<1>1. Init => TypeOK
  <2> SUFFICES ASSUME Init PROVE TypeOK
    OBVIOUS
  <2>1. Seal(Null, 0) \in Cipher
    BY DEF Seal, Cipher
  <2>2. [state |-> "unborn", owner |-> Null, max_views |-> 0, view_count |-> 0,
         current_version |-> 0, content |-> Seal(Null, 0),
         email_restricted |-> FALSE, age |-> "fresh"] \in Row
    BY <2>1 DEF Row
  <2>3. secrets \in [Secrets -> Row]
    BY <2>2, Zenon DEF Init
  <2>4. req \in [Clients -> Request]
    BY DEF Init, Request, Idle
  <2>5. tracking \in [Secrets -> BOOLEAN]
    BY Zenon DEF Init
  <2>6. versions \in [Secrets -> Seq(Version)] /\ views \in [Secrets -> Seq(Nat)]
    BY DEF Init
  <2>7. audit \in [Secrets -> [AuditAction -> Nat]]
    BY DEF Init
  <2>8. disclosed \in [Secrets -> [1..MaxViews -> Nat]]
    BY DEF Init
  <2>9. users \in [Users -> {"active", "due", "removed"}]
    BY DEF Init
  <2>10. keys \in [Secrets -> Nat] /\ policy \in [Secrets -> Nat]
    BY DEF Init
  <2> QED BY <2>3, <2>4, <2>5, <2>6, <2>7, <2>8, <2>9, <2>10 DEF TypeOK
<1> QED BY <1>1, TypeStep, PTL DEF Spec
-----------------------------------------------------------------------------
(* Counting views *)

\* What a step may do to the life, the count and the audit of one secret.
Kept(s) ==
  /\ secrets'[s].state = secrets[s].state
  /\ secrets'[s].view_count = secrets[s].view_count
  /\ secrets'[s].max_views = secrets[s].max_views
  /\ audit'[s]["secret_viewed"] = audit[s]["secret_viewed"]
  /\ audit'[s]["secret_deleted"] = audit[s]["secret_deleted"]

Born(s) ==
  /\ secrets[s].state = "unborn" /\ secrets'[s].state = "live"
  /\ secrets'[s].view_count = 0
  /\ secrets'[s].max_views \in 1..MaxViews
  /\ audit'[s]["secret_viewed"] = audit[s]["secret_viewed"]
  /\ audit'[s]["secret_deleted"] = audit[s]["secret_deleted"]

Shown(s) ==
  LET spent == secrets[s].view_count + 1 >= secrets[s].max_views IN
  /\ Live(s)
  /\ secrets[s].view_count < secrets[s].max_views
  /\ secrets'[s].state = IF spent THEN "burned" ELSE "live"
  /\ secrets'[s].view_count = secrets[s].view_count + 1
  /\ secrets'[s].max_views = secrets[s].max_views
  /\ audit'[s]["secret_viewed"] = audit[s]["secret_viewed"] + 1
  /\ audit'[s]["secret_deleted"] =
       IF spent THEN audit[s]["secret_deleted"] + 1
                ELSE audit[s]["secret_deleted"]

Ended(s) ==
  /\ Live(s)
  /\ secrets'[s].state \in {"removed", "expired"}
  /\ secrets'[s].view_count = secrets[s].view_count
  /\ secrets'[s].max_views = secrets[s].max_views
  /\ audit'[s]["secret_viewed"] = audit[s]["secret_viewed"]
  /\ audit'[s]["secret_deleted"] =
       IF secrets'[s].state = "removed" THEN audit[s]["secret_deleted"] + 1
                                        ELSE audit[s]["secret_deleted"]

\* The audit rows of creation, edits and rotation are none of views or deletion.
LEMMA LoggedOther ==
  ASSUME TypeOK, NEW s \in Secrets, NEW r \in Secrets,
         NEW a \in AuditAction \ {"secret_viewed", "secret_deleted"},
         audit' = Logged(r, a)
  PROVE  /\ audit'[s]["secret_viewed"] = audit[s]["secret_viewed"]
         /\ audit'[s]["secret_deleted"] = audit[s]["secret_deleted"]
  BY DEF TypeOK, Logged, AuditAction

\* A step that leaves the table secrets and those audit rows alone.
LEMMA KeptIfUntouched ==
  ASSUME NEW s \in Secrets, secrets' = secrets, audit' = audit
  PROVE  Kept(s)
  BY DEF Kept

\* InsertTextVersion touches neither the count nor the state.
LEMMA InsertKeeps ==
  ASSUME TypeOK, NEW s \in Secrets, NEW r \in Secrets, NEW t, NEW origin, NEW base,
         InsertTextVersion(r, t, origin, base)
  PROVE  /\ secrets'[s].state = secrets[s].state
         /\ secrets'[s].view_count = secrets[s].view_count
         /\ secrets'[s].max_views = secrets[s].max_views
<1>1. secrets \in [Secrets -> Row]
  BY DEF TypeOK
<1>2. secrets' = Repointed(r, Seal(t, keys[r] + 1))
  BY DEF InsertTextVersion
<1> QED BY <1>1, <1>2 DEF Repointed, Row

\* What the sweep does to the row of one secret.
LEMMA SweptRow ==
  ASSUME TypeOK, Sweep, NEW s \in Secrets
  PROVE  LET due == /\ Live(s)
                    /\ \/ secrets[s].age # "fresh"
                       \/ secrets[s].view_count >= secrets[s].max_views
         IN /\ secrets'[s].state = IF due THEN "expired" ELSE secrets[s].state
            /\ secrets'[s].view_count = secrets[s].view_count
            /\ secrets'[s].max_views = secrets[s].max_views
            /\ secrets'[s].content = secrets[s].content
<1> DEFINE due == /\ Live(s)
                  /\ \/ secrets[s].age # "fresh"
                     \/ secrets[s].view_count >= secrets[s].max_views
<1>1. secrets[s] \in Row
  BY DEF TypeOK
<1>2. \E x, o : /\ x = IF due THEN "expired" ELSE secrets[s].state
               /\ secrets'[s] = [secrets[s] EXCEPT !.state = x, !.owner = o]
  BY DEF Sweep
<1> HIDE DEF due
<1>3. PICK x, o : /\ x = IF due THEN "expired" ELSE secrets[s].state
                  /\ secrets'[s] = [secrets[s] EXCEPT !.state = x, !.owner = o]
  BY <1>2
<1>4. /\ secrets'[s].state = x
      /\ secrets'[s].view_count = secrets[s].view_count
      /\ secrets'[s].max_views = secrets[s].max_views
      /\ secrets'[s].content = secrets[s].content
  BY <1>1, <1>3 DEF Row
<1> QED BY <1>3, <1>4 DEF due

\* Every step does one of these to a secret; one case per action.
LEMMA CountStep ==
  ASSUME TypeOK, [Next]_vars, NEW s \in Secrets
  PROVE  Kept(s) \/ Born(s) \/ Shown(s) \/ Ended(s)
<1> USE DEF tables
<1>1. ASSUME NEW c \in Clients, NEW r \in Secrets, Authorize(c, r) PROVE Kept(s)
  BY <1>1, KeptIfUntouched DEF Authorize
<1>2. ASSUME NEW c \in Clients, StartRead(c) PROVE Kept(s)
  BY <1>2, KeptIfUntouched DEF StartRead
<1>3. ASSUME NEW c \in Clients, View(c) PROVE Kept(s) \/ Shown(s)
  <2> DEFINE r     == req[c].secret
             count == secrets[r].view_count + 1
             spent == count >= secrets[r].max_views
  <2>1. r \in Secrets
    BY <1>3, RequestFields DEF View, At
  <2>2. /\ secrets' = [secrets EXCEPT ![r].view_count = count,
                        ![r].state = IF spent THEN "burned" ELSE "live"]
        /\ audit' = [audit EXCEPT ![r]["secret_viewed"] = @ + 1,
                       ![r]["secret_deleted"] = IF spent THEN @ + 1 ELSE @]
        /\ Live(r) /\ secrets[r].view_count < secrets[r].max_views
    BY <1>3 DEF View, SpendView, Spent, Joined
  <2>3. CASE s = r
    <3>1. /\ secrets'[s].view_count = count
          /\ secrets'[s].max_views = secrets[s].max_views
          /\ secrets'[s].state = IF spent THEN "burned" ELSE "live"
      BY <2>1, <2>2, <2>3 DEF TypeOK, Row
    <3>2. /\ audit'[s]["secret_viewed"] = audit[s]["secret_viewed"] + 1
          /\ audit'[s]["secret_deleted"] =
               IF spent THEN audit[s]["secret_deleted"] + 1
                        ELSE audit[s]["secret_deleted"]
      BY <2>1, <2>2, <2>3 DEF TypeOK, AuditAction
    <3> QED BY <2>2, <2>3, <3>1, <3>2 DEF Shown
  <2>4. CASE s # r
    BY <2>1, <2>2, <2>4 DEF Kept, TypeOK
  <2> QED BY <2>3, <2>4
<1>4. ASSUME NEW c \in Clients, Answer(c) PROVE Kept(s)
  BY <1>4, KeptIfUntouched DEF Answer
<1>5. ASSUME NEW c \in Clients, Abandon(c) PROVE Kept(s)
  BY <1>5, KeptIfUntouched DEF Abandon
<1>6. ASSUME NEW c \in Clients, NEW u \in Users, NEW r \in Secrets,
             ReadVersions(c, u, r)
      PROVE  Kept(s)
  BY <1>6, KeptIfUntouched DEF ReadVersions
<1>7. ASSUME NEW c \in Clients, NEW t \in Texts, UpdateSecret(c, t)
      PROVE  Kept(s)
  <2>1. req[c].secret \in Secrets
    BY <1>7, RequestFields DEF UpdateSecret, At
  <2>2. audit' = Logged(req[c].secret, "secret_updated")
    BY <1>7 DEF UpdateSecret
  <2> QED BY <1>7, <2>1, <2>2, LoggedOther, InsertKeeps
             DEF UpdateSecret, Kept, AuditAction
<1>8. ASSUME NEW c \in Clients, NEW u \in Users, NEW r \in Secrets,
             RotateCheck(c, u, r)
      PROVE  Kept(s)
  BY <1>8, KeptIfUntouched DEF RotateCheck
<1>9. ASSUME NEW c \in Clients, RotateKey(c) PROVE Kept(s)
  <2>1. req[c].secret \in Secrets
    BY <1>9, RequestFields DEF RotateKey, At
  <2>2. secrets \in [Secrets -> Row]
    BY DEF TypeOK
  <2>3. \E x : secrets' = [secrets EXCEPT ![req[c].secret].content = x]
    BY <1>9 DEF RotateKey
  <2>4. audit' = audit
    BY <1>9 DEF RotateKey
  <2> QED BY <2>1, <2>2, <2>3, <2>4 DEF Kept, Row
<1>10. ASSUME NEW c \in Clients, RotateAudit(c) PROVE Kept(s)
  <2>1. req[c].secret \in Secrets
    BY <1>10, RequestFields DEF RotateAudit, At
  <2>2. audit' = audit \/ audit' = Logged(req[c].secret, "key_rotated")
    BY <1>10 DEF RotateAudit
  <2> QED BY <1>10, <2>1, <2>2, LoggedOther DEF RotateAudit, Kept, AuditAction
<1>11. ASSUME NEW u \in Users, NEW r \in Secrets, NEW n \in 1..MaxViews,
              NEW t \in Texts, NEW e \in BOOLEAN, NEW x \in BOOLEAN,
              CreateSecret(u, r, n, t, e, x)
       PROVE  Kept(s) \/ Born(s)
  <2>1. audit' = Logged(r, "secret_created")
    BY <1>11 DEF CreateSecret
  <2>2. /\ audit'[s]["secret_viewed"] = audit[s]["secret_viewed"]
        /\ audit'[s]["secret_deleted"] = audit[s]["secret_deleted"]
    BY <2>1, LoggedOther DEF AuditAction
  <2> QED BY <1>11, <2>2 DEF CreateSecret, Kept, Born, TypeOK
<1>12. ASSUME NEW u \in Users, NEW r \in Secrets, NEW v \in 1..MAX_SECRET_VERSIONS,
              RestoreVersion(u, r, v)
       PROVE  Kept(s)
  <2>1. audit' = Logged(r, "secret_version_restored")
    BY <1>12 DEF RestoreVersion
  <2> QED BY <1>12, <2>1, LoggedOther, InsertKeeps
             DEF RestoreVersion, Kept, AuditAction
<1>13. ASSUME NEW u \in Users, NEW r \in Secrets, UpdateLocationPolicy(u, r)
       PROVE  Kept(s)
  <2>1. audit' = Logged(r, "secret_updated") /\ secrets' = secrets
    BY <1>13 DEF UpdateLocationPolicy
  <2> QED BY <2>1, LoggedOther DEF Kept, AuditAction
<1>14. ASSUME NEW u \in Users, NEW r \in Secrets, DeleteSecret(u, r)
       PROVE  Kept(s) \/ Ended(s)
  <2>1. /\ Live(r)
        /\ secrets' = [secrets EXCEPT ![r].state = "removed"]
        /\ audit' = Logged(r, "secret_deleted")
    BY <1>14 DEF DeleteSecret, AuditedBeforeDelete
  <2>2. secrets \in [Secrets -> Row] /\ audit \in [Secrets -> [AuditAction -> Nat]]
    BY DEF TypeOK
  <2>3. CASE s = r
    BY <2>1, <2>2, <2>3 DEF Ended, Live, Row, Logged, AuditAction
  <2>4. CASE s # r
    BY <2>1, <2>2, <2>4 DEF Kept, Logged
  <2> QED BY <2>3, <2>4
<1>15. ASSUME NEW r \in Secrets, Elapse(r) PROVE Kept(s)
  BY <1>15 DEF Elapse, Kept, TypeOK, Row
<1>16. ASSUME NEW r \in Secrets, ExpireSecret(r) PROVE Kept(s) \/ Ended(s)
  BY <1>16 DEF ExpireSecret, Kept, Ended, Live, TypeOK, Row
<1>17. ASSUME Sweep PROVE Kept(s) \/ Ended(s)
  <2>1. /\ secrets'[s].view_count = secrets[s].view_count
        /\ secrets'[s].max_views = secrets[s].max_views
        /\ \/ secrets'[s].state = secrets[s].state
           \/ Live(s) /\ secrets'[s].state = "expired"
        /\ audit' = audit
    BY <1>17, SweptRow DEF Sweep
  <2> QED BY <2>1 DEF Kept, Ended
<1>18. ASSUME NEW a \in Users, NEW u \in Users, SwitchUserActivation(a, u)
       PROVE  Kept(s)
  BY <1>18, KeptIfUntouched DEF SwitchUserActivation
<1>19. CASE UNCHANGED vars
  BY <1>19, KeptIfUntouched DEF vars
<1> QED
  BY <1>1, <1>2, <1>3, <1>4, <1>5, <1>6, <1>7, <1>8, <1>9, <1>10, <1>11, <1>12,
     <1>13, <1>14, <1>15, <1>16, <1>17, <1>18, <1>19
     DEF Next, ClientStep, OwnerStep, SystemStep

\* The inductive invariant behind the counting properties: a secret's count
\* agrees with its state and with its audit rows.
CountedAt(s) ==
  /\ secrets[s].view_count <= secrets[s].max_views
  /\ secrets[s].max_views <= MaxViews
  /\ secrets[s].state = "unborn" => secrets[s].view_count = 0
  /\ Live(s) => secrets[s].view_count < secrets[s].max_views
  /\ secrets[s].state = "burned" =>
       secrets[s].view_count = secrets[s].max_views
  /\ audit[s]["secret_viewed"] = secrets[s].view_count
  /\ audit[s]["secret_deleted"] =
       IF secrets[s].state \in {"burned", "removed"} THEN 1 ELSE 0

Counted == \A s \in Secrets : CountedAt(s)

LEMMA CountedStep == TypeOK /\ Counted /\ [Next]_vars => Counted'
<1> SUFFICES ASSUME TypeOK, Counted, [Next]_vars, NEW s \in Secrets
             PROVE  CountedAt(s)'
  BY DEF Counted
<1>1. /\ secrets[s] \in Row /\ secrets[s].view_count \in Nat
      /\ secrets[s].max_views \in Nat
  BY RowFields DEF TypeOK
<1>2. Kept(s) \/ Born(s) \/ Shown(s) \/ Ended(s)
  BY CountStep
<1>3. CASE Kept(s)
  BY <1>3 DEF Kept, Counted, CountedAt, Live
<1>4. CASE Born(s)
  BY <1>1, <1>4, ConstantsAssumption DEF Born, Counted, CountedAt, Live
<1>5. CASE Shown(s)
  BY <1>1, <1>5 DEF Shown, Counted, CountedAt, Live
<1>6. CASE Ended(s)
  BY <1>1, <1>6 DEF Ended, Counted, CountedAt, Live
<1> QED BY <1>2, <1>3, <1>4, <1>5, <1>6

LEMMA CountedInit == Init => Counted
<1> SUFFICES ASSUME Init, NEW s \in Secrets PROVE CountedAt(s)
  BY DEF Counted
<1>1. /\ secrets[s].view_count = 0 /\ secrets[s].max_views = 0
      /\ secrets[s].state = "unborn"
  BY DEF Init
<1>2. audit[s]["secret_viewed"] = 0 /\ audit[s]["secret_deleted"] = 0
  BY DEF Init, AuditAction
<1> QED BY <1>1, <1>2, ConstantsAssumption DEF CountedAt, Live

LEMMA CountedAlways == Spec => []Counted
  BY CountedInit, CountedStep, TypeCorrect, PTL DEF Spec

\* The trigger burns every secret with its last view and none before it,
\* however retrievals, edits, deletions and sweeps interleave.
THEOREM BurnedOnTime == Spec => []BurnedExactlyWhenSpent
<1>1. Counted => BurnedExactlyWhenSpent
  BY DEF Counted, CountedAt, BurnedExactlyWhenSpent
<1> QED BY <1>1, CountedAlways, PTL

\* Every counted view and every deletion by an owner or the trigger has its
\* audit row, although the row is written before the deletion it reports.
THEOREM RemovalsLogged == Spec => []ViewsAndRemovalsAudited
<1>1. Counted => ViewsAndRemovalsAudited
  BY DEF Counted, CountedAt, ViewsAndRemovalsAudited
<1> QED BY <1>1, CountedAlways, PTL

-----------------------------------------------------------------------------
(* No view is shown twice *)

\* A step that is neither the grant nor the return of a view discloses nothing
\* and puts no answer on its way.
Unseen ==
  /\ disclosed' = disclosed
  /\ \A c \in Clients : Answering(c)' => Answering(c) /\ req'[c] = req[c]

LEMMA RequestStep ==
  ASSUME TypeOK, [Next]_vars
  PROVE  Unseen \/ \E c \in Clients : View(c) \/ Answer(c)
<1> USE DEF tables, Unseen, Answering
<1>1. ASSUME NEW c \in Clients, NEW r,
             Goto(c, r), r.pc # "answering", disclosed' = disclosed
      PROVE  Unseen
  BY <1>1 DEF Goto, TypeOK, At
<1>2. ASSUME req' = req, disclosed' = disclosed PROVE Unseen
  BY <1>2 DEF At
<1>3. ASSUME NEW c \in Clients, NEW r \in Secrets, Authorize(c, r) PROVE Unseen
  BY <1>1, <1>3 DEF Authorize
<1>4. ASSUME NEW c \in Clients, StartRead(c) PROVE Unseen
  BY <1>1, <1>4 DEF StartRead
<1>5. ASSUME NEW c \in Clients, Abandon(c) PROVE Unseen
  BY <1>1, <1>5 DEF Abandon, Idle
<1>6. ASSUME NEW c \in Clients, NEW u \in Users, NEW r \in Secrets,
             ReadVersions(c, u, r)
      PROVE  Unseen
  BY <1>1, <1>6 DEF ReadVersions
<1>7. ASSUME NEW c \in Clients, NEW t \in Texts, UpdateSecret(c, t)
      PROVE  Unseen
  BY <1>1, <1>7 DEF UpdateSecret, Idle
<1>8. ASSUME NEW c \in Clients, NEW u \in Users, NEW r \in Secrets,
             RotateCheck(c, u, r)
      PROVE  Unseen
  BY <1>1, <1>8 DEF RotateCheck
<1>9. ASSUME NEW c \in Clients, RotateKey(c) PROVE Unseen
  <2>1. [req[c] EXCEPT !.pc = "rotated"].pc # "answering"
    BY <1>9 DEF RotateKey, At, TypeOK, Request
  <2> QED BY <1>1, <1>9, <2>1 DEF RotateKey
<1>10. ASSUME NEW c \in Clients, RotateAudit(c) PROVE Unseen
  BY <1>1, <1>10 DEF RotateAudit, Idle
<1>11. ASSUME NEW u \in Users, NEW r \in Secrets, OwnerStep(u, r) PROVE Unseen
  BY <1>2, <1>11 DEF OwnerStep, CreateSecret, RestoreVersion,
     UpdateLocationPolicy, DeleteSecret
<1>12. CASE SystemStep
  BY <1>2, <1>12 DEF SystemStep, Elapse, ExpireSecret, Sweep,
     SwitchUserActivation
<1>13. CASE UNCHANGED vars
  BY <1>2, <1>13 DEF vars
<1> QED
  BY <1>3, <1>4, <1>5, <1>6, <1>7, <1>8, <1>9, <1>10, <1>11, <1>12, <1>13
     DEF Next, ClientStep

\* Counts never go down; being born leaves a count at zero.
LEMMA CountGrows ==
  ASSUME TypeOK, Counted, [Next]_vars, NEW s \in Secrets
  PROVE  /\ secrets[s].view_count \in Nat /\ secrets'[s].view_count \in Nat
         /\ secrets[s].view_count <= secrets'[s].view_count
<1>1. secrets[s].view_count \in Nat
  BY RowFields DEF TypeOK
<1>2. Kept(s) \/ Born(s) \/ Shown(s) \/ Ended(s)
  BY CountStep
<1> QED BY <1>1, <1>2 DEF Kept, Born, Shown, Ended, Counted, CountedAt

\* The inductive invariant: no number was returned that was not counted.
OnceEach ==
  /\ \A s \in Secrets, n \in 1..MaxViews :
       /\ disclosed[s][n] <= 1
       /\ disclosed[s][n] = 1 => n <= secrets[s].view_count
  /\ \A c \in Clients : Answering(c) =>
       /\ req[c].view \in 1..secrets[req[c].secret].view_count
       /\ disclosed[req[c].secret][req[c].view] = 0
  /\ \A c, d \in Clients :
       /\ c # d /\ Answering(c) /\ Answering(d)
       /\ req[c].secret = req[d].secret
       => req[c].view # req[d].view

LEMMA OnceEachStep == TypeOK /\ Counted /\ OnceEach /\ [Next]_vars => OnceEach'
<1> SUFFICES ASSUME TypeOK, Counted, OnceEach, [Next]_vars PROVE OnceEach'
  OBVIOUS
<1>1. \A s \in Secrets :
        /\ secrets[s].view_count \in Nat /\ secrets'[s].view_count \in Nat
        /\ secrets[s].view_count <= secrets'[s].view_count
  BY CountGrows
<1>2. \A c \in Clients : Answering(c) => req[c].secret \in Secrets
  BY RequestFields DEF Answering, At
<1>3. \A s \in Secrets, n \in 1..MaxViews : disclosed[s][n] \in Nat
  BY DEF TypeOK
<1>4. CASE Unseen
  <2>1. ASSUME NEW s \in Secrets, NEW n \in 1..MaxViews
        PROVE  /\ disclosed'[s][n] <= 1
               /\ disclosed'[s][n] = 1 => n <= secrets'[s].view_count
    BY <1>1, <1>4, <2>1 DEF Unseen, OnceEach
  <2>2. ASSUME NEW c \in Clients, Answering(c)'
        PROVE  /\ req'[c].view \in 1..secrets'[req'[c].secret].view_count
               /\ disclosed'[req'[c].secret][req'[c].view] = 0
    <3>1. Answering(c) /\ req'[c] = req[c] /\ disclosed' = disclosed
      BY <1>4, <2>2 DEF Unseen
    <3> QED BY <1>1, <1>2, <3>1 DEF OnceEach
  <2>3. ASSUME NEW c \in Clients, NEW d \in Clients, c # d, Answering(c)',
               Answering(d)', req'[c].secret = req'[d].secret
        PROVE  req'[c].view # req'[d].view
    <3>1. /\ Answering(c) /\ req'[c] = req[c]
          /\ Answering(d) /\ req'[d] = req[d]
      BY <1>4, <2>3 DEF Unseen
    <3> QED BY <2>3, <3>1 DEF OnceEach
  <2> QED BY <2>1, <2>2, <2>3 DEF OnceEach
<1>5. ASSUME NEW c \in Clients, View(c) PROVE OnceEach'
  <2> DEFINE s     == req[c].secret
             count == secrets[s].view_count + 1
  <2>1. s \in Secrets
    BY <1>5, RequestFields DEF View, At
  <2>2. /\ secrets'[s].view_count = count
        /\ secrets[s].view_count < secrets[s].max_views
        /\ disclosed' = disclosed
    BY <1>5, <2>1 DEF View, SpendView, Joined, TypeOK, Row
  <2>3. /\ Answering(c)' /\ req'[c].secret = s /\ req'[c].view = count
        /\ \A d \in Clients \ {c} : req'[d] = req[d]
    BY <1>5 DEF View, Goto, Joined, TypeOK, Answering, At
  <2>4. \A d \in Clients \ {c} : Answering(d)' <=> Answering(d)
    BY <2>3 DEF Answering, At
  <2>5. count \in 1..MaxViews
    <3>1. secrets[s].max_views \in Nat /\ secrets[s].max_views <= MaxViews
      BY <2>1, RowFields DEF TypeOK, Counted, CountedAt
    <3> QED BY <1>1, <2>1, <2>2, <3>1, ConstantsAssumption
  <2>6. disclosed[s][count] = 0
    <3>1. /\ disclosed[s][count] \in Nat /\ disclosed[s][count] <= 1
          /\ disclosed[s][count] = 1 => count <= secrets[s].view_count
      BY <1>3, <2>1, <2>5 DEF OnceEach
    <3> QED BY <1>1, <2>1, <3>1
  <2>7. ASSUME NEW r \in Secrets, NEW n \in 1..MaxViews
        PROVE  /\ disclosed'[r][n] <= 1
               /\ disclosed'[r][n] = 1 => n <= secrets'[r].view_count
    BY <1>1, <2>2, <2>7 DEF OnceEach
  <2>8. ASSUME NEW d \in Clients, Answering(d)'
        PROVE  /\ req'[d].view \in 1..secrets'[req'[d].secret].view_count
               /\ disclosed'[req'[d].secret][req'[d].view] = 0
    <3>1. CASE d = c
      BY <2>2, <2>3, <2>5, <2>6, <3>1, ConstantsAssumption
    <3>2. CASE d # c
      BY <1>1, <1>2, <2>2, <2>3, <2>4, <2>8, <3>2 DEF OnceEach
    <3> QED BY <3>1, <3>2
  <2>9. ASSUME NEW d \in Clients \ {c}, Answering(d)', req'[d].secret = s
        PROVE  req'[d].view # count
    BY <1>1, <2>1, <2>3, <2>4, <2>9 DEF OnceEach
  <2>10. ASSUME NEW d \in Clients, NEW e \in Clients, d # e, Answering(d)',
                Answering(e)', req'[d].secret = req'[e].secret
         PROVE  req'[d].view # req'[e].view
    <3>1. CASE d = c
      BY <2>3, <2>9, <2>10, <3>1
    <3>2. CASE e = c
      BY <2>3, <2>9, <2>10, <3>2
    <3>3. CASE d # c /\ e # c
      BY <2>3, <2>4, <2>10, <3>3 DEF OnceEach
    <3> QED BY <3>1, <3>2, <3>3
  <2> QED BY <2>7, <2>8, <2>10 DEF OnceEach
<1>6. ASSUME NEW c \in Clients, Answer(c) PROVE OnceEach'
  <2> DEFINE s == req[c].secret
             n == req[c].view
  <2>1. /\ Answering(c) /\ s \in Secrets /\ n \in 1..secrets[s].view_count
        /\ disclosed[s][n] = 0
    BY <1>2, <1>6 DEF Answer, Answering, OnceEach
  <2>2. n \in 1..MaxViews
    <3>1. /\ secrets[s].max_views \in Nat
          /\ secrets[s].view_count <= secrets[s].max_views
          /\ secrets[s].max_views <= MaxViews
      BY <2>1, RowFields DEF TypeOK, Counted, CountedAt
    <3> QED BY <1>1, <2>1, <3>1, ConstantsAssumption
  <2>3. /\ ~Answering(c)'
        /\ \A d \in Clients \ {c} : req'[d] = req[d]
        /\ secrets' = secrets
    BY <1>6 DEF Answer, Goto, Idle, TypeOK, Answering, At, tables
  <2>4. \A d \in Clients : Answering(d)' =>
           /\ d # c /\ Answering(d) /\ req'[d] = req[d]
    BY <2>3 DEF Answering, At
  <2>5. \A r \in Secrets, m \in 1..MaxViews :
          disclosed'[r][m] = IF r = s /\ m = n THEN 1 ELSE disclosed[r][m]
    <3>1. /\ disclosed \in [Secrets -> [1..MaxViews -> Nat]]
          /\ disclosed' = [disclosed EXCEPT ![s][n] = @ + 1]
      BY <1>6 DEF Answer, TypeOK
    <3>2. disclosed[s] \in [1..MaxViews -> Nat]
      BY <2>1, <3>1
    <3>3. disclosed'[s] = [disclosed[s] EXCEPT ![n] = 1]
      BY <2>1, <3>1, <3>2
    <3>4. \A r \in Secrets \ {s} : disclosed'[r] = disclosed[r]
      BY <3>1
    <3> QED BY <2>2, <3>2, <3>3, <3>4
  <2>6. ASSUME NEW r \in Secrets, NEW m \in 1..MaxViews
        PROVE  /\ disclosed'[r][m] <= 1
               /\ disclosed'[r][m] = 1 => m <= secrets'[r].view_count
    BY <1>1, <2>1, <2>3, <2>5, <2>6 DEF OnceEach
  <2>7. ASSUME NEW d \in Clients, Answering(d)'
        PROVE  /\ req'[d].view \in 1..secrets'[req'[d].secret].view_count
               /\ disclosed'[req'[d].secret][req'[d].view] = 0
    <3>1. /\ d # c /\ Answering(d) /\ req'[d] = req[d] /\ req[d].secret \in Secrets
      BY <1>2, <2>4, <2>7
    <3>2. /\ req[d].view \in 1..secrets[req[d].secret].view_count
          /\ disclosed[req[d].secret][req[d].view] = 0
      BY <3>1 DEF OnceEach
    <3>3. req[d].view \in 1..MaxViews
      <4>1. /\ secrets[req[d].secret].max_views \in Nat
            /\ secrets[req[d].secret].view_count
                 <= secrets[req[d].secret].max_views
            /\ secrets[req[d].secret].max_views <= MaxViews
        BY <3>1, RowFields DEF TypeOK, Counted, CountedAt
      <4> QED BY <1>1, <3>1, <3>2, <4>1, ConstantsAssumption
    <3>4. ~(req[d].secret = s /\ req[d].view = n)
      BY <2>1, <3>1 DEF OnceEach
    <3> QED BY <2>3, <2>5, <3>1, <3>2, <3>3, <3>4
  <2>8. ASSUME NEW d \in Clients, NEW e \in Clients, d # e, Answering(d)',
               Answering(e)', req'[d].secret = req'[e].secret
        PROVE  req'[d].view # req'[e].view
    BY <2>4, <2>8 DEF OnceEach
  <2> QED BY <2>6, <2>7, <2>8 DEF OnceEach
<1> QED BY <1>4, <1>5, <1>6, RequestStep

LEMMA OnceEachInit == Init => OnceEach
  BY DEF Init, OnceEach, Answering, At, Idle

LEMMA OnceEachAlways == Spec => []OnceEach
  BY OnceEachInit, OnceEachStep, TypeCorrect, CountedAlways, PTL DEF Spec

\* However retrievals interleave, crash, race deletions and lose their
\* responses, every view is returned at most once and a secret at most
\* max_views times.
THEOREM ShownAtMostMaxViews == Spec => []AtMostMaxViews
<1>1. TypeOK /\ Counted /\ OnceEach => AtMostMaxViews
  <2> SUFFICES ASSUME TypeOK, Counted, OnceEach PROVE AtMostMaxViews
    OBVIOUS
  <2>1. ASSUME NEW s \in Secrets, NEW n \in 1..MaxViews, disclosed[s][n] = 1
        PROVE  n <= secrets[s].max_views
    <3>1. /\ secrets[s].max_views \in Nat /\ secrets[s].view_count \in Nat
          /\ n <= secrets[s].view_count
          /\ secrets[s].view_count <= secrets[s].max_views
      BY <2>1, RowFields DEF TypeOK, OnceEach, Counted, CountedAt
    <3> QED BY <3>1
  <2> QED BY <2>1 DEF OnceEach, AtMostMaxViews
<1> QED BY <1>1, OnceEachAlways, TypeCorrect, CountedAlways, PTL

-----------------------------------------------------------------------------
(* Keys, ciphertexts and versions *)

\* What a step may do to the text of one secret.
Stored(s) == <<keys[s], versions[s], secrets[s].content, secrets[s].current_version>>

Same(s) ==
  /\ Live(s)' => Live(s)
  /\ Stored(s)' = Stored(s)

Vanished(s) == ~Live(s)' /\ versions'[s] = <<>>

Written(s) ==
  \E key \in {0, 1}, t \in Texts :
    /\ secrets[s].state = "unborn"
    /\ keys'[s] = key
    /\ versions'[s] = <<[cipher |-> Seal(t, key), key_version |-> key,
                         origin |-> "create", base |-> 0]>>
    /\ secrets'[s].content = Seal(t, key)
    /\ secrets'[s].current_version = 1

\* An edit or a restore appends ver, sealed under a new key.
Appended(s, ver) ==
  /\ Live(s)
  /\ ver \in Version
  /\ ver.key_version = keys[s] + 1 /\ ver.cipher.key = keys[s] + 1
  /\ versions[s][ver.base].key_version > 0
  /\ \/ /\ ver.origin = "update" /\ ver.base = secrets[s].current_version
        /\ ver.cipher.text \in Texts
     \/ /\ ver.origin = "restore" /\ ver.base \in 1..Len(versions[s])
        /\ ver.cipher.text = versions[s][ver.base].cipher.text
  /\ keys'[s] = keys[s] + 1
  /\ versions'[s] = Append(versions[s], ver)
  /\ secrets'[s].content = ver.cipher
  /\ secrets'[s].current_version = secrets[s].current_version + 1

\* A rotation seals the current version, and the row, under a new key.
Rotated(s) ==
  LET new == Seal(secrets[s].content.text, keys[s] + 1)
      cur == secrets[s].current_version
  IN
  /\ Live(s)
  /\ keys[s] > 0
  /\ keys'[s] = keys[s] + 1
  /\ versions'[s] = [versions[s] EXCEPT ![cur].cipher = new,
                                        ![cur].key_version = keys[s] + 1]
  /\ secrets'[s].content = new
  /\ secrets'[s].current_version = cur

\* InsertTextVersion, for the secret it is called for and for the others.
LEMMA InsertText ==
  ASSUME TypeOK, NEW r \in Secrets, NEW t \in Texts \cup {Null},
         NEW origin \in {"create", "update", "restore"}, NEW base \in Nat,
         InsertTextVersion(r, t, origin, base), NEW s \in Secrets,
         NEW ver, ver = [cipher |-> Seal(t, keys[r] + 1),
                         key_version |-> keys[r] + 1,
                         origin |-> origin, base |-> base]
  PROVE  /\ s # r => Same(s)
         /\ s = r => /\ ver \in Version
                     /\ keys'[s] = keys[s] + 1
                     /\ versions'[s] = Append(versions[s], ver)
                     /\ secrets'[s].content = ver.cipher
                     /\ secrets'[s].current_version =
                          secrets[s].current_version + 1
<1>1. keys[r] + 1 \in Nat
  BY DEF TypeOK
<1>2. CASE s # r
  BY <1>2 DEF InsertTextVersion, Repointed, Same, Stored, Live, TypeOK
<1>3. CASE s = r
  BY <1>1, <1>3 DEF InsertTextVersion, Repointed, TypeOK, Row, Seal, Cipher,
     Version
<1> QED BY <1>2, <1>3

\* A deletion, of the secrets in S, as one of them or another one sees it.
LEMMA CascadeText ==
  ASSUME TypeOK, NEW S, Cascade(S), NEW s \in Secrets,
         s \in S => ~Live(s)',
         s \notin S => /\ Live(s)' => Live(s)
                       /\ secrets'[s].content = secrets[s].content
                       /\ secrets'[s].current_version = secrets[s].current_version
  PROVE  Same(s) \/ Vanished(s)
<1>1. CASE s \in S
  BY <1>1 DEF Cascade, Vanished
<1>2. CASE s \notin S
  BY <1>2 DEF Cascade, Same, Stored, TypeOK
<1> QED BY <1>1, <1>2

LEMMA TextStep ==
  ASSUME TypeOK, [Next]_vars, NEW s \in Secrets
  PROVE  \/ Same(s) \/ Vanished(s) \/ Written(s) \/ Rotated(s)
         \/ \E ver \in Version : Appended(s, ver)
<1> USE DEF tables
<1>1. ASSUME secrets' = secrets, keys' = keys, versions' = versions
      PROVE  Same(s)
  BY <1>1 DEF Same, Stored, Live
<1>2. ASSUME NEW c \in Clients,
             \/ \E r \in Secrets : Authorize(c, r)
             \/ StartRead(c) \/ Answer(c) \/ Abandon(c)
             \/ \E u \in Users, r \in Secrets : ReadVersions(c, u, r)
             \/ \E u \in Users, r \in Secrets : RotateCheck(c, u, r)
             \/ RotateAudit(c)
      PROVE  Same(s)
  BY <1>1, <1>2 DEF Authorize, StartRead, Answer, Abandon, ReadVersions,
     RotateCheck, RotateAudit
<1>3. ASSUME NEW c \in Clients, View(c) PROVE Same(s) \/ Vanished(s)
  <2> DEFINE r     == req[c].secret
             spent == Spent(r, Joined(c).view_count + 1)
             S     == IF spent THEN {r} ELSE {}
  <2>1. /\ r \in Secrets /\ Live(r) /\ Cascade(S)
        /\ secrets' = [secrets EXCEPT
             ![r].view_count = Joined(c).view_count + 1,
             ![r].state = IF spent THEN "burned" ELSE "live"]
    BY <1>3, RequestFields DEF View, SpendView, At
  <2>2. /\ secrets'[s].content = secrets[s].content
        /\ secrets'[s].current_version = secrets[s].current_version
        /\ s \in S => ~Live(s)'
        /\ s \notin S => (Live(s)' => Live(s))
    BY <2>1 DEF TypeOK, Row, Live
  <2> QED BY <2>1, <2>2, CascadeText
<1>4. ASSUME NEW c \in Clients, NEW t \in Texts, UpdateSecret(c, t)
      PROVE  Same(s) \/ \E ver \in Version : Appended(s, ver)
  <2> DEFINE r == req[c].secret
             base == req[c].seen
             ver == [cipher |-> Seal(t, keys[r] + 1), key_version |-> keys[r] + 1,
                     origin |-> "update", base |-> base]
  <2>1. r \in Secrets /\ base \in Nat
    BY <1>4, RequestFields DEF UpdateSecret, At
  <2>2. /\ Live(r) /\ secrets[r].current_version = base
        /\ versions[r][base].key_version > 0
        /\ InsertTextVersion(r, t, "update", base)
    BY <1>4 DEF UpdateSecret, Expected
  <2>3. CASE s # r
    BY <2>1, <2>2, <2>3, InsertText
  <2>4. CASE s = r
    <3>1. /\ ver \in Version /\ keys'[s] = keys[s] + 1
          /\ versions'[s] = Append(versions[s], ver)
          /\ secrets'[s].content = ver.cipher
          /\ secrets'[s].current_version = secrets[s].current_version + 1
      BY <2>1, <2>2, <2>4, InsertText
    <3> QED BY <2>2, <2>4, <3>1 DEF Appended, Seal
  <2> QED BY <2>3, <2>4
<1>5. ASSUME NEW c \in Clients, RotateKey(c) PROVE Same(s) \/ Rotated(s)
  <2> DEFINE r == req[c].secret
  <2>1. r \in Secrets
    BY <1>5, RequestFields DEF RotateKey, At
  <2>2. CASE s # r
    BY <1>5, <2>1, <2>2 DEF RotateKey, Resealed, Same, Stored, Live, TypeOK
  <2>3. CASE s = r
    <3> DEFINE new == Seal(secrets[s].content.text, keys[s] + 1)
    <3>1. /\ Live(s) /\ keys[s] > 0 /\ keys'[s] = keys[s] + 1
          /\ secrets'[s].content = new
          /\ secrets'[s].current_version = secrets[s].current_version
          /\ versions' = Resealed(s, new)
      BY <1>5, <2>1, <2>3 DEF RotateKey, TypeOK, Row
    <3>2. versions'[s] = [versions[s] EXCEPT
             ![secrets[s].current_version].cipher = new,
             ![secrets[s].current_version].key_version = keys[s] + 1]
      BY <3>1 DEF Resealed, TypeOK, Seal
    <3> QED BY <3>1, <3>2 DEF Rotated
  <2> QED BY <2>2, <2>3
<1>6. ASSUME NEW u \in Users, NEW r \in Secrets, NEW n \in 1..MaxViews,
             NEW t \in Texts, NEW e \in BOOLEAN, NEW x \in BOOLEAN,
             CreateSecret(u, r, n, t, e, x)
      PROVE  Same(s) \/ Written(s)
  <2>1. CASE s # r
    BY <1>6, <2>1 DEF CreateSecret, Same, Stored, Live, TypeOK
  <2>2. CASE s = r
    <3> DEFINE key == IF e THEN 0 ELSE 1
    <3>1. /\ secrets[s].state = "unborn" /\ keys'[s] = key
          /\ versions'[s] = <<[cipher |-> Seal(t, key), key_version |-> key,
                               origin |-> "create", base |-> 0]>>
          /\ secrets'[s].content = Seal(t, key)
          /\ secrets'[s].current_version = 1
      BY <1>6, <2>2 DEF CreateSecret, TypeOK
    <3>2. key \in {0, 1}
      OBVIOUS
    <3> QED BY <3>1, <3>2 DEF Written
  <2> QED BY <2>1, <2>2
<1>7. ASSUME NEW u \in Users, NEW r \in Secrets, NEW v \in 1..MAX_SECRET_VERSIONS,
             RestoreVersion(u, r, v)
      PROVE  Same(s) \/ \E ver \in Version : Appended(s, ver)
  <2> DEFINE t   == versions[r][v].cipher.text
             ver == [cipher |-> Seal(t, keys[r] + 1), key_version |-> keys[r] + 1,
                     origin |-> "restore", base |-> v]
  <2>1. /\ Live(r) /\ v \in 1..Len(versions[r])
        /\ versions[r][v].key_version > 0
        /\ InsertTextVersion(r, t, "restore", v)
    BY <1>7 DEF RestoreVersion, Restored
  <2>2. t \in Texts \cup {Null} /\ v \in Nat
    <3>1. versions[r][v] \in Version
      BY <2>1, ElementOfSeq DEF TypeOK
    <3> QED BY <3>1, ConstantsAssumption DEF Version, Cipher
  <2>3. ver = [cipher |-> Seal(t, keys[r] + 1), key_version |-> keys[r] + 1,
               origin |-> "restore", base |-> v]
    OBVIOUS
  <2>4. /\ t = versions[r][v].cipher.text
        /\ ver.origin = "restore" /\ ver.base = v
        /\ ver.cipher.text = t /\ ver.cipher.key = keys[r] + 1
        /\ ver.key_version = keys[r] + 1
    BY DEF Seal
  <2> HIDE DEF t, ver
  <2>5. InsertTextVersion(r, t, "restore", v)
    BY <2>1
  <2>6. /\ s # r => Same(s)
        /\ s = r => /\ ver \in Version
                    /\ keys'[s] = keys[s] + 1
                    /\ versions'[s] = Append(versions[s], ver)
                    /\ secrets'[s].content = ver.cipher
                    /\ secrets'[s].current_version =
                         secrets[s].current_version + 1
    BY <2>2, <2>3, <2>5, InsertText
  <2>7. CASE s = r
    <3>1. versions[s][ver.base].key_version > 0
      BY <2>1, <2>4, <2>7
    <3>2. /\ ver.base \in 1..Len(versions[s])
          /\ ver.cipher.text = versions[s][ver.base].cipher.text
      BY <2>1, <2>4, <2>7
    <3> QED BY <2>1, <2>4, <2>6, <2>7, <3>1, <3>2 DEF Appended
  <2> QED BY <2>6, <2>7
<1>8. ASSUME NEW u \in Users, NEW r \in Secrets, UpdateLocationPolicy(u, r)
      PROVE  Same(s)
  BY <1>1, <1>8 DEF UpdateLocationPolicy
<1>9. ASSUME NEW u \in Users, NEW r \in Secrets, DeleteSecret(u, r)
      PROVE  Same(s) \/ Vanished(s)
  <2>1. Cascade({r}) /\ secrets' = [secrets EXCEPT ![r].state = "removed"]
    BY <1>9 DEF DeleteSecret
  <2>2. /\ secrets'[s].content = secrets[s].content
        /\ secrets'[s].current_version = secrets[s].current_version
        /\ s \in {r} => ~Live(s)'
        /\ s \notin {r} => (Live(s)' => Live(s))
    BY <2>1 DEF TypeOK, Row, Live
  <2> QED BY <2>1, <2>2, CascadeText
<1>10. ASSUME NEW r \in Secrets, Elapse(r) PROVE Same(s)
  BY <1>10 DEF Elapse, Same, Stored, Live, TypeOK, Row
<1>11. ASSUME NEW r \in Secrets, ExpireSecret(r) PROVE Same(s) \/ Vanished(s)
  <2>1. Cascade({r}) /\ secrets' = [secrets EXCEPT ![r].state = "expired"]
    BY <1>11 DEF ExpireSecret
  <2>2. /\ secrets'[s].content = secrets[s].content
        /\ secrets'[s].current_version = secrets[s].current_version
        /\ s \in {r} => ~Live(s)'
        /\ s \notin {r} => (Live(s)' => Live(s))
    BY <2>1 DEF TypeOK, Row, Live
  <2> QED BY <2>1, <2>2, CascadeText
<1>12. ASSUME Sweep PROVE Same(s) \/ Vanished(s)
  <2> DEFINE S == {r \in Secrets : /\ Live(r)
                     /\ \/ secrets[r].age # "fresh"
                        \/ secrets[r].view_count >= secrets[r].max_views}
  <2>1. /\ secrets'[s].content = secrets[s].content
        /\ secrets'[s].current_version = secrets[s].current_version
        /\ secrets'[s].state = IF s \in S THEN "expired" ELSE secrets[s].state
        /\ Cascade(S)
    BY <1>12 DEF Sweep, TypeOK, Row
  <2> HIDE DEF S
  <2>2. /\ s \in S => ~Live(s)'
        /\ s \notin S => (Live(s)' => Live(s))
    BY <2>1 DEF Live
  <2> QED BY <2>1, <2>2, CascadeText
<1>13. ASSUME NEW a \in Users, NEW u \in Users, SwitchUserActivation(a, u)
       PROVE  Same(s)
  BY <1>1, <1>13 DEF SwitchUserActivation
<1>14. CASE UNCHANGED vars
  BY <1>1, <1>14 DEF vars
<1> QED
  BY <1>2, <1>3, <1>4, <1>5, <1>6, <1>7, <1>8, <1>9, <1>10, <1>11, <1>12,
     <1>13, <1>14 DEF Next, ClientStep, OwnerStep, SystemStep

\* The inductive invariant behind Readable: the current version is the last
\* one, and every version is sealed under the key it names.
SealedAt(s) ==
  Live(s) =>
    /\ versions[s] # <<>>
    /\ secrets[s].current_version = Len(versions[s])
    /\ versions[s][Len(versions[s])].cipher = secrets[s].content
    /\ secrets[s].content.key = keys[s]
    /\ \A v \in 1..Len(versions[s]) :
         /\ versions[s][v].cipher.key = versions[s][v].key_version
         /\ versions[s][v].key_version <= keys[s]
         /\ versions[s][v].key_version = 0 => keys[s] = 0

Sealed == \A s \in Secrets : SealedAt(s)

\* What an append does to a sequence of versions.
LEMMA AppendedVersions ==
  ASSUME NEW vs \in Seq(Version), NEW ver \in Version
  PROVE  /\ Len(Append(vs, ver)) = Len(vs) + 1
         /\ Append(vs, ver)[Len(vs) + 1] = ver
         /\ \A v \in 1..Len(vs) : Append(vs, ver)[v] = vs[v]
  BY AppendProperties

\* What a rotation does to a sequence of versions.
LEMMA RotatedVersions ==
  ASSUME NEW vs \in Seq(Version), NEW cur \in 1..Len(vs), NEW k, NEW n,
         NEW ws, ws = [vs EXCEPT ![cur].cipher = k, ![cur].key_version = n]
  PROVE  /\ Len(ws) = Len(vs)
         /\ ws[cur].cipher = k /\ ws[cur].key_version = n
         /\ ws[cur].origin = vs[cur].origin /\ ws[cur].base = vs[cur].base
         /\ \A v \in 1..Len(vs) : v # cur => ws[v] = vs[v]
<1>1. vs[cur] \in Version
  BY ElementOfSeq
<1>2. DOMAIN ws = 1..Len(vs) /\ DOMAIN vs = 1..Len(vs)
  OBVIOUS
<1>3. \A v \in 1..Len(vs) : v # cur => ws[v] = vs[v]
  OBVIOUS
<1>4. cur \in DOMAIN vs
  BY <1>2
<1>5. /\ ws[cur].cipher = k /\ ws[cur].key_version = n
      /\ ws[cur].origin = vs[cur].origin /\ ws[cur].base = vs[cur].base
  BY <1>1, <1>4 DEF Version
<1>6. Len(ws) = Len(vs)
  BY <1>2
<1> QED BY <1>3, <1>5, <1>6

LEMMA SealedStep == TypeOK /\ Sealed /\ [Next]_vars => Sealed'
<1> SUFFICES ASSUME TypeOK, Sealed, [Next]_vars, NEW s \in Secrets, Live(s)'
             PROVE  SealedAt(s)'
  BY DEF Sealed, SealedAt
<1>1. versions[s] \in Seq(Version) /\ keys[s] \in Nat
  BY DEF TypeOK
<1>2. \/ Same(s) \/ Vanished(s) \/ Written(s) \/ Rotated(s)
      \/ \E ver \in Version : Appended(s, ver)
  BY TextStep
<1>3. CASE Same(s)
  BY <1>3 DEF Same, Stored, Sealed, SealedAt
<1>4. CASE Vanished(s)
  BY <1>4 DEF Vanished
<1>5. CASE Written(s)
  BY <1>5 DEF Written, SealedAt, Seal
<1>6. CASE Rotated(s)
  <2> DEFINE cur == secrets[s].current_version
             new == Seal(secrets[s].content.text, keys[s] + 1)
  <2>1. /\ versions[s] # <<>> /\ cur = Len(versions[s])
        /\ \A v \in 1..Len(versions[s]) :
             /\ versions[s][v].cipher.key = versions[s][v].key_version
             /\ versions[s][v].key_version <= keys[s]
             /\ versions[s][v].key_version = 0 => keys[s] = 0
    BY <1>6 DEF Rotated, Sealed, SealedAt
  <2>2. cur \in 1..Len(versions[s])
    BY <1>1, <2>1
  <2>3. /\ keys[s] > 0 /\ keys'[s] = keys[s] + 1
        /\ secrets'[s].content = new /\ secrets'[s].current_version = cur
        /\ versions'[s] = [versions[s] EXCEPT ![cur].cipher = new,
                                              ![cur].key_version = keys[s] + 1]
    BY <1>6 DEF Rotated
  <2>4. new.key = keys[s] + 1
    BY DEF Seal
  <2> HIDE DEF cur, new
  <2>5. /\ Len(versions'[s]) = Len(versions[s])
        /\ versions'[s][cur].cipher = new
        /\ versions'[s][cur].key_version = keys[s] + 1
        /\ \A v \in 1..Len(versions[s]) :
             v # cur => versions'[s][v] = versions[s][v]
    BY <1>1, <2>2, <2>3, RotatedVersions
  <2>6. ASSUME NEW v \in 1..Len(versions[s])
        PROVE  /\ versions'[s][v].cipher.key = versions'[s][v].key_version
               /\ versions'[s][v].key_version <= keys'[s]
               /\ versions'[s][v].key_version # 0
    <3>1. CASE v = cur
      BY <1>1, <2>3, <2>4, <2>5, <3>1
    <3>2. CASE v # cur
      <4>1. versions[s][v] \in Version
        BY <1>1, ElementOfSeq
      <4>2. versions[s][v].key_version \in Nat
        BY <4>1 DEF Version
      <4> QED BY <1>1, <2>1, <2>3, <2>5, <3>2, <4>2
    <3> QED BY <3>1, <3>2
  <2>7. versions'[s] # <<>>
    BY <1>1, <2>2, <2>5
  <2> QED BY <2>1, <2>3, <2>4, <2>5, <2>6, <2>7 DEF SealedAt
<1>7. ASSUME NEW ver \in Version, Appended(s, ver) PROVE SealedAt(s)'
  <2>1. /\ versions[s] # <<>> /\ secrets[s].current_version = Len(versions[s])
        /\ \A v \in 1..Len(versions[s]) :
             /\ versions[s][v].cipher.key = versions[s][v].key_version
             /\ versions[s][v].key_version <= keys[s]
             /\ versions[s][v].key_version = 0 => keys[s] = 0
    BY <1>7 DEF Appended, Sealed, SealedAt
  <2>2. /\ keys'[s] = keys[s] + 1 /\ versions'[s] = Append(versions[s], ver)
        /\ ver.key_version = keys[s] + 1 /\ ver.cipher.key = keys[s] + 1
        /\ secrets'[s].content = ver.cipher
        /\ secrets'[s].current_version = Len(versions[s]) + 1
        /\ ver.base \in 1..Len(versions[s])
        /\ versions[s][ver.base].key_version > 0
    BY <1>1, <1>7, <2>1 DEF Appended
  <2>3. keys[s] > 0
    <3>1. versions[s][ver.base] \in Version
      BY <1>1, <2>2, ElementOfSeq
    <3>2. versions[s][ver.base].key_version \in Nat
      BY <3>1 DEF Version
    <3> QED BY <1>1, <2>1, <2>2, <3>2
  <2>4. /\ Len(versions'[s]) = Len(versions[s]) + 1
        /\ versions'[s][Len(versions[s]) + 1] = ver
        /\ \A v \in 1..Len(versions[s]) : versions'[s][v] = versions[s][v]
    BY <1>1, <2>2, AppendedVersions
  <2>5. ASSUME NEW v \in 1..Len(versions'[s])
        PROVE  /\ versions'[s][v].cipher.key = versions'[s][v].key_version
               /\ versions'[s][v].key_version <= keys'[s]
               /\ versions'[s][v].key_version # 0
    <3>1. CASE v = Len(versions[s]) + 1
      BY <1>1, <2>2, <2>4, <3>1
    <3>2. CASE v \in 1..Len(versions[s])
      <4>1. versions[s][v] \in Version
        BY <1>1, <3>2, ElementOfSeq
      <4>2. versions[s][v].key_version \in Nat
        BY <4>1 DEF Version
      <4> QED BY <1>1, <2>1, <2>2, <2>3, <2>4, <3>2, <4>2
    <3> QED BY <1>1, <2>4, <3>1, <3>2
  <2>6. versions'[s] # <<>>
    BY <1>1, <2>4
  <2> QED BY <2>2, <2>4, <2>5, <2>6 DEF SealedAt
<1> QED BY <1>2, <1>3, <1>4, <1>5, <1>6, <1>7

LEMMA SealedAlways == Spec => []Sealed
<1>1. Init => Sealed
  BY DEF Init, Sealed, SealedAt, Live
<1> QED BY <1>1, SealedStep, TypeCorrect, PTL DEF Spec

\* Whatever updates, restores and rotations interleave, a stored secret stays
\* readable: the server always holds the key of what it stores.
THEOREM AlwaysReadable == Spec => []Readable
<1>1. TypeOK /\ Sealed => Readable
  <2> SUFFICES ASSUME TypeOK, Sealed, NEW s \in Secrets, Live(s)
               PROVE  LET cur == secrets[s].current_version IN
                      /\ cur \in 1..Len(versions[s])
                      /\ versions[s][cur].cipher = secrets[s].content
                      /\ secrets[s].content.key = keys[s]
                      /\ \A v \in 1..Len(versions[s]) :
                           /\ versions[s][v].cipher.key = versions[s][v].key_version
                           /\ versions[s][v].key_version <= keys[s]
                           /\ versions[s][v].key_version = 0 => keys[s] = 0
    BY DEF Readable, Opens
  <2>1. versions[s] \in Seq(Version)
    BY DEF TypeOK
  <2> QED BY <2>1 DEF Sealed, SealedAt
<1> QED BY <1>1, SealedAlways, TypeCorrect, PTL

\* No edit overwrites a version its editor had not seen, and a restored text
\* is the text of the version it names, however editors race.
THEOREM LineageKept == Spec => []VersionLineage
<1>1. Init => VersionLineage
  BY DEF Init, VersionLineage
<1>2. TypeOK /\ Sealed /\ VersionLineage /\ [Next]_vars => VersionLineage'
  <2> DEFINE Fits(vs, v) ==
        /\ vs[v].origin = "update" => vs[v].base = v - 1
        /\ vs[v].origin = "restore" =>
             /\ vs[v].base \in 1..(v - 1)
             /\ vs[v].cipher.text = vs[vs[v].base].cipher.text
  <2> SUFFICES ASSUME TypeOK, Sealed, VersionLineage, [Next]_vars,
                      NEW s \in Secrets, NEW v \in 1..Len(versions'[s])
               PROVE  Fits(versions'[s], v)
    BY DEF VersionLineage
  <2>1. versions[s] \in Seq(Version) /\ Len(versions[s]) \in Nat
    BY DEF TypeOK
  <2>2. \A w \in 1..Len(versions[s]) : Fits(versions[s], w)
    BY DEF VersionLineage
  <2>3. \/ Same(s) \/ Vanished(s) \/ Written(s) \/ Rotated(s)
        \/ \E ver \in Version : Appended(s, ver)
    BY TextStep
  <2>4. CASE Same(s)
    BY <2>2, <2>4 DEF Same, Stored
  <2>5. CASE Vanished(s)
    BY <2>5 DEF Vanished
  <2>6. CASE Written(s)
    BY <2>6 DEF Written
  <2>7. CASE Rotated(s)
    <3> DEFINE cur == secrets[s].current_version
               new == Seal(secrets[s].content.text, keys[s] + 1)
    <3>1. /\ cur \in 1..Len(versions[s])
          /\ versions[s][cur].cipher = secrets[s].content
      BY <2>1, <2>7 DEF Rotated, Sealed, SealedAt
    <3>2. versions'[s] = [versions[s] EXCEPT ![cur].cipher = new,
                                             ![cur].key_version = keys[s] + 1]
      BY <2>7 DEF Rotated
    <3>3. new.text = versions[s][cur].cipher.text
      BY <3>1 DEF Seal
    <3> HIDE DEF cur, new
    <3>4. /\ Len(versions'[s]) = Len(versions[s])
          /\ versions'[s][cur].cipher = new
          /\ versions'[s][cur].origin = versions[s][cur].origin
          /\ versions'[s][cur].base = versions[s][cur].base
          /\ \A w \in 1..Len(versions[s]) :
               w # cur => versions'[s][w] = versions[s][w]
      BY <2>1, <3>1, <3>2, RotatedVersions
    <3>5. \A w \in 1..Len(versions[s]) :
            /\ versions'[s][w].cipher.text = versions[s][w].cipher.text
            /\ versions'[s][w].origin = versions[s][w].origin
            /\ versions'[s][w].base = versions[s][w].base
      BY <3>3, <3>4
    <3>6. v \in 1..Len(versions[s])
      BY <3>4
    <3>7. \A w \in 1..(v - 1) : w \in 1..Len(versions[s])
      BY <2>1, <3>6
    <3> QED BY <2>2, <3>5, <3>6, <3>7
  <2>8. ASSUME NEW ver \in Version, Appended(s, ver)
        PROVE  Fits(versions'[s], v)
    <3>1. /\ secrets[s].current_version = Len(versions[s])
          /\ versions'[s] = Append(versions[s], ver)
          /\ \/ ver.origin = "update" /\ ver.base = Len(versions[s])
             \/ /\ ver.origin = "restore" /\ ver.base \in 1..Len(versions[s])
                /\ ver.cipher.text = versions[s][ver.base].cipher.text
      BY <2>8 DEF Appended, Sealed, SealedAt
    <3>2. /\ Len(versions'[s]) = Len(versions[s]) + 1
          /\ versions'[s][Len(versions[s]) + 1] = ver
          /\ \A w \in 1..Len(versions[s]) : versions'[s][w] = versions[s][w]
      BY <2>1, <3>1, AppendedVersions
    <3>3. CASE v = Len(versions[s]) + 1
      BY <2>1, <3>1, <3>2, <3>3
    <3>4. CASE v \in 1..Len(versions[s])
      <4>1. \A w \in 1..(v - 1) : w \in 1..Len(versions[s])
        BY <2>1, <3>4
      <4>2. \A w \in 1..v : versions'[s][w] = versions[s][w]
        BY <2>1, <3>2, <3>4
      <4>3. Fits(versions[s], v)
        BY <2>2, <3>4
      <4>4. v \in Nat \ {0} /\ v \in 1..v /\ \A w \in 1..(v - 1) : w \in 1..v
        BY <2>1, <3>4
      <4>5. versions'[s][v] = versions[s][v]
        BY <4>2, <4>4
      <4> HIDE DEF Fits
      <4>6. ASSUME versions[s][v].origin = "restore"
            PROVE  versions'[s][versions[s][v].base]
                     = versions[s][versions[s][v].base]
        <5>1. versions[s][v].base \in 1..(v - 1)
          BY <4>3, <4>6 DEF Fits
        <5> QED BY <4>2, <4>4, <5>1
      <4> QED BY <4>3, <4>5, <4>6 DEF Fits
    <3> QED BY <2>1, <3>2, <3>3, <3>4
  <2> QED BY <2>3, <2>4, <2>5, <2>6, <2>7, <2>8
<1> QED BY <1>1, <1>2, TypeCorrect, SealedAlways, PTL DEF Spec

\* What VersionTextImmutable says of one secret.
Fixed(s) ==
  (Live(s) /\ Live(s)') =>
    \A v \in 1..Len(versions[s]) :
      /\ v \in 1..Len(versions'[s])
      /\ versions'[s][v].cipher.text = versions[s][v].cipher.text

LEMMA TextFixed ==
  ASSUME TypeOK, Sealed, [Next]_vars, NEW s \in Secrets
  PROVE  Fixed(s)
<1> SUFFICES ASSUME Live(s), Live(s)'
             PROVE  \A v \in 1..Len(versions[s]) :
                      /\ v \in 1..Len(versions'[s])
                      /\ versions'[s][v].cipher.text = versions[s][v].cipher.text
  BY DEF Fixed
<1>1. versions[s] \in Seq(Version) /\ Len(versions[s]) \in Nat
  BY DEF TypeOK
<1>2. \/ Same(s) \/ Vanished(s) \/ Written(s) \/ Rotated(s)
      \/ \E ver \in Version : Appended(s, ver)
  BY TextStep
<1>3. CASE Same(s)
  BY <1>3 DEF Same, Stored
<1>4. CASE Vanished(s) \/ Written(s)
  BY <1>4 DEF Vanished, Written, Live
<1>5. CASE Rotated(s)
  <2> DEFINE cur == secrets[s].current_version
             new == Seal(secrets[s].content.text, keys[s] + 1)
  <2>1. /\ cur \in 1..Len(versions[s])
        /\ versions[s][cur].cipher = secrets[s].content
    BY <1>1 DEF Sealed, SealedAt
  <2>2. versions'[s] = [versions[s] EXCEPT ![cur].cipher = new,
                                           ![cur].key_version = keys[s] + 1]
    BY <1>5 DEF Rotated
  <2>3. new.text = versions[s][cur].cipher.text
    BY <2>1 DEF Seal
  <2> HIDE DEF cur, new
  <2>4. /\ Len(versions'[s]) = Len(versions[s])
        /\ versions'[s][cur].cipher = new
        /\ \A w \in 1..Len(versions[s]) :
             w # cur => versions'[s][w] = versions[s][w]
    BY <1>1, <2>1, <2>2, RotatedVersions
  <2> QED BY <2>3, <2>4
<1>6. ASSUME NEW ver \in Version, Appended(s, ver)
      PROVE  \A v \in 1..Len(versions[s]) :
               /\ v \in 1..Len(versions'[s])
               /\ versions'[s][v].cipher.text = versions[s][v].cipher.text
  <2>1. versions'[s] = Append(versions[s], ver)
    BY <1>6 DEF Appended
  <2> QED BY <1>1, <2>1, AppendedVersions
<1> QED BY <1>2, <1>3, <1>4, <1>5, <1>6

\* The text of a version never changes while its secret exists: no rotation,
\* update or restore reaches into the history.
THEOREM VersionTextFixed == Spec => VersionTextImmutable
<1>1. TypeOK /\ Sealed /\ [Next]_vars => [\A s \in Secrets : Fixed(s)]_vars
  BY TextFixed
<1>2. Spec => [][\A s \in Secrets : Fixed(s)]_vars
  BY <1>1, TypeCorrect, SealedAlways, PTL DEF Spec
<1> QED BY <1>2 DEF VersionTextImmutable, Fixed

-----------------------------------------------------------------------------
(* Answers and history *)

\* An answer on its way was granted in this step or was on its way before.
LEMMA AnswerOrigin ==
  ASSUME TypeOK, [Next]_vars, NEW c \in Clients, Answering(c)'
  PROVE  View(c) \/ (Answering(c) /\ req'[c] = req[c])
<1>1. CASE Unseen
  BY <1>1 DEF Unseen
<1>2. ASSUME NEW d \in Clients, View(d) \/ Answer(d)
      PROVE  View(c) \/ (Answering(c) /\ req'[c] = req[c])
  <2>1. CASE d = c
    BY <1>2, <2>1 DEF Answer, Goto, Idle, Answering, At, TypeOK
  <2>2. CASE d # c
    <3>1. req'[c] = req[c]
      BY <1>2, <2>2 DEF View, Answer, Goto, TypeOK
    <3> QED BY <3>1 DEF Answering, At
  <2> QED BY <2>1, <2>2
<1> QED BY <1>1, <1>2, RequestStep

\* What View does to the request that was granted the view.
LEMMA Granted ==
  ASSUME TypeOK, NEW c \in Clients, View(c)
  PROVE  /\ req[c].secret \in Secrets /\ Live(req[c].secret)
         /\ req'[c].secret = req[c].secret
         /\ req'[c].view = secrets[req[c].secret].view_count + 1
         /\ req'[c].version = secrets[req[c].secret].current_version
         /\ req'[c].text = secrets[req[c].secret].content.text
<1>1. req[c].secret \in Secrets
  BY RequestFields DEF View, At
<1> QED BY <1>1 DEF View, Goto, Joined, TypeOK

\* A secret with an answer on its way has been stored.
LEMMA AnsweringStored ==
  ASSUME TypeOK, Counted, OnceEach, NEW c \in Clients, Answering(c)
  PROVE  /\ req[c].secret \in Secrets
         /\ secrets[req[c].secret].state # "unborn"
<1>1. req[c].secret \in Secrets
  BY RequestFields DEF Answering, At
<1>2. req[c].view \in 1..secrets[req[c].secret].view_count
  BY DEF OnceEach
<1> QED BY <1>1, <1>2 DEF Counted, CountedAt

LEMMA AnswerStep ==
  TypeOK /\ Counted /\ OnceEach /\ Sealed /\ AnswerMatchesVersion /\ [Next]_vars
    => AnswerMatchesVersion'
<1> SUFFICES ASSUME TypeOK, Counted, OnceEach, Sealed, AnswerMatchesVersion,
                    [Next]_vars
             PROVE  AnswerMatchesVersion'
  OBVIOUS
<1> SUFFICES ASSUME NEW c \in Clients, Answering(c)', Live(req[c].secret)'
             PROVE  /\ req'[c].secret = req[c].secret
                    /\ req'[c].version \in 1..Len(versions'[req[c].secret])
                    /\ req'[c].text =
                         versions'[req[c].secret][req'[c].version].cipher.text
  <2>1. ASSUME NEW c \in Clients, Answering(c)' PROVE req'[c].secret = req[c].secret
    BY <2>1, AnswerOrigin, Granted
  <2> QED BY <2>1 DEF AnswerMatchesVersion, Live
<1> DEFINE s == req[c].secret
<1>1. CASE View(c)
  <2>1. /\ s \in Secrets /\ Live(s) /\ req'[c].secret = s
        /\ req'[c].version = secrets[s].current_version
        /\ req'[c].text = secrets[s].content.text
    BY <1>1, Granted
  <2>2. versions[s] \in Seq(Version)
    BY <2>1 DEF TypeOK
  <2>3. /\ secrets[s].current_version \in 1..Len(versions[s])
        /\ versions[s][secrets[s].current_version].cipher = secrets[s].content
    BY <2>1, <2>2 DEF Sealed, SealedAt
  <2> QED BY <2>1, <2>3, TextFixed DEF Fixed
<1>2. CASE Answering(c) /\ req'[c] = req[c]
  <2>1. s \in Secrets /\ secrets[s].state # "unborn"
    BY <1>2, AnsweringStored
  <2>2. Live(s)
    <3>1. \/ Same(s) \/ Vanished(s) \/ Written(s) \/ Rotated(s)
          \/ \E ver \in Version : Appended(s, ver)
      BY <2>1, TextStep
    <3> QED BY <2>1, <3>1 DEF Same, Vanished, Written, Rotated, Appended
  <2>3. /\ req[c].version \in 1..Len(versions[s])
        /\ req[c].text = versions[s][req[c].version].cipher.text
    BY <1>2, <2>2 DEF AnswerMatchesVersion
  <2> QED BY <1>2, <2>1, <2>2, <2>3, TextFixed DEF Fixed
<1> QED BY <1>1, <1>2, AnswerOrigin

\* An answer carries the text of the version it reports, although edits and
\* rotations may commit before the response leaves.
THEOREM AnswersMatch == Spec => []AnswerMatchesVersion
<1>1. Init => AnswerMatchesVersion
  BY DEF Init, AnswerMatchesVersion, Answering, At, Idle
<1> QED BY <1>1, AnswerStep, TypeCorrect, CountedAlways, OnceEachAlways,
           SealedAlways, PTL DEF Spec

\* What a step may do to the view history of one secret while it is tracked.
Untold(s) ==
  tracking'[s] => /\ tracking[s]
                  /\ views'[s] = views[s]
                  /\ secrets'[s].view_count = secrets[s].view_count

Begun(s) ==
  /\ secrets[s].state = "unborn"
  /\ views'[s] = views[s]
  /\ secrets'[s].view_count = 0

Told(s) ==
  \E c \in Clients :
    /\ View(c) /\ req[c].secret = s
    /\ tracking'[s] = tracking[s]
    /\ secrets'[s].view_count = secrets[s].view_count + 1
    /\ tracking[s] => views'[s] = Append(views[s], secrets[s].current_version)

LEMMA HistoryStep ==
  ASSUME TypeOK, [Next]_vars, NEW s \in Secrets
  PROVE  Untold(s) \/ Begun(s) \/ Told(s)
<1> USE DEF tables
<1>1. ASSUME tracking' = tracking, views' = views,
             secrets'[s].view_count = secrets[s].view_count
      PROVE  Untold(s)
  BY <1>1 DEF Untold
<1>2. ASSUME NEW c \in Clients,
             \/ \E r \in Secrets : Authorize(c, r)
             \/ StartRead(c) \/ Answer(c) \/ Abandon(c)
             \/ \E u \in Users, r \in Secrets : ReadVersions(c, u, r)
             \/ \E u \in Users, r \in Secrets : RotateCheck(c, u, r)
             \/ RotateAudit(c)
      PROVE  Untold(s)
  BY <1>1, <1>2 DEF Authorize, StartRead, Answer, Abandon, ReadVersions,
     RotateCheck, RotateAudit
<1>3. ASSUME NEW c \in Clients, View(c) PROVE Untold(s) \/ Told(s)
  <2> DEFINE r == req[c].secret
  <2>1. /\ r \in Secrets /\ tracking' = tracking /\ views' = Recorded(r)
        /\ secrets' = [secrets EXCEPT
             ![r].view_count = secrets[r].view_count + 1,
             ![r].state = IF Spent(r, secrets[r].view_count + 1)
                          THEN "burned" ELSE "live"]
    BY <1>3, RequestFields DEF View, SpendView, Joined, At
  <2>2. CASE s = r
    <3>1. secrets'[s].view_count = secrets[s].view_count + 1
      BY <2>1, <2>2 DEF TypeOK, Row
    <3>2. tracking[s] => views'[s] = Append(views[s], secrets[s].current_version)
      BY <2>1, <2>2 DEF Recorded, TypeOK
    <3> QED BY <1>3, <2>1, <2>2, <3>1, <3>2 DEF Told
  <2>3. CASE s # r
    <3>1. secrets'[s].view_count = secrets[s].view_count
      BY <2>1, <2>3 DEF TypeOK
    <3>2. views'[s] = views[s]
      BY <2>1, <2>3 DEF Recorded, TypeOK
    <3> QED BY <2>1, <3>1, <3>2 DEF Untold
  <2> QED BY <2>2, <2>3
<1>4. ASSUME NEW c \in Clients, NEW t \in Texts, UpdateSecret(c, t)
      PROVE  Untold(s)
  <2>1. req[c].secret \in Secrets
    BY <1>4, RequestFields DEF UpdateSecret, At
  <2> QED BY <1>1, <1>4, <2>1, InsertKeeps DEF UpdateSecret
<1>5. ASSUME NEW c \in Clients, RotateKey(c) PROVE Untold(s)
  <2>1. req[c].secret \in Secrets
    BY <1>5, RequestFields DEF RotateKey, At
  <2> QED BY <1>1, <1>5, <2>1 DEF RotateKey, TypeOK, Row
<1>6. ASSUME NEW u \in Users, NEW r \in Secrets, NEW n \in 1..MaxViews,
             NEW t \in Texts, NEW e \in BOOLEAN, NEW x \in BOOLEAN,
             CreateSecret(u, r, n, t, e, x)
      PROVE  Untold(s) \/ Begun(s)
  BY <1>6 DEF CreateSecret, Untold, Begun, TypeOK
<1>7. ASSUME NEW u \in Users, NEW r \in Secrets, NEW v \in 1..MAX_SECRET_VERSIONS,
             RestoreVersion(u, r, v)
      PROVE  Untold(s)
  BY <1>1, <1>7, InsertKeeps DEF RestoreVersion
<1>8. ASSUME NEW u \in Users, NEW r \in Secrets, UpdateLocationPolicy(u, r)
      PROVE  Untold(s)
  BY <1>1, <1>8 DEF UpdateLocationPolicy
<1>9. ASSUME NEW u \in Users, NEW r \in Secrets, DeleteSecret(u, r)
      PROVE  Untold(s)
  BY <1>1, <1>9 DEF DeleteSecret, TypeOK, Row
<1>10. ASSUME NEW r \in Secrets, Elapse(r) PROVE Untold(s)
  BY <1>1, <1>10 DEF Elapse, TypeOK, Row
<1>11. ASSUME NEW r \in Secrets, ExpireSecret(r) PROVE Untold(s)
  BY <1>1, <1>11 DEF ExpireSecret, TypeOK, Row
<1>12. ASSUME Sweep PROVE Untold(s)
  <2> DEFINE U == {u \in Users : users[u] = "due"}
             T == {r \in Secrets : secrets[r].age = "lapsed" \/ secrets[r].owner \in U}
  <2>1. /\ secrets'[s].view_count = secrets[s].view_count
        /\ tracking'[s] = (tracking[s] /\ s \notin T)
        /\ views'[s] = IF s \in T THEN <<>> ELSE views[s]
    BY <1>12 DEF Sweep, TypeOK, Row
  <2> QED BY <2>1 DEF Untold
<1>13. ASSUME NEW a \in Users, NEW u \in Users, SwitchUserActivation(a, u)
       PROVE  Untold(s)
  BY <1>1, <1>13 DEF SwitchUserActivation
<1>14. CASE UNCHANGED vars
  BY <1>1, <1>14 DEF vars
<1> QED
  BY <1>2, <1>3, <1>4, <1>5, <1>6, <1>7, <1>8, <1>9, <1>10, <1>11, <1>12,
     <1>13, <1>14 DEF Next, ClientStep, OwnerStep, SystemStep

\* A secret that was never stored has no history.
Untouched == \A s \in Secrets : secrets[s].state = "unborn" => views[s] = <<>>

LEMMA UntouchedStep == TypeOK /\ Untouched /\ [Next]_vars => Untouched'
<1> SUFFICES ASSUME TypeOK, Untouched, [Next]_vars, NEW s \in Secrets,
                    secrets'[s].state = "unborn"
             PROVE  views'[s] = <<>>
  BY DEF Untouched
<1>1. secrets[s].state = "unborn"
  BY CountStep DEF Kept, Born, Shown, Ended
<1>2. views[s] = <<>>
  BY <1>1 DEF Untouched
<1>3. CASE \E c \in Clients : View(c)
  <2>1. PICK c \in Clients : View(c)
    BY <1>3
  <2>2. Live(req[c].secret) /\ req[c].secret \in Secrets /\ views' = Recorded(req[c].secret)
    BY <2>1, RequestFields DEF View, At
  <2> QED BY <1>1, <1>2, <2>2 DEF Live, Recorded, TypeOK
<1>4. CASE views' = views
  BY <1>2, <1>4
<1>5. CASE Sweep
  BY <1>2, <1>5 DEF Sweep
<1>6. ASSUME NEW c \in Clients, ClientStep(c) PROVE views' = views \/ View(c)
  BY <1>6 DEF ClientStep, tables, Authorize, StartRead, Answer, Abandon,
     ReadVersions, UpdateSecret, RotateCheck, RotateKey, RotateAudit
<1>7. ASSUME NEW u \in Users, NEW r \in Secrets, OwnerStep(u, r)
      PROVE  views' = views
  BY <1>7 DEF OwnerStep, CreateSecret, RestoreVersion, UpdateLocationPolicy,
     DeleteSecret
<1>8. CASE SystemStep
  BY <1>4, <1>5, <1>8 DEF SystemStep, Elapse, ExpireSecret, SwitchUserActivation
<1>9. CASE UNCHANGED vars
  BY <1>4, <1>9 DEF vars, tables
<1> QED BY <1>3, <1>4, <1>6, <1>7, <1>8, <1>9 DEF Next

LEMMA AccountStep ==
  /\ TypeOK /\ Counted /\ OnceEach /\ Untouched /\ HistoryAccountsForViews
  /\ [Next]_vars
  => HistoryAccountsForViews'
<1> SUFFICES ASSUME TypeOK, Counted, OnceEach, Untouched,
                    HistoryAccountsForViews, [Next]_vars
             PROVE  HistoryAccountsForViews'
  OBVIOUS
<1> SUFFICES ASSUME NEW s \in Secrets, tracking'[s]
             PROVE  /\ Len(views'[s]) = secrets'[s].view_count
                    /\ \A c \in Clients :
                         Answering(c)' /\ req'[c].secret = s =>
                           views'[s][req'[c].view] = req'[c].version
  BY DEF HistoryAccountsForViews
<1>1. views[s] \in Seq(Nat) /\ secrets[s].view_count \in Nat
      /\ secrets[s].current_version \in Nat
  BY RowFields DEF TypeOK
<1>2. CASE Untold(s)
  <2>1. /\ tracking[s] /\ views'[s] = views[s]
        /\ secrets'[s].view_count = secrets[s].view_count
    BY <1>2 DEF Untold
  <2>2. ASSUME NEW c \in Clients, Answering(c)', req'[c].secret = s
        PROVE  Answering(c) /\ req'[c] = req[c]
    <3>1. CASE View(c)
      <4>1. secrets'[s].view_count = secrets[s].view_count + 1
        <5>1. req[c].secret = s
          BY <2>2, <3>1, Granted
        <5> QED BY <3>1, <5>1 DEF View, SpendView, Joined, TypeOK, Row
      <4> QED BY <1>1, <2>1, <4>1
    <3> QED BY <2>2, <3>1, AnswerOrigin
  <2> QED BY <2>1, <2>2 DEF HistoryAccountsForViews
<1>3. CASE Begun(s)
  <2>1. views'[s] = <<>> /\ secrets'[s].view_count = 0
    BY <1>3 DEF Begun, Untouched
  <2>2. ASSUME NEW c \in Clients, Answering(c)', req'[c].secret = s
        PROVE  FALSE
    <3>1. CASE View(c)
      BY <1>3, <2>2, <3>1, Granted DEF Begun, Live
    <3>2. CASE Answering(c) /\ req'[c] = req[c]
      BY <1>3, <2>2, <3>2, AnsweringStored DEF Begun
    <3> QED BY <2>2, <3>1, <3>2, AnswerOrigin
  <2> QED BY <2>1, <2>2
<1>4. CASE Told(s)
  <2>1. PICK d \in Clients :
          /\ View(d) /\ req[d].secret = s /\ tracking'[s] = tracking[s]
          /\ secrets'[s].view_count = secrets[s].view_count + 1
          /\ tracking[s] =>
               views'[s] = Append(views[s], secrets[s].current_version)
    BY <1>4 DEF Told
  <2>2. /\ Len(views[s]) = secrets[s].view_count
        /\ views'[s] = Append(views[s], secrets[s].current_version)
    BY <2>1 DEF HistoryAccountsForViews
  <2>3. /\ Len(views'[s]) = Len(views[s]) + 1
        /\ views'[s][Len(views[s]) + 1] = secrets[s].current_version
        /\ \A i \in 1..Len(views[s]) : views'[s][i] = views[s][i]
    BY <1>1, <2>2, AppendProperties
  <2>4. ASSUME NEW c \in Clients, Answering(c)', req'[c].secret = s
        PROVE  views'[s][req'[c].view] = req'[c].version
    <3>1. CASE View(c)
      <4>1. req[c].secret = s
        BY <2>4, <3>1, Granted
      <4> QED BY <2>2, <2>3, <3>1, <4>1, Granted
    <3>2. CASE Answering(c) /\ req'[c] = req[c]
      <4>1. /\ views[s][req[c].view] = req[c].version
            /\ req[c].view \in 1..Len(views[s])
        BY <2>1, <2>2, <2>4, <3>2 DEF HistoryAccountsForViews, OnceEach
      <4> QED BY <2>3, <3>2, <4>1
    <3> QED BY <2>4, <3>1, <3>2, AnswerOrigin
  <2> QED BY <2>1, <2>2, <2>3, <2>4
<1> QED BY <1>2, <1>3, <1>4, HistoryStep

\* While a secret is tracked, its history holds one row per view, in order,
\* each naming the version that view was answered with.
THEOREM HistoryComplete == Spec => []HistoryAccountsForViews
<1>1. Init => Untouched /\ HistoryAccountsForViews
  BY DEF Init, Untouched, HistoryAccountsForViews
<1> QED BY <1>1, UntouchedStep, AccountStep, TypeCorrect, CountedAlways,
           OnceEachAlways, PTL DEF Spec

\* A link of an earlier policy grants a view only to a retrieval whose locking
\* statement was already running when the policy changed.
THEOREM OldLinksEnd == Spec => OldLinkNeedsOpenStatement
<1> DEFINE Strict(c) ==
      /\ (At(c, "authorized") /\ req[c].link # policy[req[c].secret])
           => req'[c].pc # "answering"
      /\ Viewed(c) => req[c].snap.policy_version = req[c].link
<1>1. TypeOK /\ [Next]_vars => [\A c \in Clients : Strict(c)]_vars
  <2> SUFFICES ASSUME TypeOK, [Next]_vars, NEW c \in Clients,
                      ~At(c, "answering"), At(c, "answering")'
               PROVE  /\ ~At(c, "authorized")
                      /\ req[c].snap.policy_version = req[c].link
    BY DEF Viewed, At
  <2>1. View(c)
    BY AnswerOrigin DEF Answering
  <2> QED BY <2>1 DEF View, PolicyCurrent, Joined, At
<1>2. Spec => [][\A c \in Clients : Strict(c)]_vars
  BY <1>1, TypeCorrect, PTL DEF Spec
<1> QED BY <1>2 DEF OldLinkNeedsOpenStatement

\* No restricted secret is shown without a row in its view history.
THEOREM RestrictedViewsKept == Spec => RestrictedViewsRecorded
<1> DEFINE Row1(c) == (Viewed(c) /\ secrets[req[c].secret].email_restricted) =>
               Len(views'[req[c].secret]) = Len(views[req[c].secret]) + 1
<1>1. TypeOK /\ [Next]_vars => [\A c \in Clients : Row1(c)]_vars
  <2> SUFFICES ASSUME TypeOK, [Next]_vars, NEW c \in Clients, Viewed(c),
                      secrets[req[c].secret].email_restricted
               PROVE  Len(views'[req[c].secret]) = Len(views[req[c].secret]) + 1
    OBVIOUS
  <2> DEFINE s == req[c].secret
  <2>1. View(c) /\ s \in Secrets
    BY AnswerOrigin, RequestFields DEF Viewed, Answering, At
  <2>2. views'[s] = Append(views[s], secrets[s].current_version)
    BY <2>1 DEF View, Recordable, Recorded, TypeOK
  <2>3. views[s] \in Seq(Nat) /\ secrets[s].current_version \in Nat
    BY <2>1, RowFields DEF TypeOK
  <2> QED BY <2>2, <2>3, AppendProperties
<1>2. Spec => [][\A c \in Clients : Row1(c)]_vars
  BY <1>1, TypeCorrect, PTL DEF Spec
<1> QED BY <1>2 DEF RestrictedViewsRecorded

-----------------------------------------------------------------------------
(* SecretStore implements BurnAfterRead: stored texts *)

\* Every stored version holds a plaintext, never Null.
Plain ==
  \A s \in Secrets : \A v \in 1..Len(versions[s]) :
    versions[s][v].cipher.text \in Texts

LEMMA PlainStep == TypeOK /\ Sealed /\ Plain /\ [Next]_vars => Plain'
<1> SUFFICES ASSUME TypeOK, Sealed, Plain, [Next]_vars, NEW s \in Secrets,
                    NEW v \in 1..Len(versions'[s])
             PROVE  versions'[s][v].cipher.text \in Texts
  BY DEF Plain
<1>1. versions[s] \in Seq(Version) /\ Len(versions[s]) \in Nat
  BY DEF TypeOK
<1>2. \/ Same(s) \/ Vanished(s) \/ Written(s) \/ Rotated(s)
      \/ \E ver \in Version : Appended(s, ver)
  BY TextStep
<1>3. CASE Same(s)
  BY <1>3 DEF Same, Stored, Plain
<1>4. CASE Vanished(s)
  BY <1>4 DEF Vanished
<1>5. CASE Written(s)
  BY <1>5 DEF Written, Seal
<1>6. CASE Rotated(s)
  <2> DEFINE cur == secrets[s].current_version
             new == Seal(secrets[s].content.text, keys[s] + 1)
  <2>1. /\ cur \in 1..Len(versions[s])
        /\ versions[s][cur].cipher = secrets[s].content
    BY <1>1, <1>6 DEF Rotated, Sealed, SealedAt
  <2>2. versions'[s] = [versions[s] EXCEPT ![cur].cipher = new,
                                           ![cur].key_version = keys[s] + 1]
    BY <1>6 DEF Rotated
  <2>3. new.text \in Texts
    BY <2>1 DEF Seal, Plain
  <2> HIDE DEF cur, new
  <2>4. /\ Len(versions'[s]) = Len(versions[s])
        /\ versions'[s][cur].cipher = new
        /\ \A w \in 1..Len(versions[s]) :
             w # cur => versions'[s][w] = versions[s][w]
    BY <1>1, <2>1, <2>2, RotatedVersions
  <2> QED BY <2>3, <2>4 DEF Plain
<1>7. ASSUME NEW ver \in Version, Appended(s, ver)
      PROVE  versions'[s][v].cipher.text \in Texts
  <2>1. versions'[s] = Append(versions[s], ver) /\ ver.cipher.text \in Texts
    BY <1>7 DEF Appended, Plain
  <2>2. /\ Len(versions'[s]) = Len(versions[s]) + 1
        /\ versions'[s][Len(versions[s]) + 1] = ver
        /\ \A w \in 1..Len(versions[s]) : versions'[s][w] = versions[s][w]
    BY <1>1, <2>1, AppendedVersions
  <2>3. v = Len(versions[s]) + 1 \/ v \in 1..Len(versions[s])
    BY <1>1, <2>2
  <2> QED BY <2>1, <2>2, <2>3 DEF Plain
<1> QED BY <1>2, <1>3, <1>4, <1>5, <1>6, <1>7

LEMMA PlainAlways == Spec => []Plain
<1>1. Init => Plain
  BY DEF Init, Plain
<1> QED BY <1>1, PlainStep, TypeCorrect, SealedAlways, PTL DEF Spec

-----------------------------------------------------------------------------
(* The refinement mapping *)

StatusOf(s) == CASE secrets[s].state = "unborn" -> "absent"
                 [] Live(s)                     -> "live"
                 [] OTHER                       -> "gone"

LeftOf(s) == IF Live(s) THEN secrets[s].max_views - secrets[s].view_count ELSE 0

TextOf(s) == IF Live(s) /\ Opens(secrets[s].content, keys[s])
             THEN secrets[s].content.text ELSE Null

Statuses == [s \in Secrets |-> StatusOf(s)]
Lefts    == [s \in Secrets |-> LeftOf(s)]
Shows    == [s \in Secrets |-> TextOf(s)]

\* A step that leaves what is visible of every secret but those in S alone.
Others(S) ==
  \A s \in Secrets \ S :
    StatusOf(s)' = StatusOf(s) /\ LeftOf(s)' = LeftOf(s) /\ TextOf(s)' = TextOf(s)

\* What is visible depends on four columns and on the keys.
LEMMA VisibleColumns ==
  ASSUME NEW s \in Secrets,
         secrets'[s].state = secrets[s].state,
         secrets'[s].view_count = secrets[s].view_count,
         secrets'[s].max_views = secrets[s].max_views,
         secrets'[s].content = secrets[s].content,
         keys'[s] = keys[s]
  PROVE  /\ StatusOf(s)' = StatusOf(s)
         /\ LeftOf(s)' = LeftOf(s)
         /\ TextOf(s)' = TextOf(s)
  BY DEF StatusOf, LeftOf, TextOf, Live, Opens

\* Nothing visible changes: the step is a stutter of the promise.
LEMMA Invisible ==
  ASSUME Others({})
  PROVE  UNCHANGED Promise!vars
<1>1. Statuses' = Statuses /\ Lefts' = Lefts /\ Shows' = Shows
  BY DEF Others, Statuses, Lefts, Shows
<1> QED BY <1>1 DEF Promise!vars, Statuses, Lefts, Shows, StatusOf, LeftOf, TextOf

\* Secrets that leave together.
LEMMA Leaving ==
  ASSUME NEW S \in SUBSET Secrets, S # {}, Others(S),
         \A s \in S : Live(s) /\ ~Live(s)' /\ secrets'[s].state # "unborn"
  PROVE  Promise!Gone(S)
<1>1. \A s \in S : /\ StatusOf(s) = "live"
                   /\ StatusOf(s)' = "gone" /\ LeftOf(s)' = 0 /\ TextOf(s)' = Null
  BY DEF StatusOf, LeftOf, TextOf, Live
<1>2. Statuses' = [s \in Secrets |-> IF s \in S THEN "gone" ELSE Statuses[s]]
  BY <1>1 DEF Others, Statuses
<1>3. Lefts' = [s \in Secrets |-> IF s \in S THEN 0 ELSE Lefts[s]]
  BY <1>1 DEF Others, Lefts
<1>4. Shows' = [s \in Secrets |-> IF s \in S THEN Null ELSE Shows[s]]
  BY <1>1 DEF Others, Shows
<1>5. \A s \in S : Statuses[s] = "live"
  BY <1>1 DEF Statuses
<1> QED BY <1>2, <1>3, <1>4, <1>5
           DEF Promise!Gone, Statuses, Lefts, Shows, StatusOf, LeftOf, TextOf

\* An edit of one secret.
LEMMA Editing ==
  ASSUME NEW r \in Secrets, NEW t, Others({r}), Live(r), Live(r)',
         LeftOf(r)' = LeftOf(r), TextOf(r)' = t
  PROVE  Promise!Edit(r, t)
<1>1. StatusOf(r) = "live" /\ StatusOf(r)' = "live"
  BY DEF StatusOf, Live
<1>2. Statuses' = Statuses /\ Lefts' = Lefts
  BY <1>1 DEF Others, Statuses, Lefts
<1>3. Shows' = [Shows EXCEPT ![r] = t]
  BY DEF Others, Shows
<1>4. Statuses[r] = "live"
  BY <1>1 DEF Statuses
<1> QED BY <1>2, <1>3, <1>4
           DEF Promise!Edit, Statuses, Lefts, Shows, StatusOf, LeftOf, TextOf

\* A reveal that leaves views to come.
LEMMA Revealing ==
  ASSUME NEW r \in Secrets, Others({r}), Live(r), Live(r)',
         LeftOf(r) > 1, LeftOf(r)' = LeftOf(r) - 1, TextOf(r)' = TextOf(r)
  PROVE  Promise!Reveal(r)
<1>1. StatusOf(r) = "live" /\ StatusOf(r)' = "live"
  BY DEF StatusOf, Live
<1>2. Statuses' = Statuses /\ Shows' = Shows
  BY <1>1 DEF Others, Statuses, Shows
<1>3. Lefts' = [Lefts EXCEPT ![r] = @ - 1]
  BY DEF Others, Lefts
<1>4. Statuses[r] = "live" /\ Lefts[r] > 1
  BY <1>1 DEF Statuses, Lefts
<1> QED BY <1>2, <1>3, <1>4
           DEF Promise!Reveal, Statuses, Lefts, Shows, StatusOf, LeftOf, TextOf

\* A secret that is stored.
LEMMA Storing ==
  ASSUME NEW r \in Secrets, NEW n \in 1..MaxViews, NEW t \in Texts, Others({r}),
         secrets[r].state = "unborn", Live(r)', LeftOf(r)' = n, TextOf(r)' = t
  PROVE  Promise!Store(r, n, t)
<1>1. StatusOf(r) = "absent" /\ StatusOf(r)' = "live"
  BY DEF StatusOf, Live
<1>2. Statuses' = [Statuses EXCEPT ![r] = "live"]
  BY <1>1 DEF Others, Statuses
<1>3. Lefts' = [Lefts EXCEPT ![r] = n]
  BY DEF Others, Lefts
<1>4. Shows' = [Shows EXCEPT ![r] = t]
  BY DEF Others, Shows
<1>5. Statuses[r] = "absent"
  BY <1>1 DEF Statuses
<1> QED BY <1>2, <1>3, <1>4, <1>5
           DEF Promise!Store, Statuses, Lefts, Shows, StatusOf, LeftOf, TextOf

\* Rows of other secrets are untouched by an action on one.
LEMMA OthersUntouched ==
  ASSUME NEW r \in Secrets,
         \A s \in Secrets \ {r} : secrets'[s] = secrets[s] /\ keys'[s] = keys[s]
  PROVE  Others({r})
  BY VisibleColumns DEF Others

\* Steps that change neither a visible column nor a key.
LEMMA Unnoticed ==
  ASSUME secrets' = secrets, keys' = keys
  PROVE  UNCHANGED Promise!vars
  BY VisibleColumns, Invisible DEF Others

LEMMA InsertEdits ==
  ASSUME TypeOK, Sealed, NEW r \in Secrets, NEW t \in Texts, Live(r),
         NEW origin \in {"create", "update", "restore"}, NEW base \in Nat,
         InsertTextVersion(r, t, origin, base)
  PROVE  Promise!Edit(r, t)
<1>1. \A s \in Secrets \ {r} : secrets'[s] = secrets[s] /\ keys'[s] = keys[s]
  BY DEF InsertTextVersion, Repointed, TypeOK
<1>2. /\ secrets'[r].content = Seal(t, keys[r] + 1) /\ keys'[r] = keys[r] + 1
      /\ secrets'[r].state = secrets[r].state
      /\ secrets'[r].view_count = secrets[r].view_count
      /\ secrets'[r].max_views = secrets[r].max_views
  BY DEF InsertTextVersion, Repointed, TypeOK, Row
<1>3. Live(r)' /\ LeftOf(r)' = LeftOf(r) /\ TextOf(r)' = t
  BY <1>2 DEF Live, LeftOf, TextOf, Opens, Seal
<1> QED BY <1>1, <1>3, OthersUntouched, Editing

\* The row of a secret that goes, alone.
LEMMA DeletesOne ==
  ASSUME TypeOK, NEW r \in Secrets, Live(r), NEW st \in {"removed", "expired"},
         secrets' = [secrets EXCEPT ![r].state = st], Cascade({r})
  PROVE  Promise!Gone({r})
<1>1. \A s \in Secrets \ {r} : secrets'[s] = secrets[s] /\ keys'[s] = keys[s]
  BY DEF Cascade, TypeOK
<1>2. secrets'[r].state = st
  BY DEF TypeOK, Row
<1>3. Live(r) /\ ~Live(r)' /\ secrets'[r].state # "unborn"
  BY <1>2 DEF Live
<1> QED BY <1>1, <1>3, OthersUntouched, Leaving

\* Every step of SecretStore is a step of the promise or a stutter; one case
\* per action that something visible can depend on.
LEMMA PromiseStep ==
  ASSUME TypeOK, Counted, Sealed, Plain, [Next]_vars
  PROVE  [Promise!Next]_(Promise!vars)
<1> USE DEF tables
<1>1. ASSUME NEW c \in Clients,
             \/ \E r \in Secrets : Authorize(c, r)
             \/ StartRead(c) \/ Answer(c) \/ Abandon(c)
             \/ \E u \in Users, r \in Secrets : ReadVersions(c, u, r)
             \/ \E u \in Users, r \in Secrets : RotateCheck(c, u, r)
             \/ RotateAudit(c)
      PROVE  UNCHANGED Promise!vars
  BY <1>1, Unnoticed DEF Authorize, StartRead, Answer, Abandon, ReadVersions,
     RotateCheck, RotateAudit
<1>2. ASSUME NEW c \in Clients, View(c) PROVE Promise!Next
  <2> PICK r \in Secrets : r = req[c].secret
    BY <1>2, RequestFields DEF View, At
  <2> DEFINE count == secrets[r].view_count + 1
             spent == count >= secrets[r].max_views
  <2>1. /\ Live(r)
        /\ secrets[r].view_count < secrets[r].max_views
        /\ secrets' = [secrets EXCEPT ![r].view_count = count,
                         ![r].state = IF spent THEN "burned" ELSE "live"]
        /\ Cascade(IF spent THEN {r} ELSE {})
    BY <1>2 DEF View, SpendView, Joined, Spent
  <2>2. secrets[r].view_count \in Nat /\ secrets[r].max_views \in Nat
    BY <2>1, RowFields DEF TypeOK
  <2>3. \A s \in Secrets \ {r} : secrets'[s] = secrets[s] /\ keys'[s] = keys[s]
    BY <2>1 DEF Cascade, TypeOK
  <2>4. Others({r})
    BY <2>1, <2>3, OthersUntouched
  <2>5. /\ secrets'[r].view_count = count
        /\ secrets'[r].max_views = secrets[r].max_views
        /\ secrets'[r].content = secrets[r].content
        /\ secrets'[r].state = IF spent THEN "burned" ELSE "live"
    BY <2>1 DEF TypeOK, Row
  <2>6. CASE spent
    <3>1. Live(r) /\ ~Live(r)' /\ secrets'[r].state # "unborn"
      BY <2>1, <2>5, <2>6 DEF Live
    <3>2. Promise!Gone({r})
      BY <2>1, <2>4, <3>1, Leaving
    <3>3. Lefts[r] = 1
      BY <2>1, <2>2, <2>6 DEF Lefts, LeftOf
    <3>4. Promise!Burn(r)
      BY <3>2, <3>3 DEF Promise!Burn, Lefts, LeftOf
    <3> QED BY <2>1, <3>4 DEF Promise!Next
  <2>7. CASE ~spent
    <3>1. keys'[r] = keys[r] /\ Live(r)'
      BY <2>1, <2>5, <2>7 DEF Cascade, TypeOK, Live
    <3>2. LeftOf(r) > 1 /\ LeftOf(r)' = LeftOf(r) - 1
      <4>1. /\ LeftOf(r) = secrets[r].max_views - secrets[r].view_count
            /\ LeftOf(r)' = secrets'[r].max_views - secrets'[r].view_count
        BY <2>1, <3>1 DEF LeftOf
      <4> HIDE DEF Live, LeftOf
      <4> QED BY <2>2, <2>5, <2>7, <4>1
    <3>3. TextOf(r)' = TextOf(r)
      <4>1. secrets'[r].content = secrets[r].content /\ keys'[r] = keys[r]
        BY <2>5, <3>1
      <4> QED BY <2>1, <3>1, <4>1 DEF TextOf, Opens
    <3>4. Promise!Reveal(r)
      BY <2>1, <2>4, <3>1, <3>2, <3>3, Revealing
    <3> QED BY <2>1, <3>4 DEF Promise!Next
  <2> QED BY <2>6, <2>7
<1>3. ASSUME NEW c \in Clients, NEW t \in Texts, UpdateSecret(c, t)
      PROVE  Promise!Next
  <2>1. req[c].secret \in Secrets /\ req[c].seen \in Nat
    BY <1>3, RequestFields DEF UpdateSecret, At
  <2>2. Promise!Edit(req[c].secret, t)
    BY <1>3, <2>1, InsertEdits DEF UpdateSecret
  <2> QED BY <2>1, <2>2 DEF Promise!Next
<1>4. ASSUME NEW c \in Clients, RotateKey(c) PROVE UNCHANGED Promise!vars
  <2> PICK r \in Secrets : r = req[c].secret
    BY <1>4, RequestFields DEF RotateKey, At
  <2>2. \A s \in Secrets \ {r} : secrets'[s] = secrets[s] /\ keys'[s] = keys[s]
    BY <1>4 DEF RotateKey, TypeOK
  <2>3. /\ secrets'[r].content = Seal(secrets[r].content.text, keys[r] + 1)
        /\ keys'[r] = keys[r] + 1
        /\ secrets'[r].state = secrets[r].state
        /\ secrets'[r].view_count = secrets[r].view_count
        /\ secrets'[r].max_views = secrets[r].max_views
        /\ Opens(secrets[r].content, keys[r])
    BY <1>4 DEF RotateKey, TypeOK, Row
  <2>4. StatusOf(r)' = StatusOf(r) /\ LeftOf(r)' = LeftOf(r)
    BY <2>3 DEF StatusOf, LeftOf, Live
  <2>5. TextOf(r)' = TextOf(r)
    BY <2>3 DEF TextOf, Live, Opens, Seal
  <2>6. Others({})
    BY <2>2, <2>4, <2>5, OthersUntouched DEF Others
  <2> QED BY <2>6, Invisible
<1>5. ASSUME NEW u \in Users, NEW r \in Secrets, NEW n \in 1..MaxViews,
             NEW t \in Texts, NEW e \in BOOLEAN, NEW x \in BOOLEAN,
             CreateSecret(u, r, n, t, e, x)
      PROVE  Promise!Next
  <2> DEFINE key == IF e THEN 0 ELSE 1
  <2>1. /\ secrets[r].state = "unborn" /\ secrets'[r].state = "live"
        /\ secrets'[r].max_views = n /\ secrets'[r].view_count = 0
        /\ secrets'[r].content = Seal(t, key) /\ keys'[r] = key
    BY <1>5 DEF CreateSecret, TypeOK
  <2>2. \A s \in Secrets \ {r} : secrets'[s] = secrets[s] /\ keys'[s] = keys[s]
    BY <1>5 DEF CreateSecret, TypeOK
  <2>3. Live(r)' /\ LeftOf(r)' = n /\ TextOf(r)' = t
    BY <2>1, ConstantsAssumption DEF Live, LeftOf, TextOf, Opens, Seal
  <2>4. Promise!Store(r, n, t)
    BY <2>1, <2>2, <2>3, OthersUntouched, Storing
  <2> QED BY <2>4 DEF Promise!Next
<1>6. ASSUME NEW u \in Users, NEW r \in Secrets, NEW v \in 1..MAX_SECRET_VERSIONS,
             RestoreVersion(u, r, v)
      PROVE  Promise!Next
  <2>1. Live(r) /\ v \in 1..Len(versions[r]) /\ v \in Nat
    BY <1>6, ConstantsAssumption DEF RestoreVersion
  <2>2. PICK t \in Texts : t = versions[r][v].cipher.text
    BY <2>1 DEF Plain
  <2>3. Promise!Edit(r, t)
    <3>1. InsertTextVersion(r, t, "restore", v)
      BY <1>6, <2>2 DEF RestoreVersion, Restored
    <3> QED BY <2>1, <3>1, InsertEdits
  <2> QED BY <2>3 DEF Promise!Next
<1>7. ASSUME NEW u \in Users, NEW r \in Secrets, UpdateLocationPolicy(u, r)
      PROVE  UNCHANGED Promise!vars
  BY <1>7, Unnoticed DEF UpdateLocationPolicy
<1>8. ASSUME NEW r \in Secrets, \/ \E u \in Users : DeleteSecret(u, r)
                                \/ ExpireSecret(r)
      PROVE  Promise!Next
  <2>1. Promise!Gone({r})
    BY <1>8, DeletesOne DEF DeleteSecret, ExpireSecret
  <2> QED BY <2>1 DEF Promise!Next
<1>9. ASSUME NEW r \in Secrets, Elapse(r) PROVE UNCHANGED Promise!vars
  <2>1. ASSUME NEW s \in Secrets
        PROVE  /\ secrets'[s].state = secrets[s].state
               /\ secrets'[s].view_count = secrets[s].view_count
               /\ secrets'[s].max_views = secrets[s].max_views
               /\ secrets'[s].content = secrets[s].content
               /\ keys'[s] = keys[s]
    BY <1>9 DEF Elapse, TypeOK, Row
  <2> QED BY <2>1, VisibleColumns, Invisible DEF Others
<1>10. ASSUME Sweep PROVE Promise!Next \/ UNCHANGED Promise!vars
  <2> PICK S \in SUBSET Secrets :
        S = {s \in Secrets : /\ Live(s)
               /\ \/ secrets[s].age # "fresh"
                  \/ secrets[s].view_count >= secrets[s].max_views}
    OBVIOUS
  <2>1. ASSUME NEW s \in Secrets
        PROVE  /\ secrets'[s].state =
                    IF s \in S THEN "expired" ELSE secrets[s].state
               /\ secrets'[s].view_count = secrets[s].view_count
               /\ secrets'[s].max_views = secrets[s].max_views
               /\ secrets'[s].content = secrets[s].content
               /\ s \notin S => keys'[s] = keys[s]
    <3>1. s \notin S => keys'[s] = keys[s]
      BY <1>10 DEF Sweep, Cascade, TypeOK
    <3> QED BY <1>10, <3>1, SweptRow
  <2>2. \A s \in S : Live(s)
    OBVIOUS
  <2>3. Others(S)
    BY <2>1, VisibleColumns DEF Others
  <2>4. \A s \in S : Live(s) /\ ~Live(s)' /\ secrets'[s].state # "unborn"
    BY <2>1, <2>2 DEF Live
  <2>5. CASE S = {}
    BY <2>3, <2>5, Invisible
  <2>6. CASE S # {}
    <3>1. Promise!Gone(S)
      BY <2>2, <2>3, <2>4, <2>6, Leaving
    <3> QED BY <2>2, <3>1 DEF Promise!Next
  <2> QED BY <2>5, <2>6
<1>11. ASSUME NEW a \in Users, NEW u \in Users, SwitchUserActivation(a, u)
       PROVE  UNCHANGED Promise!vars
  BY <1>11, Unnoticed DEF SwitchUserActivation
<1>12. CASE UNCHANGED vars
  BY <1>12, Unnoticed DEF vars
<1> QED
  BY <1>1, <1>2, <1>3, <1>4, <1>5, <1>6, <1>7, <1>8, <1>9, <1>10, <1>11, <1>12
     DEF Next, ClientStep, OwnerStep, SystemStep

\* The tables keep the promise of BurnAfterRead: however many requests, edits,
\* rotations and sweeps interleave, a secret is revealed within its budget,
\* shows its current text, burns with its last view and never comes back.
THEOREM PromiseKept == Spec => KeepsPromise
<1>1. Init => Promise!Init
  BY DEF Init, Promise!Init, Live
<1>2. TypeOK /\ Counted /\ Sealed /\ Plain /\ [Next]_vars
        => [Promise!Next]_(Promise!vars)
  BY PromiseStep
<1>3. Spec => Promise!Spec
  BY <1>1, <1>2, TypeCorrect, CountedAlways, SealedAlways, PlainAlways, PTL
     DEF Spec, Promise!Spec
<1> QED BY <1>3 DEF KeepsPromise
=============================================================================
