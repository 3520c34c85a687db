-------------------------- MODULE NotificationsProofs --------------------------
(***************************************************************************)
(* Theorems about Notifications for every value of its constants.          *)
(***************************************************************************)
EXTENDS Notifications, FiniteSetTheorems, TLAPS

-----------------------------------------------------------------------------
(* The inductive invariant *)

\* Copies that can still make the n-th attempt.
IsDue(c, m, n) == IsOpen(c, m) /\ Debt(c) <= n
Due(m, n) == {k \in Slots : IsDue(copy[k], m, n)}

\* An attempt that was made and the copies that can still make it are one, and
\* one more for every copy that went back.
Counted ==
  \A m \in Messages : \A n \in Attempts :
    delivered[m][n] + Cardinality(Due(m, n)) <= 1 + forks[m]

\* Nothing is known of a message that was not accepted.
Fresh ==
  \A m \in Messages : published[m] # "accepted" =>
    /\ \A n \in Attempts : delivered[m][n] = 0
    /\ \A k \in Slots : copy[k] # Free => copy[k].msg # m

\* A copy on its n-th retry has failed n times, and once more when it is among
\* the dead letters.
Tried ==
  \A k \in Slots : copy[k] # Free => Debt(copy[k]) <= failures[copy[k].msg]

Reported ==
  /\ AlertMeansExhausted
  /\ \A l \in Loops : loop[l].pc = "alerting" => failures[loop[l].msg] > MaxRetries

NoteInv == TypeOK /\ Counted /\ Fresh /\ Tried /\ Reported /\ NotLost

-----------------------------------------------------------------------------
(* Copies and loops *)

LEMMA FreeIsNowhere == Free.at = "nowhere" /\ Free \in Copy
  BY DEF Free, Copy

LEMMA CopyFields ==
  ASSUME TypeOK, NEW k \in Slots, copy[k] # Free
  PROVE  /\ copy[k].at \in Places /\ copy[k].msg \in Messages
         /\ copy[k].attempt \in Attempts
         /\ copy[k] = [at |-> copy[k].at, msg |-> copy[k].msg,
                       attempt |-> copy[k].attempt]
  BY DEF TypeOK, Copy

LEMMA PlacedIsNotFree ==
  ASSUME NEW k \in Slots, NEW p \in Places, At(k, p)
  PROVE  copy[k] # Free
  BY FreeIsNowhere DEF At, Places

LEMMA MovedFields ==
  ASSUME TypeOK, NEW k \in Slots, copy[k] # Free, NEW p \in Places
  PROVE  /\ Moved(k, p) \in Copy
         /\ Moved(k, p) # Free
         /\ Moved(k, p).at = p
         /\ Moved(k, p).msg = copy[k].msg
         /\ Moved(k, p).attempt = copy[k].attempt
<1>1. PICK r \in [at : Places, msg : Messages, attempt : Attempts] : copy[k] = r
  BY DEF TypeOK, Copy
<1>2. [r EXCEPT !.at = p] = [at |-> p, msg |-> r.msg, attempt |-> r.attempt]
  OBVIOUS
<1>3. Moved(k, p) = [at |-> p, msg |-> r.msg, attempt |-> r.attempt]
  BY <1>1, <1>2 DEF Moved
<1>4. Moved(k, p).at = p /\ Moved(k, p).msg = r.msg /\ Moved(k, p).attempt = r.attempt
  BY <1>3
<1>5. p # "nowhere"
  BY DEF Places
<1>6. Moved(k, p) # Free
  BY <1>4, <1>5, FreeIsNowhere
<1>7. Moved(k, p) \in Copy
  BY <1>3 DEF Copy
<1> QED BY <1>1, <1>4, <1>6, <1>7

LEMMA LoopNames ==
  /\ Idle \in LoopState /\ Idle.pc = "idle"
  /\ Dead \in LoopState /\ Dead.pc = "dead"
  /\ \A k \in Slots : Working(k) \in LoopState /\ Working(k).pc = "working"
  /\ \A m \in Messages : [pc |-> "alerting", msg |-> m] \in LoopState
  BY DEF LoopState, Idle, Dead, Working

LEMMA AlertingFields ==
  ASSUME TypeOK, NEW l \in Loops, loop[l].pc = "alerting"
  PROVE  loop[l].msg \in Messages /\ loop[l] = [pc |-> "alerting", msg |-> loop[l].msg]
  BY DEF TypeOK, LoopState

LEMMA MoreFacts ==
  ASSUME NEW f \in [Messages -> Nat], NEW m \in Messages
  PROVE  /\ More(f, m) \in [Messages -> Nat]
         /\ More(f, m)[m] = f[m] + 1
         /\ \A n \in Messages : n # m => More(f, m)[n] = f[n]
         /\ \A n \in Messages : f[n] <= More(f, m)[n]
  BY DEF More

LEMMA SentFacts ==
  ASSUME TypeOK, NEW k \in Slots, copy[k] # Free
  PROVE  /\ SentOnceMore(k) \in [Messages -> [Attempts -> Nat]]
         /\ \A m \in Messages : m # copy[k].msg => SentOnceMore(k)[m] = delivered[m]
         /\ \A n \in Attempts :
              SentOnceMore(k)[copy[k].msg][n] =
                delivered[copy[k].msg][n] + (IF n = copy[k].attempt THEN 1 ELSE 0)
<1>1. PICK m \in Messages : m = copy[k].msg
  BY CopyFields
<1>2. PICK a \in Attempts : a = copy[k].attempt
  BY CopyFields
<1>3. delivered \in [Messages -> [Attempts -> Nat]]
  BY DEF TypeOK
<1>4. SentOnceMore(k) = [delivered EXCEPT ![m] = [delivered[m] EXCEPT ![a] = delivered[m][a] + 1]]
  BY <1>1, <1>2, <1>3 DEF SentOnceMore
<1>5. [delivered[m] EXCEPT ![a] = delivered[m][a] + 1] \in [Attempts -> Nat]
  BY <1>3
<1>6. SentOnceMore(k)[m] = [delivered[m] EXCEPT ![a] = delivered[m][a] + 1]
  BY <1>3, <1>4
<1>7. ASSUME NEW n \in Attempts
      PROVE  SentOnceMore(k)[m][n] = delivered[m][n] + (IF n = a THEN 1 ELSE 0)
  BY <1>3, <1>6
<1>8. SentOnceMore(k) \in [Messages -> [Attempts -> Nat]]
  BY <1>3, <1>4, <1>5
<1>9. \A x \in Messages : x # m => SentOnceMore(k)[x] = delivered[x]
  BY <1>3, <1>4
<1> QED BY <1>1, <1>2, <1>7, <1>8, <1>9

-----------------------------------------------------------------------------
(* Counting what is open, and what is due *)

Weight(c, m) == IF IsOpen(c, m) THEN 1 ELSE 0

LEMMA FreeWeighsNothing == \A m : Weight(Free, m) = 0
  BY DEF Weight, IsOpen

LEMMA OpenIsFinite ==
  ASSUME NEW m
  PROVE  IsFiniteSet(Open(m)) /\ Cardinality(Open(m)) \in Nat
<1>1. Open(m) \subseteq Slots
  BY DEF Open
<1> QED BY <1>1, NotificationConstants, FS_Subset, FS_CardinalityType

\* Cardinality of a set with one element put in or taken out.
LEMMA OneMore ==
  ASSUME NEW S, IsFiniteSet(S), NEW T, NEW k, T \ {k} = S \ {k}
  PROVE  /\ IsFiniteSet(T) /\ Cardinality(S) \in Nat /\ Cardinality(T) \in Nat
         /\ Cardinality(T) = Cardinality(S) - (IF k \in S THEN 1 ELSE 0)
                                            + (IF k \in T THEN 1 ELSE 0)
<1>1. /\ IsFiniteSet(S \ {k})
      /\ Cardinality(S \ {k}) = IF k \in S THEN Cardinality(S) - 1 ELSE Cardinality(S)
  BY FS_RemoveElement
<1>2. T = S \ {k} \/ T = (S \ {k}) \cup {k}
  OBVIOUS
<1>3. /\ IsFiniteSet((S \ {k}) \cup {k})
      /\ Cardinality((S \ {k}) \cup {k}) = Cardinality(S \ {k}) + 1
  BY <1>1, FS_AddElement
<1>4. IsFiniteSet(T)
  BY <1>1, <1>2, <1>3
<1>5. /\ Cardinality(S) \in Nat /\ Cardinality(T) \in Nat
      /\ Cardinality(S \ {k}) \in Nat
  BY <1>1, <1>4, FS_CardinalityType
<1>6. CASE k \in T
  <2>1. T = (S \ {k}) \cup {k}
    BY <1>6
  <2> QED BY <2>1, <1>1, <1>3, <1>4, <1>5, <1>6
<1>7. CASE k \notin T
  <2>1. T = S \ {k}
    BY <1>7
  <2> QED BY <2>1, <1>1, <1>4, <1>5, <1>7
<1> QED BY <1>6, <1>7

LEMMA PutCounts ==
  ASSUME TypeOK, NEW k \in Slots, NEW c \in Copy, Put(k, c), NEW m
  PROVE  /\ Cardinality(Open(m)) \in Nat /\ Cardinality(Open(m)') \in Nat
         /\ Cardinality(Open(m)') =
              Cardinality(Open(m)) - Weight(copy[k], m) + Weight(c, m)
<1>1. copy'[k] = c /\ \A j \in Slots : j # k => copy'[j] = copy[j]
  BY DEF TypeOK, Put
<1>2. Open(m)' \ {k} = Open(m) \ {k}
  BY <1>1 DEF Open
<1>3. k \in Open(m) <=> IsOpen(copy[k], m)
  BY DEF Open
<1>4. k \in Open(m)' <=> IsOpen(c, m)
  BY <1>1 DEF Open
<1> HIDE DEF Open
<1>5. /\ Cardinality(Open(m)) \in Nat /\ Cardinality(Open(m)') \in Nat
      /\ Cardinality(Open(m)') =
           Cardinality(Open(m)) - (IF k \in Open(m) THEN 1 ELSE 0)
                                + (IF k \in Open(m)' THEN 1 ELSE 0)
  BY <1>2, OpenIsFinite, OneMore
<1> QED BY <1>3, <1>4, <1>5 DEF Weight

Heft(c, m, n) == IF IsDue(c, m, n) THEN 1 ELSE 0

LEMMA FreeHasNoHeft == \A m, n : Heft(Free, m, n) = 0
  BY DEF Heft, IsDue, IsOpen

LEMMA DueIsFinite ==
  ASSUME NEW m, NEW n
  PROVE  IsFiniteSet(Due(m, n)) /\ Cardinality(Due(m, n)) \in Nat
<1>1. Due(m, n) \subseteq Slots
  BY DEF Due
<1> QED BY <1>1, NotificationConstants, FS_Subset, FS_CardinalityType

LEMMA PutDue ==
  ASSUME TypeOK, NEW k \in Slots, NEW c \in Copy, Put(k, c), NEW m, NEW n
  PROVE  /\ Cardinality(Due(m, n)) \in Nat /\ Cardinality(Due(m, n)') \in Nat
         /\ Cardinality(Due(m, n)') =
              Cardinality(Due(m, n)) - Heft(copy[k], m, n) + Heft(c, m, n)
<1>1. copy'[k] = c /\ \A j \in Slots : j # k => copy'[j] = copy[j]
  BY DEF TypeOK, Put
<1>2. Due(m, n)' \ {k} = Due(m, n) \ {k}
  BY <1>1 DEF Due
<1>3. k \in Due(m, n) <=> IsDue(copy[k], m, n)
  BY DEF Due
<1>4. k \in Due(m, n)' <=> IsDue(c, m, n)
  BY <1>1 DEF Due
<1> HIDE DEF Due
<1>5. /\ Cardinality(Due(m, n)) \in Nat /\ Cardinality(Due(m, n)') \in Nat
      /\ Cardinality(Due(m, n)') =
           Cardinality(Due(m, n)) - (IF k \in Due(m, n) THEN 1 ELSE 0)
                                + (IF k \in Due(m, n)' THEN 1 ELSE 0)
  BY <1>2, DueIsFinite, OneMore
<1> QED BY <1>3, <1>4, <1>5 DEF Heft

-----------------------------------------------------------------------------
(* Steps that move one copy *)

\* A step that weighs no more than before, and tells of no more failures than
\* there were, keeps the books.
LEMMA BooksKept ==
  ASSUME NoteInv, TypeOK', NEW k \in Slots, copy[k] # Free,
         NEW c \in Copy, Put(k, c), c # Free => c.msg = copy[k].msg,
         c # Free => Debt(c) <= failures'[copy[k].msg],
         published' = published,
         \A m \in Messages : failures[m] <= failures'[m],
         \A m \in Messages : m # copy[k].msg => delivered'[m] = delivered[m],
         \A m \in Messages : \A n \in Attempts :
           delivered'[m][n] - forks'[m] + Heft(c, m, n)
             <= delivered[m][n] - forks[m] + Heft(copy[k], m, n)
  PROVE  Counted' /\ Fresh' /\ Tried'
<1>1. TypeOK
  BY DEF NoteInv
<1>2. copy[k].msg \in Messages
  BY <1>1, CopyFields
<1>3. copy'[k] = c /\ \A j \in Slots : j # k => copy'[j] = copy[j]
  BY <1>1 DEF TypeOK, Put
<1>4. Counted'
  <2> SUFFICES ASSUME NEW m \in Messages, NEW n \in Attempts
               PROVE  delivered'[m][n] + Cardinality(Due(m, n)') <= 1 + forks'[m]
    BY DEF Counted
  <2>1. /\ Cardinality(Due(m, n)) \in Nat /\ Cardinality(Due(m, n)') \in Nat
        /\ Cardinality(Due(m, n)') =
             Cardinality(Due(m, n)) - Heft(copy[k], m, n) + Heft(c, m, n)
    BY <1>1, PutDue
  <2>2. delivered[m][n] + Cardinality(Due(m, n)) <= 1 + forks[m]
    BY DEF NoteInv, Counted
  <2>3. /\ delivered[m][n] \in Nat /\ forks[m] \in Nat
        /\ delivered'[m][n] \in Nat /\ forks'[m] \in Nat
    BY <1>1 DEF TypeOK
  <2>4. Heft(copy[k], m, n) \in Int /\ Heft(c, m, n) \in Int
    BY DEF Heft
  <2> HIDE DEF Heft
  <2>5. delivered'[m][n] - forks'[m] + Heft(c, m, n)
          <= delivered[m][n] - forks[m] + Heft(copy[k], m, n)
    OBVIOUS
  <2> QED BY <2>1, <2>2, <2>3, <2>4, <2>5
<1>5. Fresh'
  <2> SUFFICES ASSUME NEW m \in Messages, published[m] # "accepted"
               PROVE  /\ \A n \in Attempts : delivered'[m][n] = 0
                      /\ \A j \in Slots : copy'[j] # Free => copy'[j].msg # m
    BY DEF Fresh
  <2>1. /\ \A n \in Attempts : delivered[m][n] = 0
        /\ \A j \in Slots : copy[j] # Free => copy[j].msg # m
    BY DEF NoteInv, Fresh
  <2>2. m # copy[k].msg
    BY <2>1
  <2> QED BY <2>1, <2>2, <1>3
<1>6. Tried'
  <2> SUFFICES ASSUME NEW j \in Slots, copy'[j] # Free
               PROVE  Debt(copy'[j]) <= failures'[copy'[j].msg]
    BY DEF Tried
  <2>1. CASE j = k
    BY <2>1, <1>3
  <2>2. CASE j # k
    <3>1. copy'[j] = copy[j] /\ copy[j] # Free
      BY <2>2, <1>3
    <3>2. Debt(copy[j]) <= failures[copy[j].msg]
      BY <3>1 DEF NoteInv, Tried
    <3>3. copy[j].msg \in Messages /\ copy[j].attempt \in Attempts
      BY <3>1, <1>1, CopyFields
    <3>4. Debt(copy[j]) \in Int
      BY <3>3 DEF Debt, Attempts
    <3>5. /\ failures[copy[j].msg] \in Nat /\ failures'[copy[j].msg] \in Nat
          /\ failures[copy[j].msg] <= failures'[copy[j].msg]
      BY <3>3, <1>1 DEF TypeOK
    <3> QED BY <3>1, <3>2, <3>4, <3>5
  <2> QED BY <2>1, <2>2
<1> QED BY <1>4, <1>5, <1>6

\* Steps that alert of nothing new.
LEMMA ReportsKept ==
  ASSUME NoteInv, TypeOK',
         \A m \in Messages : failures[m] <= failures'[m],
         alerted' \cup silent' \subseteq alerted \cup silent,
         \A l \in Loops : loop'[l].pc = "alerting" => loop'[l] = loop[l]
  PROVE  Reported'
<1>1. TypeOK
  BY DEF NoteInv
<1>2. AlertMeansExhausted'
  <2> SUFFICES ASSUME NEW m \in alerted' \cup silent'
               PROVE  failures'[m] > MaxRetries
    BY DEF AlertMeansExhausted
  <2>1. m \in Messages /\ failures[m] > MaxRetries
    BY <1>1 DEF NoteInv, Reported, AlertMeansExhausted, TypeOK
  <2>2. failures[m] \in Nat /\ failures'[m] \in Nat
    BY <1>1, <2>1 DEF TypeOK
  <2> QED BY <2>1, <2>2, NotificationConstants
<1>3. ASSUME NEW l \in Loops, loop'[l].pc = "alerting"
      PROVE  failures'[loop'[l].msg] > MaxRetries
  <2>1. loop'[l] = loop[l] /\ loop[l].pc = "alerting"
    BY <1>3
  <2>2. loop[l].msg \in Messages
    BY <1>1, <2>1, AlertingFields
  <2>3. failures[loop[l].msg] > MaxRetries
    BY <2>1 DEF NoteInv, Reported
  <2>4. failures[loop[l].msg] \in Nat /\ failures'[loop[l].msg] \in Nat
    BY <1>1, <2>2 DEF TypeOK
  <2> QED BY <2>1, <2>2, <2>3, <2>4, NotificationConstants
<1> QED BY <1>2, <1>3 DEF Reported

\* Steps after which whatever was known of a message still is.
LEMMA StillKnown ==
  ASSUME NoteInv, published' = published,
         \A m \in Messages :
           /\ Settled(m) => Settled(m)'
           /\ Open(m) # {} => Settled(m)' \/ Open(m)' # {} \/ Alerting(m)'
           /\ Alerting(m) => Settled(m)' \/ Open(m)' # {} \/ Alerting(m)'
  PROVE  NotLost'
  BY DEF NoteInv, NotLost

\* The usual case: nothing but one copy moves, from one open place to another.
LEMMA OpenMoves ==
  ASSUME NoteInv, NEW k \in Slots, NEW c \in Copy, Put(k, c),
         UNCHANGED <<published, alerted, silent>>,
         \A m : Alerting(m) => Alerting(m)',
         \A m \in Messages : /\ WentOut(m) => WentOut(m)'
                             /\ IsOpen(copy[k], m) => WentOut(m)' \/ IsOpen(c, m)
  PROVE  NotLost'
<1>1. copy'[k] = c /\ \A j \in Slots : j # k => copy'[j] = copy[j]
  BY DEF NoteInv, TypeOK, Put
<1>2. ASSUME NEW m \in Messages
      PROVE  /\ Settled(m) => Settled(m)'
             /\ Open(m) # {} => Settled(m)' \/ Open(m)' # {} \/ Alerting(m)'
             /\ Alerting(m) => Settled(m)' \/ Open(m)' # {} \/ Alerting(m)'
  <2>1. Settled(m) => Settled(m)'
    BY DEF Settled
  <2>2. Alerting(m) => Alerting(m)'
    OBVIOUS
  <2>3. ASSUME NEW j \in Open(m)
        PROVE  Settled(m)' \/ Open(m)' # {}
    <3>1. CASE j = k /\ WentOut(m)'
      BY <3>1 DEF Settled
    <3>2. CASE j = k /\ IsOpen(c, m)
      BY <3>2, <1>1 DEF Open
    <3>3. CASE j # k
      BY <3>3, <1>1 DEF Open
    <3> QED BY <3>1, <3>2, <3>3 DEF Open
  <2> QED BY <2>1, <2>2, <2>3
<1> QED BY <1>2, StillKnown

-----------------------------------------------------------------------------
(* Publishing *)

LEMMA PublishKeeps ==
  ASSUME NoteInv, NEW m \in Messages, NEW k \in Slots, Publish(m, k)
  PROVE  NoteInv'
<1> DEFINE c == [at |-> "queue", msg |-> m, attempt |-> 0]
<1>1. /\ published[m] = "new" /\ copy[k] = Free
      /\ published' = [published EXCEPT ![m] = "accepted"]
      /\ Put(k, c)
      /\ UNCHANGED <<loop, delivered, failures, forks, alerted, silent>>
  BY DEF Publish, IsFree
<1>2. TypeOK
  BY DEF NoteInv
<1>3. c \in Copy /\ c # Free /\ c.msg = m /\ c.at = "queue" /\ Debt(c) = 0
  BY NotificationConstants, FreeIsNowhere DEF Copy, Places, Debt, Trying, Attempts
<1>4. copy'[k] = c /\ \A j \in Slots : j # k => copy'[j] = copy[j]
  BY <1>1, <1>2 DEF TypeOK, Put
<1>5. \A n \in Messages : \A a \in Attempts : Heft(c, n, a) = IF n = m THEN 1 ELSE 0
  BY <1>3 DEF Heft, IsDue, IsOpen, Attempts, Done
<1> HIDE DEF c
<1>6. TypeOK'
  BY <1>1, <1>2, <1>3 DEF TypeOK, Put
<1>7. /\ \A a \in Attempts : delivered[m][a] = 0
      /\ \A j \in Slots : copy[j] # Free => copy[j].msg # m
  BY <1>1 DEF NoteInv, Fresh
<1>8. Counted'
  <2> SUFFICES ASSUME NEW n \in Messages, NEW a \in Attempts
               PROVE  delivered[n][a] + Cardinality(Due(n, a)') <= 1 + forks[n]
    BY <1>1 DEF Counted
  <2>1. /\ Cardinality(Due(n, a)) \in Nat /\ Cardinality(Due(n, a)') \in Nat
        /\ Cardinality(Due(n, a)') =
             Cardinality(Due(n, a)) - Heft(copy[k], n, a) + Heft(c, n, a)
    BY <1>1, <1>2, <1>3, PutDue
  <2>2. Heft(copy[k], n, a) = 0
    BY <1>1, FreeHasNoHeft
  <2>3. delivered[n][a] \in Nat /\ forks[n] \in Nat
    BY <1>2 DEF TypeOK
  <2>4. CASE n = m
    <3>1. Due(m, a) = {}
      BY <1>7 DEF Due, IsDue, IsOpen
    <3>2. Cardinality(Due(n, a)) = 0
      BY <3>1, <2>4, FS_EmptySet
    <3>3. Heft(c, n, a) = 1
      BY <1>5, <2>4
    <3> QED BY <3>2, <3>3, <2>1, <2>2, <2>3, <2>4, <1>7
  <2>5. CASE n # m
    <3>1. Heft(c, n, a) = 0
      BY <1>5, <2>5
    <3>2. delivered[n][a] + Cardinality(Due(n, a)) <= 1 + forks[n]
      BY DEF NoteInv, Counted
    <3> QED BY <3>1, <3>2, <2>1, <2>2, <2>3
  <2> QED BY <2>4, <2>5
<1>9. Fresh'
  <2> SUFFICES ASSUME NEW n \in Messages, published'[n] # "accepted"
               PROVE  /\ \A a \in Attempts : delivered[n][a] = 0
                      /\ \A j \in Slots : copy'[j] # Free => copy'[j].msg # n
    BY <1>1 DEF Fresh
  <2>1. n # m /\ published[n] # "accepted"
    BY <1>1, <1>2 DEF TypeOK
  <2> QED BY <2>1, <1>3, <1>4 DEF NoteInv, Fresh
<1>10. Tried'
  <2> SUFFICES ASSUME NEW j \in Slots, copy'[j] # Free
               PROVE  Debt(copy'[j]) <= failures[copy'[j].msg]
    BY <1>1 DEF Tried
  <2>1. CASE j = k
    <3>1. failures[m] \in Nat
      BY <1>2 DEF TypeOK
    <3> QED BY <2>1, <3>1, <1>3, <1>4
  <2>2. CASE j # k
    BY <2>2, <1>4 DEF NoteInv, Tried
  <2> QED BY <2>1, <2>2
<1>11. Reported'
  <2>1. \A n \in Messages : failures[n] <= failures'[n]
    BY <1>1, <1>2 DEF TypeOK
  <2> QED BY <2>1, <1>1, <1>6, ReportsKept
<1>12. NotLost'
  <2> SUFFICES ASSUME NEW n \in Messages, published'[n] = "accepted"
               PROVE  Settled(n)' \/ Open(n)' # {} \/ Alerting(n)'
    BY DEF NotLost
  <2>1. CASE n = m
    <3>1. k \in Open(m)'
      BY <1>3, <1>4 DEF Open, IsOpen, Done
    <3> QED BY <3>1, <2>1
  <2>2. CASE n # m
    <3>1. published[n] = "accepted"
      BY <2>2, <1>1, <1>2 DEF TypeOK
    <3>2. Settled(n) \/ Open(n) # {} \/ Alerting(n)
      BY <3>1 DEF NoteInv, NotLost
    <3>3. Open(n) \subseteq Open(n)'
      BY <1>1, <1>4 DEF Open, IsOpen
    <3> QED BY <3>2, <3>3, <1>1 DEF Settled, WentOut, Alerting
  <2> QED BY <2>1, <2>2
<1> QED BY <1>6, <1>8, <1>9, <1>10, <1>11, <1>12 DEF NoteInv

\* Steps that leave copies and books alone.
LEMMA BooksUntouched ==
  ASSUME NoteInv, UNCHANGED <<copy, delivered, failures, forks>>,
         \A m \in Messages : published'[m] # "accepted" => published[m] # "accepted"
  PROVE  Counted' /\ Fresh' /\ Tried'
<1>1. \A m, n : Due(m, n)' = Due(m, n)
  BY DEF Due
<1>2. Counted'
  BY <1>1 DEF NoteInv, Counted
<1> QED BY <1>2 DEF NoteInv, Fresh, Tried

LEMMA DropPublishKeeps ==
  ASSUME NoteInv, NEW m \in Messages, DropPublish(m)
  PROVE  NoteInv'
<1>1. /\ published' = [published EXCEPT ![m] = "dropped"]
      /\ UNCHANGED <<copy, loop, delivered, failures, forks, alerted, silent>>
  BY DEF DropPublish
<1>2. TypeOK
  BY DEF NoteInv
<1>3. TypeOK'
  BY <1>1, <1>2 DEF TypeOK
<1>4. \A n \in Messages : published'[n] \in {"new", "accepted"} => published'[n] = published[n]
  BY <1>1, <1>2 DEF TypeOK
<1>5. Counted' /\ Fresh' /\ Tried'
  <2>1. \A n \in Messages : published'[n] # "accepted" => published[n] # "accepted"
    BY DEF DropPublish, NoteInv, TypeOK
  <2> QED BY <1>1, <2>1, BooksUntouched
<1>6. \A n \in Messages : failures[n] <= failures'[n]
  BY <1>1, <1>2 DEF TypeOK
<1>7. Reported'
  BY <1>1, <1>3, <1>6, ReportsKept
<1>8. NotLost'
  BY <1>1, <1>4 DEF NoteInv, NotLost, Settled, WentOut, Open, Alerting
<1> QED BY <1>3, <1>5, <1>7, <1>8 DEF NoteInv

-----------------------------------------------------------------------------
(* Handlers, and connections that end under them *)

\* The retry loops stand still, or turn to and from anything but a report.
Unreported ==
  /\ loop' \in [Loops -> LoopState]
  /\ \A l \in Loops : loop'[l].pc = "alerting" => loop'[l] = loop[l]
  /\ \A m : Alerting(m) => Alerting(m)'

LEMMA LoopsStill ==
  ASSUME TypeOK, loop' = loop
  PROVE  Unreported
  BY DEF TypeOK, Unreported, Alerting

\* A step that moves one copy of a message to c, and counts what it did for that
\* message only.
LEMMA CopyMoves ==
  ASSUME NoteInv, NEW k \in Slots, copy[k] # Free,
         NEW c \in Copy, Put(k, c), c # Free => c.msg = copy[k].msg,
         UNCHANGED <<published, alerted, silent>>, Unreported,
         delivered' \in [Messages -> [Attempts -> Nat]], forks' \in [Messages -> Nat],
         failures' \in [Messages -> Nat],
         \A m \in Messages : failures[m] <= failures'[m],
         \A m \in Messages : m # copy[k].msg =>
           delivered'[m] = delivered[m] /\ forks'[m] = forks[m],
         c # Free => Debt(c) <= failures'[copy[k].msg],
         NEW m0 \in Messages, m0 = copy[k].msg,
         \A n \in Attempts :
           /\ delivered'[m0][n] - forks'[m0] + Heft(c, m0, n)
                <= delivered[m0][n] - forks[m0] + Heft(copy[k], m0, n)
           /\ delivered[m0][n] <= delivered'[m0][n],
         IsOpen(copy[k], m0) => WentOut(m0)' \/ IsOpen(c, m0)
  PROVE  NoteInv'
<1>1. TypeOK
  BY DEF NoteInv
<1>2. TypeOK'
  BY <1>1 DEF TypeOK, Put, Unreported
<1>4. \A m \in Messages : m # m0 => ~IsOpen(copy[k], m) /\ ~IsOpen(c, m)
  BY DEF IsOpen
<1>5. \A m \in Messages : \A n \in Attempts : m # m0 =>
        Heft(copy[k], m, n) = 0 /\ Heft(c, m, n) = 0
  BY <1>4 DEF Heft, IsDue
<1>6. \A m \in Messages : \A n \in Attempts :
        /\ delivered[m][n] \in Nat /\ forks[m] \in Nat
        /\ delivered'[m][n] \in Nat /\ forks'[m] \in Nat
  BY <1>1 DEF TypeOK
<1>7. ASSUME NEW m \in Messages, NEW n \in Attempts
      PROVE  delivered'[m][n] - forks'[m] + Heft(c, m, n)
               <= delivered[m][n] - forks[m] + Heft(copy[k], m, n)
  <2>1. CASE m = m0
    BY <2>1
  <2>2. CASE m # m0
    BY <2>2, <1>5, <1>6
  <2> QED BY <2>1, <2>2
<1>8. Counted' /\ Fresh' /\ Tried'
  BY <1>2, <1>7, BooksKept
<1>9. Reported'
  BY <1>2, ReportsKept DEF Unreported
<1>10. ASSUME NEW m \in Messages
       PROVE  /\ WentOut(m) => WentOut(m)'
              /\ IsOpen(copy[k], m) => WentOut(m)' \/ IsOpen(c, m)
  <2>1. CASE m = m0
    <3>1. ASSUME NEW n \in Attempts, delivered[m][n] > 0 PROVE delivered'[m][n] > 0
      BY <2>1, <3>1, <1>6
    <3> QED BY <2>1, <3>1 DEF WentOut
  <2>2. CASE m # m0
    BY <2>2, <1>4 DEF WentOut
  <2> QED BY <2>1, <2>2
<1>11. NotLost'
  BY <1>10, OpenMoves DEF Unreported
<1> QED BY <1>2, <1>8, <1>9, <1>11 DEF NoteInv

\* A copy that moves from p to q.  A copy that passes to its next attempt has
\* failed; one that is done was sent; and one that can do again what it has done
\* is counted among the forks.
LEMMA PlaceMoves ==
  ASSUME NoteInv, NEW k \in Slots, NEW p \in Places, NEW q \in Places,
         At(k, p), Put(k, Moved(k, q)),
         UNCHANGED <<published, alerted, silent>>, Unreported,
         delivered' = delivered \/ delivered' = SentOnceMore(k),
         forks' = forks \/ forks' = More(forks, copy[k].msg),
         failures' = failures \/ failures' = More(failures, copy[k].msg),
         p \in Trying /\ q \notin Trying => failures' = More(failures, copy[k].msg),
         p \notin Done /\ q \in Done => delivered' = SentOnceMore(k),
         \/ /\ forks' = More(forks, copy[k].msg)
            /\ delivered' = delivered \/ p \in Trying \ Done
         \/ delivered' = delivered /\ (p \in Done => q \in Done)
                                  /\ (q \in Trying => p \in Trying)
         \/ p \in Trying \ Done /\ (q \in Done \/ q \notin Trying)
  PROVE  NoteInv'
<1>1. TypeOK /\ copy[k] # Free /\ copy[k].at = p
  BY PlacedIsNotFree DEF NoteInv, At
<1>2. /\ Moved(k, q) \in Copy /\ Moved(k, q) # Free
      /\ Moved(k, q).at = q /\ Moved(k, q).msg = copy[k].msg
      /\ Moved(k, q).attempt = copy[k].attempt
  BY <1>1, MovedFields
<1>3. PICK m \in Messages : m = copy[k].msg
  BY <1>1, CopyFields
<1>4. PICK a \in Attempts : a = copy[k].attempt
  BY <1>1, CopyFields
<1>5. a \in Nat
  BY <1>4 DEF Attempts
<1>6. /\ delivered \in [Messages -> [Attempts -> Nat]]
      /\ failures \in [Messages -> Nat] /\ forks \in [Messages -> Nat]
  BY <1>1 DEF TypeOK
<1>7. /\ delivered' \in [Messages -> [Attempts -> Nat]]
      /\ \A x \in Messages : x # m => delivered'[x] = delivered[x]
      /\ \A n \in Attempts : \/ delivered'[m][n] = delivered[m][n]
                             \/ n = a /\ delivered'[m][n] = delivered[m][n] + 1
  BY <1>1, <1>3, <1>4, <1>6, SentFacts
<1>8. delivered' = SentOnceMore(k) => delivered'[m][a] = delivered[m][a] + 1
  BY <1>1, <1>3, <1>4, SentFacts
<1>9. /\ forks' \in [Messages -> Nat]
      /\ \A x \in Messages : x # m => forks'[x] = forks[x]
      /\ forks'[m] = forks[m] \/ forks'[m] = forks[m] + 1
      /\ forks' = More(forks, m) => forks'[m] = forks[m] + 1
  BY <1>3, <1>6, MoreFacts
<1>10. /\ failures' \in [Messages -> Nat]
       /\ \A x \in Messages : failures[x] <= failures'[x]
       /\ failures' = More(failures, m) => failures'[m] = failures[m] + 1
  BY <1>3, <1>6, MoreFacts
<1>11. /\ Debt(copy[k]) = IF p \in Trying THEN a ELSE a + 1
       /\ Debt(Moved(k, q)) = IF q \in Trying THEN a ELSE a + 1
  BY <1>1, <1>2, <1>4 DEF Debt
<1>12. Debt(Moved(k, q)) <= failures'[m]
  <2>1. Debt(copy[k]) <= failures[m] /\ failures[m] \in Nat /\ failures'[m] \in Nat
    BY <1>1, <1>3, <1>6, <1>10 DEF NoteInv, Tried
  <2> QED BY <2>1, <1>3, <1>5, <1>10, <1>11
<1>13. /\ IsOpen(copy[k], m) <=> p \notin Done
       /\ IsOpen(Moved(k, q), m) <=> q \notin Done
  BY <1>1, <1>2, <1>3 DEF IsOpen
<1>14. ASSUME NEW n \in Attempts
       PROVE  /\ delivered'[m][n] - forks'[m] + Heft(Moved(k, q), m, n)
                   <= delivered[m][n] - forks[m] + Heft(copy[k], m, n)
              /\ delivered[m][n] <= delivered'[m][n]
  <2>1. /\ delivered[m][n] \in Nat /\ delivered'[m][n] \in Nat
        /\ forks[m] \in Nat /\ forks'[m] \in Nat
    BY <1>6, <1>7, <1>9
  <2>9. n \in Nat
    BY DEF Attempts
  <2>2. Heft(copy[k], m, n) =
          IF p \notin Done /\ (IF p \in Trying THEN a ELSE a + 1) <= n THEN 1 ELSE 0
    BY <1>11, <1>13 DEF Heft, IsDue
  <2>3. Heft(Moved(k, q), m, n) =
          IF q \notin Done /\ (IF q \in Trying THEN a ELSE a + 1) <= n THEN 1 ELSE 0
    BY <1>11, <1>13 DEF Heft, IsDue
  <2>4. /\ Heft(copy[k], m, n) \in {0, 1} /\ Heft(Moved(k, q), m, n) \in {0, 1}
    BY <2>2, <2>3
  <2>5. /\ delivered[m][n] <= delivered'[m][n]
        /\ \/ delivered'[m][n] = delivered[m][n]
           \/ n = a /\ delivered'[m][n] = delivered[m][n] + 1
    BY <1>7, <2>1
  <2>6. CASE /\ forks' = More(forks, copy[k].msg)
             /\ delivered' = delivered \/ p \in Trying \ Done
    <3>1. forks'[m] = forks[m] + 1
      BY <1>3, <1>9, <2>6
    <3>2. CASE delivered'[m][n] = delivered[m][n]
      BY <2>1, <2>4, <2>5, <3>1, <3>2
    <3>3. CASE n = a /\ delivered'[m][n] = delivered[m][n] + 1
      <4>1. delivered' # delivered
        BY <3>3, <2>1
      <4>2. Heft(copy[k], m, n) = 1
        BY <4>1, <3>3, <2>2, <2>6, <1>5
      <4> QED BY <4>2, <2>1, <2>4, <3>1, <3>3
    <3> QED BY <2>5, <3>2, <3>3
  <2>7. CASE delivered' = delivered /\ (p \in Done => q \in Done)
                                   /\ (q \in Trying => p \in Trying)
    <3>1. Heft(Moved(k, q), m, n) <= Heft(copy[k], m, n)
      BY <2>2, <2>3, <2>7, <2>9, <1>5
    <3> QED BY <3>1, <2>1, <2>4, <2>5, <2>7, <1>9
  <2>8. CASE p \in Trying \ Done /\ (q \in Done \/ q \notin Trying)
    <3>1. /\ Heft(Moved(k, q), m, n) <= Heft(copy[k], m, n)
          /\ n = a => Heft(copy[k], m, n) = 1 /\ Heft(Moved(k, q), m, n) = 0
      BY <2>2, <2>3, <2>8, <2>9, <1>5
    <3> QED BY <3>1, <2>1, <2>4, <2>5, <1>9
  <2> QED BY <2>5, <2>6, <2>7, <2>8
<1>15. IsOpen(copy[k], m) => WentOut(m)' \/ IsOpen(Moved(k, q), m)
  <2>1. ASSUME delivered' = SentOnceMore(k) PROVE WentOut(m)'
    <3>1. delivered'[m][a] > 0
      BY <2>1, <1>6, <1>8
    <3> QED BY <3>1 DEF WentOut
  <2> QED BY <2>1, <1>13
<1> HIDE DEF Heft, Moved
<1> QED BY <1>1, <1>2, <1>3, <1>7, <1>9, <1>10, <1>12, <1>14, <1>15, CopyMoves

\* A copy that was done with is acknowledged.
LEMMA CopyGoes ==
  ASSUME NoteInv, NEW k \in Slots, NEW p \in Done, At(k, p), Put(k, Free),
         UNCHANGED <<published, alerted, silent, delivered, forks, failures>>,
         Unreported
  PROVE  NoteInv'
<1>1. TypeOK /\ copy[k] # Free /\ copy[k].at = p
  BY PlacedIsNotFree DEF NoteInv, At, Places, Done
<1>2. PICK m \in Messages : m = copy[k].msg
  BY <1>1, CopyFields
<1>3. ~IsOpen(copy[k], m) /\ \A n \in Attempts : Heft(copy[k], m, n) = 0
  BY <1>1 DEF IsOpen, IsDue, Heft
<1>4. \A n \in Attempts : Heft(Free, m, n) = 0
  BY FreeHasNoHeft
<1>5. /\ delivered \in [Messages -> [Attempts -> Nat]]
      /\ failures \in [Messages -> Nat] /\ forks \in [Messages -> Nat]
  BY <1>1 DEF TypeOK
<1>6. /\ \A x \in Messages : failures[x] <= failures'[x]
      /\ \A n \in Attempts :
           /\ delivered'[m][n] - forks'[m] + Heft(Free, m, n)
                <= delivered[m][n] - forks[m] + Heft(copy[k], m, n)
           /\ delivered[m][n] <= delivered'[m][n]
  BY <1>3, <1>4, <1>5
<1>7. Free \in Copy
  BY FreeIsNowhere
<1> QED BY <1>1, <1>2, <1>3, <1>5, <1>6, <1>7, CopyMoves

LEMMA HandlerKeeps ==
  ASSUME NoteInv, NEW k \in Slots,
         HandlerStep(k) \/ LoseHandler(k) \/ LoseSending(k) \/ LoseSent(k)
  PROVE  NoteInv'
<1>1. Unreported
  BY LoopsStill DEF NoteInv, HandlerStep, Take, Hang, ServerSpeaks, Send, Reject,
     RejectSent, Ack, LoseHandler, LoseSending, LoseSent
<1>2. CASE Take(k)
  BY <1>1, <1>2, PlaceMoves DEF Take, Places, Trying, Done
<1>3. CASE Hang(k)
  BY <1>1, <1>3, PlaceMoves DEF Hang, Places, Trying, Done
<1>4. CASE ServerSpeaks(k)
  BY <1>1, <1>4, PlaceMoves DEF ServerSpeaks, Places, Trying, Done
<1>5. CASE Send(k)
  BY <1>1, <1>5, PlaceMoves DEF Send, Places, Trying, Done
<1>6. CASE Reject(k)
  BY <1>1, <1>6, PlaceMoves DEF Reject, DeadLettered, Places, Trying, Done
<1>7. CASE RejectSent(k)
  BY <1>1, <1>7, PlaceMoves DEF RejectSent, DeadLettered, Places, Trying, Done
<1>8. CASE Ack(k)
  BY <1>1, <1>8, CopyGoes DEF Ack, Done
<1>9. CASE LoseHandler(k)
  BY <1>1, <1>9, PlaceMoves DEF LoseHandler, InHandler, Places, Trying, Done
<1>10. CASE LoseSending(k)
  BY <1>1, <1>10, PlaceMoves DEF LoseSending, InHandler, Fork, Places, Trying, Done
<1>11. CASE LoseSent(k)
  BY <1>1, <1>11, PlaceMoves DEF LoseSent, Fork, Places, Trying, Done
<1> QED BY <1>2, <1>3, <1>4, <1>5, <1>6, <1>7, <1>8, <1>9, <1>10, <1>11 DEF HandlerStep

-----------------------------------------------------------------------------
(* retry_loop *)

\* A loop that neither was nor is about to report.
LEMMA LoopMoved ==
  ASSUME TypeOK, NEW l \in Loops, NEW state \in LoopState, Goto(l, state),
         loop[l].pc # "alerting", state.pc # "alerting"
  PROVE  Unreported
<1>1. /\ loop' \in [Loops -> LoopState] /\ loop'[l] = state
      /\ \A x \in Loops : x # l => loop'[x] = loop[x]
  BY DEF TypeOK, Goto
<1>2. ASSUME NEW m, Alerting(m)
      PROVE  Alerting(m)'
  <2>1. PICK x \in Loops : loop[x] = [pc |-> "alerting", msg |-> m]
    BY <1>2 DEF Alerting
  <2>2. loop[x].pc = "alerting"
    BY <2>1
  <2>3. loop'[x] = loop[x]
    BY <1>1, <2>2
  <2> QED BY <2>1, <2>3 DEF Alerting
<1> QED BY <1>1, <1>2 DEF Unreported

LEMMA LoopMoves ==
  ASSUME NoteInv, NEW l \in Loops, NEW k \in Slots,
         Get(l, k) \/ AckRetried(l, k) \/ LoopBreaksAt(l, k) \/ LoopBreaksAfter(l, k)
  PROVE  NoteInv'
<1>1. Unreported
  <2>1. loop[l].pc # "alerting"
    BY LoopNames DEF Get, AckRetried, LoopBreaksAt, LoopBreaksAfter
  <2>2. Goto(l, Idle) \/ Goto(l, Dead) \/ Goto(l, Working(k))
    BY DEF Get, AckRetried, LoopBreaksAt, LoopBreaksAfter
  <2> QED BY <2>1, <2>2, LoopNames, LoopMoved DEF NoteInv
<1>2. CASE Get(l, k)
  BY <1>1, <1>2, PlaceMoves DEF Get, Places, Trying, Done
<1>3. CASE AckRetried(l, k)
  BY <1>1, <1>3, CopyGoes DEF AckRetried, Acked, Done
<1>4. CASE LoopBreaksAt(l, k)
  BY <1>1, <1>4, PlaceMoves DEF LoopBreaksAt, Places, Trying, Done
<1>5. CASE LoopBreaksAfter(l, k)
  BY <1>1, <1>5, PlaceMoves DEF LoopBreaksAfter, Fork, Places, Trying, Done
<1> QED BY <1>2, <1>3, <1>4, <1>5

\* The one step that touches two copies: the new one takes the place of the one
\* it is made from.
LEMMA RepublishedCopy ==
  ASSUME TypeOK, NEW l \in Loops, NEW k \in Slots, NEW new \in Slots,
         Republish(l, k, new), NEW m
  PROVE  /\ k # new /\ \A j \in Slots \ {k, new} : copy'[j] = copy[j]
         /\ Weight(copy'[new], m) = Weight(copy[k], m)
         /\ \A n : Heft(copy'[new], m, n) = Heft(copy[k], m, n)
         /\ Weight(copy'[k], m) = 0 /\ Weight(copy[new], m) = 0
<1> DEFINE old == Moved(k, "republished")
           c == [at |-> "queue", msg |-> copy[k].msg, attempt |-> NextAttempt(k)]
<1>1. /\ At(k, "retrying") /\ copy[new] = Free
      /\ copy' = [copy EXCEPT ![k] = old, ![new] = c]
  BY DEF Republish, IsFree
<1>2. copy[k] # Free /\ copy[k].at = "retrying"
  BY <1>1, PlacedIsNotFree DEF Places, At
<1>3. old.at = "republished"
  BY <1>2, MovedFields DEF Places
<1>4. c.at = "queue" /\ c.msg = copy[k].msg /\ c.attempt = copy[k].attempt + 1 /\ c # Free
  BY FreeIsNowhere DEF NextAttempt
<1>5. Debt(c) = Debt(copy[k])
  BY <1>2, <1>4 DEF Debt, Trying
<1>6. (IsOpen(c, m) <=> IsOpen(copy[k], m)) /\ ~IsOpen(old, m) /\ ~IsOpen(copy[new], m)
  BY <1>1, <1>2, <1>3, <1>4 DEF IsOpen, Done
<1> HIDE DEF old, c
<1>7. k # new
  BY <1>1, <1>2
<1>8. /\ copy'[k] = old /\ copy'[new] = c
      /\ \A j \in Slots \ {k, new} : copy'[j] = copy[j]
  BY <1>1, <1>7 DEF TypeOK
<1> QED BY <1>1, <1>5, <1>6, <1>7, <1>8 DEF IsDue, Weight, Heft

\* A set that changes one member for another, or does not change.
LEMMA Exchanged ==
  ASSUME NEW S, IsFiniteSet(S), NEW T, NEW k, NEW new, k # new,
         S \ {k, new} = T \ {k, new}, new \notin S, k \notin T, k \in S <=> new \in T
  PROVE  Cardinality(T) = Cardinality(S)
<1>1. CASE k \in S
  <2>1. T = (S \ {k}) \cup {new} /\ new \notin S \ {k}
    BY <1>1
  <2>2. Cardinality(S \ {k}) = Cardinality(S) - 1 /\ IsFiniteSet(S \ {k})
    BY <1>1, FS_RemoveElement
  <2>3. Cardinality((S \ {k}) \cup {new}) = Cardinality(S \ {k}) + 1
    BY <2>1, <2>2, FS_AddElement
  <2>4. Cardinality(S) \in Nat
    BY FS_CardinalityType
  <2> QED BY <2>1, <2>2, <2>3, <2>4
<1>2. CASE k \notin S
  <2>1. T = S
    BY <1>2
  <2> QED BY <2>1
<1> QED BY <1>1, <1>2

LEMMA RepublishCounts ==
  ASSUME TypeOK, NEW l \in Loops, NEW k \in Slots, NEW new \in Slots,
         Republish(l, k, new), NEW m
  PROVE  /\ Cardinality(Open(m)') = Cardinality(Open(m))
         /\ \A n : Cardinality(Due(m, n)') = Cardinality(Due(m, n))
         /\ Open(m) # {} => Open(m)' # {}
<1>0. /\ k # new /\ \A j \in Slots \ {k, new} : copy'[j] = copy[j]
      /\ Weight(copy'[new], m) = Weight(copy[k], m)
      /\ \A n : Heft(copy'[new], m, n) = Heft(copy[k], m, n)
      /\ Weight(copy'[k], m) = 0 /\ Weight(copy[new], m) = 0
  BY RepublishedCopy
<1>1. /\ IsOpen(copy'[new], m) <=> IsOpen(copy[k], m)
      /\ \A n : IsDue(copy'[new], m, n) <=> IsDue(copy[k], m, n)
      /\ ~IsOpen(copy'[k], m) /\ ~IsOpen(copy[new], m)
  BY <1>0 DEF Weight, Heft
<1>2. Cardinality(Open(m)') = Cardinality(Open(m))
  <2>1. /\ Open(m) \ {k, new} = Open(m)' \ {k, new}
        /\ new \notin Open(m) /\ k \notin Open(m)'
        /\ k \in Open(m) <=> new \in Open(m)'
    BY <1>0, <1>1 DEF Open
  <2> HIDE DEF Open
  <2> QED BY <1>0, <2>1, OpenIsFinite, Exchanged
<1>3. ASSUME NEW n PROVE Cardinality(Due(m, n)') = Cardinality(Due(m, n))
  <2>1. /\ Due(m, n) \ {k, new} = Due(m, n)' \ {k, new}
        /\ new \notin Due(m, n) /\ k \notin Due(m, n)'
        /\ k \in Due(m, n) <=> new \in Due(m, n)'
    <3>1. ~IsDue(copy'[k], m, n) /\ ~IsDue(copy[new], m, n)
      BY <1>1 DEF IsDue
    <3> QED BY <1>0, <1>1, <3>1 DEF Due
  <2> HIDE DEF Due
  <2> QED BY <1>0, <2>1, DueIsFinite, Exchanged
<1>4. Open(m) # {} => Open(m)' # {}
  BY <1>0, <1>1 DEF Open
<1> QED BY <1>2, <1>3, <1>4

LEMMA RepublishKeeps ==
  ASSUME NoteInv, NEW l \in Loops, NEW k \in Slots, NEW new \in Slots,
         Republish(l, k, new)
  PROVE  NoteInv'
<1> DEFINE m == copy[k].msg
           old == Moved(k, "republished")
           c == [at |-> "queue", msg |-> copy[k].msg, attempt |-> NextAttempt(k)]
<1>1. /\ At(k, "retrying") /\ ~Exhausted(k) /\ copy[new] = Free
      /\ copy' = [copy EXCEPT ![k] = old, ![new] = c]
      /\ UNCHANGED <<published, loop, delivered, failures, forks, alerted, silent>>
  BY DEF Republish, IsFree
<1>2. TypeOK
  BY DEF NoteInv
<1>3. copy[k] # Free /\ copy[k].at = "retrying"
  BY <1>1, PlacedIsNotFree DEF Places, At
<1>4. m \in Messages /\ copy[k].attempt \in Attempts
  BY <1>2, <1>3, CopyFields
<1>5. /\ old \in Copy /\ old.msg = m
      /\ old.at = "republished" /\ old # Free
      /\ old.attempt = copy[k].attempt
  BY <1>2, <1>3, MovedFields DEF Places
<1>6. NextAttempt(k) = copy[k].attempt + 1 /\ NextAttempt(k) \in Attempts
  BY <1>1, <1>4, NotificationConstants DEF Attempts, Exhausted, NextAttempt
<1>7. /\ c \in Copy /\ c # Free /\ c.msg = m
      /\ c.at = "queue" /\ c.attempt = copy[k].attempt + 1
  BY <1>4, <1>6, FreeIsNowhere DEF Copy, Places
<1>8. Debt(copy[k]) <= failures[m] /\ failures[m] \in Nat
  BY <1>2, <1>3, <1>4 DEF NoteInv, Tried, TypeOK
<1>9. Debt(c) <= failures[m] /\ Debt(old) <= failures[m]
  BY <1>3, <1>4, <1>5, <1>7, <1>8 DEF Debt, Trying, Attempts
<1> HIDE DEF m, old, c
<1>11. k # new
  BY <1>1, <1>3
<1>12. /\ copy' \in [Slots -> Copy] /\ copy'[k] = old /\ copy'[new] = c
       /\ \A j \in Slots \ {k, new} : copy'[j] = copy[j]
  BY <1>1, <1>2, <1>5, <1>7, <1>11 DEF TypeOK
<1>13. TypeOK'
  BY <1>1, <1>2, <1>12 DEF TypeOK
<1>16. Counted'
  <2> SUFFICES ASSUME NEW x \in Messages, NEW n \in Attempts
               PROVE  delivered[x][n] + Cardinality(Due(x, n)') <= 1 + forks[x]
    BY <1>1 DEF Counted
  <2>1. Cardinality(Due(x, n)') = Cardinality(Due(x, n))
    BY <1>2, RepublishCounts
  <2> QED BY <2>1 DEF NoteInv, Counted
<1>17. Fresh'
  <2> SUFFICES ASSUME NEW n \in Messages, published[n] # "accepted"
               PROVE  /\ \A a \in Attempts : delivered[n][a] = 0
                      /\ \A j \in Slots : copy'[j] # Free => copy'[j].msg # n
    BY <1>1 DEF Fresh
  <2>1. /\ \A a \in Attempts : delivered[n][a] = 0
        /\ \A j \in Slots : copy[j] # Free => copy[j].msg # n
    BY DEF NoteInv, Fresh
  <2>2. m # n
    BY <2>1, <1>3 DEF m
  <2> QED BY <2>1, <2>2, <1>5, <1>7, <1>12
<1>18. Tried'
  <2> SUFFICES ASSUME NEW j \in Slots, copy'[j] # Free
               PROVE  Debt(copy'[j]) <= failures[copy'[j].msg]
    BY <1>1 DEF Tried
  <2>1. CASE j \in {k, new}
    BY <2>1, <1>5, <1>7, <1>9, <1>12
  <2>2. CASE j \notin {k, new}
    BY <2>2, <1>12 DEF NoteInv, Tried
  <2> QED BY <2>1, <2>2
<1>19. Reported'
  BY <1>1 DEF NoteInv, Reported, AlertMeansExhausted
<1>20. NotLost'
  <2>1. ASSUME NEW n \in Messages, Open(n) # {}
        PROVE  Open(n)' # {}
    BY <2>1, <1>2, RepublishCounts
  <2>2. ASSUME NEW n \in Messages
        PROVE  (Settled(n) => Settled(n)') /\ (Alerting(n) => Alerting(n)')
    BY <1>1 DEF Settled, WentOut, Alerting
  <2> QED BY <2>1, <2>2, <1>1, StillKnown
<1> QED BY <1>13, <1>16, <1>17, <1>18, <1>19, <1>20 DEF NoteInv

LEMMA GiveUpKeeps ==
  ASSUME NoteInv, NEW l \in Loops, NEW k \in Slots, GiveUp(l, k)
  PROVE  NoteInv'
<1>a. copy[k].msg \in Messages /\ copy[k].attempt \in Attempts
  BY PlacedIsNotFree, CopyFields DEF GiveUp, NoteInv, Places
<1>b. PICK m \in Messages : m = copy[k].msg
  BY <1>a
<1>1. /\ loop[l] = Working(k) /\ At(k, "retrying") /\ Exhausted(k)
      /\ Put(k, Free)
      /\ Goto(l, [pc |-> "alerting", msg |-> m])
      /\ UNCHANGED <<published, delivered, failures, forks, alerted, silent>>
  BY <1>b DEF GiveUp
<1>2. TypeOK
  BY DEF NoteInv
<1>3. copy[k] # Free /\ copy[k].at = "retrying"
  BY <1>1, PlacedIsNotFree DEF Places, At
<1>4. m \in Messages /\ copy[k].attempt \in Attempts
  BY <1>a
<1>5. failures[m] > MaxRetries
  <2>1. Debt(copy[k]) <= failures[m] /\ failures[m] \in Nat
    BY <1>2, <1>3, <1>4, <1>b DEF NoteInv, Tried, TypeOK
  <2>2. copy[k].attempt + 1 > MaxRetries
    BY <1>1 DEF Exhausted, NextAttempt
  <2> QED BY <2>1, <2>2, <1>3, <1>4, NotificationConstants DEF Debt, Trying, Attempts
<1>6. /\ loop' \in [Loops -> LoopState] /\ loop'[l] = [pc |-> "alerting", msg |-> m]
      /\ \A x \in Loops : x # l => loop'[x] = loop[x]
  BY <1>1, <1>2, <1>4, LoopNames DEF TypeOK, Goto
<1>7. copy'[k] = Free /\ \A j \in Slots : j # k => copy'[j] = copy[j]
  BY <1>1, <1>2 DEF TypeOK, Put
<1>8. TypeOK'
  BY <1>1, <1>2, <1>6, FreeIsNowhere DEF TypeOK, Put
<1>9. Counted' /\ Fresh' /\ Tried'
  <2>1. ASSUME NEW n \in Messages, NEW a \in Attempts
        PROVE  delivered'[n][a] - forks'[n] + Heft(Free, n, a)
                 <= delivered[n][a] - forks[n] + Heft(copy[k], n, a)
    <3>1. delivered[n][a] \in Nat /\ forks[n] \in Nat
      BY <1>2 DEF TypeOK
    <3>2. Heft(Free, n, a) = 0 /\ Heft(copy[k], n, a) \in 0..1
      BY FreeHasNoHeft DEF Heft
    <3> QED BY <3>1, <3>2, <1>1
  <2>2. \A n \in Messages : failures[n] <= failures'[n]
    BY <1>1, <1>2 DEF TypeOK
  <2> QED BY <2>1, <2>2, <1>1, <1>3, <1>8, FreeIsNowhere, BooksKept
<1>10. Reported'
  <2>1. AlertMeansExhausted'
    BY <1>1 DEF NoteInv, Reported, AlertMeansExhausted
  <2>2. ASSUME NEW x \in Loops, loop'[x].pc = "alerting"
        PROVE  failures'[loop'[x].msg] > MaxRetries
    <3>1. CASE x = l
      BY <3>1, <1>1, <1>5, <1>6
    <3>2. CASE x # l
      BY <3>2, <2>2, <1>1, <1>6 DEF NoteInv, Reported
    <3> QED BY <3>1, <3>2
  <2> QED BY <2>1, <2>2 DEF Reported
<1>11. NotLost'
  <2>1. Alerting(m)'
    BY <1>6 DEF Alerting
  <2>2. ASSUME NEW n \in Messages, Alerting(n)
        PROVE  Alerting(n)'
    <3>1. PICK x \in Loops : loop[x] = [pc |-> "alerting", msg |-> n]
      BY <2>2 DEF Alerting
    <3>2. x # l
      BY <3>1, <1>1, LoopNames
    <3> QED BY <3>1, <3>2, <1>6 DEF Alerting
  <2>3. ASSUME NEW n \in Messages, n # m, Open(n) # {}
        PROVE  Open(n)' # {}
    BY <2>3, <1>7, <1>b DEF Open, IsOpen
  <2>4. ASSUME NEW n \in Messages, Settled(n)
        PROVE  Settled(n)'
    BY <2>4, <1>1 DEF Settled, WentOut
  <2> QED BY <2>1, <2>2, <2>3, <2>4, <1>1, StillKnown
<1> QED BY <1>8, <1>9, <1>10, <1>11 DEF NoteInv

\* The message of a loop that reports, or fails to, is settled.
LEMMA AlertEnds ==
  ASSUME NoteInv, NEW l \in Loops, loop[l].pc = "alerting",
         NEW state \in LoopState, Goto(l, state), state.pc # "alerting",
         UNCHANGED <<published, copy, delivered, failures, forks>>,
         alerted' \in SUBSET Messages, silent' \in SUBSET Messages,
         alerted' \cup silent' = (alerted \cup silent) \cup {loop[l].msg}
  PROVE  NoteInv'
<1>1. TypeOK
  BY DEF NoteInv
<1>2. /\ loop' \in [Loops -> LoopState] /\ loop'[l] = state
      /\ \A x \in Loops : x # l => loop'[x] = loop[x]
  BY <1>1 DEF TypeOK, Goto
<1>3. TypeOK'
  BY <1>1, <1>2 DEF TypeOK
<1>4. Counted' /\ Fresh' /\ Tried'
  BY BooksUntouched
<1>5. Reported'
  <2>1. failures[loop[l].msg] > MaxRetries
    BY DEF NoteInv, Reported
  <2>2. AlertMeansExhausted'
    BY <2>1 DEF NoteInv, Reported, AlertMeansExhausted
  <2>3. \A x \in Loops : loop'[x].pc = "alerting" => failures'[loop'[x].msg] > MaxRetries
    BY <1>2 DEF NoteInv, Reported
  <2> QED BY <2>2, <2>3 DEF Reported
<1>6. NotLost'
  <2>1. ASSUME NEW n \in Messages, Alerting(n)
        PROVE  Settled(n)' \/ Alerting(n)'
    <3>1. PICK x \in Loops : loop[x] = [pc |-> "alerting", msg |-> n]
      BY <2>1 DEF Alerting
    <3>2. CASE x = l
      <4>1. n \in alerted' \cup silent'
        BY <3>1, <3>2
      <4> QED BY <4>1 DEF Settled
    <3>3. CASE x # l
      BY <3>1, <3>3, <1>2 DEF Alerting
    <3> QED BY <3>2, <3>3
  <2>2. ASSUME NEW n \in Messages
        PROVE  (Settled(n) => Settled(n)') /\ Open(n)' = Open(n)
    BY DEF Settled, WentOut, Open
  <2> QED BY <2>1, <2>2, StillKnown
<1> QED BY <1>3, <1>4, <1>5, <1>6 DEF NoteInv

LEMMA AlertKeeps ==
  ASSUME NoteInv, NEW l \in Loops, Alert(l) \/ LoopBreaksUnheard(l)
  PROVE  NoteInv'
<1>1. /\ loop[l].pc = "alerting"
      /\ Goto(l, Idle) \/ Goto(l, Dead)
      /\ UNCHANGED <<published, copy, delivered, failures, forks>>
      /\ alerted' \cup silent' = (alerted \cup silent) \cup {loop[l].msg}
      /\ alerted' \subseteq alerted \cup {loop[l].msg}
      /\ silent' \subseteq silent \cup {loop[l].msg}
  BY DEF Alert, LoopBreaksUnheard
<1>2. loop[l].msg \in Messages
  BY <1>1, AlertingFields DEF NoteInv
<1>3. alerted' \in SUBSET Messages /\ silent' \in SUBSET Messages
  BY <1>1, <1>2 DEF NoteInv, TypeOK
<1> QED BY <1>1, <1>3, LoopNames, AlertEnds

LEMMA LoopRests ==
  ASSUME NoteInv, NEW l \in Loops, LoopBreaks(l) \/ Restart(l)
  PROVE  NoteInv'
<1>1. /\ loop[l] = Idle \/ loop[l] = Dead
      /\ Goto(l, Idle) \/ Goto(l, Dead)
      /\ UNCHANGED <<published, copy, delivered, failures, forks, alerted, silent>>
  BY DEF LoopBreaks, Restart
<1>2. TypeOK
  BY DEF NoteInv
<1>3. /\ loop' \in [Loops -> LoopState]
      /\ \A x \in Loops : loop'[x].pc = "alerting" => loop'[x] = loop[x]
      /\ \A m : Alerting(m) => Alerting(m)'
  BY <1>1, <1>2, LoopNames, LoopMoved DEF Unreported
<1>4. TypeOK'
  BY <1>1, <1>2, <1>3 DEF TypeOK
<1>5. Counted' /\ Fresh' /\ Tried'
  BY <1>1, BooksUntouched
<1>6. \A m \in Messages : failures[m] <= failures'[m]
  BY <1>1, <1>2 DEF TypeOK
<1>7. Reported'
  BY <1>1, <1>3, <1>4, <1>6, ReportsKept
<1>8. NotLost'
  BY <1>1, <1>3, StillKnown DEF Settled, WentOut, Open
<1> QED BY <1>4, <1>5, <1>7, <1>8 DEF NoteInv

-----------------------------------------------------------------------------
(* The invariant *)

LEMMA InitNotes == Init => NoteInv
<1> SUFFICES ASSUME Init PROVE NoteInv
  OBVIOUS
<1>1. TypeOK
  BY FreeIsNowhere, LoopNames DEF Init, TypeOK
<1>2. \A m, n : Due(m, n) = {}
  BY DEF Init, Due, IsDue, IsOpen
<1>3. Counted
  BY <1>2, FS_EmptySet DEF Init, Counted
<1>4. Fresh /\ Tried /\ NotLost
  BY DEF Init, Fresh, Tried, NotLost
<1>5. Reported
  BY LoopNames DEF Init, Reported, AlertMeansExhausted
<1> QED BY <1>1, <1>3, <1>4, <1>5 DEF NoteInv

LEMMA NextNotes == NoteInv /\ [Next]_vars => NoteInv'
<1> SUFFICES ASSUME NoteInv, [Next]_vars PROVE NoteInv'
  OBVIOUS
<1>1. CASE UNCHANGED vars
  BY <1>1 DEF vars, NoteInv, TypeOK, Counted, Fresh, Tried, Reported,
              AlertMeansExhausted, NotLost, Settled, WentOut, Alerting, Open, Due
<1>2. ASSUME NEW m \in Messages, DropPublish(m) \/ \E k \in Slots : Publish(m, k)
      PROVE  NoteInv'
  BY <1>2, PublishKeeps, DropPublishKeeps
<1>3. ASSUME NEW k \in Slots, HandlerStep(k)
      PROVE  NoteInv'
  BY <1>3, HandlerKeeps
<1>4. ASSUME NEW l \in Loops, LoopStep(l)
      PROVE  NoteInv'
  BY <1>4, LoopMoves, GiveUpKeeps, RepublishKeeps, AlertKeeps
     DEF LoopStep
<1>5. CASE Breakdown
  BY <1>5, HandlerKeeps, LoopRests, AlertKeeps, LoopMoves DEF Breakdown
<1> QED BY <1>1, <1>2, <1>3, <1>4, <1>5 DEF Next

\* The inductive invariant behind the theorems below.
THEOREM NotificationInvariant == Spec => []NoteInv
<1>1. Init => NoteInv
  BY InitNotes
<1>2. NoteInv /\ [Next]_vars => NoteInv'
  BY NextNotes
<1> QED BY <1>1, <1>2, PTL DEF Spec

-----------------------------------------------------------------------------
(* What follows of it *)

\* Attempts stay within MAX_RETRIES and every copy is of a published message.
THEOREM NotificationTypeCorrect == Spec => []TypeOK
<1>1. NoteInv => TypeOK
  BY DEF NoteInv
<1> QED BY <1>1, NotificationInvariant, PTL

\* publish, the handlers and retry_loop lose no accepted notification but in the
\* gap between the last acknowledgement and its report.
THEOREM NothingIsLost == Spec => []NotLost
<1>1. NoteInv => NotLost
  BY DEF NoteInv
<1> QED BY <1>1, NotificationInvariant, PTL

\* retry_loop gives up after 1 + MAX_RETRIES failures and not before.
THEOREM GivenUpInTime == Spec => []AlertMeansExhausted
<1>1. NoteInv => AlertMeansExhausted
  BY DEF NoteInv, Reported
<1> QED BY <1>1, NotificationInvariant, PTL

\* handle_email, handle_webhook and retry_loop: whatever is taken for a failure,
\* an attempt notifies a recipient once, and once more for each copy that went
\* back after it had been dealt with.
THEOREM DuplicatesExplained == Spec => []AttemptsOnce
<1>1. NoteInv => AttemptsOnce
  <2> SUFFICES ASSUME NoteInv, NEW m \in Messages, NEW n \in Attempts
               PROVE  delivered[m][n] <= 1 + forks[m]
    BY DEF AttemptsOnce
  <2>1. delivered[m][n] + Cardinality(Due(m, n)) <= 1 + forks[m]
    BY DEF NoteInv, Counted
  <2>2. delivered[m][n] \in Nat /\ forks[m] \in Nat
    BY DEF NoteInv, TypeOK
  <2> QED BY <2>1, <2>2, DueIsFinite
<1> QED BY <1>1, NotificationInvariant, PTL

-----------------------------------------------------------------------------
(* The refinement of DeliverOrReport *)

Chances == [m \in Messages |-> Cardinality(Open(m))]
Ended == alerted \cup silent \cup {m \in Messages : Alerting(m)}

LEMMA ChancesAre ==
  ASSUME NEW m \in Messages
  PROVE  /\ Chances[m] = Cardinality(Open(m)) /\ Chances[m] \in Nat
         /\ Chances'[m] = Cardinality(Open(m)')
  BY OpenIsFinite DEF Chances

LEMMA PromiseInit == Init => Promise!Init
<1> SUFFICES ASSUME Init PROVE Promise!Init
  OBVIOUS
<1>1. \A m \in Messages : Open(m) = {} /\ ~Alerting(m)
  BY FreeIsNowhere, LoopNames DEF Init, Open, IsOpen, Alerting
<1>2. Chances = [m \in Messages |-> 0]
  BY <1>1, FS_EmptySet DEF Chances
<1>3. Ended = {}
  BY <1>1 DEF Ended, Init
<1> QED BY <1>2, <1>3 DEF Promise!Init, Promise!Tries, Attempts, Chances, Ended, Init

\* What one copy that moves means to its message, and to no other.
LEMMA ChancesMove ==
  ASSUME TypeOK, NEW k \in Slots, copy[k] # Free, NEW c \in Copy, Put(k, c),
         c # Free => c.msg = copy[k].msg
  PROVE  LET m == copy[k].msg IN
           Chances' = [Chances EXCEPT ![m] = @ - Weight(copy[k], m) + Weight(c, m)]
<1>1. PICK m \in Messages : m = copy[k].msg
  BY CopyFields
<1>2. \A n \in Messages : n # m => Weight(copy[k], n) = 0 /\ Weight(c, n) = 0
  BY <1>1 DEF Weight, IsOpen
<1>3. \A n \in Messages :
        /\ Chances[n] \in Nat
        /\ Chances'[n] = Chances[n] - Weight(copy[k], n) + Weight(c, n)
  BY PutCounts, ChancesAre
<1>4. \A n \in Messages :
        Chances'[n] = IF n = m THEN Chances[m] - Weight(copy[k], m) + Weight(c, m)
                               ELSE Chances[n]
  BY <1>2, <1>3
<1> HIDE DEF Weight
<1>5. /\ Chances = [n \in Messages |-> Chances[n]]
      /\ Chances' = [n \in Messages |-> Chances'[n]]
  BY DEF Chances
<1>6. Chances' = [Chances EXCEPT ![m] = Chances[m] - Weight(copy[k], m) + Weight(c, m)]
  BY <1>4, <1>5
<1> QED BY <1>1, <1>6

\* A copy that may be sent stays one, and one that may not stays none.
LEMMA ChancesStay ==
  ASSUME TypeOK, NEW k \in Slots, copy[k] # Free, NEW c \in Copy, Put(k, c),
         c # Free => c.msg = copy[k].msg,
         Weight(copy[k], copy[k].msg) = Weight(c, copy[k].msg)
  PROVE  Chances' = Chances
<1>1. copy[k].msg \in Messages
  BY CopyFields
<1>2. Weight(copy[k], copy[k].msg) \in Int /\ Chances[copy[k].msg] \in Nat
  BY <1>1, ChancesAre DEF Weight
<1>3. Chances' = [Chances EXCEPT ![copy[k].msg] =
                    @ - Weight(copy[k], copy[k].msg) + Weight(c, copy[k].msg)]
  BY ChancesMove
<1>4. Chances[copy[k].msg] - Weight(copy[k], copy[k].msg) + Weight(c, copy[k].msg)
        = Chances[copy[k].msg]
  BY <1>2
<1> QED BY <1>3, <1>4 DEF Chances

LEMMA EndedStays ==
  ASSUME UNCHANGED <<alerted, silent, loop>>
  PROVE  Ended' = Ended
  BY DEF Ended, Alerting

\* A loop that turns to or from anything but a report.
LEMMA EndedStaysToo ==
  ASSUME TypeOK, NEW l \in Loops, NEW state \in LoopState, Goto(l, state),
         loop[l].pc # "alerting", state.pc # "alerting",
         UNCHANGED <<alerted, silent>>
  PROVE  Ended' = Ended
<1>1. \A x \in Loops : loop'[x] = IF x = l THEN state ELSE loop[x]
  BY DEF TypeOK, Goto
<1>2. \A m : [pc |-> "alerting", msg |-> m].pc = "alerting"
  OBVIOUS
<1>3. \A m : Alerting(m)' <=> Alerting(m)
  BY <1>1, <1>2 DEF Alerting
<1> QED BY <1>3 DEF Ended

\* A report that is made, or cannot be.
LEMMA EndedInTime ==
  ASSUME TypeOK, NEW l \in Loops, loop[l].pc = "alerting",
         NEW state \in LoopState, Goto(l, state), state.pc # "alerting",
         alerted' \cup silent' = (alerted \cup silent) \cup {loop[l].msg}
  PROVE  Ended' = Ended
<1>1. PICK m \in Messages : loop[l] = [pc |-> "alerting", msg |-> m] /\ loop[l].msg = m
  BY AlertingFields
<1>2. \A x \in Loops : loop'[x] = IF x = l THEN state ELSE loop[x]
  BY DEF TypeOK, Goto
<1>3. \A n : [pc |-> "alerting", msg |-> n].pc = "alerting"
              /\ [pc |-> "alerting", msg |-> n].msg = n
  OBVIOUS
<1>4. Alerting(m)
  BY <1>1 DEF Alerting
<1>5. \A n : n # m => (Alerting(n)' <=> Alerting(n))
  BY <1>1, <1>2, <1>3 DEF Alerting
<1> QED BY <1>1, <1>4, <1>5 DEF Ended

\* A copy in a place, and its message.
LEMMA CopyAt ==
  ASSUME NoteInv, NEW k \in Slots, NEW p \in Places, At(k, p)
  PROVE  /\ copy[k] # Free /\ copy[k].msg \in Messages
         /\ published[copy[k].msg] = "accepted"
         /\ Weight(copy[k], copy[k].msg) = IF p \in Done THEN 0 ELSE 1
         /\ Chances[copy[k].msg] \in Nat
         /\ p \notin Done => Chances[copy[k].msg] > 0
<1>1. TypeOK /\ copy[k] # Free /\ copy[k].at = p
  BY PlacedIsNotFree DEF NoteInv, At
<1>2. PICK m \in Messages : m = copy[k].msg
  BY <1>1, CopyFields
<1>3. published[m] = "accepted"
  BY <1>1, <1>2 DEF NoteInv, Fresh
<1>4. Weight(copy[k], m) = IF p \in Done THEN 0 ELSE 1
  BY <1>1, <1>2 DEF Weight, IsOpen, Done
<1>5. Chances[m] = Cardinality(Open(m)) /\ Chances[m] \in Nat
  BY ChancesAre
<1>6. ASSUME p \notin Done PROVE Chances[m] > 0
  <2>1. k \in Open(m)
    BY <1>1, <1>2, <1>6 DEF Open, IsOpen
  <2>2. Cardinality(Open(m)) # 0
    BY <2>1, OpenIsFinite, FS_EmptySet
  <2> QED BY <1>5, <2>2
<1> QED BY <1>1, <1>2, <1>3, <1>4, <1>5, <1>6

LEMMA MovedCopy ==
  ASSUME NoteInv, NEW k \in Slots, copy[k] # Free, NEW p \in Places
  PROVE  /\ Moved(k, p) \in Copy /\ Moved(k, p).msg = copy[k].msg
         /\ Weight(Moved(k, p), copy[k].msg) =
              IF p \in Done THEN 0 ELSE 1
<1>1. TypeOK
  BY DEF NoteInv
<1>2. /\ Moved(k, p) \in Copy /\ Moved(k, p) # Free
      /\ Moved(k, p).at = p /\ Moved(k, p).msg = copy[k].msg
  BY <1>1, MovedFields
<1> QED BY <1>2 DEF Weight, IsOpen

\* A step that nobody sees.
Unseen == UNCHANGED <<published, delivered, forks>> /\ Chances' = Chances /\ Ended' = Ended

LEMMA UnseenIsUnseen == Unseen => UNCHANGED Promise!vars
  BY DEF Unseen, Promise!vars, Chances, Ended

LEMMA UnseenMoves ==
  ASSUME NoteInv, NEW k \in Slots, NEW p \in Places, At(k, p),
         NEW c \in Copy, Put(k, c),
         \/ c = Free /\ p \in Done
         \/ \E q \in Places : c = Moved(k, q) /\
              (q \in Done <=> p \in Done)
  PROVE  Chances' = Chances
<1>1. TypeOK /\ copy[k] # Free
  BY CopyAt DEF NoteInv
<1>2. c # Free => c.msg = copy[k].msg
  BY <1>1, MovedCopy
<1>3. Weight(copy[k], copy[k].msg) = Weight(c, copy[k].msg)
  <2>1. CASE c = Free /\ p \in Done
    BY <2>1, CopyAt, FreeWeighsNothing
  <2>2. CASE \E q \in Places : c = Moved(k, q) /\
              (q \in Done <=> p \in Done)
    BY <1>1, <2>2, CopyAt, MovedCopy
  <2> QED BY <2>1, <2>2
<1> QED BY <1>1, <1>2, <1>3, ChancesStay

LEMMA UnseenHandlers ==
  ASSUME NoteInv, NEW k \in Slots,
         \/ Take(k) \/ Hang(k) \/ ServerSpeaks(k)
         \/ Ack(k) \/ Reject(k) \/ LoseHandler(k)
  PROVE  UNCHANGED Promise!vars
<1>1. UNCHANGED <<published, loop, delivered, forks, alerted, silent>>
  BY DEF Take, Hang, ServerSpeaks, Ack, Reject, LoseHandler
<1>2. Ended' = Ended
  BY <1>1, EndedStays
<1>3. Free \in Copy /\ \A p \in Places : At(k, p) => copy[k] # Free
  BY FreeIsNowhere, PlacedIsNotFree
<1>4. Chances' = Chances
  <2>1. CASE Take(k)
    BY <1>3, <2>1, MovedCopy, UnseenMoves DEF Take, Places, Done
  <2>2. CASE Ack(k)
    BY <1>3, <2>2, UnseenMoves DEF Ack, Places, Done
  <2>3. CASE Reject(k)
    BY <1>3, <2>3, MovedCopy, UnseenMoves DEF Reject, DeadLettered, Places, Done
  <2>4. CASE LoseHandler(k)
    BY <1>3, <2>4, MovedCopy, UnseenMoves DEF LoseHandler, InHandler, Places, Done
  <2>5. CASE Hang(k)
    BY <1>3, <2>5, MovedCopy, UnseenMoves DEF Hang, Places, Done
  <2>6. CASE ServerSpeaks(k)
    BY <1>3, <2>6, MovedCopy, UnseenMoves DEF ServerSpeaks, Places, Done
  <2> QED BY <2>1, <2>2, <2>3, <2>4, <2>5, <2>6
<1> QED BY <1>1, <1>2, <1>4, UnseenIsUnseen DEF Unseen

LEMMA UnseenLoops ==
  ASSUME NoteInv, NEW l \in Loops, NEW k \in Slots,
         Get(l, k) \/ AckRetried(l, k) \/ LoopBreaksAt(l, k)
  PROVE  UNCHANGED Promise!vars
<1>1. TypeOK /\ UNCHANGED <<published, delivered, forks, alerted, silent>>
  BY DEF NoteInv, Get, AckRetried, LoopBreaksAt
<1>2. Ended' = Ended
  <2>1. loop[l].pc # "alerting"
    BY LoopNames DEF Get, AckRetried, LoopBreaksAt
  <2>2. Goto(l, Idle) \/ Goto(l, Dead) \/ Goto(l, Working(k))
    BY DEF Get, AckRetried, LoopBreaksAt
  <2> QED BY <1>1, <2>1, <2>2, LoopNames, EndedStaysToo
<1>3. Free \in Copy /\ \A p \in Places : At(k, p) => copy[k] # Free
  BY FreeIsNowhere, PlacedIsNotFree
<1>4. Chances' = Chances
  <2>1. CASE Get(l, k)
    BY <1>3, <2>1, MovedCopy, UnseenMoves DEF Get, Places, Done
  <2>2. CASE AckRetried(l, k)
    BY <1>3, <2>2, UnseenMoves DEF AckRetried, Acked, Places, Done
  <2>3. CASE LoopBreaksAt(l, k)
    BY <1>3, <2>3, MovedCopy, UnseenMoves DEF LoopBreaksAt, Places, Done
  <2> QED BY <2>1, <2>2, <2>3
<1> QED BY <1>1, <1>2, <1>4, UnseenIsUnseen DEF Unseen

LEMMA UnseenRepublish ==
  ASSUME NoteInv, NEW l \in Loops, NEW k \in Slots, NEW new \in Slots,
         Republish(l, k, new)
  PROVE  UNCHANGED Promise!vars
<1>1. TypeOK /\ UNCHANGED <<published, loop, delivered, forks, alerted, silent>>
  BY DEF NoteInv, Republish
<1>2. Chances' = Chances
  BY <1>1, RepublishCounts DEF Chances
<1> QED BY <1>1, <1>2, EndedStays, UnseenIsUnseen DEF Unseen

LEMMA UnseenReports ==
  ASSUME NoteInv, NEW l \in Loops,
         Alert(l) \/ LoopBreaksUnheard(l) \/ LoopBreaks(l) \/ Restart(l)
  PROVE  UNCHANGED Promise!vars
<1>1. TypeOK /\ UNCHANGED <<published, copy, delivered, forks>>
  BY DEF NoteInv, Alert, LoopBreaksUnheard, LoopBreaks, Restart
<1>2. Chances' = Chances
  BY <1>1 DEF Chances, Open
<1>3. Goto(l, Idle) \/ Goto(l, Dead)
  BY DEF Alert, LoopBreaksUnheard, LoopBreaks, Restart
<1>4. Ended' = Ended
  <2>1. CASE Alert(l) \/ LoopBreaksUnheard(l)
    <3>1. /\ loop[l].pc = "alerting"
          /\ alerted' \cup silent' = (alerted \cup silent) \cup {loop[l].msg}
      BY <2>1 DEF Alert, LoopBreaksUnheard
    <3> QED BY <1>1, <1>3, <3>1, LoopNames, EndedInTime
  <2>2. CASE LoopBreaks(l) \/ Restart(l)
    <3>1. loop[l].pc # "alerting" /\ UNCHANGED <<alerted, silent>>
      BY <2>2, LoopNames DEF LoopBreaks, Restart
    <3> QED BY <1>1, <1>3, <3>1, LoopNames, EndedStaysToo
  <2> QED BY <2>1, <2>2
<1> QED BY <1>1, <1>2, <1>4, UnseenIsUnseen DEF Unseen

LEMMA Accepting ==
  ASSUME NoteInv, NEW m \in Messages, NEW k \in Slots, Publish(m, k)
  PROVE  Promise!Next
<1>1. PICK c \in Copy : c = [at |-> "queue", msg |-> m, attempt |-> 0]
  <2>1. [at |-> "queue", msg |-> m, attempt |-> 0] \in Copy
    BY NotificationConstants DEF Copy, Places, Attempts
  <2> QED BY <2>1
<1>2. /\ published[m] = "new" /\ copy[k] = Free /\ Put(k, c) /\ TypeOK
      /\ published' = [published EXCEPT ![m] = "accepted"]
      /\ UNCHANGED <<loop, delivered, forks, alerted, silent>>
  BY <1>1 DEF Publish, IsFree, NoteInv
<1>3. \A n : Weight(c, n) = IF n = m THEN 1 ELSE 0
  <2>1. c.at = "queue" /\ c.msg = m
    BY <1>1
  <2> QED BY <2>1, FreeIsNowhere DEF Weight, IsOpen, Done
<1>4. Open(m) = {}
  BY <1>2 DEF NoteInv, Fresh, Open, IsOpen
<1>5. Chances[m] = 0
  BY <1>4, ChancesAre, FS_EmptySet
<1>6. \A n \in Messages : Chances'[n] = IF n = m THEN 1 ELSE Chances[n]
  BY <1>2, <1>3, <1>5, PutCounts, ChancesAre, FreeWeighsNothing
<1>7. Chances' = [Chances EXCEPT ![m] = 1]
  <2>1. Chances' = [n \in Messages |-> Chances'[n]]
    BY DEF Chances
  <2> QED BY <1>6, <2>1 DEF Chances
<1>8. Ended' = Ended
  BY <1>2, EndedStays
<1>9. Promise!Accept(m)
  BY <1>2, <1>7, <1>8 DEF Promise!Accept, Chances, Ended
<1> QED BY <1>9 DEF Promise!Next

LEMMA Refusing ==
  ASSUME NoteInv, NEW m \in Messages, DropPublish(m)
  PROVE  Promise!Next
<1>1. Chances' = Chances /\ Ended' = Ended
  BY EndedStays DEF DropPublish, Chances, Open
<1>2. Promise!Refuse(m)
  BY <1>1 DEF DropPublish, Promise!Refuse, Chances, Ended
<1> QED BY <1>2 DEF Promise!Next

\* A send, whatever becomes of it, is the abstract attempt of its copy.
LEMMA Reaching ==
  ASSUME NoteInv, NEW k \in Slots, NEW p \in Trying \ Done, At(k, p),
         delivered' = SentOnceMore(k), NEW m \in Messages, m = copy[k].msg
  PROVE  \E a \in Promise!Tries : Promise!Reach(m, a)
<1>0. p \in Places /\ p \notin Done /\ TypeOK
  BY DEF Trying, Places, NoteInv
<1>1. copy[k] # Free /\ copy[k].at = p /\ Chances[m] > 0
  BY <1>0, CopyAt DEF At
<1>2. PICK a \in Attempts : a = copy[k].attempt
  BY <1>0, <1>1, CopyFields
<1>3. IsDue(copy[k], m, a)
  <2>1. IsOpen(copy[k], m)
    BY <1>0, <1>1 DEF IsOpen
  <2>2. Debt(copy[k]) = a /\ a \in Nat
    BY <1>1, <1>2 DEF Debt, Attempts
  <2> QED BY <2>1, <2>2 DEF IsDue
<1>4. Cardinality(Due(m, a)) > 0
  <2>1. k \in Due(m, a)
    BY <1>3 DEF Due
  <2>2. Cardinality(Due(m, a)) # 0
    BY <2>1, DueIsFinite, FS_EmptySet
  <2> QED BY <2>2, DueIsFinite
<1>5. delivered[m][a] <= forks[m]
  <2>1. delivered[m][a] + Cardinality(Due(m, a)) <= 1 + forks[m]
    BY DEF NoteInv, Counted
  <2>2. delivered[m][a] \in Nat /\ forks[m] \in Nat
    BY <1>0 DEF TypeOK
  <2> QED BY <1>4, <2>1, <2>2, DueIsFinite
<1>6. delivered' = [delivered EXCEPT ![m][a] = @ + 1]
  BY <1>2 DEF SentOnceMore
<1>7. Promise!Reach(m, a)
  BY <1>1, <1>5, <1>6 DEF Promise!Reach, Chances
<1>8. a \in Promise!Tries
  BY DEF Promise!Tries, Attempts
<1> QED BY <1>7, <1>8

LEMMA Notifying ==
  ASSUME NoteInv, NEW k \in Slots, Send(k)
  PROVE  Promise!Next
<1>1. /\ At(k, "handling") /\ Put(k, Moved(k, "sent")) /\ TypeOK
      /\ delivered' = SentOnceMore(k)
      /\ UNCHANGED <<published, loop, forks, alerted, silent>>
  BY DEF Send, NoteInv
<1>2. /\ copy[k] # Free /\ Weight(copy[k], copy[k].msg) = 1
      /\ Chances[copy[k].msg] \in Nat /\ Chances[copy[k].msg] > 0
  BY <1>1, CopyAt DEF Places, Done
<1>3. PICK m \in Messages : m = copy[k].msg
  BY <1>1, CopyAt DEF Places
<1>4. Weight(Moved(k, "sent"), m) = 0
  BY <1>2, <1>3, MovedCopy DEF Places, Done
<1>5. Chances' = [Chances EXCEPT ![m] = @ - Weight(copy[k], m) + Weight(Moved(k, "sent"), m)]
  BY <1>1, <1>2, <1>3, MovedCopy, ChancesMove DEF Places
<1>6. Chances[m] - 1 + 0 = Chances[m] - 1
  BY <1>2, <1>3
<1>7. Chances' = [Chances EXCEPT ![m] = Chances[m] - 1]
  BY <1>2, <1>3, <1>4, <1>5, <1>6
<1>8. PICK a \in Promise!Tries : Promise!Reach(m, a)
  BY <1>1, <1>3, Reaching DEF Trying, Done
<1>9. Promise!Notify(m, a)
  BY <1>1, <1>7, <1>8, EndedStays DEF Promise!Notify, Chances, Ended
<1> QED BY <1>9 DEF Promise!Next

LEMMA NotifyingInVain ==
  ASSUME NoteInv, NEW k \in Slots, RejectSent(k)
  PROVE  Promise!Next
<1>1. /\ At(k, "handling") /\ Put(k, Moved(k, "dlq"))
      /\ delivered' = SentOnceMore(k)
      /\ UNCHANGED <<published, loop, forks, alerted, silent>>
  BY DEF RejectSent, DeadLettered
<1>2. copy[k] # Free
  BY <1>1, CopyAt DEF Places
<1>3. PICK m \in Messages : m = copy[k].msg
  BY <1>1, CopyAt DEF Places
<1>4. Chances' = Chances
  BY <1>1, <1>2, MovedCopy, UnseenMoves DEF Places, Done
<1>5. PICK a \in Promise!Tries : Promise!Reach(m, a)
  BY <1>1, <1>3, Reaching DEF Trying, Done
<1>6. Promise!NotifyInVain(m, a)
  BY <1>1, <1>4, <1>5, EndedStays DEF Promise!NotifyInVain, Chances, Ended
<1> QED BY <1>6 DEF Promise!Next

LEMMA Doubling ==
  ASSUME NoteInv, NEW k \in Slots, NEW p \in Done, At(k, p),
         NEW q \in {"queue", "dlq"}, Put(k, Moved(k, q)), Fork(copy[k].msg),
         UNCHANGED <<published, delivered>>, Ended' = Ended
  PROVE  Promise!Next
<1>0. p \in Places /\ q \in Places /\ TypeOK
  BY DEF Places, Done, NoteInv
<1>1. /\ copy[k] # Free /\ Weight(copy[k], copy[k].msg) = 0
      /\ Chances[copy[k].msg] \in Nat /\ published[copy[k].msg] = "accepted"
  BY <1>0, CopyAt
<1>2. PICK m \in Messages : m = copy[k].msg
  BY <1>0, CopyAt
<1>3. Weight(Moved(k, q), m) = 1
  BY <1>0, <1>1, <1>2, MovedCopy DEF Done
<1>4. Chances' = [Chances EXCEPT ![m] = @ - Weight(copy[k], m) + Weight(Moved(k, q), m)]
  BY <1>0, <1>1, <1>2, MovedCopy, ChancesMove
<1>5. Chances[m] - 0 + 1 = Chances[m] + 1
  BY <1>1, <1>2
<1>6. Chances' = [Chances EXCEPT ![m] = Chances[m] + 1]
  BY <1>1, <1>2, <1>3, <1>4, <1>5
<1>7. Promise!Double(m)
  BY <1>1, <1>2, <1>6 DEF Promise!Double, Fork, More, Chances, Ended
<1> QED BY <1>7 DEF Promise!Next

LEMMA NotifyingTwice ==
  ASSUME NoteInv, NEW k \in Slots, LoseSending(k)
  PROVE  Promise!Next
<1>1. PICK p \in {"handling", "hanging"} : At(k, p)
  BY DEF LoseSending, InHandler
<1>2. /\ p \in Places /\ p \in Trying \ Done
      /\ Put(k, Moved(k, "queue")) /\ Fork(copy[k].msg)
      /\ delivered' = SentOnceMore(k)
      /\ UNCHANGED <<published, loop, alerted, silent>>
  BY DEF LoseSending, Places, Trying, Done
<1>3. PICK m \in Messages : m = copy[k].msg
  BY <1>1, <1>2, CopyAt
<1>4. Chances' = Chances
  BY <1>1, <1>2, CopyAt, MovedCopy, UnseenMoves DEF Places, Done
<1>5. PICK a \in Promise!Tries : Promise!Reach(m, a)
  BY <1>1, <1>2, <1>3, Reaching
<1>6. Promise!NotifyAndDouble(m, a)
  BY <1>2, <1>3, <1>4, <1>5, EndedStays DEF Promise!NotifyAndDouble, Fork, More, Chances, Ended
<1> QED BY <1>6 DEF Promise!Next

LEMMA GivingUp ==
  ASSUME NoteInv, NEW l \in Loops, NEW k \in Slots, GiveUp(l, k)
  PROVE  Promise!Next
<1>1. PICK m \in Messages : m = copy[k].msg
  BY CopyAt DEF GiveUp, Places
<1>2. /\ loop[l] = Working(k) /\ At(k, "retrying") /\ Put(k, Free) /\ TypeOK
      /\ Goto(l, [pc |-> "alerting", msg |-> m])
      /\ UNCHANGED <<published, delivered, forks, alerted, silent>>
  BY <1>1 DEF GiveUp, NoteInv
<1>3. /\ copy[k] # Free /\ Weight(copy[k], m) = 1 /\ Weight(Free, m) = 0
      /\ Chances[m] \in Nat /\ Chances[m] > 0
  BY <1>1, <1>2, CopyAt, FreeWeighsNothing DEF Places, Done
<1>4. Chances' = [Chances EXCEPT ![m] = @ - Weight(copy[k], m) + Weight(Free, m)]
  BY <1>1, <1>2, <1>3, FreeIsNowhere, ChancesMove
<1>5. Chances[m] - 1 + 0 = Chances[m] - 1
  BY <1>3
<1>6. Chances' = [Chances EXCEPT ![m] = Chances[m] - 1]
  BY <1>3, <1>4, <1>5
<1>7. Ended' = Ended \cup {m}
  <2>1. \A x \in Loops : loop'[x] = IF x = l THEN [pc |-> "alerting", msg |-> m] ELSE loop[x]
    BY <1>2 DEF TypeOK, Goto
  <2>2. \A n : /\ [pc |-> "alerting", msg |-> n].pc = "alerting"
               /\ [pc |-> "alerting", msg |-> n].msg = n
    OBVIOUS
  <2>3. Alerting(m)'
    BY <2>1 DEF Alerting
  <2>4. \A n : n # m => (Alerting(n)' <=> Alerting(n))
    BY <1>2, <2>1, <2>2, LoopNames DEF Alerting
  <2> QED BY <1>2, <2>3, <2>4 DEF Ended
<1>8. Promise!GiveUp(m)
  BY <1>2, <1>3, <1>6, <1>7 DEF Promise!GiveUp, Chances, Ended
<1> QED BY <1>8 DEF Promise!Next

LEMMA PromiseStep ==
  ASSUME NoteInv, [Next]_vars
  PROVE  [Promise!Next]_(Promise!vars)
<1>1. ASSUME NEW k \in Slots, LoseSent(k) PROVE Promise!Next
  BY <1>1, EndedStays, Doubling DEF LoseSent, Done
<1>2. ASSUME NEW l \in Loops, NEW k \in Slots, LoopBreaksAfter(l, k) PROVE Promise!Next
  <2>1. Ended' = Ended
    <3>1. loop[l].pc # "alerting" /\ Goto(l, Dead) /\ UNCHANGED <<alerted, silent>>
      BY <1>2, LoopNames DEF LoopBreaksAfter
    <3> QED BY <3>1, LoopNames, EndedStaysToo DEF NoteInv
  <2> QED BY <1>2, <2>1, Doubling DEF LoopBreaksAfter, Done
<1>3. CASE UNCHANGED vars
  <2>1. Chances' = Chances /\ Ended' = Ended
    BY <1>3, EndedStays DEF vars, Chances, Open
  <2> QED BY <1>3, <2>1, UnseenIsUnseen DEF vars, Unseen
<1>4. CASE \E m \in Messages : DropPublish(m) \/ \E k \in Slots : Publish(m, k)
  BY <1>4, Accepting, Refusing
<1>5. CASE \E k \in Slots : HandlerStep(k)
  BY <1>5, UnseenHandlers, Notifying, NotifyingInVain DEF HandlerStep
<1>6. CASE \E l \in Loops : LoopStep(l)
  BY <1>6, UnseenLoops, UnseenRepublish, UnseenReports, GivingUp DEF LoopStep
<1>7. CASE Breakdown
  BY <1>1, <1>2, <1>7, UnseenHandlers, NotifyingTwice, UnseenLoops, UnseenReports
     DEF Breakdown
<1> QED BY <1>3, <1>4, <1>5, <1>6, <1>7 DEF Next

\* publish, the handlers and the retry loops of any number of instances: through
\* every loss of a connection and every send taken for a failure, an accepted
\* notification keeps one chance to be sent until it is sent or given up, gets
\* one more only for each loss that doubled it, and each of its attempts is made
\* again only for such a loss.
THEOREM PromiseKept == Spec => KeepsPromise
<1>1. NoteInv /\ [Next]_vars => [Promise!Next]_(Promise!vars)
  BY PromiseStep
<1>2. Spec => Promise!Spec
  BY <1>1, PromiseInit, NotificationInvariant, PTL DEF Spec, Promise!Spec
<1> QED BY <1>2 DEF KeepsPromise
=============================================================================
