-------------------------- MODULE QuotaLedgerProofs --------------------------
(***************************************************************************)
(* Theorems about QuotaLedger for every value of its constants.            *)
(***************************************************************************)
EXTENDS QuotaLedger, FiniteSetTheorems, TLAPS

-----------------------------------------------------------------------------
(* Sets of items are counted *)

LEMMA Sizes ==
  ASSUME NEW S \in SUBSET Items
  PROVE  IsFiniteSet(S) /\ Cardinality(S) \in Nat
<1>1. IsFiniteSet(S)
  BY QuotaConstants, FS_Subset
<1> QED BY <1>1, FS_CardinalityType

LEMMA Fewer ==
  ASSUME NEW T \in SUBSET Items, NEW S \in SUBSET T
  PROVE  Cardinality(S) <= Cardinality(T)
<1>1. IsFiniteSet(T)
  BY Sizes
<1> QED BY <1>1, FS_Subset

LEMMA OneMore ==
  ASSUME NEW T \in SUBSET Items, NEW i \in Items, NEW S \in SUBSET (T \cup {i})
  PROVE  Cardinality(S) <= Cardinality(T) + 1
<1>1. IsFiniteSet(T) /\ Cardinality(T) \in Nat
  BY Sizes
<1>2. Cardinality(T \cup {i}) <= Cardinality(T) + 1
  BY <1>1, FS_AddElement
<1>3. T \cup {i} \in SUBSET Items
  OBVIOUS
<1>4. Cardinality(S) <= Cardinality(T \cup {i})
  BY <1>3, Fewer
<1>5. Cardinality(S) \in Nat /\ Cardinality(T \cup {i}) \in Nat
  BY <1>3, Sizes
<1> QED BY <1>1, <1>2, <1>4, <1>5

LEMMA OneLess ==
  ASSUME NEW T \in SUBSET Items, NEW i \in T, NEW S \in SUBSET (T \ {i})
  PROVE  Cardinality(S) <= Cardinality(T) - 1 /\ Cardinality(T) >= 1
<1>1. IsFiniteSet(T) /\ Cardinality(T) \in Nat
  BY Sizes
<1>2. Cardinality(T \ {i}) = Cardinality(T) - 1
  BY <1>1, FS_RemoveElement
<1>3. T \ {i} \in SUBSET Items
  OBVIOUS
<1>4. Cardinality(S) <= Cardinality(T \ {i})
  BY <1>3, Fewer
<1>5. Cardinality(S) \in Nat /\ Cardinality(T \ {i}) \in Nat
  BY <1>3, Sizes
<1> QED BY <1>1, <1>2, <1>4, <1>5

\* Counting two sets one after the other counts at least their union.
LEMMA CountedApart ==
  ASSUME NEW S \in SUBSET Items, NEW T \in SUBSET Items,
         NEW U \in SUBSET (S \cup T)
  PROVE  Cardinality(U) <= Cardinality(S) + Cardinality(T)
<1>1. /\ IsFiniteSet(S) /\ IsFiniteSet(T)
      /\ Cardinality(S) \in Nat /\ Cardinality(T) \in Nat
  BY Sizes
<1>2. S \cup T \in SUBSET Items /\ S \cap T \in SUBSET Items
  OBVIOUS
<1>3. Cardinality(S \cup T) \in Nat /\ Cardinality(S \cap T) \in Nat
  BY <1>2, Sizes
<1>4. Cardinality(S \cup T)
        = Cardinality(S) + Cardinality(T) - Cardinality(S \cap T)
  BY <1>1, FS_Union
<1>5. Cardinality(U) <= Cardinality(S \cup T)
  BY <1>2, Fewer
<1>6. U \in SUBSET Items
  BY <1>2
<1>7. Cardinality(U) \in Nat
  BY <1>6, Sizes
<1> QED BY <1>1, <1>3, <1>4, <1>5, <1>7

LEMMA NoneIsZero == Cardinality({}) = 0
  BY FS_EmptySet

LEMMA SetsOfItems ==
  /\ Active \in SUBSET Items
  /\ Billed \in SUBSET Items
  /\ Durable \in SUBSET Items
  /\ Outstanding \in SUBSET Items
  /\ Charged \in SUBSET Items
  BY DEF Active, Billed, Durable, Outstanding, Charged

-----------------------------------------------------------------------------
(* The inductive invariant *)

\* What a request has counted covers every row that it cannot have missed.
Counted(c) == At(c, "counted") \/ At(c, "limited")

CountsCover ==
  \A c \in Clients :
    /\ At(c, "counting") => Cardinality(Active \ unseen[c]) <= req[c].active
    /\ Counted(c) => Cardinality(Durable \ unseen[c]) <= req[c].total

LedgerInv ==
  /\ TypeOK
  /\ ReservationsCovered
  /\ CountsCover
  /\ DebtsComeFromDrift

-----------------------------------------------------------------------------
(* Types *)

\* What a request holds once its pc says so.
LEMMA RequestFields ==
  ASSUME TypeOK, NEW c \in Clients
  PROVE  /\ At(c, "counting") => /\ req[c].active \in Nat
                                 /\ req[c].for \in {"reserve", "reconcile"}
         /\ Counted(c) => req[c].total \in Nat
         /\ At(c, "counted") => req[c].for \in {"reserve", "reconcile"}
         /\ At(c, "limited") => req[c].limit \in Nat
         /\ req[c].pc \in {"held", "stored", "failing"} => req[c].item \in Items
  BY QuotaConstants DEF TypeOK, Request, At, Counted

LEMMA Moved ==
  ASSUME TypeOK, NEW c \in Clients, NEW r \in Request, Goto(c, r)
  PROVE  req' \in [Clients -> Request]
  BY DEF TypeOK, Goto

LEMMA Places ==
  /\ Idle \in Request
  /\ Owing \in Request
  /\ \A f \in {"reserve", "reconcile"}, n \in Nat :
       /\ [pc |-> "counting", for |-> f, active |-> n] \in Request
       /\ [pc |-> "counted", for |-> f, total |-> n] \in Request
  /\ \A n \in Nat, l \in Limits :
       [pc |-> "limited", total |-> n, limit |-> l] \in Request
  /\ \A p \in {"held", "stored", "failing"}, i \in Items :
       [pc |-> p, item |-> i] \in Request
  BY DEF Request, Idle, Owing

LEMMA PlaceNames ==
  /\ Idle.pc = "idle"
  /\ Owing.pc = "owing"
  BY DEF Idle, Owing

\* A step of c that leaves it away from the tables disturbs no count.
LEMMA CountsKept ==
  ASSUME TypeOK, TypeOK', CountsCover,
         Active' \subseteq Active, Durable' \subseteq Durable,
         \A d \in Clients :
           \/ req'[d] = req[d] /\ unseen'[d] = unseen[d]
           \/ req'[d].pc \notin AtTables
  PROVE  CountsCover'
<1> SUFFICES ASSUME NEW d \in Clients
             PROVE  /\ At(d, "counting")' =>
                         Cardinality((Active \ unseen[d])') <= req'[d].active
                    /\ Counted(d)' =>
                         Cardinality((Durable \ unseen[d])') <= req'[d].total
  BY DEF CountsCover
<1>1. CASE req'[d].pc \notin AtTables
  BY <1>1 DEF At, Counted, AtTables
<1>2. CASE req'[d] = req[d] /\ unseen'[d] = unseen[d]
  <2>1. /\ Active \ unseen[d] \in SUBSET Items
        /\ Durable \ unseen[d] \in SUBSET Items
        /\ Active' \ unseen'[d] \in SUBSET (Active \ unseen[d])
        /\ Durable' \ unseen'[d] \in SUBSET (Durable \ unseen[d])
    BY <1>2, SetsOfItems
  <2>2. /\ Active' \ unseen'[d] \in SUBSET Items
        /\ Durable' \ unseen'[d] \in SUBSET Items
    BY <2>1
  <2>3. /\ Cardinality(Active' \ unseen'[d]) <= Cardinality(Active \ unseen[d])
        /\ Cardinality(Durable' \ unseen'[d]) <= Cardinality(Durable \ unseen[d])
    BY <2>1, Fewer
  <2>4. /\ Cardinality(Active' \ unseen'[d]) \in Nat
        /\ Cardinality(Durable' \ unseen'[d]) \in Nat
        /\ Cardinality(Active \ unseen[d]) \in Nat
        /\ Cardinality(Durable \ unseen[d]) \in Nat
    BY <2>1, <2>2, Sizes
  <2>5. ASSUME At(d, "counting")'
        PROVE  Cardinality(Active' \ unseen'[d]) <= req'[d].active
    <3>1. At(d, "counting") /\ req'[d].active = req[d].active
      BY <1>2, <2>5 DEF At
    <3>2. Cardinality(Active \ unseen[d]) <= req[d].active
      BY <3>1 DEF CountsCover
    <3>3. req[d].active \in Nat
      BY <3>1, RequestFields
    <3> QED BY <2>3, <2>4, <3>1, <3>2, <3>3
  <2>6. ASSUME Counted(d)'
        PROVE  Cardinality(Durable' \ unseen'[d]) <= req'[d].total
    <3>1. Counted(d) /\ req'[d].total = req[d].total
      BY <1>2, <2>6 DEF At, Counted
    <3>2. Cardinality(Durable \ unseen[d]) <= req[d].total
      BY <3>1 DEF CountsCover
    <3>3. req[d].total \in Nat
      BY <3>1, RequestFields
    <3> QED BY <2>3, <2>4, <3>1, <3>2, <3>3
  <2> QED BY <2>5, <2>6
<1> QED BY <1>1, <1>2

\* Fewer charges and the same counter: the three bounds stay.
LEMMA BoundsKept ==
  ASSUME LedgerInv, TypeOK',
         Outstanding' \subseteq Outstanding, Charged' \subseteq Charged,
         usage' = usage, drifted => drifted'
  PROVE  ReservationsCovered' /\ DebtsComeFromDrift'
<1>1. /\ Cardinality(Outstanding') <= Cardinality(Outstanding)
      /\ Cardinality(Charged') <= Cardinality(Charged)
  BY SetsOfItems, Fewer
<1>2. /\ Outstanding' \in SUBSET Items
      /\ Charged' \in SUBSET Items
  BY SetsOfItems
<1>3. /\ Cardinality(Outstanding') \in Nat /\ Cardinality(Charged') \in Nat
      /\ Cardinality(Outstanding) \in Nat /\ Cardinality(Charged) \in Nat
  BY <1>2, SetsOfItems, Sizes
<1>4. usage \in Nat \cup {Null} /\ Null \notin Nat
  BY QuotaConstants DEF LedgerInv, TypeOK
<1> QED BY <1>1, <1>3, <1>4, QuotaConstants
        DEF LedgerInv, ReservationsCovered, DebtsComeFromDrift

-----------------------------------------------------------------------------
(* The reads of the tables *)

LEMMA CountActiveKeeps ==
  ASSUME LedgerInv, NEW c \in Clients, NEW for \in {"reserve", "reconcile"},
         CountActive(c, for)
  PROVE  LedgerInv'
<1> DEFINE r == [pc |-> "counting", for |-> for, active |-> Cardinality(Active)]
<1>0. TypeOK
  BY DEF LedgerInv
<1>1. Cardinality(Active) \in Nat
  BY SetsOfItems, Sizes
<1>2. r \in Request
  BY <1>1, Places
<1>3. Goto(c, r) /\ UNCHANGED <<limit, items, usage, reservation, unseen, drifted>>
  BY DEF CountActive, ledger
<1>4. req' \in [Clients -> Request]
  BY <1>0, <1>2, <1>3, Moved
<1>5. TypeOK'
  BY <1>0, <1>3, <1>4 DEF TypeOK
<1>6. /\ Active' = Active /\ Durable' = Durable
      /\ Outstanding' = Outstanding /\ Charged' = Charged
  BY <1>3 DEF Active, Billed, Durable, Outstanding, Charged
<1>7. ReservationsCovered' /\ DebtsComeFromDrift'
  BY <1>3, <1>5, <1>6, BoundsKept
<1>8. CountsCover'
  <2>1. Cardinality(Active \ unseen[c]) <= Cardinality(Active)
    BY SetsOfItems, Fewer
  <2>2. req'[c] = r /\ r.pc = "counting" /\ r.active = Cardinality(Active)
    BY <1>0, <1>3 DEF Goto, TypeOK
  <2>3. \A d \in Clients : d # c => req'[d] = req[d]
    BY <1>0, <1>3 DEF Goto, TypeOK
  <2> HIDE DEF r
  <2> QED BY <1>3, <1>6, <2>1, <2>2, <2>3 DEF CountsCover, LedgerInv, At, Counted
<1> QED BY <1>5, <1>7, <1>8 DEF LedgerInv

LEMMA CountPendingKeeps ==
  ASSUME LedgerInv, NEW c \in Clients, CountPending(c)
  PROVE  LedgerInv'
<1>0. TypeOK
  BY DEF LedgerInv
<1>1. /\ At(c, "counting")
      /\ UNCHANGED <<limit, items, usage, reservation, unseen, drifted>>
      /\ Goto(c, [pc |-> "counted", for |-> req[c].for,
                  total |-> req[c].active + Cardinality(Billed)])
  BY DEF CountPending, ledger
<1>2. /\ req[c].for \in {"reserve", "reconcile"}
      /\ req[c].active \in Nat
      /\ Cardinality(Billed) \in Nat
  BY <1>0, <1>1, RequestFields, SetsOfItems, Sizes
<1>3. PICK f \in {"reserve", "reconcile"}, n \in Nat :
        /\ n = req[c].active + Cardinality(Billed)
        /\ Goto(c, [pc |-> "counted", for |-> f, total |-> n])
  BY <1>1, <1>2
<1>4. [pc |-> "counted", for |-> f, total |-> n] \in Request
  BY Places
<1>5. req' \in [Clients -> Request]
  BY <1>0, <1>3, <1>4, Moved
<1>6. TypeOK'
  BY <1>0, <1>1, <1>5 DEF TypeOK
<1>7. /\ Active' = Active /\ Durable' = Durable
      /\ Outstanding' = Outstanding /\ Charged' = Charged
  BY <1>1 DEF Active, Billed, Durable, Outstanding, Charged
<1>8. ReservationsCovered' /\ DebtsComeFromDrift'
  BY <1>1, <1>6, <1>7, BoundsKept
<1>9. Cardinality(Durable \ unseen[c]) <= n
  <2>1. Cardinality(Active \ unseen[c]) <= req[c].active
    BY <1>1 DEF LedgerInv, CountsCover
  <2>2. /\ Active \ unseen[c] \in SUBSET Items
        /\ Durable \ unseen[c] \in SUBSET ((Active \ unseen[c]) \cup Billed)
    BY SetsOfItems DEF Durable
  <2>3. Cardinality(Durable \ unseen[c])
          <= Cardinality(Active \ unseen[c]) + Cardinality(Billed)
    BY <2>2, SetsOfItems, CountedApart
  <2>4. Durable \ unseen[c] \in SUBSET Items
    BY SetsOfItems
  <2>5. /\ Cardinality(Durable \ unseen[c]) \in Nat
        /\ Cardinality(Active \ unseen[c]) \in Nat
    BY <2>2, <2>4, Sizes
  <2> QED BY <1>2, <1>3, <2>1, <2>3, <2>5
<1>10. CountsCover'
  <2>1. req'[c].pc = "counted" /\ req'[c].total = n
    BY <1>0, <1>3 DEF Goto, TypeOK
  <2>2. \A d \in Clients : d # c => req'[d] = req[d]
    BY <1>0, <1>3 DEF Goto, TypeOK
  <2> QED BY <1>1, <1>7, <1>9, <2>1, <2>2 DEF CountsCover, LedgerInv, At, Counted
<1> QED BY <1>6, <1>8, <1>10 DEF LedgerInv

\* c has left the tables, the others have not moved.
LEMMA LeftTheTables ==
  ASSUME TypeOK, NEW c \in Clients, NEW r \in Request, Goto(c, r),
         r.pc \notin AtTables,
         unseen' = unseen \/ Forget(c)
  PROVE  \A d \in Clients :
           \/ req'[d] = req[d] /\ unseen'[d] = unseen[d]
           \/ req'[d].pc \notin AtTables
<1>1. req'[c] = r /\ \A d \in Clients : d # c => req'[d] = req[d]
  BY DEF Goto, TypeOK
<1>2. \A d \in Clients : d # c => unseen'[d] = unseen[d]
  BY DEF Forget, TypeOK
<1> QED BY <1>1, <1>2

\* Both counts and charges shrink or stay while c goes elsewhere.
LEMMA StepAway ==
  ASSUME LedgerInv, NEW c \in Clients, NEW r \in Request, Goto(c, r),
         r.pc \notin AtTables,
         unseen' = unseen \/ Forget(c),
         limit' \in Limits,
         items' \in [Items -> ItemState],
         reservation' \in [Items -> {"none", "held", "lapsed"}],
         usage' = usage, drifted' = drifted,
         Active' \subseteq Active, Durable' \subseteq Durable,
         Outstanding' \subseteq Outstanding
  PROVE  LedgerInv'
<1>0. TypeOK
  BY DEF LedgerInv
<1>1. req' \in [Clients -> Request]
  BY <1>0, Moved
<1>2. unseen' \in [Clients -> SUBSET Items]
  BY <1>0 DEF TypeOK, Forget
<1>3. TypeOK'
  BY <1>0, <1>1, <1>2 DEF TypeOK
<1>4. \A d \in Clients :
        \/ req'[d] = req[d] /\ unseen'[d] = unseen[d]
        \/ req'[d].pc \notin AtTables
  BY <1>0, LeftTheTables
<1>5. CountsCover'
  BY <1>0, <1>3, <1>4, CountsKept DEF LedgerInv
<1>6. Charged' \subseteq Charged
  BY DEF Charged
<1>7. ReservationsCovered' /\ DebtsComeFromDrift'
  BY <1>3, <1>6, BoundsKept
<1> QED BY <1>3, <1>5, <1>7 DEF LedgerInv

LEMMA ReconcileKeeps ==
  ASSUME LedgerInv, NEW c \in Clients, Reconcile(c)
  PROVE  LedgerInv'
<1>0. TypeOK
  BY DEF LedgerInv
<1>1. /\ At(c, "counted")
      /\ usage' = req[c].total + Cardinality(Outstanding)
      /\ drifted' = (drifted \/ Missed(c) # {})
      /\ Goto(c, Idle)
      /\ Forget(c)
      /\ UNCHANGED <<limit, items, reservation>>
  BY DEF Reconcile, Reconciled
<1>2. /\ req[c].total \in Nat
      /\ Cardinality(Outstanding) \in Nat
      /\ Cardinality(Charged) \in Nat
  BY <1>0, <1>1, RequestFields, SetsOfItems, Sizes DEF Counted
<1>3. usage' \in Nat
  BY <1>1, <1>2
<1>4. req' \in [Clients -> Request]
  BY <1>0, <1>1, Places, Moved
<1>5. unseen' \in [Clients -> SUBSET Items]
  BY <1>0, <1>1 DEF TypeOK, Forget
<1>6. drifted' \in BOOLEAN
  BY <1>0, <1>1 DEF TypeOK
<1>7. TypeOK'
  BY <1>0, <1>1, <1>3, <1>4, <1>5, <1>6 DEF TypeOK
<1>8. /\ Active' = Active /\ Durable' = Durable
      /\ Outstanding' = Outstanding /\ Charged' = Charged
  BY <1>1 DEF Active, Billed, Durable, Outstanding, Charged
<1>9. CountsCover'
  BY <1>0, <1>1, <1>7, <1>8, Places, PlaceNames, LeftTheTables, CountsKept
     DEF LedgerInv, AtTables
<1>10. usage' # Null
  BY <1>3, QuotaConstants
<1>11. ReservationsCovered'
  BY <1>1, <1>2, <1>8, <1>10 DEF ReservationsCovered
<1>13. ASSUME Missed(c) = {}
       PROVE  Cardinality(Charged) <= usage'
  <2>1. Charged \in SUBSET ((Durable \ unseen[c]) \cup Outstanding)
    BY <1>13 DEF Charged, Missed
  <2>2. Durable \ unseen[c] \in SUBSET Items
    BY SetsOfItems
  <2>3. Cardinality(Charged)
          <= Cardinality(Durable \ unseen[c]) + Cardinality(Outstanding)
    BY <2>1, <2>2, SetsOfItems, CountedApart
  <2>4. Cardinality(Durable \ unseen[c]) <= req[c].total
    BY <1>1 DEF LedgerInv, CountsCover, Counted
  <2>5. Cardinality(Durable \ unseen[c]) \in Nat
    BY <2>2, Sizes
  <2> QED BY <1>1, <1>2, <2>3, <2>4, <2>5
<1>14. DebtsComeFromDrift'
  BY <1>1, <1>8, <1>13 DEF DebtsComeFromDrift
<1> QED BY <1>7, <1>9, <1>11, <1>14 DEF LedgerInv

-----------------------------------------------------------------------------
(* Creating an item *)

\* The limit is read, and the count stays what it was.
LEMMA ReadLimitKeeps ==
  ASSUME LedgerInv, NEW c \in Clients, ReadLimit(c)
  PROVE  LedgerInv'
<1>0. TypeOK
  BY DEF LedgerInv
<1>1. /\ At(c, "counted")
      /\ UNCHANGED <<limit, items, usage, reservation, unseen, drifted>>
      /\ Goto(c, [pc |-> "limited", total |-> req[c].total, limit |-> limit])
  BY DEF ReadLimit, ledger
<1>2. req[c].total \in Nat /\ limit \in Limits
  BY <1>0, <1>1, RequestFields DEF Counted, TypeOK
<1>3. PICK n \in Nat, l \in Limits :
        /\ n = req[c].total
        /\ Goto(c, [pc |-> "limited", total |-> n, limit |-> l])
  BY <1>1, <1>2
<1>4. [pc |-> "limited", total |-> n, limit |-> l] \in Request
  BY Places
<1>5. req' \in [Clients -> Request]
  BY <1>0, <1>3, <1>4, Moved
<1>6. TypeOK'
  BY <1>0, <1>1, <1>5 DEF TypeOK
<1>7. /\ Active' = Active /\ Durable' = Durable
      /\ Outstanding' = Outstanding /\ Charged' = Charged
  BY <1>1 DEF Active, Billed, Durable, Outstanding, Charged
<1>8. ReservationsCovered' /\ DebtsComeFromDrift'
  BY <1>1, <1>6, <1>7, BoundsKept
<1>9. CountsCover'
  <2>1. Cardinality(Durable \ unseen[c]) <= n
    BY <1>1, <1>3 DEF LedgerInv, CountsCover, Counted
  <2>2. req'[c].pc = "limited" /\ req'[c].total = n
    BY <1>0, <1>3 DEF Goto, TypeOK
  <2>3. \A d \in Clients : d # c => req'[d] = req[d]
    BY <1>0, <1>3 DEF Goto, TypeOK
  <2> QED BY <1>1, <1>7, <2>1, <2>2, <2>3 DEF CountsCover, LedgerInv, At, Counted
<1> QED BY <1>6, <1>8, <1>9 DEF LedgerInv

\* The value the script starts from covers what the user owes.
LEMMA BaseCovers ==
  ASSUME LedgerInv, NEW c \in Clients, At(c, "limited")
  PROVE  /\ Base(c) \in Nat
         /\ Cardinality(Outstanding) <= Base(c)
         /\ (~drifted /\ ~(usage = Null /\ Missed(c) # {}))
              => Cardinality(Charged) <= Base(c)
<1>0. TypeOK
  BY DEF LedgerInv
<1>1. /\ req[c].total \in Nat
      /\ Cardinality(Outstanding) \in Nat
      /\ Cardinality(Charged) \in Nat
  BY <1>0, RequestFields, SetsOfItems, Sizes DEF Counted
<1>2. CASE usage # Null
  <2>1. usage \in Nat
    BY <1>0, <1>2 DEF TypeOK
  <2> QED BY <1>1, <1>2, <2>1
          DEF Base, LedgerInv, ReservationsCovered, DebtsComeFromDrift
<1>3. CASE usage = Null
  <2>1. Base(c) = req[c].total
    BY <1>3 DEF Base
  <2>2. Cardinality(Outstanding) = 0
    BY <1>1, <1>3 DEF LedgerInv, ReservationsCovered
  <2>3. Outstanding = {}
    BY <2>2, SetsOfItems, Sizes, FS_EmptySet
  <2>4. ASSUME Missed(c) = {}
        PROVE  Cardinality(Charged) <= req[c].total
    <3>1. Charged = Durable \ unseen[c]
      BY <2>3, <2>4 DEF Charged, Missed
    <3> QED BY <3>1 DEF LedgerInv, CountsCover, Counted
  <2> QED BY <1>1, <1>3, <2>1, <2>2, <2>4
<1> QED BY <1>2, <1>3

LEMMA ReserveKeeps ==
  ASSUME LedgerInv, NEW c \in Clients, NEW i \in Items, Reserve(c, i)
  PROVE  LedgerInv'
<1> DEFINE r == [pc |-> "held", item |-> i]
<1>0. TypeOK
  BY DEF LedgerInv
<1>1. /\ At(c, "limited")
      /\ items[i] = "new"
      /\ usage' = Base(c) + 1
      /\ reservation' = [reservation EXCEPT ![i] = "held"]
      /\ items' = [items EXCEPT ![i] = "pending"]
      /\ drifted' = (drifted \/ (usage = Null /\ Missed(c) # {}))
      /\ Goto(c, r)
      /\ limit' = limit
      /\ Forget(c)
  BY DEF Reserve
<1>2. /\ Base(c) \in Nat
      /\ Cardinality(Outstanding) <= Base(c)
      /\ ~drifted' => Cardinality(Charged) <= Base(c)
  BY <1>1, BaseCovers
<1>3. r \in Request /\ r.pc = "held"
  BY Places
<1>4. req' \in [Clients -> Request]
  BY <1>0, <1>1, <1>3, Moved
<1>5. /\ unseen' \in [Clients -> SUBSET Items]
      /\ items' \in [Items -> ItemState]
      /\ reservation' \in [Items -> {"none", "held", "lapsed"}]
      /\ drifted' \in BOOLEAN
  BY <1>0, <1>1 DEF TypeOK, Forget, ItemState
<1>6. usage' \in Nat /\ usage' # Null
  BY <1>1, <1>2, QuotaConstants
<1>7. TypeOK'
  BY <1>0, <1>1, <1>4, <1>5, <1>6 DEF TypeOK
<1>8. /\ Active' = Active /\ Durable' = Durable
      /\ Outstanding' \in SUBSET (Outstanding \cup {i})
      /\ Charged' \in SUBSET (Charged \cup {i})
  BY <1>0, <1>1 DEF TypeOK, Active, Billed, Durable, Outstanding, Charged
<1>9. r.pc \notin AtTables
  BY <1>3 DEF AtTables
<1> HIDE DEF r
<1>10. CountsCover'
  BY <1>0, <1>1, <1>3, <1>7, <1>8, <1>9, LeftTheTables, CountsKept DEF LedgerInv
<1>11. /\ Cardinality(Outstanding') <= Cardinality(Outstanding) + 1
       /\ Cardinality(Charged') <= Cardinality(Charged) + 1
  BY <1>8, SetsOfItems, OneMore
<1>12. /\ Outstanding' \in SUBSET Items /\ Charged' \in SUBSET Items
  BY <1>8, SetsOfItems
<1>13. /\ Cardinality(Outstanding') \in Nat /\ Cardinality(Charged') \in Nat
       /\ Cardinality(Outstanding) \in Nat /\ Cardinality(Charged) \in Nat
  BY <1>12, SetsOfItems, Sizes
<1>14. /\ Cardinality(Outstanding') <= usage'
       /\ ~drifted' => Cardinality(Charged') <= usage'
  BY <1>1, <1>2, <1>11, <1>13, QuotaConstants
<1>15. ReservationsCovered' /\ DebtsComeFromDrift'
  BY <1>6, <1>13, <1>14, QuotaConstants
     DEF ReservationsCovered, DebtsComeFromDrift
<1> QED BY <1>7, <1>10, <1>15 DEF LedgerInv

LEMMA RefuseKeeps ==
  ASSUME LedgerInv, NEW c \in Clients, Refuse(c)
  PROVE  LedgerInv'
<1>0. TypeOK
  BY DEF LedgerInv
<1>1. /\ At(c, "limited")
      /\ usage' = Base(c)
      /\ drifted' = (drifted \/ (usage = Null /\ Missed(c) # {}))
      /\ Goto(c, Idle)
      /\ Forget(c)
      /\ UNCHANGED <<limit, items, reservation>>
  BY DEF Refuse
<1>2. /\ Base(c) \in Nat
      /\ Cardinality(Outstanding) <= Base(c)
      /\ ~drifted' => Cardinality(Charged) <= Base(c)
  BY <1>1, BaseCovers
<1>3. req' \in [Clients -> Request]
  BY <1>0, <1>1, Places, Moved
<1>4. /\ unseen' \in [Clients -> SUBSET Items]
      /\ drifted' \in BOOLEAN
  BY <1>0, <1>1 DEF TypeOK, Forget
<1>5. usage' \in Nat /\ usage' # Null
  BY <1>1, <1>2, QuotaConstants
<1>6. TypeOK'
  BY <1>0, <1>1, <1>3, <1>4, <1>5 DEF TypeOK
<1>7. /\ Active' = Active /\ Durable' = Durable
      /\ Outstanding' = Outstanding /\ Charged' = Charged
  BY <1>1 DEF Active, Billed, Durable, Outstanding, Charged
<1>8. CountsCover'
  BY <1>0, <1>1, <1>6, <1>7, Places, PlaceNames, LeftTheTables, CountsKept
     DEF LedgerInv, AtTables
<1>9. ReservationsCovered' /\ DebtsComeFromDrift'
  BY <1>1, <1>2, <1>5, <1>7 DEF ReservationsCovered, DebtsComeFromDrift
<1> QED BY <1>6, <1>8, <1>9 DEF LedgerInv

\* What a request has counted covers the rows stored since, as it does not
\* claim to have seen them.
LEMMA CountsMiss ==
  ASSUME LedgerInv, NEW i \in Items, NEW d \in Clients,
         items' = [items EXCEPT ![i] = "active"], req'[d] = req[d],
         unseen'[d] = IF Counting(d) THEN unseen[d] \cup {i} ELSE unseen[d]
  PROVE  /\ At(d, "counting")' =>
              Cardinality((Active \ unseen[d])') <= req'[d].active
         /\ Counted(d)' =>
              Cardinality((Durable \ unseen[d])') <= req'[d].total
<1>0. TypeOK
  BY DEF LedgerInv
<1>1. /\ Active' \subseteq Active \cup {i}
      /\ Durable' \subseteq Durable \cup {i}
  BY <1>0 DEF TypeOK, Active, Billed, Durable
<1>2. CASE Counting(d)
  <2>1. unseen'[d] = unseen[d] \cup {i}
    BY <1>2
  <2>2. /\ Active' \ unseen'[d] \in SUBSET (Active \ unseen[d])
        /\ Durable' \ unseen'[d] \in SUBSET (Durable \ unseen[d])
        /\ Active \ unseen[d] \in SUBSET Items
        /\ Durable \ unseen[d] \in SUBSET Items
    BY <1>1, <2>1, SetsOfItems
  <2>3. /\ Cardinality(Active' \ unseen'[d]) <= Cardinality(Active \ unseen[d])
        /\ Cardinality(Durable' \ unseen'[d]) <= Cardinality(Durable \ unseen[d])
    BY <2>2, Fewer
  <2>4. /\ Active' \ unseen'[d] \in SUBSET Items
        /\ Durable' \ unseen'[d] \in SUBSET Items
    BY <2>2
  <2>5. /\ Cardinality(Active' \ unseen'[d]) \in Nat
        /\ Cardinality(Durable' \ unseen'[d]) \in Nat
        /\ Cardinality(Active \ unseen[d]) \in Nat
        /\ Cardinality(Durable \ unseen[d]) \in Nat
    BY <2>2, <2>4, Sizes
  <2>6. /\ At(d, "counting") => /\ req[d].active \in Nat
                                /\ Cardinality(Active \ unseen[d]) <= req[d].active
        /\ Counted(d) => /\ req[d].total \in Nat
                         /\ Cardinality(Durable \ unseen[d]) <= req[d].total
    BY <1>0, RequestFields DEF LedgerInv, CountsCover, Counted
  <2>7. At(d, "counting")' => Cardinality(Active' \ unseen'[d]) <= req'[d].active
    BY <2>3, <2>5, <2>6 DEF At, Counted
  <2>8. Counted(d)' => Cardinality(Durable' \ unseen'[d]) <= req'[d].total
    BY <2>3, <2>5, <2>6 DEF At, Counted
  <2> QED BY <2>7, <2>8
<1>3. CASE ~Counting(d)
  BY <1>3 DEF At, Counted, Counting, AtTables
<1> QED BY <1>2, <1>3

LEMMA StoreByAdminKeeps ==
  ASSUME LedgerInv, NEW i \in Items, StoreByAdmin(i)
  PROVE  LedgerInv'
<1>0. TypeOK
  BY DEF LedgerInv
<1>1. /\ items' = [items EXCEPT ![i] = "active"]
      /\ unseen' = [d \in Clients |->
                      IF Counting(d) THEN unseen[d] \cup {i} ELSE unseen[d]]
      /\ drifted' = TRUE
      /\ UNCHANGED <<limit, usage, reservation, req>>
  BY DEF StoreByAdmin
<1>2. /\ unseen' \in [Clients -> SUBSET Items]
      /\ items' \in [Items -> ItemState]
  BY <1>0, <1>1 DEF TypeOK, ItemState
<1>3. TypeOK'
  BY <1>0, <1>1, <1>2 DEF TypeOK
<1>4. CountsCover'
  <2> SUFFICES ASSUME NEW d \in Clients
               PROVE  /\ At(d, "counting")' =>
                           Cardinality((Active \ unseen[d])') <= req'[d].active
                      /\ Counted(d)' =>
                           Cardinality((Durable \ unseen[d])') <= req'[d].total
    BY DEF CountsCover
  <2>1. /\ req'[d] = req[d]
        /\ unseen'[d] = IF Counting(d) THEN unseen[d] \cup {i} ELSE unseen[d]
    BY <1>1
  <2> QED BY <1>1, <2>1, CountsMiss
<1>5. Outstanding' = Outstanding
  BY <1>1 DEF Outstanding
<1>6. ReservationsCovered'
  BY <1>1, <1>5 DEF LedgerInv, ReservationsCovered
<1>7. DebtsComeFromDrift'
  BY <1>1 DEF DebtsComeFromDrift
<1> QED BY <1>3, <1>4, <1>6, <1>7 DEF LedgerInv

LEMMA StoreKeeps ==
  ASSUME LedgerInv, NEW c \in Clients, NEW next \in {"stored", "failing"},
         Store(c, next)
  PROVE  LedgerInv'
<1>0. TypeOK
  BY DEF LedgerInv
<1>1. At(c, "held") /\ req[c].item \in Items
  BY <1>0, RequestFields DEF Store, At
<1>2. PICK i \in Items : i = req[c].item
  BY <1>1
<1> DEFINE r == [pc |-> next, item |-> i]
<1>3. /\ items' = [items EXCEPT ![i] = "active"]
      /\ unseen' = [d \in Clients |->
                      IF Counting(d) THEN unseen[d] \cup {i} ELSE unseen[d]]
      /\ drifted' = (drifted \/ reservation[i] = "none")
      /\ Goto(c, r)
      /\ UNCHANGED <<limit, usage, reservation>>
  BY <1>2 DEF Store
<1>4. r \in Request /\ r.pc \notin AtTables
  BY Places DEF AtTables
<1>5. req' \in [Clients -> Request]
  BY <1>0, <1>3, <1>4, Moved
<1>6. /\ unseen' \in [Clients -> SUBSET Items]
      /\ items' \in [Items -> ItemState]
      /\ drifted' \in BOOLEAN
  BY <1>0, <1>3 DEF TypeOK, ItemState
<1>7. TypeOK'
  BY <1>0, <1>3, <1>5, <1>6 DEF TypeOK
<1>8. /\ Active' \subseteq Active \cup {i}
      /\ Durable' \subseteq Durable \cup {i}
      /\ Outstanding' = Outstanding
  BY <1>0, <1>3 DEF TypeOK, Active, Billed, Durable, Outstanding
<1>9. CountsCover'
  <2> SUFFICES ASSUME NEW d \in Clients
               PROVE  /\ At(d, "counting")' =>
                           Cardinality((Active \ unseen[d])') <= req'[d].active
                      /\ Counted(d)' =>
                           Cardinality((Durable \ unseen[d])') <= req'[d].total
    BY DEF CountsCover
  <2>1. CASE d = c
    <3>1. req'[d] = r
      BY <1>0, <1>3, <2>1 DEF Goto, TypeOK
    <3> QED BY <1>4, <3>1 DEF At, Counted, AtTables
  <2>2. CASE d # c
    <3>1. /\ req'[d] = req[d]
          /\ unseen'[d] = IF Counting(d) THEN unseen[d] \cup {i} ELSE unseen[d]
      BY <1>0, <1>3, <2>2 DEF Goto, TypeOK
    <3> QED BY <1>3, <3>1, CountsMiss
  <2> QED BY <2>1, <2>2
<1>10. ReservationsCovered'
  BY <1>3, <1>8 DEF LedgerInv, ReservationsCovered
<1>11. ASSUME ~drifted'
       PROVE  Charged' \subseteq Charged /\ ~drifted
  <2>1. i \in Outstanding /\ ~drifted
    BY <1>3, <1>11 DEF Outstanding
  <2> QED BY <1>8, <2>1 DEF Charged
<1>12. ASSUME ~drifted'
       PROVE  Cardinality(Charged') <= Cardinality(Charged)
  BY <1>11, <1>12, SetsOfItems, Fewer
<1>13. Charged' \in SUBSET Items
  BY <1>8, SetsOfItems DEF Charged
<1>14. Cardinality(Charged') \in Nat /\ Cardinality(Charged) \in Nat
  BY <1>13, SetsOfItems, Sizes
<1>15. DebtsComeFromDrift'
  <2> SUFFICES ASSUME ~drifted', usage' # Null
               PROVE  Cardinality(Charged') <= usage'
    BY DEF DebtsComeFromDrift
  <2>1. usage \in Nat /\ usage' = usage
    BY <1>0, <1>3 DEF TypeOK
  <2>2. Cardinality(Charged) <= usage
    BY <1>11, <2>1 DEF LedgerInv, DebtsComeFromDrift
  <2> QED BY <1>12, <1>14, <2>1, <2>2
<1> QED BY <1>7, <1>9, <1>10, <1>15 DEF LedgerInv

LEMMA FailKeeps ==
  ASSUME LedgerInv, NEW c \in Clients, Fail(c)
  PROVE  LedgerInv'
<1>0. TypeOK
  BY DEF LedgerInv
<1>1. At(c, "held") /\ req[c].item \in Items
  BY <1>0, RequestFields DEF Fail, At
<1>2. PICK i \in Items : Goto(c, [pc |-> "failing", item |-> i])
  BY <1>1 DEF Fail
<1>3. UNCHANGED <<limit, items, usage, reservation, unseen, drifted>>
  BY DEF Fail, ledger
<1>4. Active' = Active /\ Durable' = Durable /\ Outstanding' = Outstanding
  BY <1>3 DEF Active, Billed, Durable, Outstanding
<1> QED BY <1>0, <1>2, <1>3, <1>4, Places, StepAway DEF TypeOK, AtTables

LEMMA CommitKeeps ==
  ASSUME LedgerInv, NEW c \in Clients, Commit(c)
  PROVE  LedgerInv'
<1>0. TypeOK
  BY DEF LedgerInv
<1>1. At(c, "stored") /\ req[c].item \in Items
  BY <1>0, RequestFields DEF Commit, At
<1>2. PICK i \in Items : reservation' = [reservation EXCEPT ![i] = "none"]
  BY <1>1 DEF Commit, Dropped
<1>3. Goto(c, Idle) /\ UNCHANGED <<limit, items, usage, unseen, drifted>>
  BY DEF Commit
<1>4. /\ Active' = Active /\ Durable' = Durable
      /\ Outstanding' \subseteq Outstanding
  BY <1>0, <1>2, <1>3 DEF TypeOK, Active, Billed, Durable, Outstanding
<1>5. reservation' \in [Items -> {"none", "held", "lapsed"}]
  BY <1>0, <1>2 DEF TypeOK
<1> QED BY <1>0, <1>3, <1>4, <1>5, Places, PlaceNames, StepAway DEF TypeOK, AtTables

LEMMA CommitFailsKeeps ==
  ASSUME LedgerInv, NEW c \in Clients, CommitFails(c)
  PROVE  LedgerInv'
<1>1. Goto(c, Owing) /\ UNCHANGED <<limit, items, usage, reservation, unseen, drifted>>
  BY DEF CommitFails, ledger
<1>2. Active' = Active /\ Durable' = Durable /\ Outstanding' = Outstanding
  BY <1>1 DEF Active, Billed, Durable, Outstanding
<1> QED BY <1>1, <1>2, Places, PlaceNames, StepAway DEF LedgerInv, TypeOK, AtTables

LEMMA CrashKeeps ==
  ASSUME LedgerInv, NEW c \in Clients, Crash(c)
  PROVE  LedgerInv'
<1>1. /\ Goto(c, Idle) /\ Forget(c)
      /\ UNCHANGED <<limit, items, usage, reservation, drifted>>
  BY DEF Crash
<1>2. Active' = Active /\ Durable' = Durable /\ Outstanding' = Outstanding
  BY <1>1 DEF Active, Billed, Durable, Outstanding
<1> QED BY <1>1, <1>2, Places, PlaceNames, StepAway DEF LedgerInv, TypeOK, AtTables

-----------------------------------------------------------------------------
(* Giving a reservation back *)

\* The charge of a reservation goes with it, and only once.
LEMMA ReleaseItemKeeps ==
  ASSUME LedgerInv, NEW i \in Items, ReleaseItem(i), TypeOK',
         UNCHANGED items
  PROVE  ReservationsCovered' /\ DebtsComeFromDrift'
<1>0. TypeOK
  BY DEF LedgerInv
<1>1. /\ usage' = IF reservation[i] = "none" THEN usage ELSE usage - 1
      /\ reservation' = [reservation EXCEPT ![i] = "none"]
      /\ drifted' = (drifted \/ i \in Outstanding \cap Durable)
  BY DEF ReleaseItem, Released, Dropped
<1>2. /\ Durable' = Durable
      /\ Outstanding' = Outstanding \ {i}
  BY <1>0, <1>1 DEF TypeOK, Active, Billed, Durable, Outstanding
<1>3. Charged' \subseteq Charged
  BY <1>2 DEF Charged
<1>4. CASE reservation[i] = "none"
  BY <1>1, <1>2, <1>3, <1>4, BoundsKept
<1>5. CASE reservation[i] # "none"
  <2>1. i \in Outstanding /\ i \in Charged
    BY <1>5 DEF Outstanding, Charged
  <2>2. /\ Cardinality(Outstanding') <= Cardinality(Outstanding) - 1
        /\ Cardinality(Outstanding) >= 1
    BY <1>2, <2>1, SetsOfItems, OneLess
  <2>3. /\ Outstanding' \in SUBSET Items /\ Charged' \in SUBSET Items
    BY <1>2, <1>3, SetsOfItems
  <2>4. /\ Cardinality(Outstanding') \in Nat /\ Cardinality(Charged') \in Nat
        /\ Cardinality(Outstanding) \in Nat /\ Cardinality(Charged) \in Nat
    BY <2>3, SetsOfItems, Sizes
  <2>5. usage \in Nat /\ Cardinality(Outstanding) <= usage /\ usage # Null
    BY <1>0, <2>2, <2>4, QuotaConstants DEF TypeOK, LedgerInv, ReservationsCovered
  <2>6. usage' = usage - 1
    BY <1>1, <1>5
  <2>7. ReservationsCovered'
    BY <2>2, <2>4, <2>5, <2>6, QuotaConstants DEF ReservationsCovered
  <2>8. ASSUME ~drifted'
        PROVE  Cardinality(Charged') <= Cardinality(Charged) - 1 /\ ~drifted
    <3>1. i \notin Durable /\ ~drifted
      BY <1>1, <2>1, <2>8
    <3>2. Charged' \in SUBSET (Charged \ {i})
      BY <1>2, <3>1 DEF Charged
    <3> QED BY <2>1, <3>1, <3>2, SetsOfItems, OneLess
  <2>9. DebtsComeFromDrift'
    <3> SUFFICES ASSUME ~drifted'
                 PROVE  Cardinality(Charged') <= usage'
      BY DEF DebtsComeFromDrift
    <3>1. Cardinality(Charged) <= usage
      BY <2>5, <2>8 DEF LedgerInv, DebtsComeFromDrift
    <3> QED BY <2>4, <2>5, <2>6, <2>8, <3>1
  <2> QED BY <2>7, <2>9
<1> QED BY <1>4, <1>5

LEMMA ReleaseItemTypes ==
  ASSUME LedgerInv, NEW i \in Items, ReleaseItem(i)
  PROVE  /\ usage' \in Nat \cup {Null}
         /\ reservation' \in [Items -> {"none", "held", "lapsed"}]
         /\ drifted' \in BOOLEAN
<1>0. TypeOK
  BY DEF LedgerInv
<1>1. /\ reservation' \in [Items -> {"none", "held", "lapsed"}]
      /\ drifted' \in BOOLEAN
  BY <1>0 DEF TypeOK, ReleaseItem, Dropped
<1>2. CASE reservation[i] = "none"
  BY <1>0, <1>1, <1>2 DEF TypeOK, ReleaseItem, Released
<1>3. CASE reservation[i] # "none"
  <2>1. i \in Outstanding
    BY <1>3 DEF Outstanding
  <2>2. {} \in SUBSET (Outstanding \ {i})
    OBVIOUS
  <2>3. Cardinality(Outstanding) >= 1 /\ Cardinality(Outstanding) \in Nat
    BY <2>1, <2>2, SetsOfItems, Sizes, OneLess
  <2>4. usage \in Nat /\ usage >= 1
    BY <1>0, <2>3, QuotaConstants DEF TypeOK, LedgerInv, ReservationsCovered
  <2> QED BY <1>1, <1>3, <2>4 DEF ReleaseItem, Released
<1> QED BY <1>2, <1>3

LEMMA ReleaseKeeps ==
  ASSUME LedgerInv, NEW c \in Clients, Release(c)
  PROVE  LedgerInv'
<1>0. TypeOK
  BY DEF LedgerInv
<1>1. At(c, "failing") /\ req[c].item \in Items
  BY <1>0, RequestFields DEF Release, At
<1>2. PICK i \in Items : ReleaseItem(i)
  BY <1>1 DEF Release
<1>3. Goto(c, Idle) /\ UNCHANGED <<limit, items, unseen>>
  BY DEF Release
<1>4. req' \in [Clients -> Request]
  BY <1>0, <1>3, Places, Moved
<1>5. TypeOK'
  BY <1>0, <1>2, <1>3, <1>4, ReleaseItemTypes DEF TypeOK
<1>6. Active' = Active /\ Durable' = Durable
  BY <1>3 DEF Active, Billed, Durable
<1>7. CountsCover'
  BY <1>0, <1>3, <1>5, <1>6, Places, PlaceNames, LeftTheTables, CountsKept
     DEF LedgerInv, AtTables
<1>8. ReservationsCovered' /\ DebtsComeFromDrift'
  BY <1>2, <1>3, <1>5, ReleaseItemKeeps
<1> QED BY <1>5, <1>7, <1>8 DEF LedgerInv

LEMMA ReapKeeps ==
  ASSUME LedgerInv, NEW i \in Items, Reap(i)
  PROVE  LedgerInv'
<1>0. TypeOK
  BY DEF LedgerInv
<1>1. ReleaseItem(i) /\ UNCHANGED <<limit, items, req, unseen>>
  BY DEF Reap
<1>2. TypeOK'
  BY <1>0, <1>1, ReleaseItemTypes DEF TypeOK
<1>3. Active' = Active /\ Durable' = Durable
  BY <1>1 DEF Active, Billed, Durable
<1>4. CountsCover'
  BY <1>0, <1>1, <1>2, <1>3, CountsKept DEF LedgerInv
<1>5. ReservationsCovered' /\ DebtsComeFromDrift'
  BY <1>1, <1>2, ReleaseItemKeeps
<1> QED BY <1>2, <1>4, <1>5 DEF LedgerInv

-----------------------------------------------------------------------------
(* Deletions, time and Redis *)

\* Rows go, nobody reads.
LEMMA StepAside ==
  ASSUME LedgerInv, UNCHANGED <<limit, usage, req, unseen, drifted>>,
         items' \in [Items -> ItemState],
         reservation' \in [Items -> {"none", "held", "lapsed"}],
         Active' \subseteq Active, Durable' \subseteq Durable,
         Outstanding' \subseteq Outstanding
  PROVE  LedgerInv'
<1>1. TypeOK /\ TypeOK'
  BY DEF LedgerInv, TypeOK
<1>2. CountsCover'
  BY <1>1, CountsKept DEF LedgerInv
<1>3. Charged' \subseteq Charged
  BY DEF Charged
<1>4. ReservationsCovered' /\ DebtsComeFromDrift'
  BY <1>1, <1>3, BoundsKept
<1> QED BY <1>1, <1>2, <1>4 DEF LedgerInv

LEMMA ItemGone ==
  ASSUME TypeOK, NEW i \in Items, UNCHANGED reservation,
         \/ items[i] = "active" /\ items' = Deleted(i)
         \/ items[i] = "billed" /\ items' = [items EXCEPT ![i] = "gone"]
  PROVE  /\ items' \in [Items -> ItemState]
         /\ reservation' \in [Items -> {"none", "held", "lapsed"}]
         /\ Active' \subseteq Active /\ Durable' \subseteq Durable
         /\ Outstanding' \subseteq Outstanding
<1>1. PICK s \in {"billed", "gone"} : items' = [items EXCEPT ![i] = s]
  BY DEF Deleted
<1>2. items[i] \in {"active", "billed"} /\ (items[i] = "billed" => s = "gone")
  BY <1>1 DEF TypeOK
<1> QED BY <1>1, <1>2
        DEF TypeOK, ItemState, Active, Billed, Durable, Outstanding

LEMMA DeletionKeeps ==
  ASSUME LedgerInv, NEW c \in Clients, NEW i \in Items,
         Delete(c, i) \/ DeleteObject(c, i)
  PROVE  LedgerInv'
<1>1. Goto(c, Owing) /\ UNCHANGED <<limit, usage, reservation, unseen, drifted>>
  BY DEF Delete, DeleteObject
<1>2. \/ items[i] = "active" /\ items' = Deleted(i)
      \/ items[i] = "billed" /\ items' = [items EXCEPT ![i] = "gone"]
  BY DEF Delete, DeleteObject
<1>3. TypeOK
  BY DEF LedgerInv
<1> QED BY <1>1, <1>2, <1>3, ItemGone, Places, PlaceNames, StepAway DEF TypeOK, AtTables

LEMMA BurnKeeps ==
  ASSUME LedgerInv, NEW i \in Items, Burn(i)
  PROVE  LedgerInv'
  BY ItemGone, StepAside DEF Burn, LedgerInv

LEMMA LapseKeeps ==
  ASSUME LedgerInv, NEW i \in Items, Lapse(i)
  PROVE  LedgerInv'
<1>1. /\ reservation[i] = "held"
      /\ reservation' = [reservation EXCEPT ![i] = "lapsed"]
      /\ UNCHANGED <<limit, items, usage, req, unseen, drifted>>
  BY DEF Lapse
<1>2. TypeOK
  BY DEF LedgerInv
<1>3. /\ Active' = Active /\ Durable' = Durable
      /\ Outstanding' \subseteq Outstanding
  BY <1>1, <1>2 DEF TypeOK, Active, Billed, Durable, Outstanding
<1>4. /\ items' \in [Items -> ItemState]
      /\ reservation' \in [Items -> {"none", "held", "lapsed"}]
  BY <1>1, <1>2 DEF TypeOK
<1> QED BY <1>1, <1>3, <1>4, StepAside

LEMMA UpdateQuotaKeeps ==
  ASSUME LedgerInv, NEW c \in Clients, NEW l \in Limits, UpdateQuota(c, l)
  PROVE  LedgerInv'
<1>1. /\ limit' = l
      /\ Goto(c, Owing)
      /\ UNCHANGED <<items, usage, reservation, unseen, drifted>>
  BY DEF UpdateQuota, ledger
<1>2. Active' = Active /\ Durable' = Durable /\ Outstanding' = Outstanding
  BY <1>1 DEF Active, Billed, Durable, Outstanding
<1>3. /\ items' \in [Items -> ItemState]
      /\ reservation' \in [Items -> {"none", "held", "lapsed"}]
  BY <1>1 DEF LedgerInv, TypeOK
<1> QED BY <1>1, <1>2, <1>3, Places, PlaceNames, StepAway DEF AtTables

LEMMA LoseKeysKeeps ==
  ASSUME LedgerInv, LoseKeys
  PROVE  LedgerInv'
<1>1. /\ usage' = Null
      /\ reservation' = [i \in Items |-> "none"]
      /\ UNCHANGED <<limit, items, req, unseen, drifted>>
  BY DEF LoseKeys
<1>2. TypeOK /\ TypeOK'
  BY <1>1 DEF LedgerInv, TypeOK
<1>3. /\ Active' = Active /\ Durable' = Durable
      /\ Outstanding' = {} /\ Charged' \subseteq Charged
  BY <1>1 DEF Active, Billed, Durable, Outstanding, Charged
<1>4. CountsCover'
  BY <1>1, <1>2, <1>3, CountsKept DEF LedgerInv
<1>5. ReservationsCovered' /\ DebtsComeFromDrift'
  BY <1>1, <1>3, NoneIsZero DEF ReservationsCovered, DebtsComeFromDrift
<1> QED BY <1>2, <1>4, <1>5 DEF LedgerInv

-----------------------------------------------------------------------------

LEMMA InitLedger ==
  ASSUME Init
  PROVE  LedgerInv
<1>1. TypeOK
  BY DEF Init, TypeOK, ItemState, Request, Idle
<1>2. Active = {} /\ Durable = {} /\ Outstanding = {} /\ Charged = {}
  BY DEF Init, Active, Billed, Durable, Outstanding, Charged
<1>3. CountsCover
  BY PlaceNames DEF Init, CountsCover, Counted, At
<1>4. ReservationsCovered /\ DebtsComeFromDrift
  BY <1>2, NoneIsZero, QuotaConstants
     DEF Init, ReservationsCovered, DebtsComeFromDrift
<1> QED BY <1>1, <1>3, <1>4 DEF LedgerInv

LEMMA NextLedger ==
  ASSUME LedgerInv, [Next]_vars
  PROVE  LedgerInv'
<1>1. CASE UNCHANGED vars
  <2>1. UNCHANGED <<limit, items, usage, reservation, req, unseen, drifted>>
    BY <1>1 DEF vars, ledger
  <2>2. Active' = Active /\ Durable' = Durable /\ Outstanding' = Outstanding
    BY <2>1 DEF Active, Billed, Durable, Outstanding
  <2>3. /\ items' \in [Items -> ItemState]
        /\ reservation' \in [Items -> {"none", "held", "lapsed"}]
    BY <2>1 DEF LedgerInv, TypeOK
  <2> QED BY <2>1, <2>2, <2>3, StepAside
<1>2. ASSUME NEW c \in Clients, NEW for \in {"reserve", "reconcile"},
             CountActive(c, for)
      PROVE  LedgerInv'
  BY <1>2, CountActiveKeeps
<1>3. ASSUME NEW c \in Clients, NEW next \in {"stored", "failing"},
             Store(c, next)
      PROVE  LedgerInv'
  BY <1>3, StoreKeeps
<1>4. ASSUME NEW c \in Clients,
             \/ CountPending(c) \/ Reconcile(c) \/ ReadLimit(c) \/ Refuse(c)
             \/ Fail(c) \/ Commit(c) \/ CommitFails(c) \/ Release(c) \/ Crash(c)
      PROVE  LedgerInv'
  BY <1>4, CountPendingKeeps, ReconcileKeeps, ReadLimitKeeps, RefuseKeeps, FailKeeps,
     CommitKeeps, CommitFailsKeeps, ReleaseKeeps, CrashKeeps
<1>5. ASSUME NEW c \in Clients, NEW i \in Items,
             Reserve(c, i) \/ Delete(c, i) \/ DeleteObject(c, i)
      PROVE  LedgerInv'
  BY <1>5, ReserveKeeps, DeletionKeeps
<1>6. ASSUME NEW i \in Items, Burn(i) \/ StoreByAdmin(i) \/ Lapse(i) \/ Reap(i)
      PROVE  LedgerInv'
  BY <1>6, BurnKeeps, StoreByAdminKeeps, LapseKeeps, ReapKeeps
<1>7. CASE LoseKeys
  BY <1>7, LoseKeysKeeps
<1>8. ASSUME NEW c \in Clients, NEW l \in Limits, UpdateQuota(c, l)
      PROVE  LedgerInv'
  BY <1>8, UpdateQuotaKeeps
<1> QED BY <1>1, <1>2, <1>3, <1>4, <1>5, <1>6, <1>7, <1>8 DEF Next

THEOREM LedgerInvariant == Spec => []LedgerInv
<1>1. Init => LedgerInv
  BY InitLedger
<1>2. LedgerInv /\ [Next]_vars => LedgerInv'
  BY NextLedger
<1> QED BY <1>1, <1>2, PTL DEF Spec

-----------------------------------------------------------------------------
(* What follows of it *)

\* quota_service.py keeps the counter a number of units, never below zero.
THEOREM CounterTypeCorrect == Spec => []TypeOK
<1>1. LedgerInv => TypeOK
  BY DEF LedgerInv
<1> QED BY <1>1, LedgerInvariant, PTL

\* _RELEASE, _COMMIT, _RECONCILE and the reaper, in any order and any number:
\* the counter covers every reservation that can still be given back.
THEOREM EveryReservationCovered == Spec => []ReservationsCovered
<1>1. LedgerInv => ReservationsCovered
  BY DEF LedgerInv
<1> QED BY <1>1, LedgerInvariant, PTL

\* The four ways of DebtsComeFromDrift are all there are: short of them, the
\* counter of Redis covers the tables of PostgreSQL.
THEOREM DebtsOnlyByDrift == Spec => []DebtsComeFromDrift
<1>1. LedgerInv => DebtsComeFromDrift
  BY DEF LedgerInv
<1> QED BY <1>1, LedgerInvariant, PTL

\* What WithinLimit says of one step.
ChargesWithin ==
  ~drifted' =>
    \/ Charged' \subseteq Charged
    \/ Cardinality(Charged') <= limit'
    \/ \E c \in Clients : /\ At(c, "limited") /\ limit < req[c].limit
                         /\ Cardinality(Charged') <= req[c].limit

\* The counter that _RESERVE compares with the limit covers every charge.
LEMMA ReserveWithin ==
  ASSUME LedgerInv, LedgerInv', NEW c \in Clients, NEW i \in Items,
         Reserve(c, i), ~drifted'
  PROVE  \/ Cardinality(Charged') <= limit'
         \/ /\ At(c, "limited") /\ limit < req[c].limit
            /\ Cardinality(Charged') <= req[c].limit
<1>1. /\ At(c, "limited")
      /\ Base(c) + 1 <= req[c].limit
      /\ usage' = Base(c) + 1
      /\ limit' = limit
  BY DEF Reserve, Fits
<1>2. Base(c) \in Nat
  BY <1>1, BaseCovers
<1>3. usage' \in Nat /\ usage' # Null
  BY <1>1, <1>2, QuotaConstants
<1>4. Cardinality(Charged') <= usage'
  BY <1>3 DEF LedgerInv, DebtsComeFromDrift
<1>5. Charged' \in SUBSET Items
  BY DEF LedgerInv, TypeOK, Charged, Durable, Active, Billed, Outstanding
<1>6. Cardinality(Charged') \in Nat
  BY <1>5, Sizes
<1>7. limit \in Nat /\ req[c].limit \in Nat
  BY <1>1, RequestFields, QuotaConstants DEF LedgerInv, TypeOK
<1> QED BY <1>1, <1>2, <1>3, <1>4, <1>6, <1>7

\* No other step adds a charge, short of drift.
LEMMA OthersCharge ==
  ASSUME LedgerInv, [Next]_vars, ~drifted',
         \A c \in Clients, i \in Items : ~Reserve(c, i)
  PROVE  Charged' \subseteq Charged
<1>0. TypeOK
  BY DEF LedgerInv
<1>1. CASE UNCHANGED <<items, reservation>>
  BY <1>1 DEF Charged, Durable, Active, Billed, Outstanding
<1>2. ASSUME NEW c \in Clients, NEW next \in {"stored", "failing"},
             Store(c, next)
      PROVE  Charged' \subseteq Charged
  <2>1. At(c, "held") /\ req[c].item \in Items
    BY <1>0, <1>2, RequestFields DEF Store, At
  <2>2. PICK i \in Items : i = req[c].item
    BY <2>1
  <2>3. /\ items' = [items EXCEPT ![i] = "active"]
        /\ reservation' = reservation
        /\ reservation[i] # "none"
    BY <1>2, <2>2 DEF Store
  <2> QED BY <1>0, <2>3 DEF TypeOK, Charged, Durable, Active, Billed, Outstanding
<1>3. ASSUME NEW i \in Items, reservation' = [reservation EXCEPT ![i] = "none"],
             UNCHANGED items
      PROVE  Charged' \subseteq Charged
  BY <1>0, <1>3 DEF TypeOK, Charged, Durable, Active, Billed, Outstanding
<1>4. ASSUME NEW c \in Clients, Commit(c) \/ Release(c)
      PROVE  Charged' \subseteq Charged
  <2>1. req[c].item \in Items
    BY <1>0, <1>4, RequestFields DEF Commit, Release, At
  <2> QED BY <1>3, <1>4, <2>1 DEF Commit, Release, ReleaseItem, Dropped
<1>5. ASSUME NEW i \in Items, Reap(i)
      PROVE  Charged' \subseteq Charged
  BY <1>3, <1>5 DEF Reap, ReleaseItem, Dropped
<1>6. ASSUME NEW i \in Items, Lapse(i)
      PROVE  Charged' \subseteq Charged
  BY <1>0, <1>6 DEF Lapse, TypeOK, Charged, Durable, Active, Billed, Outstanding
<1>7. CASE LoseKeys
  BY <1>7 DEF LoseKeys, Charged, Durable, Active, Billed, Outstanding
<1>8. ASSUME NEW i \in Items, UNCHANGED reservation,
             \/ items[i] = "active" /\ items' = Deleted(i)
             \/ items[i] = "billed" /\ items' = [items EXCEPT ![i] = "gone"]
      PROVE  Charged' \subseteq Charged
  BY <1>0, <1>8, ItemGone DEF Charged
<1>9. ASSUME NEW i \in Items, Burn(i) \/ \E c \in Clients : Delete(c, i) \/ DeleteObject(c, i)
      PROVE  Charged' \subseteq Charged
  BY <1>8, <1>9 DEF Burn, Delete, DeleteObject
<1>10. ASSUME NEW c \in Clients,
              \/ \E for \in {"reserve", "reconcile"} : CountActive(c, for)
              \/ CountPending(c) \/ Reconcile(c) \/ ReadLimit(c) \/ Refuse(c)
              \/ Fail(c) \/ CommitFails(c) \/ Crash(c)
              \/ \E l \in Limits : UpdateQuota(c, l)
       PROVE  Charged' \subseteq Charged
  BY <1>1, <1>10 DEF CountActive, CountPending, Reconcile, ReadLimit, Refuse, Fail,
     CommitFails, Crash, UpdateQuota, ledger
<1>11. CASE UNCHANGED vars
  BY <1>1, <1>11 DEF vars, ledger
<1>12. ASSUME NEW i \in Items
       PROVE  ~StoreByAdmin(i)
  BY DEF StoreByAdmin
<1> QED BY <1>2, <1>4, <1>5, <1>6, <1>7, <1>9, <1>10, <1>11, <1>12 DEF Next

\* _RESERVE and limits_for_user admit no more than the limit, or than the one
\* the request has read before it was lowered, whatever its callers have
\* counted, unless one of those came first.
THEOREM LimitKept == Spec => WithinLimit
<1>1. ASSUME LedgerInv, LedgerInv', [Next]_vars
      PROVE  ChargesWithin
  <2> SUFFICES ASSUME ~drifted'
               PROVE  \/ Charged' \subseteq Charged
                      \/ Cardinality(Charged') <= limit'
                      \/ \E c \in Clients :
                           /\ At(c, "limited") /\ limit < req[c].limit
                           /\ Cardinality(Charged') <= req[c].limit
    BY DEF ChargesWithin
  <2>1. CASE \E c \in Clients, i \in Items : Reserve(c, i)
    BY <1>1, <2>1, ReserveWithin
  <2>2. CASE \A c \in Clients, i \in Items : ~Reserve(c, i)
    BY <1>1, <2>2, OthersCharge
  <2> QED BY <2>1, <2>2
<1>2. LedgerInv /\ LedgerInv' /\ [Next]_vars => [ChargesWithin]_vars
  BY <1>1
<1>3. Spec => [][ChargesWithin]_vars
  BY <1>2, LedgerInvariant, PTL DEF Spec
<1> QED BY <1>3 DEF WithinLimit, ChargesWithin

-----------------------------------------------------------------------------
(* The refinement of ObjectBilling *)

\* A row that a request is about to insert is not there yet, and nobody else
\* is about to insert it.
HeldPending ==
  \A c \in Clients : At(c, "held") =>
    /\ items[req[c].item] = "pending"
    /\ \A d \in Clients : At(d, "held") /\ req[d].item = req[c].item => d = c

\* The others are where they were and c is not about to insert a row.
LEMMA HeldKept ==
  ASSUME TypeOK, HeldPending, NEW c \in Clients, req'[c].pc # "held",
         \A d \in Clients : d # c => req'[d] = req[d],
         \A i \in Items : items[i] = "pending" /\ (req[c].pc = "held" => req[c].item # i)
                            => items'[i] = "pending"
  PROVE  HeldPending'
<1>1. \A d \in Clients : At(d, "held") => req[d].item \in Items
  BY RequestFields DEF At
<1> QED BY <1>1 DEF HeldPending, At

LEMMA HeldStays ==
  ASSUME TypeOK, HeldPending, req' = req,
         \A i \in Items : items[i] = "pending" => items'[i] = "pending"
  PROVE  HeldPending'
<1>1. \A d \in Clients : At(d, "held") => req[d].item \in Items
  BY RequestFields DEF At
<1> QED BY <1>1 DEF HeldPending, At

LEMMA HeldReserved ==
  ASSUME TypeOK, HeldPending, NEW c \in Clients, NEW i \in Items, Reserve(c, i)
  PROVE  HeldPending'
<1> DEFINE r == [pc |-> "held", item |-> i]
<1>1. req' = [req EXCEPT ![c] = r] /\ items[i] = "new"
      /\ items' = [items EXCEPT ![i] = "pending"]
  BY DEF Reserve, Goto
<1>2. r.pc = "held" /\ r.item = i
  OBVIOUS
<1> HIDE DEF r
<1>3. req'[c] = r /\ \A d \in Clients : d # c => req'[d] = req[d]
  BY <1>1 DEF TypeOK
<1>4. items'[i] = "pending" /\ \A j \in Items : j # i => items'[j] = items[j]
  BY <1>1 DEF TypeOK
<1>5. \A d \in Clients : At(d, "held") => req[d].item \in Items /\ req[d].item # i
  BY <1>1, RequestFields DEF At, HeldPending
<1> QED BY <1>2, <1>3, <1>4, <1>5 DEF HeldPending, At

LEMMA HeldStep ==
  ASSUME TypeOK, HeldPending, [Next]_vars
  PROVE  HeldPending'
<1>1. ASSUME NEW c \in Clients, NEW next \in {"stored", "failing"}, Store(c, next)
      PROVE  HeldPending'
  <2>1. PICK i \in Items : i = req[c].item
    BY <1>1, RequestFields DEF Store, At
  <2>2. /\ req[c].pc = "held" /\ items' = [items EXCEPT ![i] = "active"]
        /\ req' = [req EXCEPT ![c] = [pc |-> next, item |-> i]]
    BY <1>1, <2>1 DEF Store, Goto, At
  <2>3. req'[c].pc # "held" /\ \A d \in Clients : d # c => req'[d] = req[d]
    BY <2>2 DEF TypeOK
  <2>4. \A j \in Items : j # i => items'[j] = items[j]
    BY <2>2 DEF TypeOK
  <2> QED BY <1>1, <2>1, <2>2, <2>3, <2>4, HeldKept
<1>2. ASSUME NEW c \in Clients,
             \/ \E for \in {"reserve", "reconcile"} : CountActive(c, for)
             \/ CountPending(c) \/ ReadLimit(c) \/ Fail(c)
      PROVE  HeldPending'
  <2>1. /\ req'[c].pc # "held" /\ \A d \in Clients : d # c => req'[d] = req[d]
        /\ items' = items
    BY <1>2 DEF CountActive, CountPending, ReadLimit, Fail, ledger, Goto, TypeOK
  <2> QED BY <1>2, <2>1, HeldKept
<1>3. ASSUME NEW c \in Clients,
             \/ Reconcile(c) \/ Refuse(c) \/ Commit(c) \/ CommitFails(c)
             \/ Release(c) \/ Crash(c) \/ \E l \in Limits : UpdateQuota(c, l)
      PROVE  HeldPending'
  <2>1. /\ req'[c].pc # "held" /\ \A d \in Clients : d # c => req'[d] = req[d]
        /\ items' = items
    BY <1>3, PlaceNames DEF Reconcile, Refuse, Commit, CommitFails, Release, Crash,
       UpdateQuota, ledger, Goto, TypeOK
  <2> QED BY <1>3, <2>1, HeldKept
<1>4. ASSUME NEW c \in Clients, NEW i \in Items, Delete(c, i) \/ DeleteObject(c, i)
      PROVE  HeldPending'
  <2>1. req'[c].pc # "held" /\ \A d \in Clients : d # c => req'[d] = req[d]
    BY <1>4, PlaceNames DEF Delete, DeleteObject, Goto, TypeOK
  <2>2. items[i] # "pending" /\ \A j \in Items : j # i => items'[j] = items[j]
    BY <1>4 DEF Delete, DeleteObject, Deleted, TypeOK
  <2> QED BY <1>4, <2>1, <2>2, HeldKept
<1>5. ASSUME NEW i \in Items, Burn(i) \/ StoreByAdmin(i)
      PROVE  HeldPending'
  <2>1. /\ items[i] # "pending" /\ req' = req
        /\ \A j \in Items : j # i => items'[j] = items[j]
    BY <1>5 DEF Burn, StoreByAdmin, Deleted, TypeOK
  <2> QED BY <2>1, HeldStays
<1>6. ASSUME \/ \E i \in Items : Lapse(i) \/ Reap(i)
             \/ LoseKeys \/ UNCHANGED vars
      PROVE  HeldPending'
  BY <1>6, HeldStays DEF Lapse, Reap, LoseKeys, vars, ledger
<1> QED BY <1>1, <1>2, <1>3, <1>4, <1>5, <1>6, HeldReserved DEF Next

\* The bill as Billing sees it.
ItemBill(i) ==
  CASE items[i] \in {"new", "pending"} -> "absent"
    [] items[i] = "active"            -> "active"
    [] items[i] = "billed"            -> "owed"
    [] items[i] = "gone"              -> "settled"
Bill == [i \in Items |-> ItemBill(i)]

LEMMA BillUnseen ==
  ASSUME Bill' = Bill, Durable' = Durable
  PROVE  UNCHANGED Billing!vars
  BY DEF Billing!vars, Bill, ItemBill

LEMMA Mapped ==
  /\ \A i : Billing!Publish(i) <=>
       /\ Bill[i] = "absent" /\ Bill' = [Bill EXCEPT ![i] = "active"]
       /\ Durable' \in {Durable, Durable \cup {i}}
  /\ \A S : Billing!Delete(S) <=>
       /\ \A i \in S : Bill[i] = "active"
       /\ Bill' = [i \in Items |-> IF i \in S THEN "owed" ELSE Bill[i]]
       /\ Durable' = Durable
  /\ \A i : Billing!Settle(i) <=>
       /\ Bill[i] = "owed" /\ Bill' = [Bill EXCEPT ![i] = "settled"]
       /\ Durable' = Durable \ {i}
  BY DEF Billing!Publish, Billing!Delete, Billing!Settle, Bill, ItemBill

\* One item moves.
LEMMA BillMoves ==
  ASSUME TypeOK, NEW i \in Items, NEW x \in ItemState,
         items' = [items EXCEPT ![i] = x]
  PROVE  /\ \A j \in Items : j # i => ItemBill(j)' = ItemBill(j)
         /\ x = "pending" => ItemBill(i)' = "absent"
         /\ x = "active" => ItemBill(i)' = "active"
         /\ x = "billed" => ItemBill(i)' = "owed"
         /\ x = "gone" => ItemBill(i)' = "settled"
         /\ x \in {"active", "billed"} => Durable' = Durable \cup {i}
         /\ x \notin {"active", "billed"} => Durable' = Durable \ {i}
<1>1. items'[i] = x /\ \A j \in Items : j # i => items'[j] = items[j]
  BY DEF TypeOK
<1>2. \A j \in Items : j # i => ItemBill(j)' = ItemBill(j)
  BY <1>1 DEF ItemBill
<1>3. /\ x = "pending" => ItemBill(i)' = "absent"
      /\ x = "active" => ItemBill(i)' = "active"
      /\ x = "billed" => ItemBill(i)' = "owed"
      /\ x = "gone" => ItemBill(i)' = "settled"
  BY <1>1 DEF ItemBill
<1>4. /\ x \in {"active", "billed"} => Durable' = Durable \cup {i}
      /\ x \notin {"active", "billed"} => Durable' = Durable \ {i}
  BY <1>1 DEF Durable, Active, Billed
<1> QED BY <1>2, <1>3, <1>4

LEMMA BillStored ==
  ASSUME TypeOK, NEW i \in Items, items[i] \in {"new", "pending"},
         items' = [items EXCEPT ![i] = "active"]
  PROVE  Billing!Next
<1>1. "active" \in ItemState
  BY DEF ItemState
<1>2. /\ \A j \in Items : j # i => ItemBill(j)' = ItemBill(j)
      /\ ItemBill(i)' = "active" /\ Durable' = Durable \cup {i}
  BY <1>1, BillMoves
<1>3. Bill[i] = "absent"
  BY DEF Bill, ItemBill
<1>4. Bill' = [Bill EXCEPT ![i] = "active"]
  BY <1>2 DEF Bill
<1>5. Billing!Publish(i)
  BY <1>2, <1>3, <1>4, Mapped
<1> QED BY <1>5 DEF Billing!Next

\* Only the ledger of bytes keeps a deleted item on the bill.
LEMMA BillDeleted ==
  ASSUME IsBytes, TypeOK, NEW i \in Items, items[i] = "active", items' = Deleted(i)
  PROVE  Billing!Next
<1>1. items' = [items EXCEPT ![i] = "billed"] /\ "billed" \in ItemState
  BY DEF Deleted, ItemState
<1>2. /\ \A j \in Items : j # i => ItemBill(j)' = ItemBill(j)
      /\ ItemBill(i)' = "owed" /\ Durable' = Durable \cup {i}
  BY <1>1, BillMoves
<1>3. Bill[i] = "active" /\ i \in Durable
  BY DEF Bill, ItemBill, Durable, Active
<1>4. Bill' = [j \in Items |-> IF j \in {i} THEN "owed" ELSE Bill[j]]
  BY <1>2 DEF Bill
<1>5. Billing!Delete({i})
  BY <1>2, <1>3, <1>4, Mapped
<1> QED BY <1>5 DEF Billing!Next

LEMMA BillSettled ==
  ASSUME TypeOK, NEW i \in Items, items[i] = "billed",
         items' = [items EXCEPT ![i] = "gone"]
  PROVE  Billing!Next
<1>1. "gone" \in ItemState
  BY DEF ItemState
<1>2. /\ \A j \in Items : j # i => ItemBill(j)' = ItemBill(j)
      /\ ItemBill(i)' = "settled" /\ Durable' = Durable \ {i}
  BY <1>1, BillMoves
<1>3. Bill[i] = "owed"
  BY DEF Bill, ItemBill
<1>4. Bill' = [Bill EXCEPT ![i] = "settled"]
  BY <1>2 DEF Bill
<1>5. Billing!Settle(i)
  BY <1>2, <1>3, <1>4, Mapped
<1> QED BY <1>5 DEF Billing!Next

LEMMA BillReserved ==
  ASSUME TypeOK, NEW i \in Items, items[i] = "new",
         items' = [items EXCEPT ![i] = "pending"]
  PROVE  UNCHANGED Billing!vars
<1>1. "pending" \in ItemState
  BY DEF ItemState
<1>2. /\ \A j \in Items : j # i => ItemBill(j)' = ItemBill(j)
      /\ ItemBill(i)' = "absent" /\ Durable' = Durable \ {i}
  BY <1>1, BillMoves
<1>3. ItemBill(i) = "absent" /\ i \notin Durable
  BY DEF ItemBill, Durable, Active, Billed
<1>4. Bill' = Bill
  BY <1>2, <1>3 DEF Bill
<1> QED BY <1>2, <1>3, <1>4, BillUnseen

LEMMA BillingInit == Init => Billing!Init
<1> SUFFICES ASSUME Init PROVE Billing!Init
  OBVIOUS
<1>1. Bill = [i \in Items |-> "absent"] /\ Durable = {}
  BY DEF Init, Bill, ItemBill, Durable, Active, Billed
<1> QED BY <1>1 DEF Billing!Init, Bill, ItemBill

LEMMA BillingStep ==
  ASSUME IsBytes, TypeOK, HeldPending, [Next]_vars
  PROVE  [Billing!Next]_(Billing!vars)
<1>1. ASSUME items' = items PROVE UNCHANGED Billing!vars
  <2>1. Bill' = Bill /\ Durable' = Durable
    BY <1>1 DEF Bill, ItemBill, Durable, Active, Billed
  <2> QED BY <2>1, BillUnseen
<1>2. ASSUME NEW c \in Clients,
             \/ \E for \in {"reserve", "reconcile"} : CountActive(c, for)
             \/ CountPending(c) \/ Reconcile(c) \/ ReadLimit(c) \/ Refuse(c)
             \/ Fail(c) \/ Commit(c) \/ CommitFails(c) \/ Release(c) \/ Crash(c)
             \/ \E l \in Limits : UpdateQuota(c, l)
      PROVE  UNCHANGED Billing!vars
  BY <1>1, <1>2 DEF CountActive, CountPending, Reconcile, ReadLimit, Refuse, Fail,
     Commit, CommitFails, Release, Crash, UpdateQuota, ledger
<1>3. ASSUME \/ \E i \in Items : Lapse(i) \/ Reap(i)
             \/ LoseKeys \/ UNCHANGED vars
      PROVE  UNCHANGED Billing!vars
  BY <1>1, <1>3 DEF Lapse, Reap, LoseKeys, vars, ledger
<1>4. ASSUME NEW c \in Clients, NEW next \in {"stored", "failing"}, Store(c, next)
      PROVE  Billing!Next
  <2>1. PICK i \in Items : i = req[c].item
    BY <1>4, RequestFields DEF Store, At
  <2>2. items[i] = "pending" /\ items' = [items EXCEPT ![i] = "active"]
    BY <1>4, <2>1 DEF Store, HeldPending
  <2> QED BY <2>2, BillStored
<1>5. ASSUME NEW i \in Items, StoreByAdmin(i) PROVE Billing!Next
  BY <1>5, BillStored DEF StoreByAdmin
<1>6. ASSUME NEW i \in Items, Burn(i) \/ \E c \in Clients : Delete(c, i)
      PROVE  Billing!Next
  BY <1>6, BillDeleted DEF Burn, Delete
<1>7. ASSUME NEW i \in Items, NEW c \in Clients, DeleteObject(c, i)
      PROVE  Billing!Next
  BY <1>7, BillSettled DEF DeleteObject
<1>8. ASSUME NEW i \in Items, NEW c \in Clients, Reserve(c, i)
      PROVE  UNCHANGED Billing!vars
  BY <1>8, BillReserved DEF Reserve
<1> QED BY <1>2, <1>3, <1>4, <1>5, <1>6, <1>7, <1>8 DEF Next

\* The ledger of file bytes bills by the same rules as FileObjects, whatever
\* its reservations, counts and crashes do: a row enters the bill once, and
\* leaves it only when its object has left the bucket.
THEOREM BytesBilledAsKept == ASSUME IsBytes PROVE Spec => KeepsBilling
<1>1. Init => HeldPending
  BY DEF Init, HeldPending, At, Idle
<1>2. LedgerInv /\ HeldPending /\ [Next]_vars => HeldPending'
  BY HeldStep DEF LedgerInv
<1>3. LedgerInv /\ HeldPending /\ [Next]_vars => [Billing!Next]_(Billing!vars)
  BY BillingStep DEF LedgerInv
<1>4. Spec => Billing!Spec
  BY <1>1, <1>2, <1>3, BillingInit, LedgerInvariant, PTL DEF Spec, Billing!Spec
<1> QED BY <1>4 DEF KeepsBilling
=============================================================================
