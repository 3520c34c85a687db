---------------------------- MODULE ObjectBilling ----------------------------
(***************************************************************************)
(* Who pays for an object.  An object is billed to its owner from the      *)
(* moment a version names it, and after its secret is gone until it has    *)
(* left the bucket; it is paid off once and never comes back.  FileObjects *)
(* implements this with uploads, tables and clean-ups, and QuotaLedger     *)
(* bills by it.                                                            *)
(***************************************************************************)
CONSTANT Objects

VARIABLES
  bill,    \* where each object is on its owner's bill
  stored   \* the objects in the bucket

vars == <<bill, stored>>

Init ==
  /\ bill = [o \in Objects |-> "absent"]
  /\ stored = {}

\* Only before it is billed.
Upload(o) ==
  /\ bill[o] = "absent"
  /\ stored' = stored \cup {o}
  /\ UNCHANGED bill

Publish(o) ==
  /\ bill[o] = "absent"
  /\ bill' = [bill EXCEPT ![o] = "active"]
  /\ stored' \in {stored, stored \cup {o}}

\* All versions of a secret go together, and secrets in a sweep.
Delete(S) ==
  /\ \A o \in S : bill[o] = "active"
  /\ bill' = [o \in Objects |-> IF o \in S THEN "owed" ELSE bill[o]]
  /\ UNCHANGED stored

Remove(o) ==
  /\ stored' = stored \ {o}
  /\ UNCHANGED bill

Settle(o) ==
  /\ bill[o] = "owed"
  /\ bill' = [bill EXCEPT ![o] = "settled"]
  /\ stored' = stored \ {o}

Next ==
  \/ \E o \in Objects : Upload(o) \/ Publish(o) \/ Remove(o) \/ Settle(o)
  \/ \E S \in SUBSET Objects : Delete(S)

Spec == Init /\ [][Next]_vars
=============================================================================
