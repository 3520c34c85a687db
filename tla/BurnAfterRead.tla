---------------------------- MODULE BurnAfterRead ----------------------------
(***************************************************************************)
(* What the service promises about one text secret, without keys, rows,    *)
(* policies or transactions.  A secret is stored once with a budget of     *)
(* views; each reveal spends one view and shows the current text; the      *)
(* reveal that spends the last view removes the secret; an edit replaces   *)
(* the text without touching the budget; and a secret that is gone never   *)
(* comes back.  SecretStore is shown to implement this specification.      *)
(***************************************************************************)
EXTENDS Naturals

CONSTANTS
  Secrets,   \* identifiers of secrets
  Texts,     \* plaintexts
  Null,      \* the text of a secret that is not stored
  MaxViews   \* the largest budget of views

VARIABLES
  status,    \* where each secret is in its life
  left,      \* views each secret still allows
  text       \* the plaintext a reveal shows

vars == <<status, left, text>>

Init ==
  /\ status = [s \in Secrets |-> "absent"]
  /\ left   = [s \in Secrets |-> 0]
  /\ text   = [s \in Secrets |-> Null]

Store(s, n, t) ==
  /\ status[s] = "absent"
  /\ status' = [status EXCEPT ![s] = "live"]
  /\ left'   = [left EXCEPT ![s] = n]
  /\ text'   = [text EXCEPT ![s] = t]

\* A reveal that is not the last one.
Reveal(s) ==
  /\ status[s] = "live"
  /\ left[s] > 1
  /\ left' = [left EXCEPT ![s] = @ - 1]
  /\ UNCHANGED <<status, text>>

\* Secrets leave together (a sweep) or alone (the last view, a deletion).
Gone(S) ==
  /\ S # {}
  /\ \A s \in S : status[s] = "live"
  /\ status' = [s \in Secrets |-> IF s \in S THEN "gone" ELSE status[s]]
  /\ left'   = [s \in Secrets |-> IF s \in S THEN 0 ELSE left[s]]
  /\ text'   = [s \in Secrets |-> IF s \in S THEN Null ELSE text[s]]

\* The reveal of the last view burns the secret.
Burn(s) == left[s] = 1 /\ Gone({s})

Edit(s, t) ==
  /\ status[s] = "live"
  /\ text' = [text EXCEPT ![s] = t]
  /\ UNCHANGED <<status, left>>

Next ==
  \/ \E s \in Secrets :
       \/ \E n \in 1..MaxViews, t \in Texts : Store(s, n, t)
       \/ Reveal(s)
       \/ Burn(s)
       \/ \E t \in Texts : Edit(s, t)
  \/ \E S \in SUBSET Secrets : Gone(S)

Spec == Init /\ [][Next]_vars
=============================================================================
