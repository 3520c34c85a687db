--------------------------- MODULE MCLocationGate ---------------------------
(***************************************************************************)
(* An instance of LocationGate for TLC: every policy over one network and  *)
(* one country, two addresses.                                             *)
(***************************************************************************)
EXTENDS LocationGate

CONSTANTS near, far,                 \* addresses
          XX, YY                     \* countries

MCNormalizeIp == [t \in {near, far} |-> t]

MCPolicies ==
  {p \in Policy : p.cidrs \in {{}, {{near}}} /\ p.countries \in {{}, {XX}}}

\* No file; a file that knows one address, rightly or wrongly.
MCDatabases ==
  {[a \in {near, far} |-> Null], [a \in {near, far} |-> IF a = near THEN XX ELSE Null],
   [a \in {near, far} |-> IF a = near THEN YY ELSE XX]}
=============================================================================
