---------------------------- MODULE LocationGate ----------------------------
(***************************************************************************)
(* The location policy before a secret: evaluate and authorize of          *)
(* location_policy_service.py, and the requests that pass them while the   *)
(* owner replaces the policy.                                              *)
(*                                                                         *)
(*   text secret:  Authorize -> StartStatement -> View                     *)
(*   file:         Authorize -> LoadFile -> StartStatement -> View         *)
(*                                                                         *)
(* authorize reads the policy on a connection of its own; the handler      *)
(* reads only its version again.                                           *)
(***************************************************************************)
EXTENDS ClientAddress

CONSTANTS
  Visits,
  Countries,
  Policies,     \* the location policies an owner may choose
  Databases,    \* GeoIP: the country of each address; Null without a file
  MaxPolicies   \* bound

\* A network is the set of its addresses.
Policy == [cidrs      : SUBSET SUBSET Addresses,
           countries  : SUBSET Countries,
           mode       : {"all", "any"},
           failClosed : BOOLEAN]

ASSUME GateConstants ==
  /\ Policies \subseteq Policy
  /\ Null \notin Countries
  /\ Databases \subseteq [Addresses -> Countries \cup {Null}]
  /\ MaxPolicies \in Nat

VARIABLES
  policies,  \* secret_access_policies: the policy with each policy_version
  visit      \* what is known of each request

gateVars == <<policies, visit>>

-----------------------------------------------------------------------------
(* evaluate *)

\* country_for_ip: asked only by a policy that lists countries.
CountryGuessed(p, ip, d) ==                          \* fault: no None
  IF ip \in Addresses THEN d[ip] ELSE ip
CountryForIp(p, ip, d) ==
  IF p.countries # {} /\ ip \in Addresses THEN d[ip] ELSE Null

\* One check for each list that is not empty.  Without a country the second
\* one passes.
Listed(p, ip) == \E network \in p.cidrs : ip \in network
Known(p, country) == country \in p.countries \cup {Null}

Checks(p, ip, country) == (IF p.cidrs = {} THEN {} ELSE {Listed(p, ip)})
                            \cup (IF p.countries = {} THEN {} ELSE {Known(p, country)})

Evaluate(p, ip, country) ==
  \/ p.cidrs = {} /\ p.countries = {}
  \/ /\ ip \in Addresses
     /\ ~(p.countries # {} /\ country = Null /\ p.failClosed)
     /\ IF p.mode = "all" THEN FALSE \notin Checks(p, ip, country)
                          ELSE TRUE \in Checks(p, ip, country)

-----------------------------------------------------------------------------
(* Types *)

Stage == {"new", "arrived", "allowed", "loaded", "reading", "denied", "served"}

Visit ==
  [pc      : Stage,
   file    : BOOLEAN,
   ip      : ClientIps,                \* request.state.client_ip
   link    : Nat,                      \* version its token is signed for, or 0
   country : Countries \cup {Null},
   version : Nat,                      \* what authorize returned
   locked  : Nat]                      \* version in the snapshot of the lock

GateTypeOK ==
  /\ policies \in Seq(Policies)
  /\ visit \in [Visits -> Visit]
  /\ \A r \in Visits : {visit[r].link, visit[r].version, visit[r].locked}
                           \subseteq 0..Len(policies)

Stands(r, pc) == visit[r].pc = pc

GateInit ==
  /\ policies \in {<<p>> : p \in Policies}
  /\ visit = [r \in Visits |->
       [pc |-> "new", file |-> FALSE, ip |-> Unknown, link |-> 0, country |-> Null,
        version |-> 0, locked |-> 0]]

-----------------------------------------------------------------------------
(* One request *)

\* With the address of resolve_client_ip, and a share link of any age or none.
Enter(r, file, ip, link) ==
  /\ Stands(r, "new")
  /\ visit' = [visit EXCEPT ![r] =
       [@ EXCEPT !.pc = "arrived", !.file = file, !.ip = ip, !.link = link]]
  /\ UNCHANGED policies

\* A token is checked against the version, and only if there is one.
LinkCurrent(link, version) == link \in {0, version}

\* authorize, with the GeoIP file d that is in place at that time.
Authorize(r, d) ==
  LET v == Len(policies)
      country == CountryForIp(policies[v], visit[r].ip, d)
  IN
  /\ Stands(r, "arrived")
  /\ visit' = [visit EXCEPT ![r] =
       [@ EXCEPT !.pc = IF /\ LinkCurrent(visit[r].link, v)
                           /\ Evaluate(policies[v], visit[r].ip, country)
                        THEN "allowed" ELSE "denied",
                 !.country = country, !.version = v]]
  /\ UNCHANGED policies

SameVersion(r, version) == visit[r].version = version

\* download_file reads the row once before it fetches the object, which takes
\* its time, and once more under the lock.
LoadFile(r) ==
  /\ Stands(r, "allowed") /\ visit[r].file
  /\ visit' = [visit EXCEPT ![r] =
       [@ EXCEPT !.pc = IF SameVersion(r, Len(policies)) THEN "loaded" ELSE "denied"]]
  /\ UNCHANGED policies

\* The snapshot of SELECT ... FOR UPDATE OF s, which does not lock the policy.
StartStatement(r) ==
  /\ IF visit[r].file THEN Stands(r, "loaded") ELSE Stands(r, "allowed")
  /\ visit' = [visit EXCEPT ![r] = [@ EXCEPT !.pc = "reading", !.locked = Len(policies)]]
  /\ UNCHANGED policies

\* The row is locked.  The rest of the handler is SecretStore's.
ViewUnchecked(r) ==                                  \* fault: no second look
  /\ Stands(r, "reading")
  /\ visit' = [visit EXCEPT ![r].pc = "served"]
  /\ UNCHANGED policies
View(r) ==
  /\ Stands(r, "reading")
  /\ visit' = [visit EXCEPT ![r].pc =
               IF SameVersion(r, visit[r].locked) THEN "served" ELSE "denied"]
  /\ UNCHANGED policies

-----------------------------------------------------------------------------
(* The owner *)

UpdateLocationPolicy(p) ==
  /\ Len(policies) < MaxPolicies
  /\ policies' = Append(policies, p)
  /\ UNCHANGED visit

GateNext ==
  \/ \E r \in Visits :
       \/ \E file \in BOOLEAN, ip \in ClientIps, link \in 0..Len(policies) :
            Enter(r, file, ip, link)
       \/ \E d \in Databases : Authorize(r, d)
       \/ LoadFile(r) \/ StartStatement(r) \/ View(r)
  \/ \E p \in Policies : UpdateLocationPolicy(p)

GateSpec == GateInit /\ [][GateNext]_gateVars

-----------------------------------------------------------------------------
(* Safety *)

\* A place that a policy admits, and what is known of it.
InPlace(p, ip, country) ==
  LET listed  == \E network \in p.cidrs : ip \in network
      located == IF country = Null THEN ~p.failClosed ELSE country \in p.countries
  IN  CASE p.cidrs = {} /\ p.countries = {} -> TRUE
        [] p.cidrs # {} /\ p.countries = {} -> listed
        [] p.cidrs = {} /\ p.countries # {} -> ip # Unknown /\ located
        [] OTHER -> /\ ip # Unknown
                    /\ IF p.mode = "all" THEN listed /\ located
                       ELSE /\ listed \/ located
                            /\ p.failClosed => country # Null

\* A secret is shown only to a place that its policy admits, and not for a
\* link of another policy ("Share token policy is no longer current",
\* security.py:129), as the policy stood when the statement started that locks
\* the secret: an update after authorize, also during a long download, is not
\* missed.
ServedByPolicy ==
  \A r \in Visits : Stands(r, "served") =>
    /\ InPlace(policies[visit[r].locked], visit[r].ip, visit[r].country)
    /\ visit[r].link \in {0, visit[r].locked}
=============================================================================
