---------------------------- MODULE ClientAddress ----------------------------
(***************************************************************************)
(* The address a request counts as: core/client_ip.py, which               *)
(* AuditMiddleware applies to every request.                               *)
(***************************************************************************)
EXTENDS Naturals, Sequences, FiniteSetsExt

CONSTANTS
  Addresses,
  Proxies,      \* TRUSTED_PROXY_CIDRS, as the addresses in them
  Spellings,    \* what a peer or a part of X-Forwarded-For may read
  NormalizeIp,  \* the address a spelling stands for: zones and mapped IPv4 go
  Malformed,    \* normalize_ip raises ValueError
  Unknown,      \* "unknown", the client_ip of a request without a peer
  Null          \* None, a request without a peer

ASSUME AddressConstants ==
  /\ Proxies \subseteq Addresses
  /\ {Malformed, Unknown} \cap Addresses = {}
  /\ NormalizeIp \in [Spellings -> Addresses \cup {Malformed}]
  /\ Null \notin Spellings \cup Addresses

\* What a request can count as.
ClientIps == Addresses \cup {Unknown}

-----------------------------------------------------------------------------
(* resolve_client_ip *)

\* Which of the hops, the last of which is the peer, is the client.
LeftmostHop(hops) == 1                               \* fault: any part believed
ClientHop(hops) ==
  LET outside == {i \in DOMAIN hops : hops[i] \notin Proxies}
  IN  IF outside = {} THEN 1 ELSE Max(outside)

\* forwarded is <<>> without an X-Forwarded-For.  The header is read only
\* behind a trusted peer, and only if every part of it is an address.
ResolveOrNull(peer, forwarded) ==                    \* fault: None not expected
  IF peer = Null THEN Null ELSE NormalizeIp[peer]
ResolveClientIp(peer, forwarded) ==
  LET address == IF peer = Null THEN Malformed ELSE NormalizeIp[peer]
      hops == [i \in DOMAIN forwarded |-> NormalizeIp[forwarded[i]]] \o <<address>>
      ignored == \/ forwarded = <<>>
                 \/ address \notin Proxies
                 \/ \E i \in DOMAIN hops : hops[i] = Malformed
  IN  IF address = Malformed THEN Unknown
      ELSE IF ignored THEN address ELSE hops[ClientHop(hops)]

=============================================================================
