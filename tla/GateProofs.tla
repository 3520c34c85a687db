----------------------------- MODULE GateProofs -----------------------------
(***************************************************************************)
(* Theorems about RateLimit and LocationGate for every value of their      *)
(* constants, and about the addresses of ClientAddress that both judge by. *)
(***************************************************************************)
EXTENDS RateLimit, LocationGate, FiniteSetTheorems, SequenceTheorems,
        WellFoundedInduction, TLAPS

-----------------------------------------------------------------------------
(* The address of a request *)

\* A non-empty set of positions has a last one.
LEMMA LastPosition ==
  ASSUME NEW n \in Nat, NEW S \in SUBSET (1..n), S # {}
  PROVE  \E i \in S : \A j \in S : i >= j
<1> DEFINE T == {n - i : i \in S}
<1>1. T \subseteq Nat /\ T # {}
  <2>1. \A i \in S : i \in Nat /\ i <= n /\ n - i \in Nat
    OBVIOUS
  <2> QED BY <2>1
<1>2. PICK m \in T : \A y \in T : ~(<<y, m>> \in OpToRel(<, Nat))
  BY <1>1, NatLessThanWellFounded, WFMin
<1>3. PICK i \in S : m = n - i
  OBVIOUS
<1>4. ASSUME NEW j \in S PROVE i >= j
  <2>1. n - j \in T /\ n - j \in Nat /\ m \in Nat
    BY <1>1
  <2>2. ~(n - j < m)
    BY <1>2, <2>1 DEF OpToRel
  <2> QED BY <1>3, <2>2
<1> QED BY <1>4

\* The hops of a request: every part of the header, then the peer.
Hops(peer, forwarded) ==
  [i \in DOMAIN forwarded |-> NormalizeIp[forwarded[i]]] \o <<NormalizeIp[peer]>>

LEMMA HopFacts ==
  ASSUME NEW peer \in Spellings, NEW forwarded \in Seq(Spellings)
  PROVE  /\ DOMAIN Hops(peer, forwarded) = 1..(Len(forwarded) + 1)
         /\ \A i \in 1..Len(forwarded) :
              Hops(peer, forwarded)[i] = NormalizeIp[forwarded[i]]
         /\ Hops(peer, forwarded)[Len(forwarded) + 1] = NormalizeIp[peer]
         /\ \A i \in DOMAIN Hops(peer, forwarded) :
              Hops(peer, forwarded)[i] \in Addresses \cup {Malformed}
<1> DEFINE f == [i \in DOMAIN forwarded |-> NormalizeIp[forwarded[i]]]
<1>1. /\ DOMAIN forwarded = 1..Len(forwarded)
      /\ Len(forwarded) \in Nat
      /\ \A i \in 1..Len(forwarded) : forwarded[i] \in Spellings
  OBVIOUS
<1>2. /\ \A i \in 1..Len(forwarded) : NormalizeIp[forwarded[i]] \in Addresses \cup {Malformed}
      /\ NormalizeIp[peer] \in Addresses \cup {Malformed}
  BY <1>1, AddressConstants
<1>3. f \in Seq(Addresses \cup {Malformed}) /\ Len(f) = Len(forwarded)
  BY <1>1, <1>2
<1>4. \A i \in 1..Len(forwarded) : f[i] = NormalizeIp[forwarded[i]]
  BY <1>1
<1>5. Hops(peer, forwarded) = f \o <<NormalizeIp[peer]>>
  BY DEF Hops
<1> HIDE DEF f
<1>6. /\ Len(f \o <<NormalizeIp[peer]>>) = Len(forwarded) + 1
      /\ f \o <<NormalizeIp[peer]>> \in Seq(Addresses \cup {Malformed})
      /\ \A i \in 1..Len(forwarded) : (f \o <<NormalizeIp[peer]>>)[i] = f[i]
      /\ (f \o <<NormalizeIp[peer]>>)[Len(forwarded) + 1] = NormalizeIp[peer]
  BY <1>1, <1>2, <1>3
<1> QED BY <1>1, <1>2, <1>4, <1>5, <1>6

\* ClientHop is a hop, and the last outside hop if there is one.
LEMMA HopChosen ==
  ASSUME NEW n \in Nat \ {0}, NEW hops, DOMAIN hops = 1..n
  PROVE  /\ ClientHop(hops) \in 1..n
         /\ \A i \in 1..n :
              /\ hops[i] \notin Proxies
              /\ \A j \in 1..n : j > i => hops[j] \in Proxies
              => ClientHop(hops) = i
<1> DEFINE outside == {i \in 1..n : hops[i] \notin Proxies}
<1>1. ClientHop(hops) = IF outside = {} THEN 1 ELSE Max(outside)
  BY DEF ClientHop
<1>2. CASE outside = {}
  BY <1>1, <1>2
<1>3. CASE outside # {}
  <2>1. \E i \in outside : \A j \in outside : i >= j
    BY <1>3, LastPosition
  <2>2. Max(outside) \in outside /\ \A j \in outside : Max(outside) >= j
    BY <2>1 DEF Max
  <2>3. ASSUME NEW i \in 1..n, hops[i] \notin Proxies,
               \A j \in 1..n : j > i => hops[j] \in Proxies
        PROVE  Max(outside) = i
    <3>1. i \in outside /\ \A j \in outside : j <= i
      BY <2>3
    <3> QED BY <2>2, <3>1
  <2> QED BY <1>1, <1>3, <2>2, <2>3
<1> QED BY <1>2, <1>3

\* ResolveClientIp, case by case.
LEMMA Resolution ==
  ASSUME NEW peer \in Spellings, NEW forwarded \in Seq(Spellings),
         NormalizeIp[peer] # Malformed
  PROVE  LET hops == Hops(peer, forwarded) IN
         /\ \/ forwarded = <<>>
            \/ NormalizeIp[peer] \notin Proxies
            \/ \E i \in DOMAIN hops : hops[i] = Malformed
            => ResolveClientIp(peer, forwarded) = NormalizeIp[peer]
         /\ ~ \/ forwarded = <<>>
              \/ NormalizeIp[peer] \notin Proxies
              \/ \E i \in DOMAIN hops : hops[i] = Malformed
            => ResolveClientIp(peer, forwarded) = hops[ClientHop(hops)]
<1>1. peer # Null
  BY AddressConstants
<1> QED BY <1>1 DEF ResolveClientIp, Hops

\* Every request counts as an address, or as unknown.
LEMMA ResolvedType ==
  ASSUME NEW peer \in Spellings \cup {Null}, NEW forwarded \in Seq(Spellings)
  PROVE  ResolveClientIp(peer, forwarded) \in ClientIps
<1>1. CASE peer = Null \/ NormalizeIp[peer] = Malformed
  BY <1>1 DEF ResolveClientIp, ClientIps
<1>2. CASE peer # Null /\ NormalizeIp[peer] # Malformed
  <2> DEFINE hops == Hops(peer, forwarded)
  <2>1. /\ peer \in Spellings
        /\ NormalizeIp[peer] \in Addresses
    BY <1>2, AddressConstants
  <2>2. /\ DOMAIN hops = 1..(Len(forwarded) + 1)
        /\ \A i \in DOMAIN hops : hops[i] \in Addresses \cup {Malformed}
    BY <2>1, HopFacts
  <2>3. ClientHop(hops) \in DOMAIN hops
    <3>1. Len(forwarded) + 1 \in Nat \ {0}
      OBVIOUS
    <3> HIDE DEF hops
    <3> QED BY <2>2, <3>1, HopChosen
  <2>4. ResolveClientIp(peer, forwarded) \in {NormalizeIp[peer], hops[ClientHop(hops)]}
    BY <1>2, <2>1, Resolution
  <2>5. CASE \E i \in DOMAIN hops : hops[i] = Malformed
    BY <1>2, <2>1, <2>5, Resolution DEF ClientIps
  <2>6. CASE ~ \E i \in DOMAIN hops : hops[i] = Malformed
    <3>1. hops[ClientHop(hops)] \in Addresses
      BY <2>2, <2>3, <2>6
    <3> QED BY <2>1, <2>4, <3>1 DEF ClientIps
  <2> QED BY <2>5, <2>6
<1> QED BY <1>1, <1>2

\* What the service sees of a request.
Seen(caller, header, path) == header \o <<caller>> \o path

LEMMA SeenFacts ==
  ASSUME NEW caller \in Callers, NEW header \in Headers, NEW path \in Paths
  PROVE  LET s == Seen(caller, header, path) IN
         /\ header \in Seq(Spellings) /\ path \in Seq(Spellings)
         /\ s \in Seq(Spellings)
         /\ Len(s) = Len(header) + 1 + Len(path)
         /\ \A i \in 1..Len(header) : s[i] = header[i]
         /\ s[Len(header) + 1] = caller
         /\ \A i \in 1..Len(path) : s[Len(header) + 1 + i] = path[i]
         /\ s[Len(s)] \in Spellings
         /\ SubSeq(s, 1, Len(s) - 1) \in Seq(Spellings)
         /\ Len(SubSeq(s, 1, Len(s) - 1)) = Len(s) - 1
         /\ \A i \in 1..(Len(s) - 1) : SubSeq(s, 1, Len(s) - 1)[i] = s[i]
<1> DEFINE h == header \o <<caller>>
           s == Seen(caller, header, path)
<1>1. header \in Seq(Spellings) /\ path \in Seq(Spellings) /\ caller \in Spellings
  BY LimitConstants
<1>2. /\ h \in Seq(Spellings) /\ Len(h) = Len(header) + 1
      /\ \A i \in 1..Len(header) : h[i] = header[i]
      /\ h[Len(header) + 1] = caller
  BY <1>1
<1>3. s = h \o path
  BY DEF Seen
<1> HIDE DEF h, s
<1>4. /\ s \in Seq(Spellings) /\ Len(s) = Len(h) + Len(path)
      /\ \A i \in 1..Len(h) : s[i] = h[i]
      /\ \A i \in 1..Len(path) : s[Len(h) + i] = path[i]
  <2>1. h \in Seq(Spellings) /\ path \in Seq(Spellings)
    BY <1>1, <1>2
  <2> QED BY <1>3, <2>1, ConcatProperties
<1>5. Len(header) \in Nat /\ Len(path) \in Nat
  BY <1>1
<1>6. /\ Len(s) \in Nat /\ Len(s) >= 1
      /\ s[Len(s)] \in Spellings
  BY <1>2, <1>4, <1>5
<1>7. /\ SubSeq(s, 1, Len(s) - 1) \in Seq(Spellings)
      /\ Len(SubSeq(s, 1, Len(s) - 1)) = Len(s) - 1
      /\ \A i \in 1..(Len(s) - 1) : SubSeq(s, 1, Len(s) - 1)[i] = s[i]
  BY <1>4, <1>6
<1>8. /\ Len(s) = Len(header) + 1 + Len(path)
      /\ \A i \in 1..Len(header) : s[i] = header[i]
      /\ s[Len(header) + 1] = caller
      /\ \A i \in 1..Len(path) : s[Len(header) + 1 + i] = path[i]
  BY <1>2, <1>4, <1>5
<1> QED BY <1>1, <1>4, <1>6, <1>7, <1>8 DEF s

\* A caller from outside counts as its own address, or as a proxy if one passed
\* on a header that cannot be read.
LEMMA CallerFound ==
  ASSUME NEW caller \in Callers, NEW header \in Headers, NEW path \in Paths,
         NormalizeIp[caller] \notin Proxies
  PROVE  LET s == Seen(caller, header, path)
             ip == ResolveClientIp(s[Len(s)], SubSeq(s, 1, Len(s) - 1))
         IN  \/ ip = NormalizeIp[caller]
             \/ /\ path # <<>>
                /\ \E i \in DOMAIN header : NormalizeIp[header[i]] = Malformed
                /\ ip \in Proxies
<1> DEFINE s == Seen(caller, header, path)
           n == Len(s)
           forwarded == SubSeq(s, 1, n - 1)
           peer == s[n]
           c == Len(header) + 1
           hops == Hops(peer, forwarded)
           ip == ResolveClientIp(peer, forwarded)
<1> SUFFICES \/ ip = NormalizeIp[caller]
             \/ /\ path # <<>>
                /\ \E i \in DOMAIN header : NormalizeIp[header[i]] = Malformed
                /\ ip \in Proxies
  OBVIOUS
<1>1. /\ header \in Seq(Spellings) /\ path \in Seq(Spellings)
      /\ s \in Seq(Spellings) /\ n = c + Len(path)
      /\ \A i \in 1..Len(header) : s[i] = header[i]
      /\ s[c] = caller
      /\ \A i \in 1..Len(path) : s[c + i] = path[i]
      /\ peer \in Spellings
      /\ forwarded \in Seq(Spellings)
      /\ Len(forwarded) = n - 1
      /\ \A i \in 1..(n - 1) : forwarded[i] = s[i]
  BY SeenFacts
<1>2. /\ NormalizeIp[caller] \in Addresses
      /\ \A i \in 1..Len(path) : NormalizeIp[path[i]] \in Proxies
      /\ Malformed \notin Proxies /\ Malformed \notin Addresses
      /\ Proxies \subseteq Addresses
  BY <1>1, LimitConstants, AddressConstants
<1>3. Len(header) \in Nat /\ Len(path) \in Nat /\ c \in Nat /\ n \in Nat \ {0}
  BY <1>1
<1>4. /\ DOMAIN hops = 1..n
      /\ \A i \in 1..n : hops[i] = NormalizeIp[s[i]]
  <2>1. /\ DOMAIN hops = 1..(Len(forwarded) + 1)
        /\ \A i \in 1..Len(forwarded) : hops[i] = NormalizeIp[forwarded[i]]
        /\ hops[Len(forwarded) + 1] = NormalizeIp[peer]
    BY <1>1, HopFacts
  <2>2. peer = s[n]
    OBVIOUS
  <2>3. /\ n \in Nat \ {0} /\ Len(forwarded) = n - 1
        /\ \A i \in 1..(n - 1) : forwarded[i] = s[i]
    BY <1>1, <1>3
  <2> HIDE DEF hops, forwarded, n, s, peer, c, ip
  <2>4. Len(forwarded) + 1 = n
    BY <2>3
  <2>5. DOMAIN hops = 1..n /\ hops[n] = NormalizeIp[s[n]]
    BY <2>1, <2>2, <2>4
  <2>6. ASSUME NEW i \in 1..n, i # n PROVE hops[i] = NormalizeIp[s[i]]
    <3>1. i \in 1..(n - 1)
      BY <2>3, <2>6
    <3> QED BY <2>1, <2>3, <3>1
  <2> QED BY <2>5, <2>6
<1>5. \A i \in 1..n : i > c => NormalizeIp[s[i]] \in Proxies
  <2> SUFFICES ASSUME NEW i \in 1..n, i > c PROVE NormalizeIp[s[i]] \in Proxies
    OBVIOUS
  <2>1. i - c \in 1..Len(path) /\ i = c + (i - c)
    BY <1>1, <1>3
  <2>2. s[c + (i - c)] = path[i - c] /\ NormalizeIp[path[i - c]] \in Proxies
    BY <1>1, <1>2, <2>1
  <2> HIDE DEF s, n, c
  <2> QED BY <2>1, <2>2
<1>6. NormalizeIp[s[c]] = NormalizeIp[caller] /\ c \in 1..n
  BY <1>1, <1>3
<1>9. ip = ResolveClientIp(peer, forwarded) /\ peer = s[n]
  OBVIOUS
<1> HIDE DEF s, n, forwarded, peer, c, hops, ip
<1>7. CASE path = <<>>
  <2>1. peer = caller
    BY <1>1, <1>3, <1>7, <1>9
  <2>2. NormalizeIp[peer] \notin Proxies /\ NormalizeIp[peer] # Malformed
    BY <1>2, <2>1
  <2>3. ip = NormalizeIp[peer]
    BY <1>1, <1>9, <2>2, Resolution
  <2> QED BY <2>1, <2>3
<1>8. CASE path # <<>>
  <2>1. Len(path) > 0 /\ n > c /\ n \in 1..n
    BY <1>1, <1>3, <1>8
  <2>2. NormalizeIp[peer] \in Proxies /\ NormalizeIp[peer] # Malformed
    BY <1>2, <1>5, <1>9, <2>1
  <2>3. forwarded # <<>>
    BY <1>1, <1>3, <2>1 DEF c
  <2>4. CASE \E i \in DOMAIN hops : hops[i] = Malformed
    <3>1. PICK i \in 1..n : NormalizeIp[s[i]] = Malformed
      BY <1>4, <2>4
    <3>2. i # c /\ ~(i > c)
      BY <1>2, <1>5, <1>6, <3>1
    <3>3. i \in 1..Len(header)
      BY <1>3, <3>2 DEF c
    <3>4. \E j \in DOMAIN header : NormalizeIp[header[j]] = Malformed
      BY <1>1, <3>1, <3>3
    <3>5. ip = NormalizeIp[peer]
      BY <1>1, <1>9, <2>2, <2>4, Resolution DEF hops
    <3> QED BY <1>8, <2>2, <3>4, <3>5
  <2>5. CASE ~ \E i \in DOMAIN hops : hops[i] = Malformed
    <3>1. ip = hops[ClientHop(hops)]
      BY <1>1, <1>9, <2>2, <2>3, <2>5, Resolution DEF hops
    <3>2. hops[c] \notin Proxies /\ \A j \in 1..n : j > c => hops[j] \in Proxies
      BY <1>4, <1>5, <1>6
    <3>3. ClientHop(hops) = c
      BY <1>3, <1>4, <1>6, <3>2, HopChosen
    <3>4. ip = NormalizeIp[caller]
      BY <1>4, <1>6, <3>1, <3>3
    <3> QED BY <3>4
  <2> QED BY <2>4, <2>5
<1> QED BY <1>7, <1>8

-----------------------------------------------------------------------------
(* The inductive invariant of the rate limit *)

\* No instance is ahead of now by more than the skew, and nothing is recorded
\* in the future.
Clocks ==
  \A r \in Requests : req[r].reading <= now + MaxSkew /\ req[r].at <= now

\* Who has been let through by the script is done.
Done == \A r \in admitted : At(r, "admitted")

Full == \A k \in ClientIps : Cardinality(bucket[k]) <= MaxRequests

\* A slot is that of a request that was let through, or that of a run whose
\* answer was lost.
Slots ==
  \A k \in ClientIps : \A r \in bucket[k] : At(r, "admitted") \/ req[r].lost

Turned ==
  \A r \in Requests : (At(r, "refused") /\ ~req[r].lost) => req[r].others = MaxRequests

\* The requests a later run still has to see.
Recent(r) == r \in admitted /\ Prompt(r) /\ req[r].at > now - Span

\* Redis holds them, and will until their window is over.
Held ==
  \A r \in Requests : Recent(r) =>
    r \in bucket[req[r].ip] /\ ttl[req[r].ip] >= req[r].at + Window - now

LimitInv == TypeOK /\ Clocks /\ Done /\ Full /\ Slots /\ Turned /\ Held

LEMMA InitLimit == Init => LimitInv /\ WindowBound /\ CountsAsItself
<1> SUFFICES ASSUME Init PROVE LimitInv /\ WindowBound /\ CountsAsItself
  OBVIOUS
<1> USE DEF Init, At
<1>1. \A r \in Requests : req[r] = Blank
  OBVIOUS
<1>2. /\ 0 \in 0..MaxTime /\ 0 \in 0..Window
      /\ Blank \in Request
      /\ Cardinality({}) = 0
  BY LimitConstants, FS_EmptySet DEF Blank, Request, Phase
<1>3. TypeOK
  BY <1>1, <1>2 DEF TypeOK, Blank
<1>4. Clocks
  BY <1>1, LimitConstants DEF Clocks, Blank
<1>5. Done /\ Slots /\ Held
  BY DEF Done, Slots, Held, Recent
<1>6. Full
  BY <1>2, LimitConstants DEF Full
<1>7. Turned
  BY <1>1 DEF Turned, Blank
<1>8. WindowBound
  BY DEF WindowBound
<1>9. CountsAsItself
  BY <1>1, AddressConstants DEF CountsAsItself, Blank
<1> QED BY <1>3, <1>4, <1>5, <1>6, <1>7, <1>8, <1>9 DEF LimitInv

\* A step of one request that is not the script's.
QuietStep(r, x) ==
  /\ req' = [req EXCEPT ![r] = x]
  /\ UNCHANGED <<now, limits>>
  /\ ~At(r, "admitted")
  /\ x \in Request
  /\ x.pc \notin {"new", "refused"}
  /\ x.ip \in ClientIps
  /\ x.reading <= now + MaxSkew
  /\ x.at = req[r].at
  /\ x.lost = req[r].lost

LEMMA QuietKeeps ==
  ASSUME LimitInv, WindowBound, NEW r \in Requests, NEW x, QuietStep(r, x)
  PROVE  LimitInv' /\ WindowBound'
<1> USE DEF LimitInv, At
<1>1. /\ now' = now /\ bucket' = bucket /\ ttl' = ttl /\ admitted' = admitted
      /\ x \in Request
      /\ req \in [Requests -> Request]
      /\ req'[r] = x
      /\ \A q \in Requests : q # r => req'[q] = req[q]
      /\ r \notin admitted
      /\ admitted \subseteq Requests
      /\ \A k \in ClientIps : bucket[k] \subseteq Requests
  BY DEF QuietStep, limits, TypeOK, Done
<1>2. TypeOK'
  BY <1>1 DEF TypeOK, QuietStep
<1>3. Clocks'
  BY <1>1 DEF Clocks, QuietStep
<1>4. Done' /\ Full'
  BY <1>1 DEF Done, Full
<1>5. Slots'
  BY <1>1 DEF Slots, QuietStep
<1>6. Turned'
  BY <1>1 DEF Turned, QuietStep
<1>7. Held'
  <2> SUFFICES ASSUME NEW q \in Requests, Recent(q)'
               PROVE  (q \in bucket[req[q].ip] /\ ttl[req[q].ip] >= req[q].at + Window - now)'
    BY DEF Held
  <2>1. q # r /\ req'[q] = req[q]
    BY <1>1 DEF Recent
  <2>2. Recent(q)
    BY <1>1, <2>1 DEF Recent, Prompt
  <2> QED BY <1>1, <2>1, <2>2 DEF Held
<1>8. WindowBound'
  <2> SUFFICES ASSUME NEW p \in admitted'
               PROVE  (Cardinality({q \in admitted :
                         /\ Prompt(q) /\ req[q].ip = req[p].ip
                         /\ req[q].at \in req[p].at - Span + 1 .. req[p].at})
                        <= MaxRequests)'
    BY DEF WindowBound
  <2>1. \A q \in admitted : req'[q] = req[q]
    BY <1>1
  <2>2. {q \in admitted : /\ Prompt(q) /\ req[q].ip = req[p].ip
                          /\ req[q].at \in req[p].at - Span + 1 .. req[p].at}'
        = {q \in admitted : /\ Prompt(q) /\ req[q].ip = req[p].ip
                            /\ req[q].at \in req[p].at - Span + 1 .. req[p].at}
    BY <1>1, <2>1 DEF Prompt
  <2> QED BY <1>1, <2>2 DEF WindowBound
<1> QED BY <1>2, <1>3, <1>4, <1>5, <1>6, <1>7, <1>8

\* What one run of the script does: it records r only where there is room, and
\* forgets nothing that a later run still has to see.
LEMMA ScriptFacts ==
  ASSUME LimitInv, NEW r \in Requests, Trying(r), Script(r), now' = now
  PROVE  LET k == req[r].ip
             entries == Pruned(k, req[r].reading)
         IN  /\ k \in ClientIps
             /\ entries \subseteq bucket[k]
             /\ entries \subseteq Requests
             /\ IsFiniteSet(entries)
             /\ Cardinality(entries) \in Nat
             /\ Cardinality(entries) <= MaxRequests
             /\ bucket' \in [ClientIps -> SUBSET Requests]
             /\ bucket'[k] = Recorded(entries, r)
             /\ \A j \in ClientIps : j # k => bucket'[j] = bucket[j]
             /\ ttl' \in [ClientIps -> 0..Window]
             /\ \A j \in ClientIps : ttl'[j] >= ttl[j]
             /\ HasRoom(entries) => ttl'[k] = Window
             /\ \A q \in Requests : (Recent(q) /\ req[q].ip = k) => q \in entries
<1> DEFINE k == req[r].ip
           entries == Pruned(k, req[r].reading)
<1>1. /\ k \in ClientIps
      /\ bucket \in [ClientIps -> SUBSET Requests]
      /\ ttl \in [ClientIps -> 0..Window]
      /\ req \in [Requests -> Request]
      /\ now \in Nat
  BY DEF LimitInv, TypeOK, Trying, At
<1>2. /\ entries \subseteq bucket[k]
      /\ bucket[k] \subseteq Requests
      /\ bucket[k] \in SUBSET Requests
  BY <1>1 DEF Pruned
<1>3. /\ IsFiniteSet(entries) /\ IsFiniteSet(bucket[k])
      /\ Cardinality(entries) <= Cardinality(bucket[k])
      /\ Cardinality(entries) \in Nat /\ Cardinality(bucket[k]) \in Nat
  BY <1>2, LimitConstants, FS_Subset, FS_CardinalityType
<1>4. Cardinality(bucket[k]) <= MaxRequests
  BY <1>1 DEF LimitInv, Full
<1>5. \A q \in Requests : (Recent(q) /\ req[q].ip = k) => q \in entries
  <2> SUFFICES ASSUME NEW q \in Requests, Recent(q), req[q].ip = k PROVE q \in entries
    OBVIOUS
  <2>1. q \in bucket[k] /\ req[q].reading >= req[q].at /\ req[q].at > now - Span
    BY DEF LimitInv, Held, Recent, Prompt
  <2>2. /\ req[q].reading \in Nat /\ req[q].at \in Nat /\ req[r].reading \in Nat
        /\ req[r].reading <= now + MaxSkew
        /\ Window \in Nat /\ MaxSkew \in Nat
    BY <1>1, LimitConstants DEF Request, LimitInv, Clocks
  <2>3. req[q].reading > req[r].reading - Window
    BY <1>1, <2>1, <2>2 DEF Span
  <2> QED BY <2>1, <2>3 DEF Pruned
<1>6. /\ bucket' = [bucket EXCEPT ![k] = Recorded(entries, r)]
      /\ ttl' = [ttl EXCEPT ![k] = IF HasRoom(entries) THEN Window ELSE @]
  BY DEF Script
<1> HIDE DEF entries, k
<1>7. Recorded(entries, r) \subseteq Requests
  BY <1>2 DEF Recorded
<1>8. /\ bucket' \in [ClientIps -> SUBSET Requests]
      /\ bucket'[k] = Recorded(entries, r)
      /\ \A j \in ClientIps : j # k => bucket'[j] = bucket[j]
  BY <1>1, <1>6, <1>7
<1>9. /\ ttl' \in [ClientIps -> 0..Window]
      /\ \A j \in ClientIps : ttl'[j] >= ttl[j]
      /\ HasRoom(entries) => ttl'[k] = Window
  <2>1. Window \in 0..Window /\ \A t \in 0..Window : Window >= t /\ t >= t
    BY LimitConstants
  <2> QED BY <1>1, <1>6, <2>1
<1>10. Cardinality(entries) <= MaxRequests
  BY <1>3, <1>4, LimitConstants
<1> QED BY <1>1, <1>2, <1>3, <1>5, <1>8, <1>9, <1>10 DEF entries, k

\* A step of one request in which the script runs.
ScriptStep(r, x) ==
  /\ Trying(r) /\ Script(r)
  /\ req' = [req EXCEPT ![r] = x]
  /\ x \in Request
  /\ x.pc # "new"
  /\ x.ip = req[r].ip
  /\ x.reading = req[r].reading
  /\ x.at \in {req[r].at, now}
  /\ now' = now

\* Whatever becomes of its answer, as long as whoever may hold a slot has been
\* let through or has lost an answer.
LEMMA ScriptKeeps ==
  ASSUME LimitInv, NEW r \in Requests, NEW x, ScriptStep(r, x),
         HasRoom(Pruned(req[r].ip, req[r].reading)) \/ req[r].lost
           => x.pc = "admitted" \/ x.lost,
         admitted' \in SUBSET Requests
  PROVE  /\ (TypeOK /\ Clocks /\ Full /\ Slots)'
         /\ \A q \in Requests : (q # r /\ Recent(q)) =>
              /\ q \in bucket'[req[q].ip]
              /\ ttl'[req[q].ip] >= req[q].at + Window - now
<1> DEFINE k == req[r].ip
           entries == Pruned(k, req[r].reading)
<1>1. /\ k \in ClientIps
      /\ entries \subseteq bucket[k]
      /\ entries \subseteq Requests
      /\ IsFiniteSet(entries)
      /\ Cardinality(entries) \in Nat
      /\ Cardinality(entries) <= MaxRequests
      /\ bucket' \in [ClientIps -> SUBSET Requests]
      /\ bucket'[k] = Recorded(entries, r)
      /\ \A j \in ClientIps : j # k => bucket'[j] = bucket[j]
      /\ ttl' \in [ClientIps -> 0..Window]
      /\ \A j \in ClientIps : ttl'[j] >= ttl[j]
      /\ \A q \in Requests : (Recent(q) /\ req[q].ip = k) => q \in entries
  BY ScriptFacts DEF ScriptStep
<1>2. /\ req \in [Requests -> Request]
      /\ x \in Request /\ x.pc # "new" /\ x.ip = k
      /\ x.reading = req[r].reading /\ x.at \in {req[r].at, now}
      /\ req' = [req EXCEPT ![r] = x]
      /\ req'[r] = x
      /\ \A q \in Requests : q # r => req'[q] = req[q]
      /\ now' = now /\ now \in Nat /\ now \in 0..MaxTime
      /\ ~At(r, "admitted") /\ ~At(r, "new")
  BY DEF ScriptStep, LimitInv, TypeOK, Trying, At
<1>3. HasRoom(entries) \/ req[r].lost => x.pc = "admitted" \/ x.lost
  OBVIOUS
<1>4. Recorded(entries, r) \subseteq entries \cup {r}
  BY DEF Recorded
<1> HIDE DEF k, entries
<1>5. TypeOK'
  <2>1. req' \in [Requests -> Request]
    BY <1>2
  <2>2. \A q \in Requests : ~At(q, "new")' => req'[q].ip \in ClientIps
    BY <1>1, <1>2 DEF LimitInv, TypeOK, At
  <2> QED BY <1>1, <1>2, <2>1, <2>2 DEF TypeOK
<1>6. Clocks'
  <2>1. \A q \in Requests : req[q].at \in Nat /\ req[q].reading \in Nat
    BY <1>2 DEF Request
  <2> QED BY <1>2, <2>1 DEF Clocks, LimitInv
<1>7. Full'
  <2>1. Cardinality(Recorded(entries, r)) <= MaxRequests
    <3>1. CASE HasRoom(entries)
      <4>1. /\ IsFiniteSet(entries \cup {r})
            /\ Cardinality(entries \cup {r}) \in
                 {Cardinality(entries), Cardinality(entries) + 1}
        BY <1>1, FS_AddElement
      <4> QED BY <1>1, <3>1, <4>1, LimitConstants DEF HasRoom, Recorded
    <3>2. CASE ~HasRoom(entries)
      BY <1>1, <3>2 DEF Recorded
    <3> QED BY <3>1, <3>2
  <2> QED BY <1>1, <2>1 DEF Full, LimitInv
<1>8. Slots'
  <2> SUFFICES ASSUME NEW j \in ClientIps, NEW q \in bucket'[j]
               PROVE  req'[q].pc = "admitted" \/ req'[q].lost
    BY DEF Slots, At
  <2>1. q \in Requests
    BY <1>1
  <2>2. q = r \/ q \in bucket[j]
    BY <1>1, <1>4
  <2>3. CASE q # r
    BY <1>2, <2>1, <2>2, <2>3 DEF LimitInv, Slots, At
  <2>4. CASE q = r
    <3>1. CASE r \in bucket[j]
      BY <1>2, <1>3, <2>4, <3>1 DEF LimitInv, Slots
    <3>2. CASE r \notin bucket[j]
      <4>1. j = k
        BY <1>1, <2>4, <3>2
      <4>2. r \notin entries
        BY <1>1, <3>2, <4>1
      <4>3. HasRoom(entries)
        BY <1>1, <2>4, <4>1, <4>2 DEF Recorded
      <4> QED BY <1>2, <1>3, <2>4, <4>3
    <3> QED BY <3>1, <3>2
  <2> QED BY <2>3, <2>4
<1>9. ASSUME NEW q \in Requests, q # r, Recent(q)
      PROVE  /\ q \in bucket'[req[q].ip]
             /\ ttl'[req[q].ip] >= req[q].at + Window - now
  <2>1. q \in bucket[req[q].ip] /\ ttl[req[q].ip] >= req[q].at + Window - now
    BY <1>9 DEF LimitInv, Held
  <2>2. At(q, "admitted") /\ req[q].ip \in ClientIps
    BY <1>9 DEF LimitInv, Done, Recent, TypeOK, At
  <2>3. q \in bucket'[req[q].ip]
    <3>1. CASE req[q].ip = k
      <4>1. q \in entries
        BY <1>1, <1>9, <3>1
      <4> QED BY <1>1, <3>1, <4>1 DEF Recorded
    <3>2. CASE req[q].ip # k
      BY <1>1, <2>1, <2>2, <3>2
    <3> QED BY <3>1, <3>2
  <2>4. /\ ttl'[req[q].ip] >= ttl[req[q].ip]
        /\ ttl[req[q].ip] \in Int /\ ttl'[req[q].ip] \in Int
        /\ req[q].at + Window - now \in Int
    <3>1. req[q].at \in Nat /\ Window \in Nat
      BY <1>2, LimitConstants DEF Request
    <3>2. ttl \in [ClientIps -> 0..Window]
      BY DEF LimitInv, TypeOK
    <3> QED BY <1>1, <1>2, <2>2, <3>1, <3>2
  <2> QED BY <2>1, <2>3, <2>4
<1> QED BY <1>5, <1>6, <1>7, <1>8, <1>9

\* Members of admitted are as they were: what is counted of them is, too.
LEMMA CountKept ==
  ASSUME WindowBound, admitted' = admitted, \A q \in admitted : req'[q] = req[q]
  PROVE  WindowBound'
<1> SUFFICES ASSUME NEW p \in admitted'
             PROVE  (Cardinality({q \in admitted :
                       /\ Prompt(q) /\ req[q].ip = req[p].ip
                       /\ req[q].at \in req[p].at - Span + 1 .. req[p].at})
                      <= MaxRequests)'
  BY DEF WindowBound
<1>1. {q \in admitted : /\ Prompt(q) /\ req[q].ip = req[p].ip
                        /\ req[q].at \in req[p].at - Span + 1 .. req[p].at}'
      = {q \in admitted : /\ Prompt(q) /\ req[q].ip = req[p].ip
                          /\ req[q].at \in req[p].at - Span + 1 .. req[p].at}
  BY DEF Prompt
<1> QED BY <1>1 DEF WindowBound

\* A run that lets nobody through: its answer is lost, or it is a refusal.
LEMMA RunKeeps ==
  ASSUME LimitInv, WindowBound, NEW r \in Requests, NEW x, ScriptStep(r, x),
         HasRoom(Pruned(req[r].ip, req[r].reading)) \/ req[r].lost
           => x.pc = "admitted" \/ x.lost,
         (x.pc = "refused" /\ ~x.lost) => x.others = MaxRequests,
         admitted' = admitted
  PROVE  LimitInv' /\ WindowBound'
<1>1. /\ (TypeOK /\ Clocks /\ Full /\ Slots)'
      /\ \A q \in Requests : (q # r /\ Recent(q)) =>
           /\ q \in bucket'[req[q].ip]
           /\ ttl'[req[q].ip] >= req[q].at + Window - now
  <2>1. admitted' \in SUBSET Requests
    BY DEF LimitInv, TypeOK
  <2> QED BY <2>1, ScriptKeeps
<1>2. /\ req'[r] = x
      /\ \A q \in Requests : q # r => req'[q] = req[q]
      /\ now' = now
      /\ r \notin admitted
  BY DEF ScriptStep, LimitInv, TypeOK, Trying, At, Done
<1>3. Done'
  BY <1>2 DEF LimitInv, TypeOK, Done, At
<1>4. Turned'
  BY <1>2 DEF LimitInv, Turned, At
<1>5. Held'
  <2> SUFFICES ASSUME NEW q \in Requests, Recent(q)'
               PROVE  (q \in bucket[req[q].ip] /\ ttl[req[q].ip] >= req[q].at + Window - now)'
    BY DEF Held
  <2>1. q # r /\ req'[q] = req[q]
    BY <1>2 DEF Recent
  <2>2. Recent(q)
    BY <1>2, <2>1 DEF Recent, Prompt
  <2> QED BY <1>1, <1>2, <2>1, <2>2
<1>6. WindowBound'
  <2>1. \A q \in admitted : req'[q] = req[q]
    BY <1>2 DEF LimitInv, TypeOK
  <2> QED BY <2>1, CountKept
<1> QED BY <1>1, <1>3, <1>4, <1>5, <1>6 DEF LimitInv

\* A run that lets r through.  Whoever counts against r now is in the entries
\* the script has just counted, because Redis holds all of them and the pruning
\* leaves them: the reading of r is ahead of now by the skew at most.
LEMMA AdmitKeeps ==
  ASSUME LimitInv, WindowBound, NEW r \in Requests, NEW x, ScriptStep(r, x),
         HasRoom(Pruned(req[r].ip, req[r].reading)),
         x.pc = "admitted", x.at = now,
         admitted' = admitted \cup {r}
  PROVE  LimitInv' /\ WindowBound'
<1> DEFINE k == req[r].ip
           entries == Pruned(k, req[r].reading)
<1>1. /\ (TypeOK /\ Clocks /\ Full /\ Slots)'
      /\ \A q \in Requests : (q # r /\ Recent(q)) =>
           /\ q \in bucket'[req[q].ip]
           /\ ttl'[req[q].ip] >= req[q].at + Window - now
  <2>1. admitted' \in SUBSET Requests
    BY DEF LimitInv, TypeOK
  <2> QED BY <2>1, ScriptKeeps
<1>2. /\ k \in ClientIps
      /\ entries \subseteq Requests
      /\ IsFiniteSet(entries)
      /\ Cardinality(entries) \in Nat
      /\ bucket'[k] = Recorded(entries, r)
      /\ ttl'[k] = Window
      /\ \A q \in Requests : (Recent(q) /\ req[q].ip = k) => q \in entries
  BY ScriptFacts DEF ScriptStep
<1>3. /\ req \in [Requests -> Request] /\ x \in Request
      /\ req'[r] = x /\ x.ip = k
      /\ \A q \in Requests : q # r => req'[q] = req[q]
      /\ now' = now /\ now \in Nat
      /\ r \notin admitted /\ admitted \subseteq Requests
  BY DEF ScriptStep, LimitInv, TypeOK, Trying, At, Done
<1>4. HasRoom(entries) /\ bucket'[k] = entries \cup {r}
  BY <1>2 DEF Recorded
<1> HIDE DEF k, entries
<1>5. Done'
  BY <1>3 DEF LimitInv, Done, At
<1>6. Turned'
  BY <1>3 DEF LimitInv, Turned, At
<1>7. Held'
  <2> SUFFICES ASSUME NEW q \in Requests, Recent(q)'
               PROVE  (q \in bucket[req[q].ip] /\ ttl[req[q].ip] >= req[q].at + Window - now)'
    BY DEF Held
  <2>1. CASE q = r
    <3>1. Window >= now + Window - now
      BY <1>3, LimitConstants
    <3> QED BY <1>2, <1>3, <1>4, <2>1, <3>1
  <2>2. CASE q # r
    <3>1. req'[q] = req[q]
      BY <1>3, <2>2
    <3>2. Recent(q)
      BY <1>3, <2>2, <3>1 DEF Recent, Prompt
    <3> QED BY <1>1, <1>3, <2>2, <3>1, <3>2
  <2> QED BY <2>1, <2>2
<1>8. WindowBound'
  <2> SUFFICES ASSUME NEW p \in admitted'
               PROVE  (Cardinality({q \in admitted :
                         /\ Prompt(q) /\ req[q].ip = req[p].ip
                         /\ req[q].at \in req[p].at - Span + 1 .. req[p].at})
                        <= MaxRequests)'
    BY DEF WindowBound
  <2> DEFINE Counted == {q \in admitted : /\ Prompt(q) /\ req[q].ip = req[p].ip
                                          /\ req[q].at \in req[p].at - Span + 1 .. req[p].at}
             After == {q \in admitted' :
                         /\ req'[q].reading >= req'[q].at /\ req'[q].ip = req'[p].ip
                         /\ req'[q].at \in req'[p].at - Span + 1 .. req'[p].at}
  <2>0. After = Counted'
    BY DEF Prompt
  <2>1. /\ p \in Requests
        /\ \A q \in Requests : /\ req[q].at \in Nat /\ req'[q].at \in Nat
                               /\ req[q].at <= now /\ req'[q].at <= now
        /\ Span \in Int
    BY <1>1, <1>3, LimitConstants DEF LimitInv, TypeOK, Clocks, Span, Request
  <2>2. CASE req'[p].at = now /\ req'[p].ip = k
    <3>1. After \subseteq entries \cup {r}
      <4> SUFFICES ASSUME NEW q \in After, q # r PROVE q \in entries
        OBVIOUS
      <4>1. q \in Requests /\ q \in admitted /\ req'[q] = req[q]
        BY <1>3
      <4>2. req[q].reading >= req[q].at /\ req[q].ip = k /\ req[q].at > now - Span
        BY <1>3, <2>1, <2>2, <4>1
      <4>3. Recent(q)
        BY <4>1, <4>2 DEF Recent, Prompt
      <4> QED BY <1>2, <4>1, <4>2, <4>3
    <3>2. /\ IsFiniteSet(entries \cup {r})
          /\ Cardinality(entries \cup {r}) \in {Cardinality(entries), Cardinality(entries) + 1}
      BY <1>2, FS_AddElement
    <3> HIDE DEF After
    <3>3. /\ Cardinality(After) <= Cardinality(entries \cup {r})
          /\ Cardinality(After) \in Nat
      BY <3>1, <3>2, FS_Subset, FS_CardinalityType
    <3>4. Cardinality(After) <= MaxRequests
      BY <1>2, <1>4, <3>2, <3>3, LimitConstants DEF HasRoom
    <3> QED BY <2>0, <3>4
  <2>3. CASE ~(req'[p].at = now /\ req'[p].ip = k)
    <3>1. p # r
      BY <1>3, <2>3
    <3>2. p \in admitted /\ req'[p] = req[p]
      BY <1>3, <2>1, <3>1
    <3>3. r \notin After
      BY <1>3, <2>1, <2>3
    <3>4. After \subseteq Counted
      BY <1>3, <3>2, <3>3 DEF Prompt
    <3>5. IsFiniteSet(Counted) /\ Cardinality(Counted) <= MaxRequests
      <4>1. Counted \subseteq Requests
        BY <1>3
      <4>2. Cardinality(Counted) <= MaxRequests
        BY <3>2 DEF WindowBound
      <4> HIDE DEF Counted
      <4> QED BY <4>1, <4>2, LimitConstants, FS_Subset
    <3> HIDE DEF After, Counted
    <3>6. /\ Cardinality(After) <= Cardinality(Counted)
          /\ Cardinality(After) \in Nat /\ Cardinality(Counted) \in Nat
      BY <3>4, <3>5, FS_Subset, FS_CardinalityType
    <3>7. Cardinality(After) <= MaxRequests
      BY <3>5, <3>6, LimitConstants
    <3> QED BY <2>0, <3>7 DEF Counted
  <2> QED BY <2>2, <2>3
<1> QED BY <1>1, <1>5, <1>6, <1>7, <1>8 DEF LimitInv

-----------------------------------------------------------------------------
(* The steps of the rate limit *)

LEMMA ArriveKeeps ==
  ASSUME LimitInv, WindowBound, NEW r \in Requests,
         NEW caller \in Callers, NEW header \in Headers, NEW path \in Paths,
         Arrive(r, caller, header, path)
  PROVE  LimitInv' /\ WindowBound'
<1> DEFINE s == Seen(caller, header, path)
           ip == ResolveClientIp(s[Len(s)], SubSeq(s, 1, Len(s) - 1))
           clean == path = <<>> \/
                      \A i \in DOMAIN header : NormalizeIp[header[i]] # Malformed
           x == [req[r] EXCEPT !.pc = "arrived", !.ip = ip,
                               !.from = NormalizeIp[caller], !.clean = clean]
<1>1. req' = [req EXCEPT ![r] = x] /\ UNCHANGED <<now, limits>> /\ At(r, "new")
  BY DEF Arrive, Seen
<1>2. ip \in ClientIps
  <2>1. s[Len(s)] \in Spellings /\ SubSeq(s, 1, Len(s) - 1) \in Seq(Spellings)
    BY SeenFacts
  <2> QED BY <2>1, ResolvedType
<1>3. NormalizeIp[caller] \in Addresses /\ clean \in BOOLEAN
  BY LimitConstants
<1> HIDE DEF s, ip, clean
<1>4. req[r] \in Request /\ req[r].reading <= now + MaxSkew
  BY DEF LimitInv, TypeOK, Clocks
<1>5. /\ x \in Request /\ x.pc = "arrived" /\ x.ip = ip
      /\ x.reading = req[r].reading /\ x.at = req[r].at /\ x.lost = req[r].lost
  BY <1>2, <1>3, <1>4 DEF Request, Phase
<1> HIDE DEF x
<1>6. QuietStep(r, x)
  BY <1>1, <1>2, <1>4, <1>5 DEF QuietStep, At
<1> QED BY <1>6, QuietKeeps

LEMMA OtherStepsKeep ==
  ASSUME LimitInv, WindowBound, NEW r \in Requests,
         \/ ArriveUnknown(r) \/ SkipLimit(r) \/ EvaluationFails(r)
         \/ \E skew \in 0..MaxSkew : ReadClock(r, skew)
  PROVE  LimitInv' /\ WindowBound'
<1>1. /\ req[r] \in Request /\ req[r].reading <= now + MaxSkew
      /\ ~At(r, "new") => req[r].ip \in ClientIps
      /\ now \in Nat
  BY DEF LimitInv, TypeOK, Clocks
<1>2. CASE ArriveUnknown(r)
  <2> DEFINE ip == ResolveClientIp(Null, <<>>)
             x == [req[r] EXCEPT !.pc = "arrived", !.ip = ip]
  <2>1. req' = [req EXCEPT ![r] = x] /\ UNCHANGED <<now, limits>> /\ At(r, "new")
    BY <1>2 DEF ArriveUnknown
  <2>2. ip \in ClientIps
    <3>1. Null \in Spellings \cup {Null} /\ <<>> \in Seq(Spellings)
      OBVIOUS
    <3> QED BY <3>1, ResolvedType
  <2> HIDE DEF ip
  <2>3. /\ x \in Request /\ x.pc = "arrived" /\ x.ip = ip
        /\ x.reading = req[r].reading /\ x.at = req[r].at /\ x.lost = req[r].lost
    BY <1>1, <2>2 DEF Request, Phase
  <2> HIDE DEF x
  <2>4. QuietStep(r, x)
    BY <1>1, <2>1, <2>2, <2>3 DEF QuietStep, At
  <2> QED BY <2>4, QuietKeeps
<1>3. CASE SkipLimit(r)
  <2> DEFINE x == [req[r] EXCEPT !.pc = "admitted"]
  <2>1. req' = [req EXCEPT ![r] = x] /\ UNCHANGED <<now, limits>> /\ At(r, "arrived")
    BY <1>3 DEF SkipLimit
  <2>2. /\ x \in Request /\ x.pc = "admitted" /\ x.ip = req[r].ip
        /\ x.reading = req[r].reading /\ x.at = req[r].at /\ x.lost = req[r].lost
    BY <1>1 DEF Request, Phase
  <2> HIDE DEF x
  <2>3. QuietStep(r, x)
    BY <1>1, <2>1, <2>2 DEF QuietStep, At
  <2> QED BY <2>3, QuietKeeps
<1>4. CASE EvaluationFails(r)
  <2> DEFINE x == [req[r] EXCEPT !.pc = AfterError(r)]
  <2>1. req' = [req EXCEPT ![r] = x] /\ UNCHANGED <<now, limits>> /\ Trying(r)
    BY <1>4 DEF EvaluationFails
  <2>2. AfterError(r) \in {"retrying", "failed"}
    BY DEF AfterError
  <2>3. /\ x \in Request /\ x.pc \in {"retrying", "failed"} /\ x.ip = req[r].ip
        /\ x.reading = req[r].reading /\ x.at = req[r].at /\ x.lost = req[r].lost
    BY <1>1, <2>2 DEF Request, Phase
  <2> HIDE DEF x
  <2>4. QuietStep(r, x)
    BY <1>1, <2>1, <2>3 DEF QuietStep, Trying, At
  <2> QED BY <2>4, QuietKeeps
<1>5. CASE \E skew \in 0..MaxSkew : ReadClock(r, skew)
  <2>1. PICK skew \in 0..MaxSkew : ReadClock(r, skew)
    BY <1>5
  <2> DEFINE x == [req[r] EXCEPT !.pc = "timed", !.reading = now + skew]
  <2>2. req' = [req EXCEPT ![r] = x] /\ UNCHANGED <<now, limits>> /\ At(r, "arrived")
    BY <2>1 DEF ReadClock
  <2>3. now + skew \in Nat /\ now + skew <= now + MaxSkew
    BY <1>1, LimitConstants
  <2>4. /\ x \in Request /\ x.pc = "timed" /\ x.ip = req[r].ip
        /\ x.reading = now + skew /\ x.at = req[r].at /\ x.lost = req[r].lost
    BY <1>1, <2>3 DEF Request, Phase
  <2> HIDE DEF x
  <2>5. QuietStep(r, x)
    BY <1>1, <2>2, <2>3, <2>4 DEF QuietStep, At
  <2> QED BY <2>5, QuietKeeps
<1> QED BY <1>2, <1>3, <1>4, <1>5

\* The answer is lost: whoever may hold a slot has lost an answer.
LEMMA AnswerLostKeeps ==
  ASSUME LimitInv, WindowBound, NEW r \in Requests, AnswerLost(r)
  PROVE  LimitInv' /\ WindowBound'
<1> DEFINE room == HasRoom(Pruned(req[r].ip, req[r].reading))
           x == [req[r] EXCEPT !.pc = AfterError(r), !.lost = req[r].lost \/ room]
<1>1. req[r] \in Request
  BY DEF LimitInv, TypeOK
<1>2. /\ now' = now /\ admitted' = admitted
      /\ Trying(r) /\ Script(r)
  BY DEF AnswerLost
<1>7. req' = [req EXCEPT ![r] = x]
  BY DEF AnswerLost
<1>3. AfterError(r) \in {"retrying", "failed"} /\ room \in BOOLEAN
  BY DEF AfterError, HasRoom
<1> HIDE DEF room
<1>4. /\ x \in Request /\ x.pc \in {"retrying", "failed"} /\ x.ip = req[r].ip
      /\ x.reading = req[r].reading /\ x.at = req[r].at
      /\ x.lost = (req[r].lost \/ room)
  <2>1. (req[r].lost \/ room) \in BOOLEAN
    BY <1>1, <1>3 DEF Request
  <2> QED BY <1>1, <1>3, <2>1 DEF Request, Phase
<1> HIDE DEF x
<1>5. ScriptStep(r, x)
  BY <1>2, <1>4, <1>7 DEF ScriptStep
<1>6. room \/ req[r].lost => x.lost
  BY <1>4
<1> QED BY <1>2, <1>4, <1>5, <1>6, RunKeeps DEF room

\* The answer arrives.
LEMMA EvaluatedKeeps ==
  ASSUME LimitInv, WindowBound, NEW r \in Requests, Evaluated(r)
  PROVE  LimitInv' /\ WindowBound'
<1> DEFINE entries == Pruned(req[r].ip, req[r].reading)
           others == Cardinality(entries \ {r})
<1>1. req[r] \in Request /\ now \in Nat
  BY DEF LimitInv, TypeOK
<1>2. Trying(r) /\ Script(r) /\ now' = now
  BY DEF Evaluated
<1>3. CASE HasRoom(entries)
  <2> DEFINE x == [req[r] EXCEPT !.pc = "admitted", !.at = now, !.lost = FALSE]
  <2>1. req' = [req EXCEPT ![r] = x] /\ admitted' = admitted \cup {r}
    BY <1>3 DEF Evaluated
  <2>2. /\ x \in Request /\ x.pc = "admitted" /\ x.ip = req[r].ip
        /\ x.reading = req[r].reading /\ x.at = now
    BY <1>1 DEF Request, Phase
  <2> HIDE DEF x
  <2>3. ScriptStep(r, x)
    BY <1>2, <2>1, <2>2 DEF ScriptStep
  <2> QED BY <1>3, <2>1, <2>2, <2>3, AdmitKeeps
<1>4. CASE ~HasRoom(entries)
  <2> DEFINE x == [req[r] EXCEPT !.pc = "refused", !.others = others]
  <2>1. req' = [req EXCEPT ![r] = x] /\ admitted' = admitted
    BY <1>4 DEF Evaluated
  <2>2. /\ entries \subseteq bucket[req[r].ip] /\ req[r].ip \in ClientIps
        /\ IsFiniteSet(entries)
        /\ Cardinality(entries) \in Nat
        /\ Cardinality(entries) <= MaxRequests
    BY <1>2, ScriptFacts
  <2>3. others \in Nat
    <3> HIDE DEF entries
    <3> QED BY <2>2, FS_RemoveElement, FS_CardinalityType
  <2>4. ~req[r].lost => others = MaxRequests
    <3> SUFFICES ASSUME ~req[r].lost PROVE others = MaxRequests
      OBVIOUS
    <3>1. r \notin bucket[req[r].ip]
      BY <1>2, <2>2 DEF LimitInv, Slots, Trying, At
    <3>2. entries \ {r} = entries
      BY <2>2, <3>1
    <3>3. Cardinality(entries) = MaxRequests
      BY <1>4, <2>2, LimitConstants DEF HasRoom
    <3> QED BY <3>2, <3>3
  <2> HIDE DEF others
  <2>5. /\ x \in Request /\ x.pc = "refused" /\ x.ip = req[r].ip
        /\ x.reading = req[r].reading /\ x.at = req[r].at
        /\ x.lost = req[r].lost /\ x.others = others
    BY <1>1, <2>3 DEF Request, Phase
  <2> HIDE DEF x
  <2>6. ScriptStep(r, x)
    BY <1>2, <2>1, <2>5 DEF ScriptStep
  <2>7. HasRoom(entries) \/ req[r].lost => x.lost
    BY <1>4, <2>5
  <2> QED BY <2>1, <2>4, <2>5, <2>6, <2>7, RunKeeps
<1> QED BY <1>3, <1>4

\* Redis forgets a bucket only once nothing in it counts any more.
LEMMA TickKeeps ==
  ASSUME LimitInv, WindowBound, Tick
  PROVE  LimitInv' /\ WindowBound'
<1>1. /\ now' = now + 1 /\ now < MaxTime /\ now \in Nat
      /\ req' = req /\ admitted' = admitted
      /\ bucket' = [k \in ClientIps |-> IF ttl[k] <= 1 THEN {} ELSE bucket[k]]
      /\ ttl' = [k \in ClientIps |-> IF ttl[k] = 0 THEN 0 ELSE ttl[k] - 1]
      /\ ttl \in [ClientIps -> 0..Window]
      /\ bucket \in [ClientIps -> SUBSET Requests]
      /\ req \in [Requests -> Request]
      /\ admitted \subseteq Requests
  BY LimitConstants DEF Tick, LimitInv, TypeOK
<1>2. \A k \in ClientIps : bucket'[k] \in {bucket[k], {}}
  BY <1>1
<1>3. TypeOK'
  <2>1. now' \in 0..MaxTime
    BY <1>1, LimitConstants
  <2>2. bucket' \in [ClientIps -> SUBSET Requests]
    BY <1>1
  <2>3. ttl' \in [ClientIps -> 0..Window]
    BY <1>1, LimitConstants
  <2>4. admitted' \in SUBSET Requests
    BY <1>1
  <2>5. \A r \in Requests : ~At(r, "new")' => req'[r].ip \in ClientIps
    BY <1>1 DEF LimitInv, TypeOK, At
  <2> QED BY <1>1, <2>1, <2>2, <2>3, <2>4, <2>5 DEF TypeOK
<1>4. Clocks'
  <2>1. \A r \in Requests : req[r].reading \in Nat /\ req[r].at \in Nat
    BY <1>1 DEF Request
  <2> QED BY <1>1, <2>1, LimitConstants DEF LimitInv, Clocks
<1>5. Done' /\ Turned'
  BY <1>1 DEF LimitInv, Done, Turned, At
<1>6. Full'
  <2>1. Cardinality({}) = 0 /\ 0 <= MaxRequests
    BY LimitConstants, FS_EmptySet
  <2>2. \A k \in ClientIps : Cardinality(bucket[k]) <= MaxRequests
    BY DEF LimitInv, Full
  <2>3. ASSUME NEW k \in ClientIps PROVE Cardinality(bucket'[k]) <= MaxRequests
    BY <1>2, <2>1, <2>2
  <2> QED BY <2>3 DEF Full
<1>7. Slots'
  BY <1>1, <1>2 DEF LimitInv, Slots, At
<1>8. Held'
  <2> SUFFICES ASSUME NEW q \in Requests, Recent(q)'
               PROVE  (q \in bucket[req[q].ip] /\ ttl[req[q].ip] >= req[q].at + Window - now)'
    BY DEF Held
  <2>1. /\ q \in admitted /\ req[q].reading >= req[q].at
        /\ req[q].at > (now + 1) - Span
    <3>1. Recent(q)'
      OBVIOUS
    <3>2. now' = now + 1 /\ req' = req /\ admitted' = admitted
      BY <1>1
    <3>3. q \in admitted' /\ req'[q].at > now' - Span
      BY <3>1 DEF Recent, Span
    <3>4. req'[q].reading >= req'[q].at
      BY <3>1 DEF Recent, Prompt
    <3>5. req[q] = req'[q] /\ q \in admitted
      BY <3>2, <3>3
    <3>6. req[q].at > (now + 1) - Span
      BY <3>2, <3>3
    <3> QED BY <3>4, <3>5, <3>6
  <2>2. /\ req[q].at \in Nat /\ Span \in Int /\ Window \in Nat /\ MaxSkew \in Nat
        /\ Span = Window - MaxSkew
    BY <1>1, LimitConstants DEF Request, Span
  <2>3. Recent(q)
    BY <1>1, <2>1, <2>2 DEF Recent, Prompt
  <2>4. /\ q \in bucket[req[q].ip]
        /\ ttl[req[q].ip] >= req[q].at + Window - now
        /\ req[q].ip \in ClientIps
    BY <2>1, <2>3 DEF LimitInv, Held, Done, TypeOK, At
  <2>5. ttl[req[q].ip] \in Nat
    BY <1>1, <2>4
  <2>6. ttl[req[q].ip] > 1
    BY <1>1, <2>1, <2>2, <2>4, <2>5
  <2>7. bucket'[req[q].ip] = bucket[req[q].ip] /\ ttl'[req[q].ip] = ttl[req[q].ip] - 1
    BY <1>1, <2>4, <2>5, <2>6
  <2>8. ttl'[req[q].ip] >= req[q].at + Window - (now + 1)
    BY <1>1, <2>2, <2>4, <2>5, <2>7
  <2> QED BY <1>1, <2>4, <2>7, <2>8
<1>9. WindowBound'
  BY <1>1, CountKept
<1> QED BY <1>3, <1>4, <1>5, <1>6, <1>7, <1>8, <1>9 DEF LimitInv

LEMMA LoseKeysKeeps ==
  ASSUME LimitInv, LoseKeys
  PROVE  LimitInv' /\ WindowBound'
<1>1. /\ now' = now /\ req' = req /\ admitted' = {}
      /\ bucket' = [k \in ClientIps |-> {}]
      /\ ttl' = [k \in ClientIps |-> 0]
  BY DEF LoseKeys
<1>2. TypeOK'
  <2>1. 0 \in 0..Window
    BY LimitConstants
  <2> QED BY <1>1, <2>1 DEF LimitInv, TypeOK, At
<1>3. (Clocks /\ Done /\ Slots /\ Turned /\ Held)'
  BY <1>1 DEF LimitInv, Clocks, Done, Slots, Turned, Held, Recent, At
<1>4. Full'
  BY <1>1, LimitConstants, FS_EmptySet DEF Full
<1>5. WindowBound'
  BY <1>1 DEF WindowBound
<1> QED BY <1>2, <1>3, <1>4, <1>5 DEF LimitInv

LEMMA LimitStep ==
  ASSUME LimitInv, WindowBound, [Next]_vars
  PROVE  LimitInv' /\ WindowBound'
<1>1. CASE Next
  <2>1. ASSUME NEW r \in Requests,
               \E caller \in Callers, header \in Headers, path \in Paths :
                 Arrive(r, caller, header, path)
        PROVE  LimitInv' /\ WindowBound'
    BY <2>1, ArriveKeeps
  <2>2. ASSUME NEW r \in Requests,
               \/ ArriveUnknown(r) \/ SkipLimit(r) \/ EvaluationFails(r)
               \/ \E skew \in 0..MaxSkew : ReadClock(r, skew)
        PROVE  LimitInv' /\ WindowBound'
    BY <2>2, OtherStepsKeep
  <2>3. ASSUME NEW r \in Requests, Evaluated(r) PROVE LimitInv' /\ WindowBound'
    BY <2>3, EvaluatedKeeps
  <2>4. ASSUME NEW r \in Requests, AnswerLost(r) PROVE LimitInv' /\ WindowBound'
    BY <2>4, AnswerLostKeeps
  <2> QED BY <1>1, <2>1, <2>2, <2>3, <2>4, TickKeeps, LoseKeysKeeps DEF Next
<1>2. CASE UNCHANGED vars
  <2>1. /\ now' = now /\ bucket' = bucket /\ ttl' = ttl /\ admitted' = admitted
        /\ req' = req
    BY <1>2 DEF vars, limits
  <2>2. LimitInv'
    BY <2>1 DEF LimitInv, TypeOK, Clocks, Done, Full, Slots, Turned, Held, Recent,
                Prompt, At
  <2> QED BY <2>1, <2>2, CountKept
<1> QED BY <1>1, <1>2

LEMMA LimitAlways == Spec => [](LimitInv /\ WindowBound)
<1>1. (LimitInv /\ WindowBound) /\ [Next]_vars => (LimitInv /\ WindowBound)'
  BY LimitStep
<1> QED BY <1>1, InitLimit, PTL DEF Spec

-----------------------------------------------------------------------------
(* The theorems about the rate limit *)

\* The model keeps to its types.
THEOREM TypeCorrect == Spec => []TypeOK
<1> QED BY LimitAlways, PTL DEF LimitInv

\* check_rate_limit, "max_requests within the rolling window_seconds window":
\* for any window, any limit, any number of instances and any skew of their
\* clocks, whatever answers are lost.
THEOREM WindowBounded == Spec => []WindowBound
<1> QED BY LimitAlways, PTL

\* The script refuses a caller because of others, and a refused caller holds no
\* slot, unless the answer to a first run was lost.
THEOREM RefusalsAreFair == Spec => []RefusalsFair
<1>1. LimitInv => RefusalsFair
  BY DEF LimitInv, Turned, Slots, RefusalsFair, At
<1> QED BY <1>1, LimitAlways, PTL

\* resolve_client_ip as AuditMiddleware uses it: no header makes a caller from
\* outside count as another outside caller, for any chain of proxies.
THEOREM CallersCountAsThemselves == Spec => []CountsAsItself
<1> DEFINE Unplaced == \A r \in Requests : At(r, "new") => req[r].from = Null
<1>1. Init => Unplaced
  BY DEF Init, Blank, At
<1>2. ASSUME TypeOK, CountsAsItself, Unplaced, Next
      PROVE  CountsAsItself' /\ Unplaced'
  <2> DEFINE Placed(r) == req[r].from \in Addresses \ Proxies =>
                            \/ req[r].ip = req[r].from
                            \/ ~req[r].clean /\ req[r].ip \in Proxies
             Kept(r) == /\ At(r, "new")' => At(r, "new")
                        /\ req'[r].from = req[r].from
                        /\ \/ req'[r].ip = req[r].ip /\ req'[r].clean = req[r].clean
                           \/ req[r].from = Null
  <2>1. req \in [Requests -> Request] /\ Null \notin Addresses
    BY <1>2, AddressConstants DEF TypeOK
  <2>2. ASSUME NEW r \in Requests, Kept(r)
        PROVE  Placed(r)' /\ (At(r, "new")' => req'[r].from = Null)
    BY <1>2, <2>1, <2>2 DEF CountsAsItself
  <2>3. ASSUME NEW r \in Requests, NEW caller \in Callers, NEW header \in Headers,
               NEW path \in Paths, Arrive(r, caller, header, path), NEW p \in Requests
        PROVE  Placed(p)' /\ (At(p, "new")' => req'[p].from = Null)
    <3> DEFINE s == Seen(caller, header, path)
               ip == ResolveClientIp(s[Len(s)], SubSeq(s, 1, Len(s) - 1))
               clean == path = <<>> \/
                          \A i \in DOMAIN header : NormalizeIp[header[i]] # Malformed
               x == [req[r] EXCEPT !.pc = "arrived", !.ip = ip,
                                   !.from = NormalizeIp[caller], !.clean = clean]
    <3>1. req' = [req EXCEPT ![r] = x]
      BY <2>3 DEF Arrive, Seen
    <3>2. NormalizeIp[caller] \notin Proxies =>
            ip = NormalizeIp[caller] \/ (~clean /\ ip \in Proxies)
      BY CallerFound
    <3> HIDE DEF s, ip, clean
    <3>4. x.pc = "arrived" /\ x.from = NormalizeIp[caller] /\ x.ip = ip /\ x.clean = clean
      BY <2>1 DEF Request
    <3> HIDE DEF x
    <3>5. CASE p = r
      <4>1. req'[p] = x
        BY <2>1, <3>1, <3>5
      <4>2. Placed(p)'
        BY <3>2, <3>4, <4>1
      <4> QED BY <3>4, <4>1, <4>2 DEF At
    <3>6. CASE p # r
      <4>1. req'[p] = req[p]
        BY <2>1, <3>1, <3>6
      <4>2. Kept(p)
        BY <4>1 DEF At
      <4> QED BY <2>2, <4>2
    <3> QED BY <3>5, <3>6
  <2>4. ASSUME NEW p \in Requests, \A q \in Requests : Kept(q)
        PROVE  Placed(p)' /\ (At(p, "new")' => req'[p].from = Null)
    BY <2>2, <2>4
  <2>5. ASSUME NEW r \in Requests, NEW p \in Requests,
               \/ ArriveUnknown(r) \/ SkipLimit(r) \/ EvaluationFails(r)
               \/ \E skew \in 0..MaxSkew : ReadClock(r, skew)
               \/ Evaluated(r) \/ AnswerLost(r)
        PROVE  Placed(p)' /\ (At(p, "new")' => req'[p].from = Null)
    <3>1. CASE ArriveUnknown(r)
      <4>1. Kept(p)
        BY <1>2, <2>1, <3>1 DEF ArriveUnknown, At, Request
      <4> QED BY <2>2, <4>1
    <3>2. CASE SkipLimit(r)
      <4>1. Kept(p)
        BY <2>1, <3>2 DEF SkipLimit, At, Request
      <4> QED BY <2>2, <4>1
    <3>3. CASE EvaluationFails(r)
      <4>1. AfterError(r) # "new"
        BY DEF AfterError
      <4>2. Kept(p)
        BY <2>1, <3>3, <4>1 DEF EvaluationFails, At, Request
      <4> QED BY <2>2, <4>2
    <3>4. CASE \E skew \in 0..MaxSkew : ReadClock(r, skew)
      <4>1. Kept(p)
        BY <2>1, <3>4 DEF ReadClock, At, Request
      <4> QED BY <2>2, <4>1
    <3>5. CASE Evaluated(r)
      <4>1. \/ req' = [req EXCEPT ![r] =
                 [req[r] EXCEPT !.pc = "admitted", !.at = now, !.lost = FALSE]]
            \/ \E n : req' = [req EXCEPT ![r] =
                 [req[r] EXCEPT !.pc = "refused", !.others = n]]
        BY <3>5 DEF Evaluated
      <4>2. PICK x : /\ req' = [req EXCEPT ![r] = x]
                     /\ x.pc \in {"admitted", "refused"}
                     /\ x.from = req[r].from /\ x.ip = req[r].ip
                     /\ x.clean = req[r].clean
        BY <2>1, <4>1 DEF Request
      <4>3. Kept(p)
        BY <2>1, <4>2 DEF At
      <4> QED BY <2>2, <4>3
    <3>6. CASE AnswerLost(r)
      <4>1. AfterError(r) # "new"
        BY DEF AfterError
      <4>2. Kept(p)
        BY <2>1, <3>6, <4>1 DEF AnswerLost, At, Request
      <4> QED BY <2>2, <4>2
    <3> QED BY <2>5, <3>1, <3>2, <3>3, <3>4, <3>5, <3>6
  <2>6. ASSUME NEW p \in Requests, Tick \/ LoseKeys
        PROVE  Placed(p)' /\ (At(p, "new")' => req'[p].from = Null)
    <3>1. Kept(p)
      BY <2>6 DEF Tick, LoseKeys, At
    <3> QED BY <2>2, <3>1
  <2>7. \A p \in Requests : Placed(p)' /\ (At(p, "new")' => req'[p].from = Null)
    BY <1>2, <2>3, <2>5, <2>6 DEF Next
  <2> QED BY <2>7 DEF CountsAsItself
<1>3. ASSUME CountsAsItself, Unplaced, UNCHANGED vars
      PROVE  CountsAsItself' /\ Unplaced'
  BY <1>3 DEF CountsAsItself, vars, At
<1>4. Init => CountsAsItself
  BY InitLimit
<1> HIDE DEF Unplaced
<1> QED BY <1>1, <1>2, <1>3, <1>4, TypeCorrect, PTL DEF Spec

-----------------------------------------------------------------------------
(* The location gate *)

\* evaluate goes through the lists that are not empty, and leaves out a country
\* it does not know: what it finds is whether the place is in place, for every
\* policy, address and country.
THEOREM EvaluateIsInPlace ==
  ASSUME NEW p \in Policy, NEW ip \in ClientIps, NEW country
  PROVE  Evaluate(p, ip, country) <=> InPlace(p, ip, country)
<1> DEFINE listed  == \E network \in p.cidrs : ip \in network
           located == IF country = Null THEN ~p.failClosed ELSE country \in p.countries
           known   == country \in p.countries \cup {Null}
           checks  == Checks(p, ip, country)
<1>1. /\ p.mode \in {"all", "any"} /\ p.failClosed \in BOOLEAN
      /\ p.cidrs \subseteq SUBSET Addresses /\ Null \notin p.countries
  BY GateConstants DEF Policy
<1>2. ip \in Addresses <=> ip # Unknown
  BY AddressConstants DEF ClientIps
<1>3. listed => ip \in Addresses
  BY <1>1
<1>4. /\ checks = (IF p.cidrs = {} THEN {} ELSE {listed})
                    \cup (IF p.countries = {} THEN {} ELSE {known})
      /\ listed \in BOOLEAN /\ known \in BOOLEAN
  BY DEF Checks, Listed, Known
<1>5. located = (known /\ ~(country = Null /\ p.failClosed))
  BY <1>1
<1>6. Evaluate(p, ip, country) =
        \/ p.cidrs = {} /\ p.countries = {}
        \/ /\ ip \in Addresses
           /\ ~(p.countries # {} /\ country = Null /\ p.failClosed)
           /\ IF p.mode = "all" THEN FALSE \notin checks ELSE TRUE \in checks
  BY DEF Evaluate
<1>7. InPlace(p, ip, country) =
        CASE p.cidrs = {} /\ p.countries = {} -> TRUE
          [] p.cidrs # {} /\ p.countries = {} -> listed
          [] p.cidrs = {} /\ p.countries # {} -> ip # Unknown /\ located
          [] OTHER -> /\ ip # Unknown
                      /\ IF p.mode = "all" THEN listed /\ located
                         ELSE /\ listed \/ located
                              /\ p.failClosed => country # Null
  BY DEF InPlace
<1> HIDE DEF listed, known, located, checks
<1>8. CASE p.cidrs = {} /\ p.countries = {}
  BY <1>6, <1>7, <1>8
<1>9. CASE p.cidrs # {} /\ p.countries = {}
  <2>1. checks = {listed}
    BY <1>4, <1>9
  <2>2. (FALSE \notin checks <=> listed) /\ (TRUE \in checks <=> listed)
    BY <1>4, <2>1
  <2> QED BY <1>3, <1>6, <1>7, <1>9, <2>2
<1>10. CASE p.cidrs = {} /\ p.countries # {}
  <2>1. checks = {known}
    BY <1>4, <1>10
  <2>2. (FALSE \notin checks <=> known) /\ (TRUE \in checks <=> known)
    BY <1>4, <2>1
  <2> QED BY <1>2, <1>5, <1>6, <1>7, <1>10, <2>2
<1>11. CASE p.cidrs # {} /\ p.countries # {}
  <2>4. checks = {listed, known}
    BY <1>4, <1>11
  <2>1. /\ FALSE \notin checks <=> listed /\ known
        /\ TRUE \in checks <=> listed \/ known
    BY <1>4, <2>4
  <2>2. Evaluate(p, ip, country) =
          /\ ip \in Addresses /\ ~(country = Null /\ p.failClosed)
          /\ IF p.mode = "all" THEN listed /\ known ELSE listed \/ known
    BY <1>6, <1>11, <2>1
  <2>3. InPlace(p, ip, country) =
          /\ ip # Unknown
          /\ IF p.mode = "all" THEN listed /\ located
             ELSE /\ listed \/ located
                  /\ p.failClosed => country # Null
    BY <1>7, <1>11
  <2> QED BY <1>1, <1>2, <1>5, <2>2, <2>3
<1> QED BY <1>8, <1>9, <1>10, <1>11

\* What authorize has found holds of the version it returned, and stays true of
\* it: a policy is never changed, only followed by another.
Judged(r) ==
  visit[r].pc \in {"allowed", "loaded", "reading"} =>
    /\ visit[r].version \in DOMAIN policies
    /\ Evaluate(policies[visit[r].version], visit[r].ip, visit[r].country)
    /\ visit[r].link \in {0, visit[r].version}

Shown(r) ==
  visit[r].pc = "served" =>
    /\ visit[r].locked \in DOMAIN policies
    /\ Evaluate(policies[visit[r].locked], visit[r].ip, visit[r].country)
    /\ visit[r].link \in {0, visit[r].locked}

GateInv ==
  /\ GateTypeOK
  /\ Len(policies) >= 1
  /\ \A r \in Visits : Judged(r) /\ Shown(r)

LEMMA GateInvInit == GateInit => GateInv
<1> SUFFICES ASSUME GateInit PROVE GateInv
  OBVIOUS
<1>1. PICK p \in Policies : policies = <<p>>
  BY DEF GateInit
<1>2. policies \in Seq(Policies) /\ Len(policies) = 1
  BY <1>1
<1>3. \A r \in Visits :
        visit[r] = [pc |-> "new", file |-> FALSE, ip |-> Unknown, link |-> 0,
                   country |-> Null, version |-> 0, locked |-> 0]
  BY DEF GateInit
<1>4. visit \in [Visits -> Visit]
  BY GateConstants, AddressConstants DEF GateInit, Visit, Stage, ClientIps
<1>5. GateTypeOK
  BY <1>2, <1>3, <1>4 DEF GateTypeOK
<1> QED BY <1>2, <1>3, <1>5 DEF GateInv, Judged, Shown

\* A step of one request, while the policy stays.
LEMMA VisitKeeps ==
  ASSUME GateInv, policies' = policies, NEW r \in Visits, NEW x \in Visit,
         visit' = [visit EXCEPT ![r] = x],
         {x.link, x.version, x.locked} \subseteq 0..Len(policies),
         x.pc \in {"allowed", "loaded", "reading"} =>
           /\ x.version \in DOMAIN policies
           /\ Evaluate(policies[x.version], x.ip, x.country)
           /\ x.link \in {0, x.version},
         x.pc = "served" =>
           /\ x.locked \in DOMAIN policies
           /\ Evaluate(policies[x.locked], x.ip, x.country)
           /\ x.link \in {0, x.locked}
  PROVE  GateInv'
<1>1. /\ visit \in [Visits -> Visit]
      /\ visit'[r] = x
      /\ \A q \in Visits : q # r => visit'[q] = visit[q]
  BY DEF GateInv, GateTypeOK
<1>2. GateTypeOK'
  <2>1. visit' \in [Visits -> Visit]
    BY <1>1
  <2>2. \A q \in Visits : {visit'[q].link, visit'[q].version, visit'[q].locked}
                              \subseteq 0..Len(policies)
    BY <1>1 DEF GateInv, GateTypeOK
  <2> QED BY <2>1, <2>2 DEF GateInv, GateTypeOK
<1>3. ASSUME NEW q \in Visits PROVE Judged(q)' /\ Shown(q)'
  BY <1>1 DEF GateInv, Judged, Shown
<1> QED BY <1>2, <1>3 DEF GateInv

\* The owner adds a policy.
LEMMA UpdateKeeps ==
  ASSUME GateInv, NEW p \in Policies, UpdateLocationPolicy(p)
  PROVE  GateInv'
<1>1. /\ policies' = Append(policies, p) /\ visit' = visit
      /\ policies \in Seq(Policies) /\ Len(policies) \in Nat
  BY DEF UpdateLocationPolicy, GateInv, GateTypeOK
<1>2. /\ policies' \in Seq(Policies)
      /\ Len(policies') = Len(policies) + 1
      /\ DOMAIN policies \subseteq DOMAIN policies'
      /\ \A i \in DOMAIN policies : policies'[i] = policies[i]
  BY <1>1
<1>3. GateTypeOK'
  <2>1. 0..Len(policies) \subseteq 0..Len(policies')
    BY <1>1, <1>2
  <2> QED BY <1>1, <1>2, <2>1 DEF GateInv, GateTypeOK
<1>4. ASSUME NEW q \in Visits PROVE Judged(q)' /\ Shown(q)'
  BY <1>1, <1>2 DEF GateInv, Judged, Shown
<1> QED BY <1>1, <1>2, <1>3, <1>4 DEF GateInv

LEMMA GateInvStep ==
  ASSUME GateInv, [GateNext]_gateVars
  PROVE  GateInv'
<1>1. /\ policies \in Seq(Policies) /\ Len(policies) \in Nat /\ Len(policies) >= 1
      /\ DOMAIN policies = 1..Len(policies)
      /\ Policies \subseteq Policy
      /\ visit \in [Visits -> Visit]
      /\ \A r \in Visits : {visit[r].link, visit[r].version, visit[r].locked}
                               \subseteq 0..Len(policies)
      /\ \A r \in Visits : Judged(r) /\ Shown(r)
  BY GateConstants DEF GateInv, GateTypeOK
<1>2. ASSUME NEW r \in Visits, NEW file \in BOOLEAN, NEW ip \in ClientIps,
             NEW link \in 0..Len(policies), Enter(r, file, ip, link)
      PROVE  GateInv'
  <2> DEFINE x == [visit[r] EXCEPT !.pc = "arrived", !.file = file, !.ip = ip, !.link = link]
  <2>1. visit' = [visit EXCEPT ![r] = x] /\ policies' = policies
    BY <1>2 DEF Enter
  <2>3. visit[r] \in Visit /\ link \in Nat /\ ip \in ClientIps
    BY <1>1 DEF ClientIps, ClientIps
  <2>2. /\ x \in Visit /\ x.pc = "arrived" /\ x.link = link
        /\ x.version = visit[r].version /\ x.locked = visit[r].locked
    BY <2>3 DEF Visit, Stage
  <2> HIDE DEF x
  <2> QED BY <1>1, <2>1, <2>2, VisitKeeps
<1>3. ASSUME NEW r \in Visits, NEW d \in Databases, Authorize(r, d)
      PROVE  GateInv'
  <2> DEFINE v == Len(policies)
             country == CountryForIp(policies[v], visit[r].ip, d)
             passes == /\ LinkCurrent(visit[r].link, v)
                       /\ Evaluate(policies[v], visit[r].ip, country)
             pc == IF passes THEN "allowed" ELSE "denied"
             x == [visit[r] EXCEPT !.pc = pc, !.country = country, !.version = v]
  <2>1. visit' = [visit EXCEPT ![r] = x] /\ policies' = policies
    BY <1>3 DEF Authorize
  <2>2. country \in Countries \cup {Null}
    BY GateConstants DEF CountryForIp
  <2>3. /\ pc \in {"allowed", "denied"} /\ v \in DOMAIN policies
        /\ pc = "allowed" => passes
    BY <1>1
  <2>4. passes => /\ visit[r].link \in {0, v}
                  /\ Evaluate(policies[v], visit[r].ip, country)
    BY DEF LinkCurrent
  <2> HIDE DEF country, passes, pc, v
  <2>7. visit[r] \in Visit /\ v \in Nat
    BY <1>1, <2>3
  <2>5. /\ x \in Visit /\ x.pc = pc /\ x.link = visit[r].link
        /\ x.country = country /\ x.ip = visit[r].ip
        /\ x.version = v /\ x.locked = visit[r].locked
    BY <2>2, <2>3, <2>7 DEF Visit, Stage
  <2> HIDE DEF x
  <2>6. {x.link, x.version, x.locked} \subseteq 0..Len(policies)
    BY <1>1, <2>5 DEF v
  <2> QED BY <2>1, <2>3, <2>4, <2>5, <2>6, VisitKeeps
<1>4. ASSUME NEW r \in Visits, LoadFile(r) PROVE GateInv'
  <2> DEFINE pc == IF SameVersion(r, Len(policies)) THEN "loaded" ELSE "denied"
             x == [visit[r] EXCEPT !.pc = pc]
  <2>1. visit' = [visit EXCEPT ![r] = x] /\ policies' = policies /\ visit[r].pc = "allowed"
    BY <1>4 DEF LoadFile, Stands
  <2>2. pc \in {"loaded", "denied"}
    OBVIOUS
  <2> HIDE DEF pc
  <2>3. /\ x \in Visit /\ x.pc = pc /\ x.link = visit[r].link
        /\ x.country = visit[r].country /\ x.ip = visit[r].ip
        /\ x.version = visit[r].version /\ x.locked = visit[r].locked
    BY <1>1, <2>2 DEF Visit, Stage
  <2> HIDE DEF x
  <2> QED BY <1>1, <2>1, <2>2, <2>3, VisitKeeps DEF Judged
<1>5. ASSUME NEW r \in Visits, StartStatement(r) PROVE GateInv'
  <2> DEFINE x == [visit[r] EXCEPT !.pc = "reading", !.locked = Len(policies)]
  <2>1. /\ visit' = [visit EXCEPT ![r] = x] /\ policies' = policies
        /\ visit[r].pc \in {"allowed", "loaded"}
    BY <1>5 DEF StartStatement, Stands
  <2>2. /\ x \in Visit /\ x.pc = "reading" /\ x.link = visit[r].link
        /\ x.country = visit[r].country /\ x.ip = visit[r].ip
        /\ x.version = visit[r].version /\ x.locked = Len(policies)
    BY <1>1 DEF Visit, Stage
  <2> HIDE DEF x
  <2>3. {x.link, x.version, x.locked} \subseteq 0..Len(policies)
    BY <1>1, <2>2
  <2> QED BY <1>1, <2>1, <2>2, <2>3, VisitKeeps DEF Judged
<1>6. ASSUME NEW r \in Visits, View(r) PROVE GateInv'
  <2> DEFINE same == SameVersion(r, visit[r].locked)
             pc == IF same THEN "served" ELSE "denied"
             x == [visit[r] EXCEPT !.pc = pc]
  <2>1. visit' = [visit EXCEPT ![r] = x] /\ policies' = policies /\ visit[r].pc = "reading"
    BY <1>6 DEF View, Stands
  <2>2. pc \in {"served", "denied"} /\ (pc = "served" => visit[r].version = visit[r].locked)
    BY DEF SameVersion
  <2> HIDE DEF pc
  <2>3. /\ x \in Visit /\ x.pc = pc /\ x.link = visit[r].link
        /\ x.country = visit[r].country /\ x.ip = visit[r].ip
        /\ x.version = visit[r].version /\ x.locked = visit[r].locked
    BY <1>1, <2>2 DEF Visit, Stage
  <2> HIDE DEF x
  <2>4. /\ visit[r].version \in DOMAIN policies
        /\ Evaluate(policies[visit[r].version], visit[r].ip, visit[r].country)
        /\ visit[r].link \in {0, visit[r].version}
    BY <1>1, <2>1 DEF Judged
  <2> QED BY <1>1, <2>1, <2>2, <2>3, <2>4, VisitKeeps
<1>7. CASE UNCHANGED gateVars
  BY <1>7 DEF GateInv, GateTypeOK, gateVars, Judged, Shown
<1> QED BY <1>2, <1>3, <1>4, <1>5, <1>6, <1>7, UpdateKeeps DEF GateNext

LEMMA GateAlways == GateSpec => []GateInv
<1>1. GateInv /\ [GateNext]_gateVars => GateInv'
  BY GateInvStep
<1> QED BY <1>1, GateInvInit, PTL DEF GateSpec

THEOREM GateTypeCorrect == GateSpec => []GateTypeOK
<1>1. GateInv => GateTypeOK
  BY DEF GateInv
<1> QED BY <1>1, GateAlways, PTL

\* view_secret and download_file: whatever the policies, the networks, the
\* GeoIP files and the moment of an update, nothing is served to a place that
\* the policy of the locked row does not admit.
THEOREM PolicyServed == GateSpec => []ServedByPolicy
<1>1. GateInv => ServedByPolicy
  <2> SUFFICES ASSUME GateInv, NEW r \in Visits, visit[r].pc = "served"
               PROVE  /\ InPlace(policies[visit[r].locked], visit[r].ip, visit[r].country)
                      /\ visit[r].link \in {0, visit[r].locked}
    BY DEF ServedByPolicy, Stands
  <2>1. /\ visit[r].locked \in DOMAIN policies
        /\ Evaluate(policies[visit[r].locked], visit[r].ip, visit[r].country)
        /\ visit[r].link \in {0, visit[r].locked}
    BY DEF GateInv, Shown
  <2>2. policies[visit[r].locked] \in Policy /\ visit[r].ip \in ClientIps
    BY <2>1, GateConstants DEF GateInv, GateTypeOK, Visit,
                ClientIps, ClientIps
  <2> QED BY <2>1, <2>2, EvaluateIsInPlace
<1> QED BY <1>1, GateAlways, PTL
=============================================================================
