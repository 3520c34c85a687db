-------------------------- MODULE CliSessionProofs --------------------------
(***************************************************************************)
(* Theorems about CliSession for any number of processes, calls and        *)
(* sessions.                                                               *)
(***************************************************************************)
EXTENDS CliSession, TLAPS

-----------------------------------------------------------------------------
(* The inductive invariant *)

\* A session whose refresh token may be exchanged; it stays one.
DueIn(t, rows, aged) == t \in Sessions /\ (t \in aged \/ rows[t] # "open")
Aged == old \cup refused
Due(t) == DueIn(t, server, Aged)

\* Who works on the stored pair.
Working(c) == call[c].pc \in Critical \cup {"loggedIn"}

Mutex ==
  \A c, d \in Calls :
    (Working(c) /\ Working(d) /\ ProcessOf[c] = ProcessOf[d]) => c = d

\* A call runs in a process, and one that is no plain request runs alone.
Running ==
  \A c \in Calls :
    /\ ~At(c, "idle") => proc[ProcessOf[c]].up
    /\ call[c].kind # "request" => ~At(c, "idle") /\ Alone(c)

\* What a call holds.
Holding ==
  \A c \in Calls :
    /\ At(c, "sent") => call[c].token \in Sessions
    /\ At(c, "waiting") => Due(call[c].token)
    /\ (At(c, "sent") \/ At(c, "waiting")) /\ call[c].kind = "logout"
         => call[c].token = Mem(c)
    /\ At(c, "loggedIn") => call[c].new \in Sessions /\ call[c].kind = "login"
    /\ (At(c, "saving") \/ At(c, "writing")) /\ call[c].kind \in {"request", "logout"}
         => call[c].new \in Sessions

\* What is known of an exchange.
Exchanging ==
  \A c \in Calls :
    /\ exch[c].state = "asked" => Due(exch[c].token)
    /\ exch[c].state # "none" => exch[c].token \in Sessions
    /\ exch[c].state = "rotated" => exch[c].new \in Sessions
    /\ exch[c].state \in {"rotated", "refused"} => At(c, "exchanging")
    /\ At(c, "exchanging") => exch[c].state # "none" /\ exch[c].token = Mem(c)

\* A call that has the current pair, or the decision that there is none.
BusyIn(x, e) == \/ e.state = "rotated"
                \/ x.pc \in {"saving", "writing", "loggedIn", "clearing"}
CurrentIn(x, e) == IF e.state = "rotated" THEN e.new
                   ELSE IF x.pc = "clearing" THEN Null ELSE x.new
Busy(c) == BusyIn(call[c], exch[c])
Current(c) == CurrentIn(call[c], exch[c])

\* pair is all there is.
OnlyIn(pair, rows) ==
  /\ \A t \in Sessions : rows[t] = "open" => t = pair
  /\ pair # Null => rows[pair] # "revoked"
OnlyPair(pair) == OnlyIn(pair, server)

Tidy ==
  /\ \A p, q \in Processes : proc[p].up /\ proc[q].up => p = q
  /\ \A p \in Processes : proc[p].up =>
       proc[p].mem = disk \/ \E c \in CallsOf(p) : At(c, "writing")
  /\ \A c \in Calls : Busy(c) => OnlyPair(Current(c))
  /\ (\A c \in Calls : ~Busy(c)) => OnlyPair(disk)

CliInv ==
  TypeOK /\ Mutex /\ Running /\ Holding /\ Exchanging /\ (clean => Tidy)

-----------------------------------------------------------------------------
(* What a step keeps *)

Row == {"unused", "open", "expired", "revoked"}

\* Sessions go one way: unused, open, ended.
Forward ==
  /\ server' \in [Sessions -> Row] /\ old' \in SUBSET Sessions
  /\ active' \in BOOLEAN /\ refused' \in SUBSET Sessions
  /\ \A t \in Sessions : server'[t] = "unused" => server[t] = "unused"
  /\ \A t \in Sessions : (server[t] # "open" /\ server'[t] = "open") => server[t] = "unused"
  /\ \A t \in Sessions : (t \in Aged /\ t \notin Aged') => server'[t] # "open"

LEMMA SameForward ==
  ASSUME TypeOK, UNCHANGED <<server, old, active>>,
         refused' \in SUBSET Sessions, refused \subseteq refused'
  PROVE  Forward
BY DEF TypeOK, Forward, Row, Aged

LEMMA EndedForward ==
  ASSUME TypeOK, NEW t \in Sessions, NEW how \in {"expired", "revoked"},
         Ended(t, how, server), UNCHANGED <<active, refused>>
  PROVE  /\ Forward
         /\ server'[t] = how
         /\ \A u \in Sessions : u # t => server'[u] = server[u]
<1>1. /\ server \in [Sessions -> Row] /\ old \in SUBSET Sessions
      /\ server' = [server EXCEPT ![t] = how] /\ old' = old \ {t}
      /\ active' \in BOOLEAN /\ refused' = refused /\ refused \in SUBSET Sessions
  BY DEF TypeOK, Ended, Row
<1>2. server'[t] = how /\ \A u \in Sessions : u # t => server'[u] = server[u]
  BY <1>1
<1>3. server' \in [Sessions -> Row]
  BY <1>1 DEF Row
<1> QED BY <1>1, <1>2, <1>3 DEF Forward, Aged

LEMMA OpenedForward ==
  ASSUME TypeOK, NEW n \in Sessions, server[n] = "unused",
         server' = [server EXCEPT ![n] = "open"], UNCHANGED <<active, old, refused>>
  PROVE  /\ Forward
         /\ server'[n] = "open"
         /\ \A u \in Sessions : u # n => server'[u] = server[u]
<1>1. /\ server \in [Sessions -> Row] /\ old \in SUBSET Sessions
      /\ active' \in BOOLEAN /\ refused' \in SUBSET Sessions /\ Aged' = Aged
  BY DEF TypeOK, Row, Aged
<1>2. server'[n] = "open" /\ \A u \in Sessions : u # n => server'[u] = server[u]
  BY <1>1
<1>3. server' \in [Sessions -> Row]
  BY <1>1 DEF Row
<1> QED BY <1>1, <1>2, <1>3 DEF Forward

\* A pair that is due stays due.
LEMMA StaysDue ==
  ASSUME Forward, NEW t, Due(t), t \in Sessions => server[t] # "unused"
  PROVE  Due(t)'
BY DEF Forward, Due, DueIn

\* A step of one call, whatever becomes of the sessions and the file.
CallStep(c, x, e) ==
  /\ x \in Call /\ e \in Exchange
  /\ call' = [call EXCEPT ![c] = x]
  /\ exch' = [exch EXCEPT ![c] = e]
  /\ proc' \in [Processes -> [up : BOOLEAN, mem : Pair]]
  /\ \A p \in Processes : proc'[p].up = proc[p].up
  /\ \A p \in Processes : p # ProcessOf[c] => proc'[p].mem = proc[p].mem
  /\ proc'[ProcessOf[c]].mem = Mem(c) \/ At(c, "writing") \/ At(c, "clearing")

LEMMA CallStepFacts ==
  ASSUME TypeOK, NEW c \in Calls, NEW x, NEW e, CallStep(c, x, e)
  PROVE  /\ call'[c] = x /\ exch'[c] = e
         /\ \A d \in Calls : d # c => call'[d] = call[d] /\ exch'[d] = exch[d]
BY DEF TypeOK, CallStep

LEMMA TypeKept ==
  ASSUME TypeOK, NEW c \in Calls, NEW x, NEW e, CallStep(c, x, e), Forward,
         disk' \in Pair, clean' \in BOOLEAN,
         \A t \in Sessions : server'[t] = "unused" =>
           t \notin {disk', proc'[ProcessOf[c]].mem, x.token, x.new, e.token, e.new}
  PROVE  TypeOK'
<1>1. /\ call'[c] = x /\ exch'[c] = e
      /\ \A d \in Calls : d # c => call'[d] = call[d] /\ exch'[d] = exch[d]
  BY CallStepFacts
<1>2. call' \in [Calls -> Call] /\ exch' \in [Calls -> Exchange]
  BY DEF TypeOK, CallStep
<1>3. ASSUME NEW t \in Sessions, server'[t] = "unused"
      PROVE  /\ t # disk'
             /\ \A p \in Processes : proc'[p].mem # t
             /\ \A d \in Calls : t \notin {call'[d].token, call'[d].new,
                                           exch'[d].token, exch'[d].new}
  <2>1. server[t] = "unused"
    BY <1>3 DEF Forward
  <2>2. /\ \A p \in Processes : proc[p].mem # t
        /\ \A d \in Calls : t \notin {call[d].token, call[d].new,
                                      exch[d].token, exch[d].new}
    BY <2>1 DEF TypeOK
  <2>3. \A p \in Processes : proc'[p].mem # t
    BY <1>3, <2>2 DEF CallStep
  <2>4. \A d \in Calls : t \notin {call'[d].token, call'[d].new,
                                   exch'[d].token, exch'[d].new}
    BY <1>1, <1>3, <2>2
  <2> QED BY <1>3, <2>3, <2>4
<1> QED BY <1>2, <1>3 DEF TypeOK, CallStep, Forward, Row

\* The conditions under which a step of c keeps what is known of all calls.
MayTurnInto(c, x) ==
  /\ x.pc # "idle" => proc[ProcessOf[c]].up
  /\ x.kind # "request" => x.pc # "idle" /\ Alone(c)
  /\ x.pc # "idle" /\ At(c, "idle") =>
       \A d \in Siblings(c) : At(d, "idle") \/ call[d].kind = "request"
  /\ x.pc \in Critical \cup {"loggedIn"} =>
       Working(c) \/ \A d \in Siblings(c) : ~Working(d)

MayHold(x, mem, rows, aged) ==
  /\ x.pc = "sent" => x.token \in Sessions
  /\ x.pc = "waiting" => DueIn(x.token, rows, aged)
  /\ x.pc \in {"sent", "waiting"} /\ x.kind = "logout" => x.token = mem
  /\ x.pc = "loggedIn" => x.new \in Sessions /\ x.kind = "login"
  /\ x.pc \in {"saving", "writing"} /\ x.kind \in {"request", "logout"} => x.new \in Sessions

MayExchange(x, e, mem, rows, aged) ==
  /\ e.state = "asked" => DueIn(e.token, rows, aged)
  /\ e.state # "none" => e.token \in Sessions
  /\ e.state = "rotated" => e.new \in Sessions
  /\ e.state \in {"rotated", "refused"} => x.pc = "exchanging"
  /\ x.pc = "exchanging" => e.state # "none" /\ e.token = mem

LEMMA CallsKept ==
  ASSUME TypeOK, Mutex, Running, Holding, Exchanging, Forward,
         NEW c \in Calls, NEW x, NEW e, CallStep(c, x, e),
         MayTurnInto(c, x),
         MayHold(x, proc'[ProcessOf[c]].mem, server', Aged'),
         MayExchange(x, e, proc'[ProcessOf[c]].mem, server', Aged')
  PROVE  (Mutex /\ Running /\ Holding /\ Exchanging)'
<1>1. /\ call'[c] = x /\ exch'[c] = e
      /\ \A d \in Calls : d # c => call'[d] = call[d] /\ exch'[d] = exch[d]
  BY CallStepFacts
<1>2. /\ ProcessOf \in [Calls -> Processes]
      /\ \A p \in Processes : proc'[p].up = proc[p].up
      /\ \A p \in Processes : p # ProcessOf[c] => proc'[p].mem = proc[p].mem
      /\ \/ proc'[ProcessOf[c]].mem = proc[ProcessOf[c]].mem
         \/ call[c].pc \in {"writing", "clearing"}
  BY CliConstants DEF CallStep, Mem, At
<1>3. Mutex'
  <2> SUFFICES ASSUME NEW a \in Calls, NEW b \in Calls,
                      call'[a].pc \in Critical \cup {"loggedIn"},
                      call'[b].pc \in Critical \cup {"loggedIn"},
                      ProcessOf[a] = ProcessOf[b], a # b
               PROVE  FALSE
    BY DEF Mutex, Working
  <2>1. ASSUME NEW d \in Calls, d # c, ProcessOf[d] = ProcessOf[c],
               call'[d].pc \in Critical \cup {"loggedIn"},
               x.pc \in Critical \cup {"loggedIn"}
        PROVE  FALSE
    <3>1. Working(d) /\ d \in Siblings(c)
      BY <1>1, <2>1 DEF Working, Siblings
    <3>2. Working(c)
      BY <2>1, <3>1 DEF MayTurnInto
    <3> QED BY <2>1, <3>1, <3>2 DEF Mutex
  <2>2. CASE a = c
    BY <1>1, <2>1, <2>2
  <2>3. CASE b = c
    BY <1>1, <2>1, <2>3
  <2>4. CASE a # c /\ b # c
    BY <1>1, <2>4 DEF Mutex, Working
  <2> QED BY <2>2, <2>3, <2>4
<1>4. Running'
  <2> SUFFICES ASSUME NEW d \in Calls
               PROVE  /\ call'[d].pc # "idle" => proc'[ProcessOf[d]].up
                      /\ call'[d].kind # "request" =>
                           /\ call'[d].pc # "idle"
                           /\ \A b \in Siblings(d) : call'[b].pc = "idle"
    BY DEF Running, At, Alone, Siblings
  <2>1. CASE d = c
    <3>1. \A b \in Siblings(c) : call'[b] = call[b]
      BY <1>1 DEF Siblings
    <3> QED BY <1>1, <1>2, <2>1, <3>1 DEF MayTurnInto, Alone, At
  <2>2. CASE d # c
    <3>1. call'[d] = call[d] /\ (call[d].pc # "idle" => proc'[ProcessOf[d]].up)
      BY <1>1, <1>2, <2>2 DEF Running, At
    <3>2. ASSUME call[d].kind # "request", NEW b \in Siblings(d)
          PROVE  call[d].pc # "idle" /\ call'[b].pc = "idle"
      <4>1. call[d].pc # "idle" /\ call[b].pc = "idle" /\ b \in Calls
        BY <3>2 DEF Running, Alone, At, Siblings
      <4>2. CASE b # c
        BY <1>1, <4>1, <4>2
      <4>3. CASE b = c
        <5>1. d \in Siblings(c)
          BY <2>2, <3>2, <4>3 DEF Siblings
        <5>2. x.pc = "idle"
          BY <3>2, <4>1, <4>3, <5>1 DEF MayTurnInto, At
        <5> QED BY <1>1, <4>1, <4>3, <5>2
      <4> QED BY <4>2, <4>3
    <3>3. call[d].kind # "request" => call[d].pc # "idle"
      BY DEF Running, At
    <3> QED BY <3>1, <3>2, <3>3
  <2> QED BY <2>1, <2>2
\* A sibling that depends on the pair in memory: it does not change under it.
<1>5. ASSUME NEW d \in Calls, d # c,
             \/ call[d].kind = "logout" /\ call[d].pc # "idle"
             \/ call[d].pc = "exchanging"
      PROVE  proc'[ProcessOf[d]].mem = proc[ProcessOf[d]].mem
  <2>1. CASE ProcessOf[d] # ProcessOf[c]
    BY <1>2, <2>1
  <2>2. CASE ProcessOf[d] = ProcessOf[c] /\ proc'[ProcessOf[c]].mem # proc[ProcessOf[c]].mem
    <3>1. call[c].pc \in {"writing", "clearing"} /\ Working(c)
      BY <1>2, <2>2 DEF Working, Critical
    <3>2. call[d].kind = "request"
      BY <1>5, <2>2, <3>1 DEF Running, Alone, At, Siblings
    <3>3. Working(d)
      BY <1>5, <3>2 DEF Working, Critical
    <3> QED BY <1>5, <2>2, <3>1, <3>3 DEF Mutex
  <2> QED BY <2>1, <2>2
<1>6. \A d \in Calls, t \in Sessions :
        t \in {call[d].token, exch[d].token} => server[t] # "unused"
  BY DEF TypeOK
<1>7. Holding'
  <2> SUFFICES ASSUME NEW d \in Calls
               PROVE  MayHold(call'[d], proc'[ProcessOf[d]].mem, server', Aged')
    BY DEF Holding, MayHold, At, Mem, Due
  <2>1. CASE d = c
    BY <1>1, <2>1
  <2>2. CASE d # c
    <3>1. MayHold(call[d], proc[ProcessOf[d]].mem, server, Aged)
      BY DEF Holding, MayHold, At, Mem, Due
    <3>2. call[d].pc = "waiting" => DueIn(call[d].token, server', Aged')
      BY <1>6, <3>1 DEF MayHold, DueIn, Forward
    <3>3. call[d].pc \in {"sent", "waiting"} /\ call[d].kind = "logout" =>
            call[d].token = proc'[ProcessOf[d]].mem
      BY <1>5, <2>2, <3>1 DEF MayHold
    <3> QED BY <1>1, <2>2, <3>1, <3>2, <3>3 DEF MayHold
  <2> QED BY <2>1, <2>2
<1>8. Exchanging'
  <2> SUFFICES ASSUME NEW d \in Calls
               PROVE  MayExchange(call'[d], exch'[d], proc'[ProcessOf[d]].mem, server', Aged')
    BY DEF Exchanging, MayExchange, At, Mem, Due
  <2>1. CASE d = c
    BY <1>1, <2>1
  <2>2. CASE d # c
    <3>1. MayExchange(call[d], exch[d], proc[ProcessOf[d]].mem, server, Aged)
      BY DEF Exchanging, MayExchange, At, Mem, Due
    <3>2. exch[d].state = "asked" => DueIn(exch[d].token, server', Aged')
      BY <1>6, <3>1 DEF MayExchange, DueIn, Forward
    <3>3. call[d].pc = "exchanging" => exch[d].token = proc'[ProcessOf[d]].mem
      BY <1>5, <2>2, <3>1 DEF MayExchange
    <3> QED BY <1>1, <2>2, <3>1, <3>2, <3>3 DEF MayExchange
  <2> QED BY <2>1, <2>2
<1> QED BY <1>3, <1>4, <1>7, <1>8

\* No session opens, and none is revoked.
Fewer ==
  \A t \in Sessions : /\ server'[t] = "open" => server[t] = "open"
                      /\ server'[t] = "revoked" => server[t] = "revoked"

\* d still has the same pair, or none.
SameBusy(d) ==
  /\ BusyIn(call'[d], exch'[d]) <=> Busy(d)
  /\ Busy(d) => CurrentIn(call'[d], exch'[d]) = Current(d)
  /\ call'[d].pc = "writing" <=> At(d, "writing")

LEMMA CurrentType ==
  ASSUME TypeOK, NEW c \in Calls
  PROVE  Current(c) \in Pair
BY DEF TypeOK, Current, CurrentIn, Call, Exchange, Pair

LEMMA FewerOnly ==
  ASSUME Fewer, NEW pair \in Pair, OnlyPair(pair)
  PROVE  OnlyIn(pair, server')
BY DEF Fewer, OnlyPair, OnlyIn, Pair

LEMMA TidyFrame ==
  ASSUME TypeOK, Tidy, UNCHANGED <<proc, disk>>, Fewer, \A d \in Calls : SameBusy(d)
  PROVE  Tidy'
<1>1. \A d \in Calls : BusyIn(call'[d], exch'[d]) =>
        OnlyIn(CurrentIn(call'[d], exch'[d]), server')
  BY CurrentType, FewerOnly DEF SameBusy, Tidy
<1>2. (\A d \in Calls : ~BusyIn(call'[d], exch'[d])) => OnlyIn(disk', server')
  <2>1. disk \in Pair
    BY DEF TypeOK
  <2> QED BY <2>1, FewerOnly DEF SameBusy, Tidy
<1>3. \A p \in Processes : proc'[p].up =>
        proc'[p].mem = disk' \/ \E d \in CallsOf(p) : call'[d].pc = "writing"
  BY DEF Tidy, SameBusy, At, CallsOf
<1> QED BY <1>1, <1>2, <1>3 DEF Tidy, Busy, Current, OnlyPair, At

\* A call that works, or is alone, is the only one that has a pair.
LEMMA NobodyElse ==
  ASSUME Tidy, Mutex, Running, Exchanging, NEW c \in Calls,
         proc[ProcessOf[c]].up, Working(c) \/ Alone(c),
         NEW d \in Calls, d # c
  PROVE  ~Busy(d) /\ ~At(d, "writing") /\ ~Working(d)
<1>1. Busy(d) \/ At(d, "writing") => Working(d)
  BY DEF Busy, BusyIn, Working, Critical, Exchanging, At
<1>2. ASSUME Working(d) PROVE FALSE
  <2>1. ProcessOf[d] \in Processes /\ ProcessOf[c] \in Processes
    BY CliConstants
  <2>2. ~At(d, "idle")
    BY <1>2 DEF Working, Critical, At
  <2>3. proc[ProcessOf[d]].up
    BY <2>2 DEF Running
  <2>4. ProcessOf[d] = ProcessOf[c]
    BY <2>1, <2>3 DEF Tidy
  <2>5. ~Working(c)
    BY <1>2, <2>4 DEF Mutex
  <2>6. At(d, "idle")
    BY <2>4, <2>5 DEF Alone, Siblings
  <2> QED BY <2>2, <2>6
<1> QED BY <1>1, <1>2

\* c has the pair now, or knows there is none.
LEMMA NowBusy ==
  ASSUME TypeOK, Tidy, UNCHANGED <<proc, disk>>, NEW c \in Calls, NEW x, NEW e,
         CallStep(c, x, e),
         \A d \in Calls : d # c => ~Busy(d) /\ ~At(d, "writing"),
         BusyIn(x, e), OnlyIn(CurrentIn(x, e), server'),
         x.pc = "writing" <=> At(c, "writing")
  PROVE  Tidy'
<1>1. /\ call'[c] = x /\ exch'[c] = e
      /\ \A d \in Calls : d # c => call'[d] = call[d] /\ exch'[d] = exch[d]
  BY CallStepFacts
<1>2. \A d \in Calls : BusyIn(call'[d], exch'[d]) =>
        OnlyIn(CurrentIn(call'[d], exch'[d]), server')
  BY <1>1 DEF Busy
<1>3. \E d \in Calls : BusyIn(call'[d], exch'[d])
  BY <1>1
<1>4. \A p \in Processes : proc'[p].up =>
        proc'[p].mem = disk' \/ \E d \in CallsOf(p) : call'[d].pc = "writing"
  BY <1>1 DEF Tidy, At, CallsOf
<1> QED BY <1>2, <1>3, <1>4 DEF Tidy, Busy, Current, OnlyPair, At

\* Where nothing is being written, a client holds the pair in the file.
LEMMA FileAgrees ==
  ASSUME Tidy, NEW c \in Calls, proc[ProcessOf[c]].up,
         \A d \in Calls : ~At(d, "writing")
  PROVE  Mem(c) = disk
BY CliConstants DEF Tidy, Mem, CallsOf

-----------------------------------------------------------------------------
(* The steps of one call *)

\* Nothing moves but the call and its exchange.
QuietStep(c, x, e) ==
  /\ x \in Call /\ e \in Exchange
  /\ call' = [call EXCEPT ![c] = x]
  /\ exch' = [exch EXCEPT ![c] = e]
  /\ UNCHANGED <<server, active, old, disk, proc>>
  /\ refused' \in SUBSET Sessions /\ refused \subseteq refused'
  /\ clean' \in BOOLEAN /\ (clean' => clean)
  /\ {x.token, x.new, e.token, e.new} \subseteq
       {Null, Mem(c), call[c].token, call[c].new, exch[c].token, exch[c].new}

\* c keeps what it has; or it is the one that has the pair, or knows that there
\* is none.
MayChange(c, x, e) ==
  \/ /\ BusyIn(x, e) <=> Busy(c)
     /\ Busy(c) => CurrentIn(x, e) = Current(c)
     /\ x.pc = "writing" <=> At(c, "writing")
  \/ /\ BusyIn(x, e)
     /\ OnlyPair(CurrentIn(x, e))
     /\ x.pc # "writing" /\ ~At(c, "writing")
     /\ proc[ProcessOf[c]].up
     /\ Working(c) \/ Alone(c)

LEMMA AgingKeeps ==
  ASSUME CliInv, NEW c \in Calls, NEW x, NEW e, QuietStep(c, x, e),
         MayTurnInto(c, x), MayHold(x, Mem(c), server, Aged'),
         MayExchange(x, e, Mem(c), server, Aged'),
         clean' => MayChange(c, x, e)
  PROVE  CliInv'
<1>1. /\ TypeOK /\ Mutex /\ Running /\ Holding /\ Exchanging
      /\ clean => Tidy
      /\ ProcessOf[c] \in Processes
  BY CliConstants DEF CliInv
<1>2. CallStep(c, x, e)
  BY <1>1 DEF QuietStep, CallStep, TypeOK, Mem
<1>3. Forward
  BY <1>1, SameForward DEF QuietStep
<1>4. /\ server' = server /\ proc' = proc /\ disk' = disk
      /\ proc'[ProcessOf[c]].mem = Mem(c)
  BY DEF QuietStep, Mem
<1>5. TypeOK'
  <2>1. \A t \in Sessions : server'[t] = "unused" =>
          t \notin {disk', proc'[ProcessOf[c]].mem, x.token, x.new, e.token, e.new}
    <3> SUFFICES ASSUME NEW t \in Sessions, server[t] = "unused"
                 PROVE  t \notin {disk, Mem(c), x.token, x.new, e.token, e.new}
      BY <1>4
    <3>1. t \notin {disk, Mem(c), Null, call[c].token, call[c].new, exch[c].token, exch[c].new}
      BY <1>1, CliConstants DEF TypeOK, Mem
    <3> QED BY <3>1 DEF QuietStep
  <2>2. disk' \in Pair /\ clean' \in BOOLEAN
    BY <1>1 DEF QuietStep, TypeOK
  <2> QED BY <1>1, <1>2, <1>3, <2>1, <2>2, TypeKept
<1>6. (Mutex /\ Running /\ Holding /\ Exchanging)'
  BY <1>1, <1>2, <1>3, <1>4, CallsKept
<1>7. ASSUME clean' PROVE Tidy'
  <2>1. Tidy /\ MayChange(c, x, e)
    BY <1>1, <1>7 DEF QuietStep
  <2>2. /\ call'[c] = x /\ exch'[c] = e
        /\ \A d \in Calls : d # c => call'[d] = call[d] /\ exch'[d] = exch[d]
    BY <1>1, <1>2, CallStepFacts
  <2>3. CASE /\ BusyIn(x, e) <=> Busy(c)
             /\ Busy(c) => CurrentIn(x, e) = Current(c)
             /\ x.pc = "writing" <=> At(c, "writing")
    <3>1. \A d \in Calls : SameBusy(d)
      BY <2>2, <2>3 DEF SameBusy, Busy, Current, At
    <3>2. Fewer
      BY <1>4 DEF Fewer
    <3> QED BY <1>1, <1>4, <2>1, <3>1, <3>2, TidyFrame
  <2>4. CASE /\ BusyIn(x, e)
             /\ OnlyPair(CurrentIn(x, e))
             /\ x.pc # "writing" /\ ~At(c, "writing")
             /\ proc[ProcessOf[c]].up
             /\ Working(c) \/ Alone(c)
    <3>1. \A d \in Calls : d # c => ~Busy(d) /\ ~At(d, "writing")
      BY <1>1, <2>1, <2>4, NobodyElse
    <3>2. OnlyIn(CurrentIn(x, e), server')
      BY <1>4, <2>4 DEF OnlyPair
    <3> QED BY <1>1, <1>2, <1>4, <2>1, <2>4, <3>1, <3>2, NowBusy
  <2> QED BY <2>1, <2>3, <2>4 DEF MayChange
<1> QED BY <1>5, <1>6, <1>7 DEF CliInv

LEMMA QuietKeeps ==
  ASSUME CliInv, NEW c \in Calls, NEW x, NEW e, QuietStep(c, x, e),
         MayTurnInto(c, x), MayHold(x, Mem(c), server, Aged),
         MayExchange(x, e, Mem(c), server, Aged),
         clean' => MayChange(c, x, e)
  PROVE  CliInv'
<1>1. Aged \subseteq Aged'
  BY DEF QuietStep, Aged
<1>2. MayHold(x, Mem(c), server, Aged') /\ MayExchange(x, e, Mem(c), server, Aged')
  BY <1>1 DEF MayHold, MayExchange, DueIn
<1> QED BY <1>2, AgingKeeps

LEMMA BlankTypes ==
  /\ IdleCall \in Call /\ IdleCall.pc = "idle" /\ IdleCall.kind = "request"
  /\ IdleCall.token = Null /\ IdleCall.new = Null
  /\ NoExchange \in Exchange /\ NoExchange.state = "none"
  /\ NoExchange.token = Null /\ NoExchange.new = Null
BY DEF IdleCall, Call, NoExchange, Exchange, Pair

\* A call ends.  If it is a log-out, its session is no longer open.
LEMMA EndKeeps ==
  ASSUME CliInv, NEW c \in Calls, NEW e,
         End(c), exch' = [exch EXCEPT ![c] = e],
         e = exch[c] \/ e = NoExchange,
         e.state \notin {"rotated", "refused"},
         UNCHANGED <<server, active, old, disk, proc>>,
         refused' \in SUBSET Sessions, refused \subseteq refused',
         clean' \in BOOLEAN, clean' => clean,
         ~At(c, "idle"),
         clean' => ~Busy(c),
         clean' /\ call[c].kind = "logout" =>
           (At(c, "sent") \/ At(c, "waiting")) /\ server[call[c].token] # "open"
  PROVE  CliInv'
<1>1. /\ TypeOK /\ Mutex /\ Running /\ Holding /\ Exchanging
      /\ clean => Tidy
      /\ ProcessOf[c] \in Processes
      /\ call[c] \in Call /\ exch[c] \in Exchange
  BY CliConstants DEF CliInv, TypeOK
<1>2. MayExchange(IdleCall, e, Mem(c), server, Aged)
  BY <1>1, BlankTypes DEF Exchanging, MayExchange, Due
<1>3. e \in Exchange /\ {e.token, e.new} \subseteq {Null, exch[c].token, exch[c].new}
  BY <1>1, BlankTypes
<1>4. CASE call[c].kind # "logout"
  <2>1. call' = [call EXCEPT ![c] = IdleCall]
    BY <1>4 DEF End, AfterEnd
  <2>2. QuietStep(c, IdleCall, e)
    BY <1>3, <2>1, BlankTypes DEF QuietStep
  <2>3. MayTurnInto(c, IdleCall) /\ MayHold(IdleCall, Mem(c), server, Aged)
    BY BlankTypes DEF MayTurnInto, MayHold, Critical
  <2>4. clean' => MayChange(c, IdleCall, e)
    BY BlankTypes DEF MayChange, Busy, BusyIn, At
  <2> QED BY <1>2, <2>2, <2>3, <2>4, QuietKeeps
<1>5. CASE call[c].kind = "logout"
  <2> DEFINE x == [call[c] EXCEPT !.pc = "clearing"]
  <2>1. call' = [call EXCEPT ![c] = x]
    BY <1>5 DEF End, AfterEnd
  <2>2. /\ x \in Call /\ x.pc = "clearing" /\ x.kind = "logout"
        /\ x.token = call[c].token /\ x.new = call[c].new
    BY <1>1, <1>5 DEF Call
  <2> HIDE DEF x
  <2>3. QuietStep(c, x, e)
    BY <1>3, <2>1, <2>2 DEF QuietStep
  <2>4. proc[ProcessOf[c]].up /\ Alone(c)
    BY <1>1, <1>5 DEF Running
  <2>5. MayTurnInto(c, x)
    BY <2>2, <2>4 DEF MayTurnInto, Alone, At, Working, Critical
  <2>6. MayHold(x, Mem(c), server, Aged)
    BY <2>2 DEF MayHold
  <2>7. MayExchange(x, e, Mem(c), server, Aged)
    BY <1>2, <2>2, BlankTypes DEF MayExchange
  <2>8. ASSUME clean' PROVE MayChange(c, x, e)
    <3>1. Tidy /\ ~At(c, "writing") /\ server[call[c].token] # "open"
      BY <1>1, <1>5, <2>8 DEF At
    <3>2. \A d \in Calls : ~At(d, "writing")
      BY <1>1, <2>4, <3>1, NobodyElse
    <3>3. call[c].token = disk
      BY <1>1, <1>5, <2>4, <2>8, <3>1, <3>2, FileAgrees DEF Holding
    <3>4. \A d \in Calls : ~Busy(d)
      BY <1>1, <2>4, <2>8, <3>1, NobodyElse
    <3>5. \A t \in Sessions : server[t] # "open"
      BY <3>1, <3>3, <3>4 DEF Tidy, OnlyPair, OnlyIn
    <3>6. BusyIn(x, e) /\ CurrentIn(x, e) = Null
      BY <2>2 DEF BusyIn, CurrentIn
    <3> QED BY <2>2, <2>4, <3>1, <3>5, <3>6 DEF MayChange, OnlyPair, OnlyIn
  <2> QED BY <2>3, <2>5, <2>6, <2>7, <2>8, QuietKeeps
<1> QED BY <1>4, <1>5

\* What CliInv says of one call.
CallFacts(c) ==
  /\ ProcessOf[c] \in Processes
  /\ call[c] \in Call /\ exch[c] \in Exchange
  /\ Mem(c) \in Pair
  /\ MayHold(call[c], Mem(c), server, Aged)
  /\ MayExchange(call[c], exch[c], Mem(c), server, Aged)
  /\ ~At(c, "idle") => proc[ProcessOf[c]].up
  /\ call[c].kind # "request" => ~At(c, "idle") /\ Alone(c)

LEMMA CallFactsHold ==
  ASSUME CliInv, NEW c \in Calls
  PROVE  CallFacts(c)
<1>1. ProcessOf[c] \in Processes /\ call[c] \in Call /\ exch[c] \in Exchange /\ Mem(c) \in Pair
  BY CliConstants DEF CliInv, TypeOK, Mem
<1>2. MayHold(call[c], Mem(c), server, Aged)
  BY DEF CliInv, Holding, MayHold, Due, At
<1>3. MayExchange(call[c], exch[c], Mem(c), server, Aged)
  BY DEF CliInv, Exchanging, MayExchange, Due, At
<1> QED BY <1>1, <1>2, <1>3 DEF CallFacts, CliInv, Running

\* A call that starts, in a process with no other than plain requests.
LEMMA BeginTurns ==
  ASSUME CliInv, NEW c \in Calls, MayBegin(c), NEW x, x.pc \notin {"idle"},
         x.kind # "request" => Alone(c),
         x.pc \in Critical \cup {"loggedIn"} => Alone(c)
  PROVE  MayTurnInto(c, x)
BY DEF MayBegin, MayTurnInto, Alone, Working, Critical, At

LEMMA SendKeeps ==
  ASSUME CliInv, NEW c \in Calls, NEW kind \in {"request", "logout"},
         NEW soon \in BOOLEAN, Send(c, kind, soon)
  PROVE  CliInv'
<1> DEFINE pc == IF soon THEN "waiting" ELSE "sent"
           x == [IdleCall EXCEPT !.pc = pc, !.kind = kind, !.token = Mem(c)]
<1>1. /\ call' = [call EXCEPT ![c] = x]
      /\ UNCHANGED <<server, active, old, disk, proc, exch, clean, refused>>
      /\ Mem(c) # Null /\ MayBegin(c)
      /\ kind = "logout" => Alone(c)
      /\ soon => MayBeSoon(Mem(c))
  BY DEF Send
<1>2. CallFacts(c) /\ pc \in {"waiting", "sent"} /\ (pc = "waiting" => soon)
  BY CallFactsHold
<1>3. Mem(c) \in Sessions
  BY <1>1, <1>2 DEF CallFacts, Pair
<1> HIDE DEF pc
<1>4. /\ x \in Call /\ x.pc = pc /\ x.kind = kind /\ x.token = Mem(c) /\ x.new = Null
  BY <1>2, <1>3 DEF Call, IdleCall, Pair
<1> HIDE DEF x
<1>5. exch' = [exch EXCEPT ![c] = exch[c]] /\ exch[c].state = "none" /\ At(c, "idle")
  BY <1>1 DEF CliInv, TypeOK, MayBegin
<1>6. QuietStep(c, x, exch[c])
  BY <1>1, <1>2, <1>4, <1>5 DEF QuietStep, CallFacts, CliInv, TypeOK
<1>7. MayTurnInto(c, x)
  BY <1>1, <1>2, <1>4, BeginTurns DEF Critical
<1>8. MayHold(x, Mem(c), server, Aged)
  BY <1>1, <1>2, <1>3, <1>4 DEF MayHold, DueIn, MayBeSoon, Aged
<1>9. MayExchange(x, exch[c], Mem(c), server, Aged)
  BY <1>2, <1>4, <1>5 DEF MayExchange
<1>10. MayChange(c, x, exch[c])
  BY <1>2, <1>4, <1>5 DEF MayChange, BusyIn, Busy, At
<1> QED BY <1>6, <1>7, <1>8, <1>9, <1>10, QuietKeeps

LEMMA ChallengedKeeps ==
  ASSUME CliInv, NEW c \in Calls, Challenged(c)
  PROVE  CliInv'
<1>1. /\ At(c, "sent")
      /\ UNCHANGED <<server, active, old, disk, proc, exch>>
      /\ refused' = refused \cup {call[c].token}
      /\ exch' = [exch EXCEPT ![c] = exch[c]]
      /\ clean' = (clean /\ (call[c].kind = "logout" /\ call[c].again
                               => server[call[c].token] # "open"))
      /\ clean \in BOOLEAN /\ refused \in SUBSET Sessions
  BY DEF Challenged, Goes, CliInv, TypeOK
<1>2. CallFacts(c) /\ refused' \in SUBSET Sessions /\ refused \subseteq refused'
  BY <1>1, CallFactsHold DEF CallFacts, MayHold, At
<1>3. exch[c].state \notin {"rotated", "refused"} /\ ~Busy(c)
  BY <1>1, <1>2 DEF CallFacts, MayExchange, At, Busy, BusyIn
<1>4. CASE call[c].again
  <2>1. End(c)
    BY <1>4 DEF Challenged
  <2>2. clean' \in BOOLEAN /\ (clean' => clean)
    BY <1>1
  <2>3. clean' /\ call[c].kind = "logout" => server[call[c].token] # "open"
    BY <1>1, <1>4
  <2> QED BY <1>1, <1>2, <1>3, <2>1, <2>2, <2>3, EndKeeps DEF At
<1>5. CASE ~call[c].again
  <2> DEFINE x == [call[c] EXCEPT !.pc = "waiting", !.again = TRUE]
  <2>1. call' = [call EXCEPT ![c] = x] /\ clean' = clean
    BY <1>1, <1>5 DEF Challenged
  <2>2. /\ x \in Call /\ x.pc = "waiting" /\ x.kind = call[c].kind
        /\ x.token = call[c].token /\ x.new = call[c].new
    BY <1>2 DEF CallFacts, Call
  <2>3. call[c].token \in Aged'
    BY <1>1 DEF Aged
  <2> HIDE DEF x
  <2>4. QuietStep(c, x, exch[c])
    BY <1>1, <1>2, <2>1, <2>2 DEF QuietStep, CallFacts
  <2>5. MayTurnInto(c, x)
    BY <1>1, <1>2, <2>2 DEF MayTurnInto, CallFacts, At, Critical
  <2>6. MayHold(x, Mem(c), server, Aged')
    BY <1>1, <1>2, <2>2, <2>3 DEF MayHold, CallFacts, DueIn, At
  <2>7. MayExchange(x, exch[c], Mem(c), server, Aged')
    <3>1. Aged \subseteq Aged'
      BY <2>4 DEF QuietStep, Aged
    <3> QED BY <1>2, <1>3, <2>2, <3>1 DEF MayExchange, CallFacts, DueIn
  <2>8. MayChange(c, x, exch[c])
    BY <1>1, <1>3, <2>2 DEF MayChange, BusyIn, Busy, At
  <2> QED BY <2>4, <2>5, <2>6, <2>7, <2>8, AgingKeeps
<1> QED BY <1>4, <1>5

LEMMA UnansweredKeeps ==
  ASSUME CliInv, NEW c \in Calls, Unanswered(c)
  PROVE  CliInv'
<1>1. /\ At(c, "sent") /\ End(c)
      /\ UNCHANGED <<server, active, old, disk, proc, exch, refused>>
      /\ exch' = [exch EXCEPT ![c] = exch[c]]
      /\ clean' = (clean /\ (call[c].kind = "logout" => server[call[c].token] # "open"))
      /\ clean \in BOOLEAN /\ refused \in SUBSET Sessions
  BY DEF Unanswered, Goes, CliInv, TypeOK
<1>2. CallFacts(c)
  BY CallFactsHold
<1>3. exch[c].state \notin {"rotated", "refused"} /\ ~Busy(c)
  BY <1>1, <1>2 DEF CallFacts, MayExchange, At, Busy, BusyIn
<1>4. /\ clean' \in BOOLEAN /\ (clean' => clean)
      /\ clean' /\ call[c].kind = "logout" => server[call[c].token] # "open"
  BY <1>1
<1> QED BY <1>1, <1>3, <1>4, EndKeeps DEF At

LEMMA UseRenewedKeeps ==
  ASSUME CliInv, NEW c \in Calls, UseRenewed(c)
  PROVE  CliInv'
<1>1. /\ At(c, "waiting") /\ Renewed(c)
      /\ UNCHANGED <<server, active, old, disk, proc, exch, clean, refused>>
      /\ exch' = [exch EXCEPT ![c] = exch[c]]
      /\ clean \in BOOLEAN /\ refused \in SUBSET Sessions
  BY DEF UseRenewed, CliInv, TypeOK
<1>2. CallFacts(c)
  BY CallFactsHold
<1>3. exch[c].state \notin {"rotated", "refused"} /\ ~Busy(c)
  BY <1>1, <1>2 DEF CallFacts, MayExchange, At, Busy, BusyIn
<1>4. call[c].kind # "logout"
  BY <1>1, <1>2 DEF CallFacts, MayHold, At, Renewed
<1>5. CASE Mem(c) = Null
  <2>1. End(c)
    BY <1>5 DEF UseRenewed
  <2> QED BY <1>1, <1>3, <1>4, <2>1, EndKeeps DEF At
<1>6. CASE Mem(c) # Null
  <2> DEFINE x == [call[c] EXCEPT !.pc = "sent", !.token = Mem(c)]
  <2>1. call' = [call EXCEPT ![c] = x]
    BY <1>6 DEF UseRenewed
  <2>2. Mem(c) \in Sessions
    BY <1>2, <1>6 DEF CallFacts, Pair
  <2>3. /\ x \in Call /\ x.pc = "sent" /\ x.kind = call[c].kind
        /\ x.token = Mem(c) /\ x.new = call[c].new
    BY <1>2 DEF CallFacts, Call
  <2> HIDE DEF x
  <2>4. QuietStep(c, x, exch[c])
    BY <1>1, <1>2, <2>1, <2>3 DEF QuietStep, CallFacts
  <2>5. MayTurnInto(c, x)
    BY <1>1, <1>2, <2>3 DEF MayTurnInto, CallFacts, At, Critical
  <2>6. MayHold(x, Mem(c), server, Aged)
    BY <2>2, <2>3 DEF MayHold
  <2>7. MayExchange(x, exch[c], Mem(c), server, Aged)
    BY <1>2, <1>3, <2>3 DEF MayExchange, CallFacts
  <2>8. MayChange(c, x, exch[c])
    BY <1>1, <1>3, <2>3 DEF MayChange, BusyIn, Busy, At
  <2> QED BY <2>4, <2>5, <2>6, <2>7, <2>8, QuietKeeps
<1> QED BY <1>5, <1>6

LEMMA LockKeeps ==
  ASSUME CliInv, NEW c \in Calls, Lock(c)
  PROVE  CliInv'
<1> DEFINE x == [call[c] EXCEPT !.pc = "exchanging"]
           e == [state |-> "asked", token |-> Mem(c), new |-> Null]
<1>1. /\ At(c, "waiting") /\ ~Locked(c) /\ Stale(c) /\ Mem(c) # Null
      /\ UNCHANGED <<server, active, old, disk, proc, clean, refused>>
      /\ call' = [call EXCEPT ![c] = x] /\ exch' = [exch EXCEPT ![c] = e]
      /\ clean \in BOOLEAN /\ refused \in SUBSET Sessions
  BY DEF Lock, Goto, CliInv, TypeOK
<1>2. CallFacts(c)
  BY CallFactsHold
<1>3. Mem(c) \in Sessions
  BY <1>1, <1>2 DEF CallFacts, Pair
<1>4. /\ x \in Call /\ x.pc = "exchanging" /\ x.kind = call[c].kind
      /\ x.token = call[c].token /\ x.new = call[c].new
      /\ e \in Exchange /\ e.state = "asked" /\ e.token = Mem(c) /\ e.new = Null
  BY <1>2, <1>3 DEF CallFacts, Call, Exchange, Pair
<1> HIDE DEF x, e
<1>5. QuietStep(c, x, e)
  BY <1>1, <1>4 DEF QuietStep
<1>6. MayTurnInto(c, x)
  <2>1. \A d \in Siblings(c) : ~Working(d)
    <3> SUFFICES ASSUME NEW d \in Siblings(c), call[d].pc = "loggedIn" PROVE FALSE
      BY <1>1 DEF Locked, Working
    <3>1. CallFacts(d) /\ d \in Calls /\ c \in Siblings(d)
      BY CallFactsHold DEF Siblings
    <3>2. At(c, "idle")
      BY <3>1 DEF CallFacts, MayHold, Alone
    <3> QED BY <1>1, <3>2 DEF At
  <2> QED BY <1>1, <1>2, <1>4, <2>1 DEF MayTurnInto, CallFacts, At
<1>7. MayHold(x, Mem(c), server, Aged)
  BY <1>4 DEF MayHold
<1>8. MayExchange(x, e, Mem(c), server, Aged)
  BY <1>1, <1>2, <1>3, <1>4 DEF MayExchange, CallFacts, MayHold, DueIn, Stale, MayBeSoon, Aged, At
<1>9. exch[c].state \notin {"rotated"} /\ ~Busy(c)
  BY <1>1, <1>2 DEF CallFacts, MayExchange, At, Busy, BusyIn
<1>10. MayChange(c, x, e)
  BY <1>1, <1>4, <1>9 DEF MayChange, BusyIn, At
<1> QED BY <1>5, <1>6, <1>7, <1>8, <1>10, QuietKeeps

LEMMA ReadSessionKeeps ==
  ASSUME CliInv, NEW c \in Calls, ReadSession(c)
  PROVE  CliInv'
<1> DEFINE e == IF Accepted(exch[c].token) THEN [exch[c] EXCEPT !.state = "read"]
                ELSE IF At(c, "exchanging") THEN [exch[c] EXCEPT !.state = "refused"]
                ELSE NoExchange
<1>1. /\ exch[c].state = "asked"
      /\ UNCHANGED <<server, active, old, disk, proc, call, clean, refused>>
      /\ exch' = [exch EXCEPT ![c] = e]
      /\ call' = [call EXCEPT ![c] = call[c]]
      /\ clean \in BOOLEAN /\ refused \in SUBSET Sessions
  BY DEF ReadSession, CliInv, TypeOK
<1>2. CallFacts(c)
  BY CallFactsHold
<1>3. /\ e \in Exchange
      /\ \/ e.state = "read" /\ e.token = exch[c].token /\ e.new = exch[c].new
         \/ /\ e.state = "refused" /\ e.token = exch[c].token /\ e.new = exch[c].new
            /\ At(c, "exchanging")
         \/ e.state = "none" /\ e.token = Null /\ e.new = Null /\ ~At(c, "exchanging")
  BY <1>2, BlankTypes DEF CallFacts, Exchange
<1> HIDE DEF e
<1>4. QuietStep(c, call[c], e)
  BY <1>1, <1>2, <1>3 DEF QuietStep, CallFacts
<1>5. MayTurnInto(c, call[c])
  BY <1>2 DEF MayTurnInto, CallFacts, At, Working
<1>6. MayHold(call[c], Mem(c), server, Aged)
  BY <1>2 DEF CallFacts
<1>7. MayExchange(call[c], e, Mem(c), server, Aged)
  BY <1>1, <1>2, <1>3 DEF MayExchange, CallFacts, At
<1>8. MayChange(c, call[c], e)
  BY <1>1, <1>3 DEF MayChange, BusyIn, Busy, CurrentIn, Current, At
<1> QED BY <1>4, <1>5, <1>6, <1>7, <1>8, QuietKeeps

\* The exchange of c ends without a pair, and c with it.
LEMMA AbandonKeeps ==
  ASSUME CliInv, NEW c \in Calls, ExchangeFails(c) \/ GiveUp(c)
  PROVE  CliInv'
<1>1. /\ At(c, "exchanging") /\ End(c)
      /\ UNCHANGED <<server, active, old, disk, proc, refused>>
      /\ clean \in BOOLEAN /\ refused \in SUBSET Sessions
  BY DEF ExchangeFails, GiveUp, CliInv, TypeOK
<1>2. PICK e \in {exch[c], NoExchange} :
        exch' = [exch EXCEPT ![c] = e] /\ e.state \notin {"rotated", "refused"}
  <2>1. exch = [exch EXCEPT ![c] = exch[c]]
    BY DEF CliInv, TypeOK
  <2> QED BY <2>1, BlankTypes DEF ExchangeFails, GiveUp
<1>3. /\ clean' \in BOOLEAN /\ (clean' => clean)
      /\ clean' => call[c].kind # "logout" /\ exch[c].state # "rotated"
  BY <1>1 DEF ExchangeFails, GiveUp, Goes
<1>4. clean' => ~Busy(c)
  BY <1>1, <1>3 DEF Busy, BusyIn, At
<1> QED BY <1>1, <1>2, <1>3, <1>4, EndKeeps DEF At

LEMMA AdoptKeeps ==
  ASSUME CliInv, NEW c \in Calls, Adopt(c)
  PROVE  CliInv'
<1> DEFINE x == [call[c] EXCEPT !.pc = "saving", !.new = exch[c].new]
<1>1. /\ At(c, "exchanging") /\ exch[c].state = "rotated"
      /\ UNCHANGED <<server, active, old, disk, proc, clean, refused>>
      /\ call' = [call EXCEPT ![c] = x] /\ exch' = [exch EXCEPT ![c] = NoExchange]
      /\ clean \in BOOLEAN /\ refused \in SUBSET Sessions
  BY DEF Adopt, CliInv, TypeOK
<1>2. CallFacts(c)
  BY CallFactsHold
<1>3. exch[c].new \in Sessions
  BY <1>1, <1>2 DEF CallFacts, MayExchange
<1>4. /\ x \in Call /\ x.pc = "saving" /\ x.kind = call[c].kind
      /\ x.token = call[c].token /\ x.new = exch[c].new
  BY <1>2, <1>3 DEF CallFacts, Call, Pair
<1> HIDE DEF x
<1>5. QuietStep(c, x, NoExchange)
  BY <1>1, <1>4, BlankTypes DEF QuietStep
<1>6. MayTurnInto(c, x)
  BY <1>1, <1>2, <1>4 DEF MayTurnInto, CallFacts, At, Working, Critical
<1>7. MayHold(x, Mem(c), server, Aged)
  BY <1>3, <1>4 DEF MayHold
<1>8. MayExchange(x, NoExchange, Mem(c), server, Aged)
  BY <1>4, BlankTypes DEF MayExchange
<1>9. MayChange(c, x, NoExchange)
  BY <1>1, <1>4, BlankTypes DEF MayChange, BusyIn, Busy, CurrentIn, Current, At
<1> QED BY <1>5, <1>6, <1>7, <1>8, <1>9, QuietKeeps

\* The refusal of an ended session: its pair is the one in the file, so no
\* session is open.
LEMMA RefusedKeeps ==
  ASSUME CliInv, NEW c \in Calls, Refused(c)
  PROVE  CliInv'
<1> DEFINE x == [call[c] EXCEPT !.pc = "clearing"]
<1>1. /\ At(c, "exchanging") /\ exch[c].state = "refused"
      /\ UNCHANGED <<server, active, old, disk, proc, refused>>
      /\ call' = [call EXCEPT ![c] = x] /\ exch' = [exch EXCEPT ![c] = NoExchange]
      /\ clean' = (clean /\ server[exch[c].token] # "open")
      /\ clean \in BOOLEAN /\ refused \in SUBSET Sessions
  BY DEF Refused, Goto, Goes, CliInv, TypeOK
<1>2. CallFacts(c)
  BY CallFactsHold
<1>3. exch[c].token = Mem(c) /\ Mem(c) \in Sessions
  BY <1>1, <1>2 DEF CallFacts, MayExchange, At
<1>4. /\ x \in Call /\ x.pc = "clearing" /\ x.kind = call[c].kind
      /\ x.token = call[c].token /\ x.new = call[c].new
  BY <1>2 DEF CallFacts, Call
<1> HIDE DEF x
<1>5. QuietStep(c, x, NoExchange)
  BY <1>1, <1>4, BlankTypes DEF QuietStep
<1>6. MayTurnInto(c, x)
  BY <1>1, <1>2, <1>4 DEF MayTurnInto, CallFacts, At, Working, Critical
<1>7. MayHold(x, Mem(c), server, Aged) /\ MayExchange(x, NoExchange, Mem(c), server, Aged)
  BY <1>4, BlankTypes DEF MayHold, MayExchange
<1>8. ASSUME clean' PROVE MayChange(c, x, NoExchange)
  <2>1. /\ Tidy /\ Mutex /\ Running /\ Exchanging
        /\ proc[ProcessOf[c]].up /\ Working(c) /\ ~At(c, "writing") /\ ~Busy(c)
        /\ server[Mem(c)] # "open"
    BY <1>1, <1>2, <1>3, <1>8 DEF CliInv, CallFacts, At, Working, Critical, Busy, BusyIn
  <2>2. \A d \in Calls : ~Busy(d) /\ ~At(d, "writing")
    BY <2>1, NobodyElse
  <2>3. disk = Mem(c)
    BY <2>1, <2>2, FileAgrees
  <2>4. \A t \in Sessions : server[t] # "open"
    BY <2>1, <2>2, <2>3 DEF Tidy, OnlyPair, OnlyIn
  <2>5. BusyIn(x, NoExchange) /\ CurrentIn(x, NoExchange) = Null
    BY <1>4, BlankTypes DEF BusyIn, CurrentIn
  <2> QED BY <1>4, <2>1, <2>4, <2>5 DEF MayChange, OnlyPair, OnlyIn
<1> QED BY <1>1, <1>5, <1>6, <1>7, <1>8, QuietKeeps

LEMMA MeKeeps ==
  ASSUME CliInv, NEW c \in Calls, Me(c)
  PROVE  CliInv'
<1> DEFINE x == [call[c] EXCEPT !.pc = "saving"]
<1>1. /\ At(c, "loggedIn")
      /\ UNCHANGED <<server, active, old, disk, proc, exch, clean, refused>>
      /\ call' = [call EXCEPT ![c] = x] /\ exch' = [exch EXCEPT ![c] = exch[c]]
      /\ clean \in BOOLEAN /\ refused \in SUBSET Sessions
  BY DEF Me, Goto, CliInv, TypeOK
<1>2. CallFacts(c)
  BY CallFactsHold
<1>3. /\ x \in Call /\ x.pc = "saving" /\ x.kind = call[c].kind
      /\ x.token = call[c].token /\ x.new = call[c].new
  BY <1>2 DEF CallFacts, Call
<1>4. call[c].new \in Sessions /\ call[c].kind = "login"
  BY <1>1, <1>2 DEF CallFacts, MayHold, At
<1> HIDE DEF x
<1>5. QuietStep(c, x, exch[c])
  BY <1>1, <1>2, <1>3 DEF QuietStep, CallFacts
<1>6. MayTurnInto(c, x)
  BY <1>1, <1>2, <1>3 DEF MayTurnInto, CallFacts, At, Working, Critical
<1>7. MayHold(x, Mem(c), server, Aged)
  BY <1>3, <1>4 DEF MayHold
<1>8. MayExchange(x, exch[c], Mem(c), server, Aged)
  BY <1>1, <1>2, <1>3 DEF MayExchange, CallFacts, At
<1>9. MayChange(c, x, exch[c])
  BY <1>1, <1>3 DEF MayChange, BusyIn, Busy, CurrentIn, Current, At
<1> QED BY <1>5, <1>6, <1>7, <1>8, <1>9, QuietKeeps

\* An answer or a write that fails: from here on anything may be left over.
LEMMA FailureKeeps ==
  ASSUME CliInv, NEW c \in Calls, MeFails(c) \/ SaveFails(c)
  PROVE  CliInv'
<1>1. /\ call[c].pc \in {"loggedIn", "saving", "writing"}
      /\ UNCHANGED <<server, active, old, disk, proc, exch, refused>>
      /\ exch' = [exch EXCEPT ![c] = exch[c]]
      /\ clean' = FALSE /\ refused \in SUBSET Sessions
  BY DEF MeFails, SaveFails, Goes, At, CliInv, TypeOK
<1>2. CallFacts(c)
  BY CallFactsHold
<1>3. PICK x : /\ call' = [call EXCEPT ![c] = x]
               /\ x \in {IdleCall, [call[c] EXCEPT !.pc = "clearing", !.new = Null]}
               /\ x = IdleCall \/ call[c].kind \in {"request", "logout"}
  BY DEF MeFails, SaveFails
<1>4. /\ x \in Call
      /\ \/ x = IdleCall
         \/ x.pc = "clearing" /\ x.kind = call[c].kind
      /\ {x.token, x.new} \subseteq {Null, call[c].token}
  BY <1>2, <1>3, BlankTypes DEF CallFacts, Call, Pair
<1>5. QuietStep(c, x, exch[c])
  BY <1>1, <1>2, <1>3, <1>4 DEF QuietStep, CallFacts
<1>6. MayTurnInto(c, x)
  BY <1>1, <1>2, <1>4, BlankTypes DEF MayTurnInto, CallFacts, At, Working, Critical
<1>7. MayHold(x, Mem(c), server, Aged)
  BY <1>4, BlankTypes DEF MayHold
<1>8. MayExchange(x, exch[c], Mem(c), server, Aged)
  BY <1>1, <1>2, <1>4, BlankTypes DEF MayExchange, CallFacts, At
<1> QED BY <1>1, <1>5, <1>6, <1>7, <1>8, QuietKeeps

LEMMA SaveSettingsKeeps ==
  ASSUME CliInv, NEW c \in Calls, SaveSettings(c)
  PROVE  CliInv'
<1> DEFINE x == [IdleCall EXCEPT !.pc = "saving", !.kind = "settings", !.new = Mem(c)]
<1>1. /\ MayBegin(c) /\ Alone(c)
      /\ UNCHANGED <<server, active, old, disk, proc, exch, clean, refused>>
      /\ call' = [call EXCEPT ![c] = x] /\ exch' = [exch EXCEPT ![c] = exch[c]]
      /\ clean \in BOOLEAN /\ refused \in SUBSET Sessions
  BY DEF SaveSettings, CliInv, TypeOK
<1>2. CallFacts(c) /\ exch[c].state = "none" /\ At(c, "idle") /\ proc[ProcessOf[c]].up
  BY <1>1, CallFactsHold DEF MayBegin
<1>3. /\ x \in Call /\ x.pc = "saving" /\ x.kind = "settings"
      /\ x.token = Null /\ x.new = Mem(c)
  BY <1>2 DEF CallFacts, Call, IdleCall, Pair
<1> HIDE DEF x
<1>4. QuietStep(c, x, exch[c])
  BY <1>1, <1>2, <1>3 DEF QuietStep, CallFacts
<1>5. MayTurnInto(c, x)
  BY <1>1, <1>3, BeginTurns
<1>6. MayHold(x, Mem(c), server, Aged) /\ MayExchange(x, exch[c], Mem(c), server, Aged)
  BY <1>2, <1>3 DEF MayHold, MayExchange
<1>7. ASSUME clean PROVE MayChange(c, x, exch[c])
  <2>1. Tidy /\ Mutex /\ Running /\ Exchanging /\ ~At(c, "writing") /\ ~Busy(c)
    BY <1>2, <1>7 DEF CliInv, At, Busy, BusyIn
  <2>2. \A d \in Calls : ~Busy(d) /\ ~At(d, "writing")
    BY <1>1, <1>2, <2>1, NobodyElse
  <2>3. disk = Mem(c) /\ OnlyPair(disk)
    BY <1>2, <2>1, <2>2, FileAgrees DEF Tidy
  <2>4. BusyIn(x, exch[c]) /\ CurrentIn(x, exch[c]) = Mem(c)
    BY <1>2, <1>3 DEF BusyIn, CurrentIn
  <2> QED BY <1>1, <1>2, <1>3, <2>1, <2>3, <2>4 DEF MayChange
<1> QED BY <1>1, <1>4, <1>5, <1>6, <1>7, QuietKeeps

-----------------------------------------------------------------------------
(* The steps that open, end or store a session *)

\* A log-out that is accepted: the session in the file is revoked.
LEMMA AnsweredKeeps ==
  ASSUME CliInv, NEW c \in Calls, Answered(c)
  PROVE  CliInv'
<1>1. /\ At(c, "sent") /\ End(c)
      /\ server[call[c].token] = "open"
      /\ UNCHANGED <<active, disk, proc, exch, clean, refused>>
      /\ exch' = [exch EXCEPT ![c] = exch[c]]
      /\ clean \in BOOLEAN /\ refused \in SUBSET Sessions
  BY DEF Answered, Accepted, CliInv, TypeOK
<1>2. /\ CallFacts(c)
      /\ TypeOK /\ Mutex /\ Running /\ Holding /\ Exchanging
      /\ clean => Tidy
  BY CallFactsHold DEF CliInv
<1>3. exch[c].state \notin {"rotated", "refused"} /\ ~Busy(c)
  BY <1>1, <1>2 DEF CallFacts, MayExchange, At, Busy, BusyIn
<1>4. CASE call[c].kind # "logout"
  <2>1. UNCHANGED <<server, old>>
    BY <1>4 DEF Answered
  <2> QED BY <1>1, <1>3, <1>4, <2>1, EndKeeps DEF At
<1>5. CASE call[c].kind = "logout"
  <2> DEFINE x == [call[c] EXCEPT !.pc = "clearing"]
             tok == call[c].token
  <2>1. call' = [call EXCEPT ![c] = x] /\ Ended(tok, "revoked", server)
    BY <1>1, <1>5 DEF End, AfterEnd, Answered
  <2>2. /\ x \in Call /\ x.pc = "clearing" /\ x.kind = "logout"
        /\ x.token = tok /\ x.new = call[c].new
    BY <1>2, <1>5 DEF CallFacts, Call
  <2>3. tok \in Sessions /\ tok = Mem(c) /\ server[tok] = "open"
    BY <1>1, <1>2, <1>5 DEF CallFacts, MayHold, At
  <2> HIDE DEF x, tok
  <2>4. /\ Forward
        /\ server'[tok] = "revoked"
        /\ \A u \in Sessions : u # tok => server'[u] = server[u]
    BY <1>1, <1>2, <2>1, <2>3, EndedForward
  <2>5. CallStep(c, x, exch[c])
    BY <1>1, <1>2, <2>1, <2>2 DEF CallStep, CallFacts, TypeOK, Mem
  <2>6. proc[ProcessOf[c]].up /\ Alone(c) /\ proc'[ProcessOf[c]].mem = Mem(c)
    BY <1>1, <1>2, <1>5 DEF CallFacts, Mem
  <2>7. \A t \in Sessions : server'[t] = "unused" =>
          t \notin {disk', proc'[ProcessOf[c]].mem, x.token, x.new, exch[c].token, exch[c].new}
    <3> SUFFICES ASSUME NEW t \in Sessions, server'[t] = "unused"
                 PROVE  t \notin {disk, Mem(c), call[c].token, call[c].new,
                                  exch[c].token, exch[c].new}
      BY <1>1, <2>2, <2>6 DEF tok
    <3>1. server[t] = "unused"
      BY <2>4 DEF Forward
    <3> QED BY <1>2, <3>1 DEF TypeOK, Mem, CallFacts
  <2>8. TypeOK'
    <3>1. disk' \in Pair /\ clean' \in BOOLEAN
      BY <1>1, <1>2 DEF TypeOK
    <3> QED BY <1>2, <2>4, <2>5, <2>7, <3>1, TypeKept
  <2>9. MayTurnInto(c, x)
    BY <2>2, <2>6 DEF MayTurnInto, Alone, At, Working, Critical
  <2>10. MayHold(x, proc'[ProcessOf[c]].mem, server', Aged')
    BY <2>2 DEF MayHold
  <2>11. MayExchange(x, exch[c], proc'[ProcessOf[c]].mem, server', Aged')
    <3>1. exch[c].state = "asked" => DueIn(exch[c].token, server', Aged')
      BY <1>2, <2>4 DEF CallFacts, MayExchange, DueIn, Forward, TypeOK
    <3> QED BY <1>2, <1>3, <2>2, <3>1 DEF MayExchange, CallFacts
  <2>12. (Mutex /\ Running /\ Holding /\ Exchanging)'
    BY <1>2, <2>4, <2>5, <2>9, <2>10, <2>11, CallsKept
  <2>13. ASSUME clean' PROVE Tidy'
    <3>1. Tidy /\ ~At(c, "writing")
      BY <1>1, <1>2, <2>13 DEF At
    <3>2. \A d \in Calls : ~Busy(d) /\ ~At(d, "writing")
      BY <1>2, <1>3, <2>6, <3>1, NobodyElse
    <3>3. disk = tok
      BY <2>3, <2>6, <3>1, <3>2, FileAgrees
    <3>4. \A t \in Sessions : server'[t] # "open"
      BY <2>4, <3>1, <3>2, <3>3 DEF Tidy, OnlyPair, OnlyIn
    <3>5. BusyIn(x, exch[c]) /\ CurrentIn(x, exch[c]) = Null
      BY <1>3, <2>2 DEF BusyIn, CurrentIn
    <3>6. OnlyIn(CurrentIn(x, exch[c]), server')
      BY <3>4, <3>5 DEF OnlyIn
    <3>7. x.pc = "writing" <=> At(c, "writing")
      BY <2>2, <3>1
    <3> QED BY <1>1, <1>2, <2>5, <3>1, <3>2, <3>5, <3>6, <3>7, NowBusy
  <2> QED BY <2>8, <2>12, <2>13 DEF CliInv
<1> QED BY <1>4, <1>5

\* The server opens the next session and revokes the one exchanged.
LEMMA RotateKeeps ==
  ASSUME CliInv, NEW c \in Calls, NEW n \in Sessions, Rotate(c, n)
  PROVE  CliInv'
<1> DEFINE tok == exch[c].token
           e == IF At(c, "exchanging")
                THEN [exch[c] EXCEPT !.state = "rotated", !.new = n] ELSE NoExchange
<1>1. /\ exch[c].state = "read" /\ server[n] = "unused"
      /\ Ended(tok, "revoked", [server EXCEPT ![n] = "open"])
      /\ UNCHANGED <<active, disk, proc, call, refused>>
      /\ exch' = [exch EXCEPT ![c] = e]
      /\ call' = [call EXCEPT ![c] = call[c]]
      /\ clean' = (clean /\ At(c, "exchanging"))
      /\ clean \in BOOLEAN /\ refused \in SUBSET Sessions
  BY DEF Rotate, Goes, CliInv, TypeOK
<1>2. /\ CallFacts(c)
      /\ TypeOK /\ Mutex /\ Running /\ Holding /\ Exchanging
      /\ clean => Tidy
  BY CallFactsHold DEF CliInv
<1>3. tok \in Sessions /\ server[tok] # "unused" /\ tok # n
  BY <1>1, <1>2 DEF CallFacts, MayExchange, TypeOK
<1>4. /\ e \in Exchange
      /\ \/ /\ At(c, "exchanging")
            /\ e.state = "rotated" /\ e.token = tok /\ e.new = n
         \/ /\ ~At(c, "exchanging")
            /\ e.state = "none" /\ e.token = Null /\ e.new = Null
  BY <1>2, BlankTypes DEF CallFacts, Exchange, Pair
<1> HIDE DEF tok, e
<1>5. /\ server' = [[server EXCEPT ![n] = "open"] EXCEPT ![tok] = "revoked"]
      /\ old' = old \ {tok}
      /\ server \in [Sessions -> Row] /\ old \in SUBSET Sessions
      /\ active' \in BOOLEAN /\ refused' = refused /\ refused \in SUBSET Sessions
  BY <1>1, <1>2 DEF Ended, TypeOK, Row
<1>6. /\ server'[n] = "open" /\ server'[tok] = "revoked"
      /\ \A u \in Sessions \ {n, tok} : server'[u] = server[u]
      /\ server' \in [Sessions -> Row]
  BY <1>3, <1>5 DEF Row
<1>7. Forward
  BY <1>1, <1>3, <1>5, <1>6 DEF Forward, Aged
<1>8. CallStep(c, call[c], e)
  BY <1>1, <1>2, <1>4 DEF CallStep, CallFacts, TypeOK, Mem
<1>9. proc'[ProcessOf[c]].mem = Mem(c)
  BY <1>1 DEF Mem
<1>10. TypeOK'
  <2>1. ASSUME NEW t \in Sessions, server'[t] = "unused"
        PROVE  t \notin {disk', proc'[ProcessOf[c]].mem, call[c].token, call[c].new,
                         e.token, e.new}
    <3>1. server[t] = "unused" /\ t # n
      BY <1>6, <1>7, <2>1 DEF Forward
    <3>2. t \notin {disk, Mem(c), Null, call[c].token, call[c].new, tok, n}
      BY <1>2, <1>3, <3>1, CliConstants DEF TypeOK, Mem, CallFacts
    <3> QED BY <1>1, <1>4, <1>9, <3>2
  <2>2. disk' \in Pair /\ clean' \in BOOLEAN
    BY <1>1, <1>2 DEF TypeOK
  <2> QED BY <1>2, <1>7, <1>8, <2>1, <2>2, TypeKept
<1>11. MayTurnInto(c, call[c])
  BY <1>2 DEF MayTurnInto, CallFacts, At, Working
<1>12. MayHold(call[c], proc'[ProcessOf[c]].mem, server', Aged')
  <2>1. At(c, "waiting") => DueIn(call[c].token, server', Aged')
    BY <1>2, <1>7 DEF CallFacts, MayHold, DueIn, Forward, TypeOK, At
  <2> QED BY <1>2, <1>9, <2>1 DEF MayHold, CallFacts, At
<1>13. MayExchange(call[c], e, proc'[ProcessOf[c]].mem, server', Aged')
  BY <1>2, <1>3, <1>4, <1>9 DEF MayExchange, CallFacts, At, tok
<1>14. (Mutex /\ Running /\ Holding /\ Exchanging)'
  BY <1>2, <1>7, <1>8, <1>11, <1>12, <1>13, CallsKept
<1>15. ASSUME clean' PROVE Tidy'
  <2>1. Tidy /\ At(c, "exchanging") /\ ~At(c, "writing") /\ Working(c)
        /\ proc[ProcessOf[c]].up /\ ~Busy(c)
    BY <1>1, <1>2, <1>15 DEF At, Working, Critical, CallFacts, Busy, BusyIn
  <2>2. \A d \in Calls : ~Busy(d) /\ ~At(d, "writing")
    BY <1>2, <2>1, NobodyElse
  <2>3. disk = tok
    BY <1>2, <2>1, <2>2, FileAgrees DEF CallFacts, MayExchange, At, tok
  <2>4. \A t \in Sessions : server'[t] = "open" => t = n
    BY <1>3, <1>6, <2>1, <2>2, <2>3 DEF Tidy, OnlyPair, OnlyIn
  <2>5. BusyIn(call[c], e) /\ CurrentIn(call[c], e) = n
    BY <1>4, <2>1 DEF BusyIn, CurrentIn
  <2>6. OnlyIn(CurrentIn(call[c], e), server')
    BY <1>6, <2>4, <2>5 DEF OnlyIn
  <2>7. call[c].pc = "writing" <=> At(c, "writing")
    BY DEF At
  <2> QED BY <1>1, <1>2, <1>8, <2>1, <2>2, <2>5, <2>6, <2>7, NowBusy
<1> QED BY <1>10, <1>14, <1>15 DEF CliInv

LEMMA LoginKeeps ==
  ASSUME CliInv, NEW c \in Calls, NEW n \in Sessions, Login(c, n)
  PROVE  CliInv'
<1> DEFINE x == [IdleCall EXCEPT !.pc = "loggedIn", !.kind = "login", !.new = n]
<1>1. /\ MayBegin(c) /\ Alone(c) /\ Mem(c) = Null /\ server[n] = "unused"
      /\ server' = [server EXCEPT ![n] = "open"]
      /\ UNCHANGED <<active, old, disk, proc, exch, clean, refused>>
      /\ call' = [call EXCEPT ![c] = x]
      /\ exch' = [exch EXCEPT ![c] = exch[c]]
      /\ clean \in BOOLEAN /\ refused \in SUBSET Sessions
  BY DEF Login, CliInv, TypeOK
<1>2. /\ CallFacts(c)
      /\ TypeOK /\ Mutex /\ Running /\ Holding /\ Exchanging
      /\ clean => Tidy
      /\ exch[c].state = "none" /\ At(c, "idle") /\ proc[ProcessOf[c]].up
  BY <1>1, CallFactsHold DEF CliInv, MayBegin
<1>3. /\ x \in Call /\ x.pc = "loggedIn" /\ x.kind = "login"
      /\ x.token = Null /\ x.new = n
  BY DEF Call, IdleCall, Pair
<1> HIDE DEF x
<1>4. /\ Forward
      /\ server'[n] = "open"
      /\ \A u \in Sessions : u # n => server'[u] = server[u]
  BY <1>1, <1>2, OpenedForward
<1>5. CallStep(c, x, exch[c])
  BY <1>1, <1>2, <1>3 DEF CallStep, CallFacts, TypeOK, Mem
<1>6. proc'[ProcessOf[c]].mem = Null /\ proc'[ProcessOf[c]].mem = Mem(c)
  BY <1>1 DEF Mem
<1>7. TypeOK'
  <2>1. ASSUME NEW t \in Sessions, server'[t] = "unused"
        PROVE  t \notin {disk', proc'[ProcessOf[c]].mem, x.token, x.new,
                         exch[c].token, exch[c].new}
    <3>1. server[t] = "unused" /\ t # n
      BY <1>4, <2>1 DEF Forward
    <3>2. t \notin {disk, Null, exch[c].token, exch[c].new, n}
      BY <1>2, <3>1, CliConstants DEF TypeOK
    <3> QED BY <1>1, <1>3, <1>6, <3>2
  <2>2. disk' \in Pair /\ clean' \in BOOLEAN
    BY <1>1, <1>2 DEF TypeOK
  <2> QED BY <1>2, <1>4, <1>5, <2>1, <2>2, TypeKept
<1>8. MayTurnInto(c, x)
  BY <1>1, <1>3, BeginTurns
<1>9. /\ MayHold(x, proc'[ProcessOf[c]].mem, server', Aged')
      /\ MayExchange(x, exch[c], proc'[ProcessOf[c]].mem, server', Aged')
  BY <1>2, <1>3 DEF MayHold, MayExchange
<1>10. (Mutex /\ Running /\ Holding /\ Exchanging)'
  BY <1>2, <1>4, <1>5, <1>8, <1>9, CallsKept
<1>11. ASSUME clean' PROVE Tidy'
  <2>1. Tidy /\ ~At(c, "writing") /\ ~Busy(c)
    BY <1>1, <1>2, <1>11 DEF At, Busy, BusyIn
  <2>2. \A d \in Calls : ~Busy(d) /\ ~At(d, "writing")
    BY <1>1, <1>2, <2>1, NobodyElse
  <2>3. disk = Null
    BY <1>1, <1>2, <2>1, <2>2, FileAgrees
  <2>4. \A t \in Sessions : server'[t] = "open" => t = n
    BY <1>4, <2>1, <2>2, <2>3, CliConstants DEF Tidy, OnlyPair, OnlyIn
  <2>5. BusyIn(x, exch[c]) /\ CurrentIn(x, exch[c]) = n
    BY <1>2, <1>3 DEF BusyIn, CurrentIn
  <2>6. OnlyIn(CurrentIn(x, exch[c]), server')
    BY <1>4, <2>4, <2>5 DEF OnlyIn
  <2>7. x.pc = "writing" <=> At(c, "writing")
    BY <1>3, <2>1
  <2> QED BY <1>1, <1>2, <1>5, <2>1, <2>2, <2>5, <2>6, <2>7, NowBusy
<1> QED BY <1>7, <1>10, <1>11 DEF CliInv

\* The file is emptied before it is written; the call has the pair.
LEMMA TruncateKeeps ==
  ASSUME CliInv, NEW c \in Calls, Truncate(c)
  PROVE  CliInv'
<1> DEFINE x == [call[c] EXCEPT !.pc = "writing"]
<1>1. /\ At(c, "saving") /\ disk' = Null
      /\ UNCHANGED <<server, active, old, proc, exch, clean, refused>>
      /\ call' = [call EXCEPT ![c] = x]
      /\ exch' = [exch EXCEPT ![c] = exch[c]]
      /\ clean \in BOOLEAN /\ refused \in SUBSET Sessions
  BY DEF Truncate, Goto, CliInv, TypeOK
<1>2. /\ CallFacts(c)
      /\ TypeOK /\ Mutex /\ Running /\ Holding /\ Exchanging
      /\ clean => Tidy
  BY CallFactsHold DEF CliInv
<1>3. /\ x \in Call /\ x.pc = "writing" /\ x.kind = call[c].kind
      /\ x.token = call[c].token /\ x.new = call[c].new
  BY <1>2 DEF CallFacts, Call
<1> HIDE DEF x
<1>4. CallStep(c, x, exch[c]) /\ proc'[ProcessOf[c]].mem = Mem(c)
  BY <1>1, <1>2, <1>3 DEF CallStep, CallFacts, TypeOK, Mem
<1>5. Forward
  BY <1>1, <1>2, SameForward
<1>6. TypeOK'
  <2>1. ASSUME NEW t \in Sessions, server'[t] = "unused"
        PROVE  t \notin {disk', proc'[ProcessOf[c]].mem, x.token, x.new,
                         exch[c].token, exch[c].new}
    <3>1. t \notin {Null, Mem(c), call[c].token, call[c].new, exch[c].token, exch[c].new}
      BY <1>1, <1>2, <2>1, CliConstants DEF TypeOK, Mem, CallFacts
    <3> QED BY <1>1, <1>3, <1>4, <3>1
  <2>2. disk' \in Pair /\ clean' \in BOOLEAN
    BY <1>1 DEF Pair
  <2> QED BY <1>2, <1>4, <1>5, <2>1, <2>2, TypeKept
<1>7. MayTurnInto(c, x)
  BY <1>1, <1>2, <1>3 DEF MayTurnInto, CallFacts, At, Working, Critical
<1>8. /\ MayHold(x, proc'[ProcessOf[c]].mem, server', Aged')
      /\ MayExchange(x, exch[c], proc'[ProcessOf[c]].mem, server', Aged')
  BY <1>1, <1>2, <1>3, <1>4 DEF MayHold, MayExchange, CallFacts, At, Aged
<1>9. (Mutex /\ Running /\ Holding /\ Exchanging)'
  BY <1>2, <1>4, <1>5, <1>7, <1>8, CallsKept
<1>10. ASSUME clean' PROVE Tidy'
  <2>1. Tidy
    BY <1>1, <1>2, <1>10
  <2>2. /\ call'[c] = x /\ exch'[c] = exch[c]
        /\ \A d \in Calls : d # c => call'[d] = call[d] /\ exch'[d] = exch[d]
    BY <1>2, <1>4, CallStepFacts
  <2>3. Busy(c) /\ BusyIn(x, exch[c]) /\ CurrentIn(x, exch[c]) = Current(c)
    BY <1>1, <1>3 DEF Busy, Current, BusyIn, CurrentIn, At
  <2>4. \A d \in Calls : BusyIn(call'[d], exch'[d]) =>
          OnlyIn(CurrentIn(call'[d], exch'[d]), server')
    BY <1>1, <2>1, <2>2, <2>3 DEF Tidy, Busy, Current, OnlyPair
  <2>5. \E d \in Calls : BusyIn(call'[d], exch'[d])
    BY <2>2, <2>3
  <2>6. ASSUME NEW p \in Processes, proc'[p].up
        PROVE  \E d \in CallsOf(p) : call'[d].pc = "writing"
    <3>1. p = ProcessOf[c]
      BY <1>1, <1>2, <2>1, <2>6 DEF Tidy, CallFacts, At
    <3> QED BY <1>3, <2>2, <3>1 DEF CallsOf
  <2>7. \A p, q \in Processes : proc'[p].up /\ proc'[q].up => p = q
    BY <1>1, <2>1 DEF Tidy
  <2> QED BY <2>4, <2>5, <2>6, <2>7 DEF Tidy, Busy, Current, OnlyPair, At
<1> QED BY <1>6, <1>9, <1>10 DEF CliInv

\* c has done its work: nobody has a pair any more that the file does not have.
LEMMA DoneTidy ==
  ASSUME TypeOK, Tidy, Mutex, Running, Exchanging, NEW c \in Calls, NEW x, NEW e,
         CallStep(c, x, e), server' = server,
         proc[ProcessOf[c]].up, Working(c),
         ~BusyIn(x, e), OnlyPair(disk'), proc'[ProcessOf[c]].mem = disk'
  PROVE  Tidy'
<1>1. /\ call'[c] = x /\ exch'[c] = e
      /\ \A d \in Calls : d # c => call'[d] = call[d] /\ exch'[d] = exch[d]
  BY CallStepFacts
<1>2. \A d \in Calls : ~BusyIn(call'[d], exch'[d])
  BY <1>1, NobodyElse DEF Busy
<1>3. OnlyIn(disk', server')
  BY DEF OnlyPair
<1>4. ASSUME NEW p \in Processes, proc'[p].up PROVE p = ProcessOf[c]
  BY <1>4, CliConstants DEF CallStep, Tidy
<1> QED BY <1>2, <1>3, <1>4 DEF Tidy, Busy, OnlyPair

LEMMA WriteKeeps ==
  ASSUME CliInv, NEW c \in Calls, Write(c)
  PROVE  CliInv'
<1> DEFINE x == AfterWrite(c)
           new == call[c].new
<1>1. /\ At(c, "writing") /\ disk' = new
      /\ UNCHANGED <<server, active, old, exch, clean, refused>>
      /\ proc' = [proc EXCEPT ![ProcessOf[c]].mem = new]
      /\ call' = [call EXCEPT ![c] = x]
      /\ exch' = [exch EXCEPT ![c] = exch[c]]
      /\ clean \in BOOLEAN /\ refused \in SUBSET Sessions
  BY DEF Write, Hold, CliInv, TypeOK
<1>2. /\ CallFacts(c)
      /\ TypeOK /\ Mutex /\ Running /\ Holding /\ Exchanging
      /\ clean => Tidy
  BY CallFactsHold DEF CliInv
<1>3. /\ x \in Call
      /\ \/ /\ call[c].kind \in {"request", "logout"}
            /\ x.pc = "sent" /\ x.kind = call[c].kind /\ x.token = new /\ x.new = Null
         \/ x = IdleCall
  BY <1>2, BlankTypes DEF CallFacts, Call, AfterWrite, Pair
<1>4. new \in Pair /\ (call[c].kind \in {"request", "logout"} => new \in Sessions)
  BY <1>1, <1>2 DEF CallFacts, MayHold, At, Call
<1> HIDE DEF x, new
<1>5. CallStep(c, x, exch[c]) /\ proc'[ProcessOf[c]].mem = new
  <2>1. /\ proc \in [Processes -> [up : BOOLEAN, mem : Pair]] /\ ProcessOf[c] \in Processes
    BY <1>2 DEF TypeOK, CallFacts
  <2>2. /\ proc' \in [Processes -> [up : BOOLEAN, mem : Pair]]
        /\ proc'[ProcessOf[c]].mem = new
        /\ \A p \in Processes : /\ proc'[p].up = proc[p].up
                                /\ p # ProcessOf[c] => proc'[p] = proc[p]
    BY <1>1, <1>4, <2>1
  <2> QED BY <1>1, <1>2, <1>3, <2>2 DEF CallStep, CallFacts
<1>6. Forward
  BY <1>1, <1>2, SameForward
<1>7. TypeOK'
  <2>1. ASSUME NEW t \in Sessions, server'[t] = "unused"
        PROVE  t \notin {disk', proc'[ProcessOf[c]].mem, x.token, x.new,
                         exch[c].token, exch[c].new}
    <3>1. t \notin {Null, new, exch[c].token, exch[c].new}
      BY <1>1, <1>2, <2>1, CliConstants DEF TypeOK, CallFacts, new
    <3> QED BY <1>1, <1>3, <1>5, <3>1, BlankTypes
  <2>2. disk' \in Pair /\ clean' \in BOOLEAN
    BY <1>1, <1>4
  <2> QED BY <1>2, <1>5, <1>6, <2>1, <2>2, TypeKept
<1>8. MayTurnInto(c, x)
  BY <1>1, <1>2, <1>3, BlankTypes DEF MayTurnInto, CallFacts, At, Critical
<1>9. MayHold(x, proc'[ProcessOf[c]].mem, server', Aged')
  BY <1>3, <1>4, <1>5, BlankTypes DEF MayHold
<1>10. MayExchange(x, exch[c], proc'[ProcessOf[c]].mem, server', Aged')
  BY <1>1, <1>2, <1>3, BlankTypes DEF MayExchange, CallFacts, At, Aged
<1>11. (Mutex /\ Running /\ Holding /\ Exchanging)'
  BY <1>2, <1>5, <1>6, <1>8, <1>9, <1>10, CallsKept
<1>12. ASSUME clean' PROVE Tidy'
  <2>1. exch[c].state # "rotated"
    BY <1>1, <1>2 DEF MayExchange, CallFacts, At
  <2>2. Tidy /\ proc[ProcessOf[c]].up /\ Working(c) /\ Busy(c) /\ Current(c) = new
    BY <1>1, <1>2, <1>12, <2>1
       DEF CallFacts, At, Working, Critical, Busy, BusyIn, Current, CurrentIn, new
  <2>3. OnlyPair(disk') /\ ~BusyIn(x, exch[c])
    BY <1>1, <1>3, <2>1, <2>2, BlankTypes DEF Tidy, BusyIn
  <2> QED BY <1>1, <1>2, <1>5, <2>2, <2>3, DoneTidy
<1> QED BY <1>7, <1>11, <1>12 DEF CliInv

LEMMA ClearKeeps ==
  ASSUME CliInv, NEW c \in Calls, NEW saved \in BOOLEAN, Clear(c, saved)
  PROVE  CliInv'
<1>1. /\ At(c, "clearing") /\ disk' \in {Null, disk} /\ (saved => disk' = Null)
      /\ UNCHANGED <<server, active, old, exch, refused>>
      /\ proc' = [proc EXCEPT ![ProcessOf[c]].mem = Null]
      /\ call' = [call EXCEPT ![c] = IdleCall]
      /\ exch' = [exch EXCEPT ![c] = exch[c]]
      /\ clean' = (clean /\ saved) /\ clean \in BOOLEAN /\ refused \in SUBSET Sessions
  BY DEF Clear, Hold, Goes, CliInv, TypeOK
<1>2. /\ CallFacts(c)
      /\ TypeOK /\ Mutex /\ Running /\ Holding /\ Exchanging
      /\ clean => Tidy
  BY CallFactsHold DEF CliInv
<1>3. CallStep(c, IdleCall, exch[c]) /\ proc'[ProcessOf[c]].mem = Null
  <2>1. /\ proc \in [Processes -> [up : BOOLEAN, mem : Pair]] /\ ProcessOf[c] \in Processes
    BY <1>2 DEF TypeOK, CallFacts
  <2>2. /\ proc' \in [Processes -> [up : BOOLEAN, mem : Pair]]
        /\ proc'[ProcessOf[c]].mem = Null
        /\ \A p \in Processes : /\ proc'[p].up = proc[p].up
                                /\ p # ProcessOf[c] => proc'[p] = proc[p]
    BY <1>1, <2>1 DEF Pair
  <2> QED BY <1>1, <1>2, <2>2, BlankTypes DEF CallStep, CallFacts
<1>4. Forward
  BY <1>1, <1>2, SameForward
<1>5. TypeOK'
  <2>1. ASSUME NEW t \in Sessions, server'[t] = "unused"
        PROVE  t \notin {disk', proc'[ProcessOf[c]].mem, IdleCall.token, IdleCall.new,
                         exch[c].token, exch[c].new}
    <3>1. t \notin {Null, disk, exch[c].token, exch[c].new}
      BY <1>1, <1>2, <2>1, CliConstants DEF TypeOK, CallFacts
    <3> QED BY <1>1, <1>3, <3>1, BlankTypes
  <2>2. disk' \in Pair /\ clean' \in BOOLEAN
    BY <1>1, <1>2 DEF TypeOK, Pair
  <2> QED BY <1>2, <1>3, <1>4, <2>1, <2>2, TypeKept
<1>6. MayTurnInto(c, IdleCall)
  BY BlankTypes DEF MayTurnInto, Critical
<1>7. MayHold(IdleCall, proc'[ProcessOf[c]].mem, server', Aged')
  BY BlankTypes DEF MayHold
<1>8. MayExchange(IdleCall, exch[c], proc'[ProcessOf[c]].mem, server', Aged')
  BY <1>1, <1>2, BlankTypes DEF MayExchange, CallFacts, At, Aged
<1>9. (Mutex /\ Running /\ Holding /\ Exchanging)'
  BY <1>2, <1>3, <1>4, <1>6, <1>7, <1>8, CallsKept
<1>10. ASSUME clean' PROVE Tidy'
  <2>1. exch[c].state # "rotated"
    BY <1>1, <1>2 DEF MayExchange, CallFacts, At
  <2>2. Tidy /\ proc[ProcessOf[c]].up /\ Working(c) /\ Busy(c) /\ Current(c) = Null
    BY <1>1, <1>2, <1>10, <2>1
       DEF CallFacts, At, Working, Critical, Busy, BusyIn, Current, CurrentIn
  <2>3. disk' = Null /\ OnlyPair(disk') /\ ~BusyIn(IdleCall, exch[c])
    BY <1>1, <1>10, <2>1, <2>2, BlankTypes DEF Tidy, BusyIn
  <2> QED BY <1>1, <1>2, <1>3, <2>2, <2>3, DoneTidy
<1> QED BY <1>5, <1>9, <1>10 DEF CliInv

-----------------------------------------------------------------------------
(* Processes and clocks *)

LEMMA InitCli == Init => CliInv
<1> SUFFICES ASSUME Init PROVE CliInv
  OBVIOUS
<1>1. /\ server = [t \in Sessions |-> "unused"] /\ old = {} /\ disk = Null
      /\ proc = [p \in Processes |-> [up |-> FALSE, mem |-> Null]]
      /\ call = [c \in Calls |-> IdleCall]
      /\ exch = [c \in Calls |-> NoExchange]
      /\ active = TRUE /\ refused = {} /\ clean = TRUE
  BY DEF Init
<1>2. TypeOK
  BY <1>1, BlankTypes, CliConstants DEF TypeOK, Pair
<1>3. /\ \A c \in Calls : call[c] = IdleCall /\ exch[c] = NoExchange
      /\ \A p \in Processes : ~proc[p].up
      /\ \A t \in Sessions : server[t] = "unused"
  BY <1>1
<1>4. Mutex /\ Running /\ Holding /\ Exchanging
  BY <1>3, BlankTypes DEF Mutex, Running, Holding, Exchanging, At, Working, Critical
<1>5. Tidy
  BY <1>1, <1>3, BlankTypes DEF Tidy, Busy, BusyIn, OnlyPair, OnlyIn
<1> QED BY <1>2, <1>4, <1>5 DEF CliInv

LEMMA StartKeeps ==
  ASSUME CliInv, NEW p \in Processes, Start(p)
  PROVE  CliInv'
<1>1. /\ ~proc[p].up
      /\ proc' = [proc EXCEPT ![p] = [up |-> TRUE, mem |-> disk]]
      /\ clean' = (clean /\ \A q \in Processes : ~proc[q].up)
      /\ UNCHANGED <<server, active, old, disk, call, exch, refused>>
  BY DEF Start, Goes
<1>2. TypeOK /\ Mutex /\ Running /\ Holding /\ Exchanging /\ (clean => Tidy)
  BY DEF CliInv
<1>3. /\ proc \in [Processes -> [up : BOOLEAN, mem : Pair]]
      /\ disk \in Pair /\ clean \in BOOLEAN
  BY <1>2 DEF TypeOK
<1>4. /\ proc'[p] = [up |-> TRUE, mem |-> disk]
      /\ \A q \in Processes : q # p => proc'[q] = proc[q]
      /\ proc' \in [Processes -> [up : BOOLEAN, mem : Pair]]
  BY <1>1, <1>3
<1>5. \A c \in CallsOf(p) : At(c, "idle") /\ call[c].kind = "request"
  BY <1>1, <1>2 DEF Running, CallsOf
<1>6. \A c \in Calls : ProcessOf[c] \in Processes
  BY CliConstants
<1>7. TypeOK'
  <2>1. clean' \in BOOLEAN
    BY <1>1, <1>3
  <2>2. \A t \in Sessions : server[t] = "unused" => \A q \in Processes : proc'[q].mem # t
    BY <1>2, <1>4 DEF TypeOK
  <2> QED BY <1>1, <1>2, <1>4, <2>1, <2>2 DEF TypeOK
<1>8. Mutex'
  BY <1>1, <1>2 DEF Mutex, Working
<1>9. Running'
  <2>1. \A c \in Calls : ~At(c, "idle") => proc'[ProcessOf[c]].up
    BY <1>2, <1>4, <1>6 DEF Running
  <2> QED BY <1>1, <1>2, <2>1 DEF Running, At, Alone, Siblings
<1>10. \A c \in Calls : At(c, "idle") \/ proc'[ProcessOf[c]].mem = proc[ProcessOf[c]].mem
  BY <1>4, <1>5, <1>6 DEF CallsOf
<1>11. Holding'
  BY <1>1, <1>2, <1>10 DEF Holding, At, Mem, Due, DueIn, Aged
<1>12. Exchanging'
  BY <1>1, <1>2, <1>10 DEF Exchanging, At, Mem, Due, DueIn, Aged
<1>13. ASSUME clean' PROVE Tidy'
  <2>1. Tidy /\ \A q \in Processes : ~proc[q].up
    BY <1>1, <1>2, <1>13
  <2>2. \A q \in Processes : proc'[q].up => q = p
    BY <1>4, <2>1
  <2>3. proc'[p].mem = disk
    BY <1>4
  <2> QED BY <1>1, <2>1, <2>2, <2>3
          DEF Tidy, Busy, Current, OnlyPair, At, CallsOf
<1> QED BY <1>7, <1>8, <1>9, <1>11, <1>12, <1>13 DEF CliInv

LEMMA ExitKeeps ==
  ASSUME CliInv, NEW p \in Processes, Exit(p)
  PROVE  CliInv'
<1>1. /\ proc' = [proc EXCEPT ![p] = [up |-> FALSE, mem |-> Null]]
      /\ call' = [c \in Calls |-> IF c \in CallsOf(p) THEN IdleCall ELSE call[c]]
      /\ exch' = [c \in Calls |->
           IF c \in CallsOf(p) /\ exch[c].state \in {"rotated", "refused"}
           THEN NoExchange ELSE exch[c]]
      /\ clean' = (clean /\ \A c \in CallsOf(p) :
           /\ ~(At(c, "saving") \/ At(c, "writing"))
           /\ ~(At(c, "clearing") \/ At(c, "loggedIn"))
           /\ exch[c].state # "rotated")
      /\ UNCHANGED <<server, active, old, disk, refused>>
      /\ proc[p].up
  BY DEF Exit, Goes
<1>2. TypeOK /\ Mutex /\ Running /\ Holding /\ Exchanging /\ (clean => Tidy)
  BY DEF CliInv
<1>3. /\ proc \in [Processes -> [up : BOOLEAN, mem : Pair]]
      /\ call \in [Calls -> Call] /\ exch \in [Calls -> Exchange]
      /\ clean \in BOOLEAN /\ Null \in Pair /\ Null \notin Sessions
  BY <1>2, CliConstants DEF TypeOK, Pair
<1>4. /\ proc'[p] = [up |-> FALSE, mem |-> Null]
      /\ \A q \in Processes : q # p => proc'[q] = proc[q]
      /\ proc' \in [Processes -> [up : BOOLEAN, mem : Pair]]
  BY <1>1, <1>3
<1>5. \A c \in CallsOf(p) : /\ c \in Calls
                            /\ call'[c] = IdleCall
                            /\ \/ exch'[c] = NoExchange
                               \/ /\ exch'[c] = exch[c]
                                  /\ exch[c].state \notin {"rotated", "refused"}
  BY <1>1 DEF CallsOf
<1>6. \A c \in Calls : c \notin CallsOf(p) =>
        call'[c] = call[c] /\ exch'[c] = exch[c] /\ proc'[ProcessOf[c]] = proc[ProcessOf[c]]
  BY <1>1, <1>4, CliConstants DEF CallsOf
<1>7. call' \in [Calls -> Call] /\ exch' \in [Calls -> Exchange]
  BY <1>1, <1>3, BlankTypes
<1>8. TypeOK'
  <2>1. clean' \in BOOLEAN
    BY <1>1, <1>3
  <2>2. ASSUME NEW t \in Sessions, server[t] = "unused"
        PROVE  /\ \A q \in Processes : proc'[q].mem # t
               /\ \A c \in Calls : t \notin {call'[c].token, call'[c].new,
                                             exch'[c].token, exch'[c].new}
    <3>1. /\ t # Null
          /\ \A q \in Processes : proc[q].mem # t
          /\ \A c \in Calls : t \notin {call[c].token, call[c].new,
                                        exch[c].token, exch[c].new}
      BY <1>2, <1>3, <2>2 DEF TypeOK
    <3>2. \A q \in Processes : proc'[q].mem # t
      BY <1>4, <3>1
    <3>3. ASSUME NEW c \in Calls
          PROVE  t \notin {call'[c].token, call'[c].new, exch'[c].token, exch'[c].new}
      BY <1>5, <1>6, <3>1, BlankTypes
    <3> QED BY <3>2, <3>3
  <2> QED BY <1>1, <1>2, <1>4, <1>7, <2>1, <2>2 DEF TypeOK
<1>9. \A c \in Calls : call'[c] = call[c] \/ call'[c] = IdleCall
  BY <1>5, <1>6
<1>10. Mutex'
  <2>1. \A c \in Calls : call'[c].pc \in Critical \cup {"loggedIn"} => Working(c)
    BY <1>9, BlankTypes DEF Working, Critical
  <2> QED BY <1>2, <2>1 DEF Mutex, Working
<1>11. Running'
  <2> SUFFICES ASSUME NEW c \in Calls
               PROVE  /\ call'[c].pc # "idle" => proc'[ProcessOf[c]].up
                      /\ call'[c].kind # "request" =>
                           /\ call'[c].pc # "idle"
                           /\ \A b \in Siblings(c) : call'[b].pc = "idle"
    BY DEF Running, At, Alone, Siblings
  <2>1. CASE c \in CallsOf(p)
    BY <1>5, <2>1, BlankTypes
  <2>2. CASE c \notin CallsOf(p)
    <3>1. \A b \in Siblings(c) : b \in Calls /\ b \notin CallsOf(p)
      BY <2>2 DEF Siblings, CallsOf
    <3> QED BY <1>2, <1>6, <2>2, <3>1 DEF Running, At, Alone
  <2> QED BY <2>1, <2>2
<1>12. ASSUME NEW c \in Calls
       PROVE  /\ MayHold(call'[c], proc'[ProcessOf[c]].mem, server, Aged)
              /\ MayExchange(call'[c], exch'[c], proc'[ProcessOf[c]].mem, server, Aged)
  <2>1. CallFacts(c)
    BY CallFactsHold
  <2>2. CASE c \in CallsOf(p)
    BY <1>5, <2>1, <2>2, BlankTypes DEF MayHold, MayExchange, CallFacts
  <2>3. CASE c \notin CallsOf(p)
    BY <1>6, <2>1, <2>3 DEF CallFacts, Mem
  <2> QED BY <2>2, <2>3
<1>13. Holding'
  BY <1>1, <1>12 DEF Holding, MayHold, At, Mem, Due, Aged
<1>14. Exchanging'
  BY <1>1, <1>12 DEF Exchanging, MayExchange, At, Mem, Due, Aged
<1>15. ASSUME clean' PROVE Tidy'
  <2>1. /\ Tidy
        /\ \A c \in CallsOf(p) : ~Busy(c)
    BY <1>1, <1>2, <1>15 DEF Busy, BusyIn, At
  <2>2. ASSUME NEW c \in Calls PROVE ~Busy(c)
    <3>1. Busy(c) => ~At(c, "idle")
      BY <1>2 DEF Busy, BusyIn, Exchanging, At
    <3>2. ~At(c, "idle") => ProcessOf[c] = p
      BY <1>1, <1>2, <2>1, CliConstants DEF Tidy, Running
    <3> QED BY <2>1, <3>1, <3>2 DEF CallsOf
  <2>3. \A c \in Calls : ~BusyIn(call'[c], exch'[c])
    BY <1>5, <1>6, <2>2, BlankTypes DEF Busy, BusyIn
  <2>4. \A q \in Processes : ~proc'[q].up
    BY <1>1, <1>4, <2>1 DEF Tidy
  <2>5. OnlyIn(disk', server')
    BY <1>1, <2>1, <2>2 DEF Tidy, OnlyPair
  <2> QED BY <2>3, <2>4, <2>5 DEF Tidy, Busy, OnlyPair
<1> QED BY <1>8, <1>10, <1>11, <1>13, <1>14, <1>15 DEF CliInv

\* Only sessions move, and none is opened or revoked.
LEMMA ServerKeeps ==
  ASSUME CliInv, Forward, Fewer, UNCHANGED <<disk, proc, call, exch, clean>>
  PROVE  CliInv'
<1>1. TypeOK /\ Mutex /\ Running /\ Holding /\ Exchanging /\ (clean => Tidy)
  BY DEF CliInv
<1>2. /\ disk' = disk /\ proc' = proc /\ call' = call /\ exch' = exch /\ clean' = clean
  OBVIOUS
<1>3. TypeOK'
  BY <1>1, <1>2 DEF TypeOK, Forward, Row
<1>4. (Mutex /\ Running)'
  BY <1>1, <1>2 DEF Mutex, Working, Running, At, Alone, Siblings
<1>5. \A c \in Calls, t \in Sessions :
        t \in {call[c].token, exch[c].token} => server[t] # "unused"
  BY <1>1 DEF TypeOK
<1>6. ASSUME NEW c \in Calls
      PROVE  /\ MayHold(call[c], Mem(c), server', Aged')
             /\ MayExchange(call[c], exch[c], Mem(c), server', Aged')
  <2>1. MayHold(call[c], Mem(c), server, Aged) /\ MayExchange(call[c], exch[c], Mem(c), server, Aged)
    BY CallFactsHold DEF CallFacts
  <2>2. /\ call[c].pc = "waiting" => DueIn(call[c].token, server', Aged')
        /\ exch[c].state = "asked" => DueIn(exch[c].token, server', Aged')
    BY <1>5, <2>1 DEF MayHold, MayExchange, DueIn, Forward
  <2> QED BY <2>1, <2>2 DEF MayHold, MayExchange
<1>7. Holding'
  BY <1>2, <1>6 DEF Holding, MayHold, At, Mem, Due
<1>8. Exchanging'
  BY <1>2, <1>6 DEF Exchanging, MayExchange, At, Mem, Due
<1>9. Tidy => Tidy'
  <2>1. \A d \in Calls : SameBusy(d)
    BY <1>2 DEF SameBusy, Busy, Current, At
  <2> QED BY <1>1, <1>2, <2>1, TidyFrame
<1> QED BY <1>1, <1>2, <1>3, <1>4, <1>7, <1>8, <1>9 DEF CliInv

LEMMA ClocksKeep ==
  ASSUME CliInv, NEW t \in Sessions, AgeToken(t) \/ ExpireSession(t)
  PROVE  CliInv'
<1>1. TypeOK /\ server \in [Sessions -> Row] /\ old \in SUBSET Sessions
  BY DEF CliInv, TypeOK, Row
<1>2. CASE AgeToken(t)
  <2>1. /\ old' = old \cup {t} /\ server' = server /\ UNCHANGED <<active, refused>>
        /\ UNCHANGED <<disk, proc, call, exch, clean>>
    BY <1>2 DEF AgeToken
  <2>2. Forward /\ Fewer
    BY <1>1, <2>1 DEF Forward, Fewer, Aged, TypeOK
  <2> QED BY <2>1, <2>2, ServerKeeps
<1>3. CASE ExpireSession(t)
  <2>1. Ended(t, "expired", server) /\ UNCHANGED <<active, disk, proc, call, exch, clean, refused>>
    BY <1>3 DEF ExpireSession
  <2>2. /\ Forward /\ server'[t] = "expired"
        /\ \A u \in Sessions : u # t => server'[u] = server[u]
    BY <1>1, <2>1, EndedForward
  <2>3. Fewer
    BY <2>2 DEF Fewer
  <2> QED BY <2>1, <2>2, <2>3, ServerKeeps
<1> QED BY <1>2, <1>3

LEMMA SwitchKeeps ==
  ASSUME CliInv, SwitchUserActivation
  PROVE  CliInv'
<1>1. /\ active' = ~active /\ active \in BOOLEAN /\ refused \in SUBSET Sessions
      /\ UNCHANGED <<server, old, disk, proc, call, exch, refused, clean>>
  BY DEF SwitchUserActivation, CliInv, TypeOK
<1>2. active' \in BOOLEAN
  BY <1>1
<1>3. Forward /\ Fewer
  BY <1>1, <1>2 DEF Forward, Fewer, Aged, Row, CliInv, TypeOK
<1> QED BY <1>1, <1>3, ServerKeeps

LEMMA CliStep ==
  ASSUME CliInv, [Next]_vars
  PROVE  CliInv'
<1>1. ASSUME NEW c \in Calls,
             \/ \E kind \in {"request", "logout"}, soon \in BOOLEAN : Send(c, kind, soon)
             \/ Answered(c) \/ Challenged(c) \/ Unanswered(c)
             \/ UseRenewed(c) \/ Lock(c) \/ ReadSession(c)
      PROVE  CliInv'
  BY <1>1, SendKeeps, AnsweredKeeps, ChallengedKeeps, UnansweredKeeps,
     UseRenewedKeeps, LockKeeps, ReadSessionKeeps
<1>2. ASSUME NEW c \in Calls,
             \/ \E n \in Sessions : Rotate(c, n) \/ Login(c, n)
             \/ ExchangeFails(c) \/ GiveUp(c) \/ Adopt(c) \/ Refused(c)
      PROVE  CliInv'
  BY <1>2, RotateKeeps, LoginKeeps, AbandonKeeps, AdoptKeeps, RefusedKeeps
<1>3. ASSUME NEW c \in Calls,
             \/ Truncate(c) \/ Write(c) \/ SaveFails(c)
             \/ \E saved \in BOOLEAN : Clear(c, saved)
             \/ Me(c) \/ MeFails(c) \/ SaveSettings(c)
      PROVE  CliInv'
  BY <1>3, TruncateKeeps, WriteKeeps, FailureKeeps, ClearKeeps, MeKeeps,
     SaveSettingsKeeps
<1>4. CASE UNCHANGED vars
  <2>1. UNCHANGED <<server, active, old, disk, proc, call, exch, refused, clean>>
    BY <1>4 DEF vars
  <2>2. Forward /\ Fewer
    BY <2>1, SameForward DEF Fewer, CliInv, TypeOK
  <2> QED BY <2>1, <2>2, ServerKeeps
<1>5. CASE Next
  BY <1>1, <1>2, <1>3, <1>5, StartKeeps, ExitKeeps, ClocksKeep, SwitchKeeps DEF Next
<1> QED BY <1>4, <1>5

LEMMA CliAlways == Spec => []CliInv
<1> QED BY InitCli, CliStep, PTL DEF Spec

-----------------------------------------------------------------------------
(* The theorems *)

\* The model keeps to its types, and nobody holds a pair before it is issued.
THEOREM TypeCorrect == Spec => []TypeOK
<1> QED BY CliAlways, PTL DEF CliInv

\* refreshAccessToken: for any number of processes and concurrent calls, a
\* refresh token is exchanged only when its access token is old or refused.
THEOREM NoExchangeIsNeedless == Spec => []NoNeedlessExchange
<1>1. CliInv => NoNeedlessExchange
  BY DEF CliInv, Exchanging, Due, DueIn, Aged, NoNeedlessExchange
<1> QED BY <1>1, CliAlways, PTL

\* While nothing goes wrong, the file has the one session that is open, and
\* every client holds what is in the file.
THEOREM SessionIsKept == Spec => []SessionKept
<1>1. CliInv => SessionKept
  <2> SUFFICES ASSUME CliInv, clean, AtRest
               PROVE  /\ \A t \in Sessions : server[t] = "open" => disk = t
                      /\ disk # Null => server[disk] # "revoked"
                      /\ \A p \in Processes : proc[p].up => proc[p].mem = disk
    BY DEF SessionKept
  <2>1. Tidy /\ \A c \in Calls : ~Busy(c) /\ ~At(c, "writing")
    BY DEF CliInv, AtRest, Busy, BusyIn, At
  <2> QED BY <2>1 DEF Tidy, OnlyPair, OnlyIn, CallsOf
<1> QED BY <1>1, CliAlways, PTL

-----------------------------------------------------------------------------
(* The refinement of TokenRotation *)

\* What TokenRotation sees of a session and of an exchange.
RowOf(t) == IF server[t] \in {"unused", "open"} THEN server[t] ELSE "closed"
HeldBy(c) == IF exch[c].state = "read" THEN exch[c].token ELSE Null
Rows == [t \in Sessions |-> RowOf(t)]
Held == [c \in Calls |-> HeldBy(c)]

LEMMA RotationInit == Init => Rotation!Init
  BY DEF Init, Rotation!Init, NoExchange

LEMMA Unseen ==
  ASSUME server' = server, \A c \in Calls : HeldBy(c)' = HeldBy(c)
  PROVE  UNCHANGED Rotation!vars
<1>1. Rows' = Rows /\ Held' = Held
  BY DEF Rows, Held, RowOf
<1> QED BY <1>1 DEF Rotation!vars, Rows, Held, RowOf, HeldBy

\* What one exchange means to TokenRotation when it moves.
LEMMA OneHolds ==
  ASSUME TypeOK, NEW c \in Calls, NEW e \in Exchange, exch' = [exch EXCEPT ![c] = e]
  PROVE  Held' = [Held EXCEPT ![c] = IF e.state = "read" THEN e.token ELSE Null]
<1>1. \A d \in Calls : exch'[d] = IF d = c THEN e ELSE exch[d]
  BY DEF TypeOK
<1>2. \A d \in Calls :
        HeldBy(d)' = IF d = c THEN (IF e.state = "read" THEN e.token ELSE Null)
                              ELSE HeldBy(d)
  BY <1>1 DEF HeldBy
<1> QED BY <1>2 DEF Held

\* A call leaves whatever exchange it had.
LEMMA Dropping ==
  ASSUME TypeOK, NEW c \in Calls, NEW e \in Exchange, server' = server,
         exch' = [exch EXCEPT ![c] = e], e.state # "read"
  PROVE  Rotation!Next
<1>1. Rows' = Rows /\ Held' = [Held EXCEPT ![c] = Null]
  BY OneHolds DEF Rows, RowOf
<1>2. Rotation!Drop(c)
  BY <1>1 DEF Rotation!Drop, Rows, Held, RowOf, HeldBy
<1> QED BY <1>2 DEF Rotation!Next

LEMMA Closing ==
  ASSUME TypeOK, NEW t \in Sessions, NEW how \in {"expired", "revoked"},
         server[t] = "open", Ended(t, how, server),
         UNCHANGED <<active, exch, refused>>
  PROVE  Rotation!Next
<1>1. Rows' = [q \in Sessions |-> IF q \in {t} THEN "closed" ELSE Rows[q]]
  BY EndedForward DEF Rows, RowOf
<1>2. Rows[t] = "open" /\ Held' = Held
  BY DEF Rows, RowOf, Held, HeldBy
<1>3. Rotation!Close({t})
  BY <1>1, <1>2 DEF Rotation!Close, Rows, Held, RowOf, HeldBy
<1> QED BY <1>3 DEF Rotation!Next

LEMMA Opening ==
  ASSUME TypeOK, NEW c \in Calls, NEW n \in Sessions, Login(c, n)
  PROVE  Rotation!Next
<1>1. server' = [server EXCEPT ![n] = "open"] /\ server[n] = "unused" /\ exch' = exch
  BY DEF Login
<1>2. Rows' = [Rows EXCEPT ![n] = "open"] /\ Rows[n] = "unused" /\ Held' = Held
  BY <1>1 DEF Rows, RowOf, Held, HeldBy, TypeOK
<1>3. Rotation!Open(n)
  BY <1>2 DEF Rotation!Open, Rows, Held, RowOf, HeldBy
<1> QED BY <1>3 DEF Rotation!Next

\* The server reads an open row, or answers that it is not one.
LEMMA Claiming ==
  ASSUME CliInv, NEW c \in Calls, ReadSession(c)
  PROVE  [Rotation!Next]_(Rotation!vars)
<1>1. TypeOK /\ server' = server /\ exch[c].state = "asked" /\ exch[c].token \in Sessions
  BY DEF CliInv, Exchanging, ReadSession
<1>2. exch[c] \in Exchange
  BY <1>1 DEF TypeOK
<1>3. CASE Accepted(exch[c].token)
  <2>1. PICK e \in Exchange : /\ e = [exch[c] EXCEPT !.state = "read"]
                              /\ exch' = [exch EXCEPT ![c] = e]
    BY <1>2, <1>3 DEF ReadSession, Exchange
  <2>2. e.state = "read" /\ e.token = exch[c].token
    BY <1>2, <2>1 DEF Exchange
  <2>3. Rows' = Rows
    BY <1>1 DEF Rows, RowOf
  <2>4. Held' = [Held EXCEPT ![c] = exch[c].token]
    BY <1>1, <2>1, <2>2, OneHolds
  <2>5. Rows[exch[c].token] = "open" /\ Held[c] = Null
    BY <1>1, <1>3 DEF Accepted, Rows, RowOf, Held, HeldBy
  <2>6. PICK t \in Sessions : t = exch[c].token
    BY <1>1
  <2>7. Rotation!Claim(c, t)
    BY <2>3, <2>4, <2>5, <2>6 DEF Rotation!Claim, Rows, Held, RowOf, HeldBy
  <2> QED BY <2>7 DEF Rotation!Next
<1>4. CASE ~Accepted(exch[c].token)
  <2>1. PICK e \in Exchange : exch' = [exch EXCEPT ![c] = e] /\ e.state # "read"
    <3>1. NoExchange \in Exchange /\ NoExchange.state = "none"
      BY DEF NoExchange, Exchange, Pair
    <3>2. /\ [exch[c] EXCEPT !.state = "refused"] \in Exchange
          /\ [exch[c] EXCEPT !.state = "refused"].state = "refused"
      BY <1>2 DEF Exchange
    <3> QED BY <1>4, <3>1, <3>2 DEF ReadSession
  <2> QED BY <1>1, <2>1, Dropping
<1> QED BY <1>3, <1>4

\* The session that is opened was unused, so it is not the one exchanged.
LEMMA Rotating ==
  ASSUME CliInv, NEW c \in Calls, NEW n \in Sessions, Rotate(c, n)
  PROVE  Rotation!Next
<1>1. /\ TypeOK /\ exch[c].state = "read" /\ exch[c].token \in Sessions
      /\ server[n] = "unused" /\ exch[c].token # n
  BY DEF CliInv, Exchanging, Rotate, TypeOK
<1>2. PICK t \in Sessions : t = exch[c].token
  BY <1>1
<1>3. server' = [server EXCEPT ![n] = "open", ![t] = "revoked"]
  BY <1>2 DEF Rotate, Ended
<1>4. Rows' = [Rows EXCEPT ![t] = "closed", ![n] = "open"] /\ Rows[n] = "unused"
  BY <1>1, <1>2, <1>3 DEF Rows, RowOf, TypeOK
<1>5. PICK e \in Exchange : exch' = [exch EXCEPT ![c] = e] /\ e.state # "read"
  <2>1. NoExchange \in Exchange /\ NoExchange.state = "none"
    BY DEF NoExchange, Exchange, Pair
  <2>2. /\ [exch[c] EXCEPT !.state = "rotated", !.new = n] \in Exchange
        /\ [exch[c] EXCEPT !.state = "rotated", !.new = n].state = "rotated"
    <3>1. exch[c] \in Exchange
      BY <1>1 DEF TypeOK
    <3>2. [exch[c] EXCEPT !.state = "rotated", !.new = n].state = "rotated"
      BY <3>1 DEF Exchange
    <3> QED BY <3>1, <3>2 DEF Exchange, Pair
  <2> QED BY <2>1, <2>2 DEF Rotate
<1>6. Held' = [Held EXCEPT ![c] = Null]
  BY <1>1, <1>5, OneHolds
<1>7. Held[c] = t /\ t # Null
  BY <1>1, <1>2, CliConstants DEF Held, HeldBy
<1>8. Rotation!Exchange(c, n)
  BY <1>4, <1>6, <1>7 DEF Rotation!Exchange, Rows, Held, RowOf, HeldBy
<1> QED BY <1>8 DEF Rotation!Next

LEMMA RotationStep ==
  ASSUME CliInv, [Next]_vars
  PROVE  [Rotation!Next]_(Rotation!vars)
<1>0. TypeOK /\ NoExchange \in Exchange /\ NoExchange.state = "none"
  BY DEF CliInv, NoExchange, Exchange, Pair
<1>1. ASSUME server' = server, exch' = exch PROVE UNCHANGED Rotation!vars
  BY <1>1, Unseen DEF HeldBy
<1>2. ASSUME NEW c \in Calls,
             \/ \E kind \in {"request", "logout"}, soon \in BOOLEAN : Send(c, kind, soon)
             \/ Challenged(c) \/ Unanswered(c) \/ UseRenewed(c)
             \/ Truncate(c) \/ Write(c) \/ SaveFails(c)
             \/ \E saved \in BOOLEAN : Clear(c, saved)
             \/ Me(c) \/ MeFails(c) \/ SaveSettings(c)
      PROVE  UNCHANGED Rotation!vars
  BY <1>1, <1>2 DEF Send, Challenged, Unanswered, UseRenewed, Truncate, Write,
     SaveFails, Clear, Me, MeFails, SaveSettings
<1>3. ASSUME NEW c \in Calls, Answered(c)
      PROVE  [Rotation!Next]_(Rotation!vars)
  <2>1. At(c, "sent") /\ UNCHANGED <<active, exch, refused>> /\ server[call[c].token] = "open"
    BY <1>3 DEF Answered, Accepted
  <2>2. call[c].token \in Sessions
    BY <2>1 DEF CliInv, Holding
  <2>3. Ended(call[c].token, "revoked", server) \/ server' = server
    BY <1>3 DEF Answered
  <2> QED BY <1>0, <1>1, <2>1, <2>2, <2>3, Closing
<1>4. ASSUME NEW c \in Calls, Lock(c) \/ ExchangeFails(c) \/ Adopt(c) \/ Refused(c)
      PROVE  Rotation!Next
  <2>1. server' = server
    BY <1>4 DEF Lock, ExchangeFails, Adopt, Refused
  <2>2. PICK e \in Exchange : exch' = [exch EXCEPT ![c] = e] /\ e.state # "read"
    <3>1. CASE Lock(c)
      <4>1. [state |-> "asked", token |-> Mem(c), new |-> Null] \in Exchange
        BY <1>0, CliConstants DEF TypeOK, Exchange, Pair, Mem
      <4> QED BY <3>1, <4>1 DEF Lock
    <3> QED BY <1>0, <1>4, <3>1 DEF ExchangeFails, Adopt, Refused
  <2> QED BY <1>0, <2>1, <2>2, Dropping
<1>5. ASSUME NEW c \in Calls, GiveUp(c)
      PROVE  [Rotation!Next]_(Rotation!vars)
  <2>1. server' = server
    BY <1>5 DEF GiveUp
  <2>2. CASE exch[c].state \in {"rotated", "refused"}
    BY <1>0, <1>5, <2>1, <2>2, Dropping DEF GiveUp
  <2>3. CASE exch[c].state \notin {"rotated", "refused"}
    BY <1>1, <1>5, <2>1, <2>3 DEF GiveUp
  <2> QED BY <2>2, <2>3
<1>6. ASSUME NEW p \in Processes, Start(p) \/ Exit(p)
      PROVE  UNCHANGED Rotation!vars
  <2>1. server' = server
    BY <1>6 DEF Start, Exit
  <2>2. CASE Start(p)
    BY <1>1, <2>1, <2>2 DEF Start
  <2>3. CASE Exit(p)
    <3>1. \A d \in Calls :
            \/ exch'[d] = exch[d]
            \/ exch'[d] = NoExchange /\ exch[d].state \in {"rotated", "refused"}
      BY <2>3 DEF Exit
    <3> QED BY <1>0, <2>1, <3>1, Unseen DEF HeldBy
  <2> QED BY <1>6, <2>2, <2>3
<1>7. ASSUME NEW t \in Sessions, AgeToken(t) \/ ExpireSession(t)
      PROVE  [Rotation!Next]_(Rotation!vars)
  BY <1>0, <1>1, <1>7, Closing DEF AgeToken, ExpireSession
<1>8. CASE UNCHANGED vars \/ SwitchUserActivation
  BY <1>1, <1>8 DEF vars, SwitchUserActivation
<1>9. ASSUME NEW c \in Calls, NEW n \in Sessions, Rotate(c, n) \/ Login(c, n)
      PROVE  Rotation!Next
  BY <1>0, <1>9, Rotating, Opening
<1>10. CASE Next
  <2>1. CASE \E p \in Processes : Start(p) \/ Exit(p)
    BY <1>6, <2>1
  <2>2. CASE \E t \in Sessions : AgeToken(t) \/ ExpireSession(t)
    BY <1>7, <2>2
  <2>3. ASSUME NEW c \in Calls,
               \/ \E kind \in {"request", "logout"}, soon \in BOOLEAN : Send(c, kind, soon)
               \/ Answered(c) \/ Challenged(c) \/ Unanswered(c)
               \/ UseRenewed(c) \/ Lock(c) \/ ReadSession(c)
               \/ \E n \in Sessions : Rotate(c, n) \/ Login(c, n)
        PROVE  [Rotation!Next]_(Rotation!vars)
    BY <1>2, <1>3, <1>4, <1>9, <2>3, Claiming
  <2>4. ASSUME NEW c \in Calls,
               \/ ExchangeFails(c) \/ GiveUp(c) \/ Adopt(c) \/ Refused(c)
               \/ Truncate(c) \/ Write(c) \/ SaveFails(c)
               \/ \E saved \in BOOLEAN : Clear(c, saved)
               \/ Me(c) \/ MeFails(c) \/ SaveSettings(c)
        PROVE  [Rotation!Next]_(Rotation!vars)
    BY <1>2, <1>4, <1>5, <2>4
  <2> QED BY <1>8, <1>10, <2>1, <2>2, <2>3, <2>4 DEF Next
<1> QED BY <1>8, <1>10

\* The rows of sessions in this module are opened, exchanged and closed as
\* TokenRotation says: one is exchanged only by a call that found it open, it
\* is closed in the step that opens the next, and it never opens again, with
\* lost answers, dying processes, log-outs and deactivations in between.  This
\* is about those rows only: which answers a client gets, TokenRotation does
\* not say.
THEOREM ClientKeepsRotation == Spec => KeepsRotation
<1>1. CliInv /\ [Next]_vars => [Rotation!Next]_(Rotation!vars)
  BY RotationStep
<1>2. Spec => Rotation!Spec
  BY <1>1, RotationInit, CliAlways, PTL DEF Spec, Rotation!Spec
<1> QED BY <1>2 DEF KeepsRotation
=============================================================================
