------------------------------ MODULE RateLimit ------------------------------
(***************************************************************************)
(* The sliding window of core/rate_limit.py, for the requests that several *)
(* instances of the service receive within one scope.                      *)
(*                                                                         *)
(*   Arrive -> ReadClock -> Evaluated (or once more) -> admitted, refused  *)
(*                                                                         *)
(* An instance reads its clock before the script runs, so readings reach   *)
(* Redis late and out of order.  The answer of the script can be lost, and *)
(* Redis can lose its keys.  Time is counted in ticks.                     *)
(***************************************************************************)
EXTENDS ClientAddress, Integers, FiniteSets

CONSTANTS
  Requests,
  Callers,      \* who calls, as a peer reads it
  Headers,      \* what a caller may put into X-Forwarded-For itself
  Paths,        \* the proxies a request passes, from the caller's side
  Window,       \* window_seconds
  MaxRequests,  \* max_requests
  MaxSkew,      \* how far the clocks of two instances may be apart
  MaxTime       \* bound

ASSUME LimitConstants ==
  /\ IsFiniteSet(Requests)
  /\ Callers \subseteq {c \in Spellings : NormalizeIp[c] \in Addresses}
  /\ Headers \cup Paths \subseteq Seq(Spellings)
  /\ \A path \in Paths : \A i \in DOMAIN path : NormalizeIp[path[i]] \in Proxies
  /\ {Window, MaxRequests, MaxSkew, MaxTime} \subseteq Nat
  /\ Window > 0

VARIABLES
  now,       \* the slowest clock
  bucket,    \* the sorted set of each client; the score of r is req[r].reading
  ttl,       \* ticks until EXPIRE removes it
  req,       \* what is known of each request
  admitted   \* history: who has been let through since Redis lost its keys

limits == <<bucket, ttl, admitted>>
vars == <<now, limits, req>>

-----------------------------------------------------------------------------
(* Types *)

Phase == {"new", "arrived", "timed", "retrying", "refused", "failed", "admitted"}

Request ==
  [pc      : Phase,
   ip      : ClientIps \cup {Null},    \* request.state.client_ip
   from    : Addresses \cup {Null},    \* history: where it really came from
   clean   : BOOLEAN,                  \* history: no proxy passed on a bad header
   reading : Nat,                      \* now, as its instance read it
   at      : Nat,                      \* history: when the script recorded it
   others  : Nat,                      \* history: who filled the bucket
   lost    : BOOLEAN]                  \* history: a recording went unanswered

At(r, pc) == req[r].pc = pc

TypeOK ==
  /\ now      \in 0..MaxTime
  /\ bucket   \in [ClientIps -> SUBSET Requests]
  /\ ttl      \in [ClientIps -> 0..Window]
  /\ req      \in [Requests -> Request]
  /\ admitted \in SUBSET Requests
  /\ \A r \in Requests : ~At(r, "new") => req[r].ip \in ClientIps

-----------------------------------------------------------------------------
(* Helpers *)

Blank == [pc |-> "new", ip |-> Null, from |-> Null, clean |-> TRUE,
          reading |-> 0, at |-> 0, others |-> 0, lost |-> FALSE]

Init ==
  /\ now = 0
  /\ bucket = [k \in ClientIps |-> {}]
  /\ ttl = [k \in ClientIps |-> 0]
  /\ req = [r \in Requests |-> Blank]
  /\ admitted = {}

-----------------------------------------------------------------------------
(* The rate limit *)

\* AuditMiddleware.  Each proxy appends the address it was called from.
Arrive(r, caller, header, path) ==
  LET seen == header \o <<caller>> \o path
      peer == seen[Len(seen)]
      forwarded == SubSeq(seen, 1, Len(seen) - 1)
  IN
  /\ At(r, "new")
  /\ req' = [req EXCEPT ![r] =
       [@ EXCEPT !.pc = "arrived",
                 !.ip = ResolveClientIp(peer, forwarded),
                 !.from = NormalizeIp[caller],
                 !.clean = path = <<>> \/
                   \A i \in DOMAIN header : NormalizeIp[header[i]] # Malformed]]
  /\ UNCHANGED <<now, limits>>

\* A request over a socket whose peer has no address.
ArriveUnknown(r) ==
  /\ At(r, "new")
  /\ req' = [req EXCEPT ![r] =
       [@ EXCEPT !.pc = "arrived", !.ip = ResolveClientIp(Null, <<>>)]]
  /\ UNCHANGED <<now, limits>>

\* get_redis() raises RuntimeError where init_redis has not run: no limit.
SkipLimit(r) ==
  /\ At(r, "arrived")
  /\ req' = [req EXCEPT ![r].pc = "admitted"]
  /\ UNCHANGED <<now, limits>>

\* datetime.now() of the instance that has the request.
ReadClock(r, skew) ==
  /\ At(r, "arrived")
  /\ req' = [req EXCEPT ![r] = [@ EXCEPT !.pc = "timed", !.reading = now + skew]]
  /\ UNCHANGED <<now, limits>>

\* ZREMRANGEBYSCORE key 0 window_start.
PrunedLate(k, reading) ==                            \* fault: half the window
  {q \in bucket[k] : req[q].reading > reading - (Window \div 2)}
Pruned(k, reading) == {q \in bucket[k] : req[q].reading > reading - Window}

HasRoom(entries) == Cardinality(entries) < MaxRequests

Recorded(entries, r) == IF HasRoom(entries) THEN entries \cup {r} ELSE entries

\* One run of the script.
Script(r) ==
  LET k == req[r].ip
      entries == Pruned(k, req[r].reading)
  IN
  /\ bucket' = [bucket EXCEPT ![k] = Recorded(entries, r)]
  /\ ttl' = [ttl EXCEPT ![k] = IF HasRoom(entries) THEN Window ELSE @]

Trying(r) == At(r, "timed") \/ At(r, "retrying")

\* The script runs and its answer arrives.  A caller that is let through keeps
\* the slot that an unanswered run may have taken before.
Evaluated(r) ==
  LET entries == Pruned(req[r].ip, req[r].reading) IN
  /\ Trying(r)
  /\ Script(r)
  /\ IF HasRoom(entries)
     THEN /\ req' = [req EXCEPT ![r] =
               [@ EXCEPT !.pc = "admitted", !.at = now, !.lost = FALSE]]
          /\ admitted' = admitted \cup {r}
     ELSE /\ req' = [req EXCEPT ![r] =
               [@ EXCEPT !.pc = "refused", !.others = Cardinality(entries \ {r})]]
          /\ UNCHANGED admitted
  /\ UNCHANGED now

\* _eval_script runs the script a second time, with the same arguments, after
\* any exception of the first; an exception of the second is a status 500.
AfterError(r) == IF At(r, "timed") THEN "retrying" ELSE "failed"

\* The script runs and the answer is lost.
AnswerLost(r) ==
  /\ Trying(r)
  /\ Script(r)
  /\ req' = [req EXCEPT ![r] =
       [@ EXCEPT !.pc = AfterError(r),
                 !.lost = req[r].lost \/ HasRoom(Pruned(req[r].ip, req[r].reading))]]
  /\ UNCHANGED <<now, admitted>>

\* NOSCRIPT, or no connection: the script does not run.
EvaluationFails(r) ==
  /\ Trying(r)
  /\ req' = [req EXCEPT ![r].pc = AfterError(r)]
  /\ UNCHANGED <<now, limits>>

-----------------------------------------------------------------------------
(* Time and Redis *)

Tick ==
  /\ now < MaxTime
  /\ now' = now + 1
  /\ ttl' = [k \in ClientIps |-> IF ttl[k] = 0 THEN 0 ELSE ttl[k] - 1]
  /\ bucket' = [k \in ClientIps |-> IF ttl[k] <= 1 THEN {} ELSE bucket[k]]
  /\ UNCHANGED <<req, admitted>>

\* Redis starts again without its keys.
LoseKeys ==
  /\ bucket' = [k \in ClientIps |-> {}]
  /\ ttl' = [k \in ClientIps |-> 0]
  /\ admitted' = {}
  /\ UNCHANGED <<now, req>>

Next ==
  \/ \E r \in Requests :
       \/ \E caller \in Callers, header \in Headers, path \in Paths :
            Arrive(r, caller, header, path)
       \/ ArriveUnknown(r) \/ SkipLimit(r)
       \/ \E skew \in 0..MaxSkew : ReadClock(r, skew)
       \/ Evaluated(r) \/ AnswerLost(r) \/ EvaluationFails(r)
  \/ Tick
  \/ LoseKeys

Spec == Init /\ [][Next]_vars

-----------------------------------------------------------------------------
(* Safety *)

\* What is left of the window when the clocks disagree.
Span == Window - MaxSkew

\* r was recorded before time overtook its reading.
Prompt(r) == req[r].reading >= req[r].at

\* rate_limit.py:83, "max_requests within the rolling window_seconds window":
\* the callers of one client that are let through within a window, shortened
\* by what the clocks may be apart, are at most max_requests.  Left out are
\* those whose reading was overtaken by time before the script ran, which the
\* script cannot see, and whatever Redis has forgotten.
WindowBound ==
  \A r \in admitted :
    Cardinality({q \in admitted : /\ Prompt(q) /\ req[q].ip = req[r].ip
                                  /\ req[q].at \in req[r].at - Span + 1 .. req[r].at})
      <= MaxRequests

\* A caller is refused because of max_requests others, and takes up no slot
\* itself.  The exception is a first run whose answer was lost: the second run
\* can be refused because of the slot of the first, which stays.
RefusalsFair ==
  \A r \in Requests : (At(r, "refused") /\ ~req[r].lost) =>
    /\ req[r].others = MaxRequests
    /\ \A k \in ClientIps : r \notin bucket[k]

\* Whatever a caller from outside puts into X-Forwarded-For, on whatever path:
\* the slots it takes, and the place it is judged by, are those of its own
\* address, or of a trusted proxy if the header cannot be read.
CountsAsItself ==
  \A r \in Requests : req[r].from \in Addresses \ Proxies =>
    \/ req[r].ip = req[r].from
    \/ ~req[r].clean /\ req[r].ip \in Proxies
=============================================================================
