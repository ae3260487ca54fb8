-------------------------------- MODULE Proxy --------------------------------
(***************************************************************************)
(* Forwarding a request to a backend (internal/proxy/proxy.go): the retry  *)
(* loop of Backend.Do over the backend's pool of hosts (pool.go), its      *)
(* circuit breaker (module Breaker) and the request's context.             *)
(*                                                                         *)
(* Requests share the hosts' health flags and in-flight counters and the   *)
(* breaker; each access to one of them is a step.  What a request carries  *)
(* is abstracted to whether it may be replayed: whether its method is      *)
(* idempotent, or has an Idempotency-Key, and how large its body is.       *)
(* Headers, paths and latencies are left out.                              *)
(***************************************************************************)
EXTENDS Integers, FiniteSets

CONSTANTS
  Requests,        \* requests that may be in Do at once
  Hosts,           \* Pool.hosts
  Kinds,           \* the kinds of request that arrive, a subset of AllKinds
  Attempts,        \* RetryPolicy.Attempts: retries beyond the first attempt
  IdempotentOnly,  \* RetryPolicy.IdempotentOnly
  LeastConn,       \* whether Pool.strategy is least_conn
  UnhealthyAfter, HealthyAfter,                \* HealthCheckConfig
  MinRequests, OpenFor, RatioNum, RatioDen     \* BreakerConfig, see Breaker

AllKinds == [idempotent : BOOLEAN, body : {"none", "small", "large"}]

ASSUME ProxyAssumption ==
  /\ IsFiniteSet(Requests) /\ IsFiniteSet(Hosts) /\ Hosts # {}
  /\ Kinds \subseteq AllKinds
  /\ Attempts \in Nat
  /\ IdempotentOnly \in BOOLEAN /\ LeastConn \in BOOLEAN
  /\ UnhealthyAfter \in Nat \ {0} /\ HealthyAfter \in Nat \ {0}
  /\ MinRequests \in Nat \ {0} /\ OpenFor \in Nat \ {0}
  /\ RatioNum \in Nat \ {0} /\ RatioDen \in Nat \ {0}

VARIABLES
  state, successes, failures, probing, age, call, interrupted,  \* see Breaker
  healthy,    \* Host.healthy
  inflight,   \* Host.inflight
  streak,     \* okStreak, or minus failStreak, counted up to the thresholds
  pc,         \* where each request is in Do
  kind,       \* what it is
  tries,      \* attempts it may make
  attempt,    \* the attempt it is at
  host,       \* lastHost
  live,       \* its context is not done: no time-out, client there, not cancelled
  body,       \* what the next attempt would send: none, buffer, stream, consumed
  trip,       \* how the round trip ended
  sent        \* history: attempts that reached a host

breakerVars == <<state, successes, failures, probing, age, call, interrupted>>
poolVars    == <<healthy, inflight, streak>>
requestVars == <<pc, kind, tries, attempt, host, live, body, trip, sent>>
vars == <<breakerVars, poolVars, requestVars>>

\* The breaker: its calls are the requests in Do.
B == INSTANCE Breaker WITH Calls <- Requests

NoHost == "none"
NoKind == [idempotent |-> FALSE, body |-> "none"]
Points == {"idle", "backoff", "pick", "allow", "send", "trip", "report", "body"}
Trips  == {"none", "ok", "fault", "retryable", "error"}

Init ==
  /\ B!Init
  /\ healthy  = [h \in Hosts |-> TRUE]
  /\ inflight = [h \in Hosts |-> 0]
  /\ streak   = [h \in Hosts |-> 0]
  /\ pc    = [r \in Requests |-> "idle"]
  /\ kind  = [r \in Requests |-> NoKind]
  /\ tries = [r \in Requests |-> 1]
  /\ attempt = [r \in Requests |-> 0]
  /\ host  = [r \in Requests |-> NoHost]
  /\ live  = [r \in Requests |-> FALSE]
  /\ body  = [r \in Requests |-> "none"]
  /\ trip  = [r \in Requests |-> "none"]
  /\ sent  = [r \in Requests |-> 0]

-----------------------------------------------------------------------------
(* The pool. *)

\* Pick's candidates: the healthy hosts, without the one that just failed if
\* there is another.
Candidates(exclude) ==
  LET up == {h \in Hosts : healthy[h]}
  IN  IF Cardinality(up) > 1 THEN up \ {exclude} ELSE up

\* random and round_robin may come to any candidate.
Picked(exclude) ==
  LET c == Candidates(exclude)
  IN  IF LeastConn THEN {h \in c : \A g \in c : inflight[h] <= inflight[g]} ELSE c

\* A health check of a host ends; the flag flips after enough of a kind in a row.
HealthCheck(h, ok) ==
  LET s == IF ok THEN (IF streak[h] < 0 THEN 1 ELSE streak[h] + 1)
                 ELSE (IF streak[h] > 0 THEN -1 ELSE streak[h] - 1)
  IN
  /\ streak' = [streak EXCEPT ![h] =
                  IF s > HealthyAfter THEN HealthyAfter
                  ELSE IF s < -UnhealthyAfter THEN -UnhealthyAfter ELSE s]
  /\ healthy' = [healthy EXCEPT ![h] =
                   IF ok THEN @ \/ s >= HealthyAfter ELSE @ /\ s > -UnhealthyAfter]
  /\ UNCHANGED <<breakerVars, inflight, requestVars>>

-----------------------------------------------------------------------------
(* Do. *)

\* snapshotBody, and retryable: how often a request of this kind may be sent.
Snapshot(k) ==
  IF k.body = "none" THEN "none"
  ELSE IF Attempts > 0 /\ k.body = "small" THEN "buffer" ELSE "stream"

\* A variant: a body that was not buffered is replayed as well.
ReplayAnything(k) ==
  Attempts > 0 /\ (~IdempotentOnly \/ k.idempotent)

Retryable(k) ==
  /\ Attempts > 0
  /\ Snapshot(k) # "stream"
  /\ ~IdempotentOnly \/ k.idempotent

\* The locals of a request that is no longer in the loop.
Forget(r) ==
  /\ kind' = [kind EXCEPT ![r] = NoKind]
  /\ tries' = [tries EXCEPT ![r] = 1]
  /\ attempt' = [attempt EXCEPT ![r] = 0]
  /\ host' = [host EXCEPT ![r] = NoHost]
  /\ body' = [body EXCEPT ![r] = "none"]
  /\ trip' = [trip EXCEPT ![r] = "none"]
  /\ sent' = [sent EXCEPT ![r] = 0]

\* A variant: the timeout context is left to expire.
FailWithoutCancel(r) ==
  /\ pc' = [pc EXCEPT ![r] = "idle"]
  /\ Forget(r)
  /\ UNCHANGED live

\* Do returns an error, and the deferred cancel ends the context.
Fail(r) ==
  /\ pc' = [pc EXCEPT ![r] = "idle"]
  /\ live' = [live EXCEPT ![r] = FALSE]
  /\ Forget(r)

\* A request enters Do.  If its body cannot be read ahead of the first attempt
\* Do fails at once, which leaves no trace.
Begin(r, k) ==
  /\ pc[r] = "idle"
  /\ kind' = [kind EXCEPT ![r] = k]
  /\ body' = [body EXCEPT ![r] = Snapshot(k)]
  /\ tries' = [tries EXCEPT ![r] = IF Retryable(k) THEN 1 + Attempts ELSE 1]
  /\ live' = [live EXCEPT ![r] = TRUE]
  /\ pc' = [pc EXCEPT ![r] = "pick"]
  /\ UNCHANGED <<breakerVars, poolVars, attempt, host, trip, sent>>

\* The timeout of the backend expires, or the client hangs up.
ContextEnds(r) ==
  /\ pc[r] \notin {"idle", "body"} /\ live[r]
  /\ live' = [live EXCEPT ![r] = FALSE]
  /\ UNCHANGED <<breakerVars, poolVars, pc, kind, tries, attempt, host, body, trip, sent>>

\* sleepBackoff: the timer fires, or the context ends; if both have, either
\* may be noticed.
BackoffEnds(r) ==
  /\ pc[r] = "backoff"
  /\ pc' = [pc EXCEPT ![r] = "pick"]
  /\ UNCHANGED <<breakerVars, poolVars, kind, tries, attempt, host, live, body, trip, sent>>

BackoffInterrupted(r) ==
  /\ pc[r] = "backoff" /\ ~live[r]
  /\ Fail(r)
  /\ UNCHANGED <<breakerVars, poolVars>>

\* Pool.Pick.  The flags are read one after the other; here they are read at once.
Pick(r) ==
  /\ pc[r] = "pick"
  /\ \E h \in Picked(host[r]) : host' = [host EXCEPT ![r] = h]
  /\ pc' = [pc EXCEPT ![r] = "allow"]
  /\ UNCHANGED <<breakerVars, poolVars, kind, tries, attempt, live, body, trip, sent>>

PickFails(r) ==
  /\ pc[r] = "pick" /\ \A h \in Hosts : ~healthy[h]
  /\ Fail(r)
  /\ UNCHANGED <<breakerVars, poolVars>>

\* breaker.Allow, which hands out the done function.
Allowed(r) ==
  /\ pc[r] = "allow"
  /\ B!Allow(r)
  /\ pc' = [pc EXCEPT ![r] = "send"]
  /\ UNCHANGED <<poolVars, kind, tries, attempt, host, live, body, trip, sent>>

\* Allow answers ErrBreakerOpen.
Refused(r) ==
  /\ pc[r] = "allow"
  /\ B!StateNow = "open" \/ (B!StateNow = "halfopen" /\ B!ProbingNow)
  /\ Fail(r)
  /\ UNCHANGED <<breakerVars, poolVars>>

\* host.inflight.Add(1), and the round trip begins; a stream can be read once.
Send(r) ==
  /\ pc[r] = "send"
  /\ inflight' = [inflight EXCEPT ![host[r]] = @ + 1]
  /\ sent' = [sent EXCEPT ![r] = @ + 1]
  /\ body' = [body EXCEPT ![r] = IF @ = "stream" THEN "consumed" ELSE @]
  /\ pc' = [pc EXCEPT ![r] = "trip"]
  /\ UNCHANGED <<breakerVars, healthy, streak, kind, tries, attempt, host, live, trip>>

\* A variant: the counter is decremented only when the round trip succeeds.
RoundTripLeaks(r, t) ==
  /\ pc[r] = "trip"
  /\ inflight' = [inflight EXCEPT ![host[r]] = IF t = "error" THEN @ ELSE @ - 1]
  /\ trip' = [trip EXCEPT ![r] = t]
  /\ pc' = [pc EXCEPT ![r] = "report"]
  /\ UNCHANGED <<breakerVars, healthy, streak, kind, tries, attempt, host, live, body, sent>>

\* The round trip ends, with a status below 500, with one that is retryable, with
\* another, or with an error; host.inflight.Add(-1).
RoundTrip(r, t) ==
  /\ pc[r] = "trip"
  /\ inflight' = [inflight EXCEPT ![host[r]] = @ - 1]
  /\ trip' = [trip EXCEPT ![r] = t]
  /\ pc' = [pc EXCEPT ![r] = "report"]
  /\ UNCHANGED <<breakerVars, healthy, streak, kind, tries, attempt, host, live, body, sent>>

\* done(success)
Done(r, success) == B!Report(r, success) \/ B!ReportProbe(r, success)

\* The outcome is reported and the response handed to the caller.
Respond(r) ==
  /\ pc[r] = "report"
  /\ \/ trip[r] \in {"ok", "fault"}
     \/ trip[r] = "retryable" /\ attempt[r] + 1 >= tries[r]
  /\ Done(r, trip[r] = "ok")
  /\ pc' = [pc EXCEPT ![r] = "body"]
  /\ Forget(r)
  /\ UNCHANGED <<poolVars, live>>

\* The outcome is reported and the loop goes on.
TryAgain(r) ==
  /\ pc[r] = "report"
  /\ attempt[r] + 1 < tries[r]
  /\ trip[r] = "retryable" \/ (trip[r] = "error" /\ live[r])
  /\ Done(r, FALSE)
  /\ attempt' = [attempt EXCEPT ![r] = @ + 1]
  /\ trip' = [trip EXCEPT ![r] = "none"]
  /\ pc' = [pc EXCEPT ![r] = "backoff"]
  /\ UNCHANGED <<poolVars, kind, tries, host, live, body, sent>>

\* A variant: a request whose context is done returns without reporting.
GiveUpSilently(r) ==
  /\ pc[r] = "report" /\ trip[r] = "error"
  /\ \/ ~live[r] /\ UNCHANGED breakerVars
     \/ live[r] /\ attempt[r] + 1 >= tries[r] /\ Done(r, FALSE)
  /\ Fail(r)
  /\ UNCHANGED poolVars

\* The outcome is reported and Do fails, because the context is done or because
\* there is no attempt left.
GiveUp(r) ==
  /\ pc[r] = "report" /\ trip[r] = "error"
  /\ ~live[r] \/ attempt[r] + 1 >= tries[r]
  /\ Done(r, FALSE)
  /\ Fail(r)
  /\ UNCHANGED poolVars

\* The caller closes the body, which ends the context.
CloseBody(r) ==
  /\ pc[r] = "body"
  /\ pc' = [pc EXCEPT ![r] = "idle"]
  /\ live' = [live EXCEPT ![r] = FALSE]
  /\ UNCHANGED <<breakerVars, poolVars, kind, tries, attempt, host, body, trip, sent>>

\* The status page looks at the breaker; time passes for it.
BreakerAlone ==
  /\ B!Observe \/ B!Tick
  /\ UNCHANGED <<poolVars, requestVars>>

Step(r) ==
  \/ BackoffEnds(r) \/ BackoffInterrupted(r) \/ Pick(r) \/ PickFails(r)
  \/ Allowed(r) \/ Refused(r) \/ Send(r)
  \/ \E t \in Trips \ {"none"} : RoundTrip(r, t)
  \/ Respond(r) \/ TryAgain(r) \/ GiveUp(r) \/ CloseBody(r)

Next ==
  \/ \E r \in Requests : Step(r) \/ \E k \in Kinds : Begin(r, k)
  \/ \E r \in Requests : ContextEnds(r)
  \/ \E h \in Hosts, ok \in BOOLEAN : HealthCheck(h, ok)
  \/ BreakerAlone

Spec == Init /\ [][Next]_vars

-----------------------------------------------------------------------------
(* Properties. *)

\* Every call the breaker admitted is a request between Allow and done, and the
\* other way round: no way out of Do forgets to report or reports twice, so a
\* probe cannot be lost with a request that timed out or was given up.
CallsAreInDo ==
  \A r \in Requests : call[r] # "none" <=> pc[r] \in {"send", "trip", "report"}

\* least_conn balances on exact numbers: a host's in-flight counter is the
\* number of round trips to it, whatever way they end.
InflightIsExact ==
  \A h \in Hosts : inflight[h] = Cardinality({r \in Requests : pc[r] = "trip" /\ host[r] = h})

\* "Retries fire only on idempotent methods" (PLAN.md, Proxy): a request that may
\* not be replayed reaches a host at most once.
NotReplayed ==
  \A r \in Requests : sent[r] > 1 => ~IdempotentOnly \/ kind[r].idempotent

\* No attempt is made with a request body an earlier one has already consumed.
BodyIsWhole ==
  \A r \in Requests : pc[r] \in {"backoff", "pick", "allow", "send"} => body[r] # "consumed"

\* Retries are safe: nothing is sent twice that may not be, and nothing in part.
RetriesAreSafe == NotReplayed /\ BodyIsWhole

\* A finished request leaves no timeout context behind.
ContextIsReleased == \A r \in Requests : pc[r] = "idle" => ~live[r]

\* While a half-open breaker turns requests away because of a probe, one of the requests
\* in Do is that probe and has its report ahead of it: whatever its round trip comes to,
\* a time-out or a client that hangs up included, the backend is not cut off for good.
ProbeIsCarried ==
  state = "halfopen" /\ probing =>
    \E r \in Requests : call[r] = "probe" /\ pc[r] \in {"send", "trip", "report"}
=============================================================================
