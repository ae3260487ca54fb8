----------------------------- MODULE ProxyProofs -----------------------------
(***************************************************************************)
(* Proofs about Proxy, for every number of requests, hosts and attempts:   *)
(* every call the breaker admits reports once, no probe is lost with its   *)
(* request, the in-flight counters are exact and nothing unsafe is sent    *)
(* twice.                                                                  *)
(***************************************************************************)
EXTENDS Proxy, FiniteSetTheorems, TLAPS

\* Every step of the proxy is a step of the breaker or leaves it alone.
LEMMA StepIsBreakerStep == ASSUME [Next]_vars PROVE [B!Next]_(B!vars)
<1> USE DEF breakerVars, B!vars
<1>1. ASSUME NEW r \in Requests, NEW success \in BOOLEAN, Done(r, success)
      PROVE  B!Next
  BY <1>1 DEF Done, B!Next, B!Done
<1>2. ASSUME NEW r \in Requests, Step(r) PROVE [B!Next]_(B!vars)
  <2>1. CASE BackoffEnds(r) \/ BackoffInterrupted(r) \/ Pick(r) \/ PickFails(r)
    BY <2>1 DEF BackoffEnds, BackoffInterrupted, Pick, PickFails
  <2>2. CASE Allowed(r)
    BY <2>2 DEF Allowed, B!Next
  <2>3. CASE Refused(r) \/ Send(r) \/ CloseBody(r)
    BY <2>3 DEF Refused, Send, CloseBody
  <2>4. CASE \E t \in Trips \ {"none"} : RoundTrip(r, t)
    BY <2>4 DEF RoundTrip
  <2>5. CASE Respond(r)
    BY <2>5, <1>1 DEF Respond
  <2>6. CASE TryAgain(r)
    BY <2>6, <1>1 DEF TryAgain
  <2>7. CASE GiveUp(r)
    BY <2>7, <1>1 DEF GiveUp
  <2>8. QED
    BY <1>2, <2>1, <2>2, <2>3, <2>4, <2>5, <2>6, <2>7 DEF Step
<1>3. ASSUME NEW r \in Requests, NEW k \in Kinds, Begin(r, k)
      PROVE  [B!Next]_(B!vars)
  BY <1>3 DEF Begin
<1>4. ASSUME NEW r \in Requests, ContextEnds(r) PROVE [B!Next]_(B!vars)
  BY <1>4 DEF ContextEnds
<1>5. ASSUME NEW h \in Hosts, NEW ok \in BOOLEAN, HealthCheck(h, ok)
      PROVE  [B!Next]_(B!vars)
  BY <1>5 DEF HealthCheck
<1>6. CASE BreakerAlone
  BY <1>6 DEF BreakerAlone, B!Next
<1>7. CASE UNCHANGED vars
  BY <1>7 DEF vars
<1>8. QED
  BY <1>2, <1>3, <1>4, <1>5, <1>6, <1>7 DEF Next

-----------------------------------------------------------------------------
(* Calls and reports. *)

CallInv ==
  /\ call \in [Requests -> {"none", "report", "probe"}]
  /\ pc \in [Requests -> Points]
  /\ CallsAreInDo

\* Allow hands out a done function, done uses it up.
LEMMA BreakerCall ==
  ASSUME CallInv, NEW r \in Requests
  PROVE  /\ B!Allow(r) => \E d \in {"report", "probe"} : call' = [call EXCEPT ![r] = d]
         /\ \A success \in BOOLEAN : Done(r, success) => call' = [call EXCEPT ![r] = "none"]
BY DEF B!Allow, B!AllowClosed, B!AllowProbe, Done, B!Report, B!ReportProbe

LEMMA CallStep == ASSUME CallInv, [Next]_vars PROVE CallInv'
<1> USE DEF CallInv, CallsAreInDo, breakerVars, Points
<1>1. ASSUME NEW r \in Requests, Step(r) PROVE CallInv'
  <2>1. CASE BackoffEnds(r) \/ BackoffInterrupted(r) \/ Pick(r) \/ PickFails(r)
    BY <2>1 DEF BackoffEnds, BackoffInterrupted, Pick, PickFails, Fail
  <2>2. CASE Allowed(r)
    <3>1. PICK d \in {"report", "probe"} : call' = [call EXCEPT ![r] = d]
      BY <2>2, BreakerCall DEF Allowed
    <3>2. QED
      BY <2>2, <3>1 DEF Allowed
  <2>3. CASE Refused(r) \/ Send(r) \/ CloseBody(r)
    BY <2>3 DEF Refused, Send, CloseBody, Fail
  <2>4. CASE \E t \in Trips \ {"none"} : RoundTrip(r, t)
    BY <2>4 DEF RoundTrip
  <2>5. CASE Respond(r)
    <3>1. call' = [call EXCEPT ![r] = "none"]
      BY <2>5, BreakerCall DEF Respond
    <3>2. QED
      BY <2>5, <3>1 DEF Respond
  <2>6. CASE TryAgain(r)
    <3>1. call' = [call EXCEPT ![r] = "none"]
      BY <2>6, BreakerCall DEF TryAgain
    <3>2. QED
      BY <2>6, <3>1 DEF TryAgain
  <2>7. CASE GiveUp(r)
    <3>1. call' = [call EXCEPT ![r] = "none"]
      BY <2>7, BreakerCall DEF GiveUp
    <3>2. QED
      BY <2>7, <3>1 DEF GiveUp, Fail
  <2>8. QED
    BY <1>1, <2>1, <2>2, <2>3, <2>4, <2>5, <2>6, <2>7 DEF Step
<1>2. ASSUME NEW r \in Requests, NEW k \in Kinds, Begin(r, k) PROVE CallInv'
  BY <1>2 DEF Begin
<1>3. ASSUME NEW r \in Requests, ContextEnds(r) PROVE CallInv'
  BY <1>3 DEF ContextEnds
<1>4. ASSUME NEW h \in Hosts, NEW ok \in BOOLEAN, HealthCheck(h, ok) PROVE CallInv'
  BY <1>4 DEF HealthCheck, requestVars
<1>5. CASE BreakerAlone
  BY <1>5 DEF BreakerAlone, B!Observe, B!Tick, requestVars
<1>6. CASE UNCHANGED vars
  BY <1>6 DEF vars, requestVars
<1>7. QED
  BY <1>1, <1>2, <1>3, <1>4, <1>5, <1>6 DEF Next

\* Every way out of Do reports exactly once: the calls the breaker has admitted
\* are the requests between Allow and done.
THEOREM CallsReport == Spec => []CallsAreInDo
<1>1. Init => CallInv
  BY DEF Init, B!Init, CallInv, CallsAreInDo, Points
<1>2. CallInv /\ [Next]_vars => CallInv'
  BY CallStep
<1>3. CallInv => CallsAreInDo
  BY DEF CallInv
<1>4. QED
  BY <1>1, <1>2, <1>3, PTL DEF Spec

\* A breaker that has its probing flag up has a probe out: the flag is put up with the
\* probe's own Allow, and taken down by its report or by the end of a later pause.
ProbingInv == probing => \E r \in Requests : call[r] = "probe"

LEMMA ProbingStep == ASSUME CallInv, ProbingInv, [Next]_vars PROVE ProbingInv'
<1>0. call \in [Requests -> {"none", "report", "probe"}]
  BY DEF CallInv
<1>1. [B!Next]_(B!vars)
  BY StepIsBreakerStep
<1>2. CASE B!Observe
  BY <1>2 DEF B!Observe, B!ProbingNow, B!HalfOpenDue, ProbingInv
<1>3. CASE B!Tick \/ UNCHANGED B!vars
  BY <1>3 DEF B!Tick, B!vars, ProbingInv
<1>4. ASSUME NEW c \in Requests, B!Allow(c) PROVE ProbingInv'
  <2>1. CASE B!AllowClosed(c)
    BY <1>0, <2>1 DEF B!AllowClosed, ProbingInv
  <2>2. CASE B!AllowProbe(c)
    BY <1>0, <2>2 DEF B!AllowProbe, ProbingInv
  <2>3. QED
    BY <1>4, <2>1, <2>2 DEF B!Allow
<1>5. ASSUME NEW c \in Requests, NEW success \in BOOLEAN,
             B!Report(c, success) \/ B!ReportProbe(c, success)
      PROVE  ProbingInv'
  <2>1. CASE B!Report(c, success)
    <3>1. call[c] = "report" /\ call' = [call EXCEPT ![c] = "none"] /\ probing' = probing
      BY <2>1 DEF B!Report
    <3>2. QED
      BY <1>0, <3>1 DEF ProbingInv
  <2>2. CASE B!ReportProbe(c, success)
    BY <2>2 DEF B!ReportProbe, ProbingInv
  <2>3. QED
    BY <1>5, <2>1, <2>2
<1>6. QED
  BY <1>1, <1>2, <1>3, <1>4, <1>5 DEF B!Next, B!Done

\* A half-open breaker never turns requests away for a probe that is lost: the probe is
\* a request in Do, on its way to done.
THEOREM ProbeCarried == Spec => []ProbeIsCarried
<1>1. Init => CallInv /\ ProbingInv
  BY DEF Init, B!Init, CallInv, CallsAreInDo, Points, ProbingInv
<1>2. CallInv /\ ProbingInv /\ [Next]_vars => CallInv' /\ ProbingInv'
  BY CallStep, ProbingStep
<1>3. CallInv /\ ProbingInv => ProbeIsCarried
  BY DEF CallInv, CallsAreInDo, ProbingInv, ProbeIsCarried
<1>4. QED
  BY <1>1, <1>2, <1>3, PTL DEF Spec

-----------------------------------------------------------------------------
(* In-flight counters. *)

InFlight(h) == {q \in Requests : pc[q] = "trip" /\ host[q] = h}

FlightInv ==
  /\ pc \in [Requests -> Points]
  /\ host \in [Requests -> Hosts \cup {NoHost}]
  /\ inflight \in [Hosts -> Int]
  /\ \A r \in Requests : pc[r] \in {"allow", "send", "trip"} => host[r] \in Hosts
  /\ InflightIsExact

\* A request that was not on a round trip and is not on one now does not count.
LEMMA NoTrip ==
  ASSUME FlightInv, NEW r \in Requests,
         pc[r] # "trip", pc'[r] # "trip",
         pc' \in [Requests -> Points], host' \in [Requests -> Hosts \cup {NoHost}],
         \A q \in Requests \ {r} : pc'[q] = pc[q] /\ host'[q] = host[q],
         pc'[r] \in {"allow", "send"} => host'[r] \in Hosts,
         inflight' = inflight
  PROVE  FlightInv'
<1> USE DEF FlightInv
<1>1. ASSUME NEW h \in Hosts PROVE InFlight(h)' = InFlight(h)
  BY DEF InFlight
<1>2. InflightIsExact'
  BY <1>1 DEF InflightIsExact, InFlight
<1>3. \A q \in Requests : pc'[q] \in {"allow", "send", "trip"} => host'[q] \in Hosts
  OBVIOUS
<1>4. QED
  BY <1>2, <1>3

LEMMA InFlightFinite == ASSUME NEW h PROVE IsFiniteSet(InFlight(h))
BY FS_Subset, ProxyAssumption DEF InFlight

LEMMA SendCounts == ASSUME FlightInv, NEW r \in Requests, Send(r) PROVE FlightInv'
<1> USE DEF FlightInv, Points
<1>1. /\ pc' = [pc EXCEPT ![r] = "trip"] /\ pc[r] = "send" /\ host' = host
      /\ inflight' = [inflight EXCEPT ![host[r]] = inflight[host[r]] + 1]
      /\ host[r] \in Hosts
  BY DEF Send
<1>2. ASSUME NEW h \in Hosts
      PROVE  inflight'[h] = Cardinality(InFlight(h)')
  <2>0. inflight[h] = Cardinality(InFlight(h))
    BY DEF InflightIsExact, InFlight
  <2>1. CASE h = host[r]
    <3>1. InFlight(h)' = InFlight(h) \cup {r} /\ r \notin InFlight(h)
      BY <1>1, <2>1 DEF InFlight
    <3>2. Cardinality(InFlight(h) \cup {r}) = Cardinality(InFlight(h)) + 1
      BY <3>1, InFlightFinite, FS_AddElement
    <3>3. QED
      BY <1>1, <2>0, <2>1, <3>1, <3>2
  <2>2. CASE h # host[r]
    <3>1. InFlight(h)' = InFlight(h)
      BY <1>1, <2>2 DEF InFlight
    <3>2. QED
      BY <1>1, <2>0, <2>2, <3>1
  <2>3. QED
    BY <2>1, <2>2
<1>3. InflightIsExact'
  BY <1>2 DEF InflightIsExact, InFlight
<1>4. QED
  BY <1>1, <1>3

LEMMA RoundTripCounts ==
  ASSUME FlightInv, NEW r \in Requests, NEW t, RoundTrip(r, t) PROVE FlightInv'
<1> USE DEF FlightInv, Points
<1>1. /\ pc' = [pc EXCEPT ![r] = "report"] /\ pc[r] = "trip" /\ host' = host
      /\ inflight' = [inflight EXCEPT ![host[r]] = inflight[host[r]] - 1]
      /\ host[r] \in Hosts
  BY DEF RoundTrip
<1>2. ASSUME NEW h \in Hosts
      PROVE  inflight'[h] = Cardinality(InFlight(h)')
  <2>0. inflight[h] = Cardinality(InFlight(h))
    BY DEF InflightIsExact, InFlight
  <2>1. CASE h = host[r]
    <3>1. InFlight(h)' = InFlight(h) \ {r} /\ r \in InFlight(h)
      BY <1>1, <2>1 DEF InFlight
    <3>2. Cardinality(InFlight(h) \ {r}) = Cardinality(InFlight(h)) - 1
      BY <3>1, InFlightFinite, FS_RemoveElement
    <3>3. QED
      BY <1>1, <2>0, <2>1, <3>1, <3>2
  <2>2. CASE h # host[r]
    <3>1. InFlight(h)' = InFlight(h)
      BY <1>1, <2>2 DEF InFlight
    <3>2. QED
      BY <1>1, <2>0, <2>2, <3>1
  <2>3. QED
    BY <2>1, <2>2
<1>3. InflightIsExact'
  BY <1>2 DEF InflightIsExact, InFlight
<1>4. QED
  BY <1>1, <1>3

LEMMA FlightStep == ASSUME FlightInv, [Next]_vars PROVE FlightInv'
<1> USE DEF poolVars
<1>0. /\ pc \in [Requests -> Points] /\ host \in [Requests -> Hosts \cup {NoHost}]
      /\ \A r \in Requests : pc[r] \in {"allow", "send", "trip"} => host[r] \in Hosts
  BY DEF FlightInv
<1>1. ASSUME NEW r \in Requests, Step(r) PROVE FlightInv'
  <2>1. CASE BackoffEnds(r) \/ TryAgain(r) \/ CloseBody(r)
    BY <1>0, <2>1, NoTrip DEF BackoffEnds, TryAgain, CloseBody, Points
  <2>2. CASE BackoffInterrupted(r) \/ PickFails(r) \/ Refused(r) \/ GiveUp(r)
    <3>1. /\ pc' = [pc EXCEPT ![r] = "idle"] /\ host' = [host EXCEPT ![r] = NoHost]
          /\ pc[r] # "trip" /\ inflight' = inflight
      BY <2>2 DEF BackoffInterrupted, PickFails, Refused, GiveUp, Fail, Forget
    <3>2. QED
      BY <1>0, <3>1, NoTrip DEF Points
  <2>3. CASE Pick(r)
    <3>1. PICK h \in Picked(host[r]) : host' = [host EXCEPT ![r] = h]
      BY <2>3 DEF Pick
    <3>2. h \in Hosts
      BY DEF Picked, Candidates
    <3>3. QED
      BY <1>0, <2>3, <3>1, <3>2, NoTrip DEF Pick, Points
  <2>4. CASE Allowed(r)
    BY <1>0, <2>4, NoTrip DEF Allowed, Points
  <2>5. CASE Send(r)
    BY <2>5, SendCounts
  <2>6. CASE \E t \in Trips \ {"none"} : RoundTrip(r, t)
    BY <2>6, RoundTripCounts
  <2>7. CASE Respond(r)
    <3>1. /\ pc' = [pc EXCEPT ![r] = "body"] /\ host' = [host EXCEPT ![r] = NoHost]
          /\ pc[r] # "trip" /\ inflight' = inflight
      BY <2>7 DEF Respond, Forget
    <3>2. QED
      BY <1>0, <3>1, NoTrip DEF Points
  <2>8. QED
    BY <1>1, <2>1, <2>2, <2>3, <2>4, <2>5, <2>6, <2>7 DEF Step
<1>2. ASSUME NEW r \in Requests, NEW k \in Kinds, Begin(r, k) PROVE FlightInv'
  BY <1>0, <1>2, NoTrip DEF Begin, Points
<1>3. ASSUME UNCHANGED <<pc, host, inflight>> PROVE FlightInv'
  BY <1>3 DEF FlightInv, InflightIsExact
<1>4. ASSUME NEW r \in Requests, ContextEnds(r) PROVE FlightInv'
  BY <1>3, <1>4 DEF ContextEnds
<1>5. ASSUME NEW h \in Hosts, NEW ok \in BOOLEAN, HealthCheck(h, ok) PROVE FlightInv'
  BY <1>3, <1>5 DEF HealthCheck, requestVars
<1>6. CASE BreakerAlone
  BY <1>3, <1>6 DEF BreakerAlone, requestVars
<1>7. CASE UNCHANGED vars
  BY <1>3, <1>7 DEF vars, requestVars
<1>8. QED
  BY <1>1, <1>2, <1>4, <1>5, <1>6, <1>7 DEF Next

\* A host's in-flight counter is the number of round trips to it.
THEOREM CountersAreExact == Spec => []InflightIsExact
<1>1. Init => FlightInv
  <2> SUFFICES ASSUME Init PROVE FlightInv
    OBVIOUS
  <2>1. \A h \in Hosts : InFlight(h) = {}
    BY DEF Init, InFlight
  <2>2. InflightIsExact
    BY <2>1, FS_EmptySet DEF Init, InflightIsExact, InFlight
  <2>3. QED
    BY <2>2 DEF Init, FlightInv, Points
<1>2. FlightInv /\ [Next]_vars => FlightInv'
  BY FlightStep
<1>3. FlightInv => InflightIsExact
  BY DEF FlightInv
<1>4. QED
  BY <1>1, <1>2, <1>3, PTL DEF Spec

-----------------------------------------------------------------------------
(* Retries. *)

\* What the loop knows of a request: how many attempts it has made, and that a
\* further one means that it may be replayed.
LoopOf(r) ==
  /\ pc[r] \in {"backoff", "pick", "allow", "send"} =>
       sent[r] = attempt[r] /\ body[r] # "consumed"
  /\ pc[r] \in {"trip", "report"} => sent[r] = attempt[r] + 1
  /\ pc[r] \in {"idle", "body"} => sent[r] = 0 /\ attempt[r] = 0
  /\ tries[r] > 1 => Retryable(kind[r])
  /\ attempt[r] > 0 => Retryable(kind[r])
  /\ body[r] \in {"stream", "consumed"} => Snapshot(kind[r]) = "stream"

LoopInv ==
  /\ kind \in [Requests -> AllKinds]
  /\ body \in [Requests -> {"none", "buffer", "stream", "consumed"}]
  /\ tries \in [Requests -> Nat] /\ attempt \in [Requests -> Nat]
  /\ sent \in [Requests -> Nat]
  /\ pc \in [Requests -> Points]
  /\ \A r \in Requests : LoopOf(r)

LEMMA LoopImplies == LoopInv => NotReplayed /\ BodyIsWhole
<1> SUFFICES ASSUME LoopInv, NEW r \in Requests
    PROVE /\ sent[r] > 1 => ~IdempotentOnly \/ kind[r].idempotent
          /\ pc[r] \in {"backoff", "pick", "allow", "send"} => body[r] # "consumed"
  BY DEF NotReplayed, BodyIsWhole
<1>1. sent[r] > 1 => attempt[r] > 0
  BY DEF LoopInv, LoopOf, Points
<1>2. QED
  BY <1>1 DEF LoopInv, LoopOf, Retryable

\* A step of one request leaves the others' locals alone.
LEMMA LoopFrame ==
  ASSUME LoopInv, NEW r \in Requests, LoopOf(r)',
         pc' \in [Requests -> Points],
         kind' \in [Requests -> AllKinds],
         body' \in [Requests -> {"none", "buffer", "stream", "consumed"}],
         tries' \in [Requests -> Nat], attempt' \in [Requests -> Nat],
         sent' \in [Requests -> Nat],
         \A q \in Requests \ {r} :
           /\ pc'[q] = pc[q] /\ kind'[q] = kind[q] /\ body'[q] = body[q]
           /\ tries'[q] = tries[q] /\ attempt'[q] = attempt[q] /\ sent'[q] = sent[q]
  PROVE  LoopInv'
<1>1. ASSUME NEW q \in Requests, q # r PROVE LoopOf(q)'
  BY <1>1 DEF LoopInv, LoopOf
<1>2. QED
  BY <1>1 DEF LoopInv

LEMMA LoopStep == ASSUME LoopInv, [Next]_vars PROVE LoopInv'
<1>1. ASSUME NEW r \in Requests, UNCHANGED <<kind, tries, attempt, body, sent>>,
             NEW p \in {"pick", "allow", "send"}, pc' = [pc EXCEPT ![r] = p],
             pc[r] \in {"backoff", "pick", "allow", "send"}
      PROVE  LoopInv'
  BY <1>1 DEF LoopInv, LoopOf, Points
<1>2. ASSUME NEW r \in Requests, NEW p \in {"idle", "body"},
             pc' = [pc EXCEPT ![r] = p], Forget(r)
      PROVE  LoopInv'
  <2>1. LoopOf(r)'
    BY <1>2 DEF LoopInv, LoopOf, Forget, Points
  <2>2. QED
    BY <1>2, <2>1, LoopFrame DEF LoopInv, Forget, Points, AllKinds, NoKind
<1>3. ASSUME NEW r \in Requests, Step(r) PROVE LoopInv'
  <2>1. CASE BackoffEnds(r) \/ Pick(r) \/ Allowed(r)
    BY <1>1, <2>1 DEF BackoffEnds, Pick, Allowed
  <2>2. CASE BackoffInterrupted(r) \/ PickFails(r) \/ Refused(r) \/ Respond(r) \/ GiveUp(r)
    BY <1>2, <2>2 DEF BackoffInterrupted, PickFails, Refused, Respond, GiveUp, Fail
  <2>3. CASE Send(r)
    BY <2>3 DEF Send, LoopInv, LoopOf, Points
  <2>4. CASE \E t \in Trips \ {"none"} : RoundTrip(r, t)
    BY <2>4 DEF RoundTrip, LoopInv, LoopOf, Points
  <2>5. CASE TryAgain(r)
    <3>1. Retryable(kind[r]) /\ body[r] # "consumed"
      BY <2>5 DEF TryAgain, LoopInv, LoopOf, Retryable
    <3>2. QED
      BY <2>5, <3>1 DEF TryAgain, LoopInv, LoopOf, Points
  <2>6. CASE CloseBody(r)
    BY <2>6 DEF CloseBody, LoopInv, LoopOf, Points
  <2>7. QED
    BY <1>3, <2>1, <2>2, <2>3, <2>4, <2>5, <2>6 DEF Step
<1>4. ASSUME NEW r \in Requests, NEW k \in Kinds, Begin(r, k) PROVE LoopInv'
  <2>1. Snapshot(k) \in {"none", "buffer", "stream"}
    BY DEF Snapshot
  <2>2. LoopOf(r)'
    BY <1>4, <2>1, ProxyAssumption DEF Begin, LoopInv, LoopOf, Points
  <2>3. QED
    BY <1>4, <2>1, <2>2, ProxyAssumption, LoopFrame DEF Begin, LoopInv, Points
<1>5. ASSUME UNCHANGED <<pc, kind, tries, attempt, body, sent>> PROVE LoopInv'
  BY <1>5 DEF LoopInv, LoopOf
<1>6. ASSUME NEW r \in Requests, ContextEnds(r) PROVE LoopInv'
  BY <1>5, <1>6 DEF ContextEnds
<1>7. ASSUME NEW h \in Hosts, NEW ok \in BOOLEAN, HealthCheck(h, ok) PROVE LoopInv'
  BY <1>5, <1>7 DEF HealthCheck, requestVars
<1>8. CASE BreakerAlone \/ UNCHANGED vars
  BY <1>5, <1>8 DEF BreakerAlone, vars, requestVars
<1>9. QED
  BY <1>3, <1>4, <1>6, <1>7, <1>8 DEF Next

\* Retries are safe: a request that is not safe to replay reaches a host at most once, and
\* no attempt is made with a body that an earlier one consumed (the loop of Backend.Do).
THEOREM SafeReplays == Spec => []RetriesAreSafe
<1>1. Init => LoopInv
  BY DEF Init, LoopInv, LoopOf, Points, AllKinds, NoKind
<1>2. LoopInv /\ [Next]_vars => LoopInv'
  BY LoopStep
<1>3. LoopInv => RetriesAreSafe
  BY LoopImplies DEF RetriesAreSafe
<1>4. QED
  BY <1>1, <1>2, <1>3, PTL DEF Spec

-----------------------------------------------------------------------------
(* Contexts. *)

ContextInv ==
  /\ pc \in [Requests -> Points]
  /\ live \in [Requests -> BOOLEAN]
  /\ ContextIsReleased

\* A step of one request that leaves Do ends its context; no other step of it
\* starts a context.
LEMMA ContextKept ==
  ASSUME ContextInv, NEW r \in Requests, NEW p \in Points, pc' = [pc EXCEPT ![r] = p],
         \/ live' = [live EXCEPT ![r] = FALSE]
         \/ p # "idle" /\ live' = live
         \/ p # "idle" /\ live' = [live EXCEPT ![r] = TRUE]
  PROVE  ContextInv'
<1>1. pc' \in [Requests -> Points] BY DEF ContextInv
<1>2. live' \in [Requests -> BOOLEAN] BY DEF ContextInv
<1>3. ASSUME NEW q \in Requests, pc'[q] = "idle" PROVE ~live'[q]
  <2>1. CASE q = r BY <1>3, <2>1 DEF ContextInv
  <2>2. CASE q # r BY <1>3, <2>2 DEF ContextInv, ContextIsReleased
  <2> QED BY <2>1, <2>2
<1> QED BY <1>1, <1>2, <1>3 DEF ContextInv, ContextIsReleased

LEMMA ContextStep == ASSUME ContextInv, [Next]_vars PROVE ContextInv'
<1>1. ASSUME NEW r \in Requests, Step(r) PROVE ContextInv'
  <2>1. CASE BackoffEnds(r) \/ Pick(r) \/ Allowed(r) \/ Send(r) \/ TryAgain(r)
    BY <2>1, ContextKept DEF BackoffEnds, Pick, Allowed, Send, TryAgain, Points
  <2>2. CASE \E t \in Trips \ {"none"} : RoundTrip(r, t)
    BY <2>2, ContextKept DEF RoundTrip, Points
  <2>3. CASE Respond(r)
    BY <2>3, ContextKept DEF Respond, Points
  <2>4. CASE BackoffInterrupted(r) \/ PickFails(r) \/ Refused(r) \/ GiveUp(r)
    <3>1. Fail(r) BY <2>4 DEF BackoffInterrupted, PickFails, Refused, GiveUp
    <3> QED BY <3>1, ContextKept DEF Fail, Points
  <2>5. CASE CloseBody(r)
    BY <2>5, ContextKept DEF CloseBody, Points
  <2> QED BY <1>1, <2>1, <2>2, <2>3, <2>4, <2>5 DEF Step
<1>2. ASSUME NEW r \in Requests, NEW k \in Kinds, Begin(r, k) PROVE ContextInv'
  BY <1>2, ContextKept DEF Begin, Points
<1>3. ASSUME NEW r \in Requests, ContextEnds(r) PROVE ContextInv'
  <2>1. live' \in [Requests -> BOOLEAN] BY <1>3 DEF ContextEnds, ContextInv
  <2>2. pc' = pc /\ \A q \in Requests : live'[q] => live[q]
    BY <1>3 DEF ContextEnds, ContextInv
  <2> QED BY <2>1, <2>2 DEF ContextInv, ContextIsReleased
<1>4. CASE UNCHANGED requestVars
  BY <1>4 DEF requestVars, ContextInv, ContextIsReleased
<1> QED BY <1>1, <1>2, <1>3, <1>4 DEF Next, HealthCheck, BreakerAlone, vars

\* Every way out of Do, the hand-over of the body included, cancels the timeout context it
\* made, however the attempts ended.
THEOREM ContextsEnd == Spec => []ContextIsReleased
<1>1. Init => ContextInv BY DEF Init, ContextInv, ContextIsReleased, Points
<1>2. ContextInv /\ [Next]_vars => ContextInv' BY ContextStep
<1>3. ContextInv => ContextIsReleased BY DEF ContextInv
<1> QED BY <1>1, <1>2, <1>3, PTL DEF Spec
=============================================================================
