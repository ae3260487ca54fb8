------------------------------- MODULE Breaker -------------------------------
(***************************************************************************)
(* The circuit breaker of one backend (internal/proxy/breaker.go).         *)
(*                                                                         *)
(* Every method body runs under Breaker.mu, so a call of Allow, of the     *)
(* done function it returned, or of State is one step.  What interleaves   *)
(* is the time between Allow and done: any number of upstream calls are    *)
(* outstanding, and each reports to the method its own Allow chose, in     *)
(* whatever state the breaker is by then.                                  *)
(*                                                                         *)
(* A breaker whose failureRatio is not positive keeps no state and admits  *)
(* every call; it is left out.                                             *)
(***************************************************************************)
EXTENDS Integers, FiniteSets

CONSTANTS
  Calls,               \* upstream calls that may be outstanding at once
  MinRequests,         \* BreakerConfig.MinRequests
  OpenFor,             \* BreakerConfig.OpenFor, in ticks
  RatioNum, RatioDen   \* BreakerConfig.FailureRatio as a fraction

ASSUME BreakerAssumption ==
  /\ IsFiniteSet(Calls)
  /\ MinRequests \in Nat \ {0} /\ OpenFor \in Nat \ {0}
  /\ RatioNum \in Nat \ {0} /\ RatioDen \in Nat \ {0}

VARIABLES
  state,       \* Breaker.state
  successes,   \* Breaker.successes
  failures,    \* Breaker.failures
  probing,     \* Breaker.probing
  age,         \* now() - openedAt, the time since the latest trip, up to OpenFor
  call,        \* what each call's done function is: none, report, reportProbe
  interrupted  \* history: an ordinary call tripped the breaker under a probe

vars == <<state, successes, failures, probing, age, call, interrupted>>

States == {"closed", "open", "halfopen"}
Dones  == {"none", "report", "probe"}

Init ==
  /\ state = "closed"
  /\ successes = 0 /\ failures = 0
  /\ probing = FALSE
  /\ age = OpenFor       \* openedAt is the zero time
  /\ call = [c \in Calls |-> "none"]
  /\ interrupted = FALSE

Probes == {c \in Calls : call[c] = "probe"}

-----------------------------------------------------------------------------
\* A variant: an open breaker is promoted without looking at the clock.
HalfOpenAtOnce == state = "open"

\* maybeHalfOpen: the state its caller goes on with, and the probing flag.
HalfOpenDue  == state = "open" /\ age >= OpenFor
StateNow     == IF HalfOpenDue THEN "halfopen" ELSE state
ProbingNow   == IF HalfOpenDue THEN FALSE ELSE probing

\* State(), as the admin status page calls it, promotes the breaker too.
Observe ==
  /\ HalfOpenDue
  /\ state' = StateNow /\ probing' = ProbingNow
  /\ UNCHANGED <<successes, failures, age, call, interrupted>>

\* Allow in the closed state: done is report.
AllowClosed(c) ==
  /\ call[c] = "none" /\ StateNow = "closed"
  /\ call' = [call EXCEPT ![c] = "report"]
  /\ UNCHANGED <<state, successes, failures, probing, age, interrupted>>

\* A variant: the probing flag is not consulted.
AllowEveryProbe(c) ==
  /\ call[c] = "none" /\ StateNow = "halfopen"
  /\ state' = "halfopen"
  /\ probing' = TRUE
  /\ call' = [call EXCEPT ![c] = "probe"]
  /\ UNCHANGED <<successes, failures, age, interrupted>>

\* A variant: the probe is handed the ordinary report function.
AllowProbeAsCall(c) ==
  /\ call[c] = "none" /\ StateNow = "halfopen" /\ ~ProbingNow
  /\ state' = "halfopen"
  /\ probing' = TRUE
  /\ call' = [call EXCEPT ![c] = "report"]
  /\ UNCHANGED <<successes, failures, age, interrupted>>

\* Allow in the half-open state with no probe in flight: done is reportProbe.
AllowProbe(c) ==
  /\ call[c] = "none" /\ StateNow = "halfopen" /\ ~ProbingNow
  /\ state' = "halfopen"
  /\ probing' = TRUE
  /\ call' = [call EXCEPT ![c] = "probe"]
  /\ UNCHANGED <<successes, failures, age, interrupted>>

\* Allow answers ErrBreakerOpen and changes nothing; while it is refused a
\* call is as good as not made, so it needs no action.

\* trip
Trip ==
  /\ state' = "open"
  /\ age' = 0
  /\ successes' = 0 /\ failures' = 0

\* report, the done function of a call admitted in the closed state.
Report(c, success) ==
  LET s == IF success THEN successes + 1 ELSE successes
      f == IF success THEN failures ELSE failures + 1
      tripping == s + f >= MinRequests /\ f * RatioDen >= RatioNum * (s + f)
      healthy  == s + f >= 2 * MinRequests
  IN
  /\ call[c] = "report"
  /\ call' = [call EXCEPT ![c] = "none"]
  /\ \/ /\ tripping
        /\ Trip
        /\ interrupted' = (interrupted \/ Probes # {})
     \/ /\ ~tripping
        /\ successes' = IF healthy THEN 0 ELSE s
        /\ failures' = IF healthy THEN 0 ELSE f
        /\ UNCHANGED <<state, age, interrupted>>
  /\ UNCHANGED probing

\* A variant: a successful probe leaves the breaker half-open.
ReportProbeStaysHalfOpen(c, success) ==
  /\ call[c] = "probe"
  /\ call' = [call EXCEPT ![c] = "none"]
  /\ probing' = FALSE
  /\ \/ success /\ successes' = 0 /\ failures' = 0 /\ UNCHANGED <<state, age>>
     \/ ~success /\ Trip
  /\ UNCHANGED interrupted

\* reportProbe, the done function of a probe.
ReportProbe(c, success) ==
  /\ call[c] = "probe"
  /\ call' = [call EXCEPT ![c] = "none"]
  /\ probing' = FALSE
  /\ \/ /\ success
        /\ successes' = 0 /\ failures' = 0
        /\ state' = "closed"
        /\ UNCHANGED age
     \/ ~success /\ Trip
  /\ UNCHANGED interrupted

\* Time passes.
Tick ==
  /\ age < OpenFor
  /\ age' = age + 1
  /\ UNCHANGED <<state, successes, failures, probing, call, interrupted>>

Allow(c) == AllowClosed(c) \/ AllowProbe(c)

\* The call ends; a client that hangs up reports a failure as well (proxy.go
\* calls done(false) on any error).
Done(c) == \E success \in BOOLEAN : Report(c, success) \/ ReportProbe(c, success)

Next ==
  \/ \E c \in Calls : Allow(c) \/ Done(c)
  \/ Observe \/ Tick

Spec == Init /\ [][Next]_vars

\* Time passes, and every upstream call ends (each has a time-out).
Fairness == WF_vars(Tick) /\ \A c \in Calls : WF_vars(Done(c))

FairSpec == Spec /\ Fairness

-----------------------------------------------------------------------------
(* Properties. *)

\* Every variable stays in its range; the counters never go negative.
TypeOK ==
  /\ state \in States
  /\ successes \in Nat /\ failures \in Nat
  /\ probing \in BOOLEAN
  /\ age \in 0..OpenFor
  /\ call \in [Calls -> Dones]
  /\ interrupted \in BOOLEAN

\* The window never holds more than 2 * MinRequests - 1 outcomes, whatever
\* stragglers report in the open and half-open states, so old failures cannot
\* accumulate indefinitely (the comment in report).
WindowBounded == successes + failures < 2 * MinRequests

\* The breaker never refuses everybody for ever: while a half-open breaker
\* refuses because of a probe, a probe is in flight that will report.
NeverWedged == state = "halfopen" /\ probing => Probes # {}

\* "Exactly one probe at a time" (the comment in Allow).
OneProbeAtATime == Cardinality(Probes) <= 1

\* The part of it that holds: a second probe needs an ordinary call, admitted
\* before the breaker opened, to trip it again under the first probe; maybeHalfOpen
\* then clears probing without asking whether that probe is still out.
OneProbeUnlessInterrupted ==
  ~interrupted => /\ OneProbeAtATime
                  /\ Probes # {} => state = "halfopen" /\ probing

\* For OpenFor after a trip the breaker is open and refuses: neither outcomes
\* that arrive late nor the status page end the pause early.  Only a probe that
\* was out when an ordinary call tripped the breaker can.
StaysOpenFor == ~interrupted /\ age < OpenFor => state = "open"

\* PLAN.md, milestone M5: the breaker "trips and recovers".  Once no call fails
\* any more and requests keep coming, the breaker closes for good.
NoFailure == \A c \in Calls : ~(Report(c, FALSE) \/ ReportProbe(c, FALSE))

Recovers ==
  (<>[][NoFailure]_vars /\ WF_vars(\E c \in Calls : Allow(c))) => <>[](state = "closed")
=============================================================================
