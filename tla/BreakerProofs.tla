---------------------------- MODULE BreakerProofs ----------------------------
(***************************************************************************)
(* Proofs about Breaker, for every number of concurrent calls and every    *)
(* MinRequests, OpenFor and FailureRatio.                                  *)
(***************************************************************************)
EXTENDS Breaker, FiniteSetTheorems, TLAPS

\* The flag is never set without a probe that will clear it.
ProbingInv == probing => Probes # {}

\* Before any interruption there is one probe at most, and while it is out the
\* breaker stays half-open with the flag set.
ProbeInv ==
  ~interrupted =>
    /\ \A c, d \in Probes : c = d
    /\ Probes # {} => state = "halfopen" /\ probing

IInv == TypeOK /\ WindowBounded /\ ProbingInv /\ ProbeInv /\ StaysOpenFor

LEMMA InitIInv == Init => IInv
<1> SUFFICES ASSUME Init PROVE IInv
  OBVIOUS
<1>1. TypeOK /\ WindowBounded
  <2>1. probing \in BOOLEAN /\ interrupted \in BOOLEAN
    BY DEF Init
  <2>2. successes \in Nat /\ failures \in Nat /\ age \in 0..OpenFor
    BY BreakerAssumption DEF Init
  <2>3. state \in States /\ call \in [Calls -> Dones]
    BY DEF Init, States, Dones
  <2>4. successes + failures < 2 * MinRequests
    BY BreakerAssumption DEF Init
  <2>5. QED
    BY <2>1, <2>2, <2>3, <2>4 DEF TypeOK, WindowBounded
<1>2. Probes = {}
  BY DEF Init, Probes
<1>3. QED
  <2>1. StaysOpenFor
    BY BreakerAssumption DEF Init, StaysOpenFor
  <2>2. QED
    BY <1>1, <1>2, <2>1 DEF Init, IInv, ProbingInv, ProbeInv

\* The window part: report keeps the counters below 2 * MinRequests.
LEMMA WindowStep ==
  ASSUME TypeOK, WindowBounded, [Next]_vars
  PROVE  TypeOK' /\ WindowBounded'
<1> USE BreakerAssumption DEF TypeOK, WindowBounded, States, Dones
<1>1. ASSUME NEW c \in Calls, NEW success \in BOOLEAN, Report(c, success)
      PROVE  TypeOK' /\ WindowBounded'
  <2> DEFINE s == IF success THEN successes + 1 ELSE successes
             f == IF success THEN failures ELSE failures + 1
  <2>1. s \in Nat /\ f \in Nat
    OBVIOUS
  <2>2. call' \in [Calls -> Dones] /\ probing' = probing
    BY <1>1 DEF Report
  <2>3. CASE Trip /\ interrupted' = (interrupted \/ Probes # {})
    BY <2>2, <2>3 DEF Trip
  <2>4. CASE /\ successes' = (IF s + f >= 2 * MinRequests THEN 0 ELSE s)
             /\ failures' = (IF s + f >= 2 * MinRequests THEN 0 ELSE f)
             /\ UNCHANGED <<state, age, interrupted>>
    <3>1. successes' \in Nat /\ failures' \in Nat
      BY <2>1, <2>4
    <3>2. successes' + failures' < 2 * MinRequests
      BY <2>1, <2>4
    <3>3. QED
      BY <2>2, <2>4, <3>1, <3>2
  <2>5. QED
    BY <1>1, <2>3, <2>4 DEF Report
<1>2. ASSUME NEW c \in Calls, NEW success \in BOOLEAN, ReportProbe(c, success)
      PROVE  TypeOK' /\ WindowBounded'
  <2>1. /\ call' \in [Calls -> Dones] /\ probing' \in BOOLEAN
        /\ interrupted' = interrupted
    BY <1>2 DEF ReportProbe
  <2>2. successes' = 0 /\ failures' = 0 /\ state' \in States /\ age' \in 0..OpenFor
    BY <1>2 DEF ReportProbe, Trip
  <2>3. QED
    BY <2>1, <2>2
<1>3. ASSUME NEW c \in Calls, Allow(c) PROVE TypeOK' /\ WindowBounded'
  BY <1>3 DEF Allow, AllowClosed, AllowProbe
<1>4. CASE Observe
  BY <1>4 DEF Observe, StateNow, ProbingNow
<1>5. CASE Tick
  BY <1>5 DEF Tick
<1>6. CASE UNCHANGED vars
  BY <1>6 DEF vars
<1>7. QED
  BY <1>1, <1>2, <1>3, <1>4, <1>5, <1>6 DEF Next, Done

\* The probe part.
LEMMA ProbeStep ==
  ASSUME TypeOK, ProbingInv, ProbeInv, [Next]_vars
  PROVE  ProbingInv' /\ ProbeInv'
<1> USE DEF TypeOK, ProbingInv, ProbeInv, Probes
<1>1. ASSUME NEW c \in Calls, NEW success \in BOOLEAN, Report(c, success)
      PROVE  ProbingInv' /\ ProbeInv'
  <2>1. Probes' = Probes /\ probing' = probing
    BY <1>1 DEF Report, Dones
  <2>2. CASE state' = state /\ interrupted' = interrupted
    BY <2>1, <2>2
  <2>3. CASE interrupted' = (interrupted \/ Probes # {})
    BY <2>1, <2>3
  <2>4. QED
    BY <1>1, <2>2, <2>3 DEF Report
<1>2. ASSUME NEW c \in Calls, NEW success \in BOOLEAN, ReportProbe(c, success)
      PROVE  ProbingInv' /\ ProbeInv'
  <2>1. c \in Probes /\ Probes' = Probes \ {c} /\ ~probing' /\ interrupted' = interrupted
    BY <1>2 DEF ReportProbe, Dones
  <2>2. ~interrupted => Probes' = {}
    BY <2>1
  <2>3. QED
    BY <2>1, <2>2
<1>3. ASSUME NEW c \in Calls, AllowProbe(c) PROVE ProbingInv' /\ ProbeInv'
  <2>1. ~interrupted => Probes = {}
    BY <1>3 DEF AllowProbe, StateNow, ProbingNow, HalfOpenDue
  <2>2. Probes' = Probes \cup {c} /\ probing' /\ state' = "halfopen" /\ interrupted' = interrupted
    BY <1>3 DEF AllowProbe, Dones
  <2>3. QED
    BY <2>1, <2>2
<1>4. ASSUME NEW c \in Calls, AllowClosed(c) PROVE ProbingInv' /\ ProbeInv'
  <2>1. Probes' = Probes
    BY <1>4 DEF AllowClosed, Dones
  <2>2. QED
    BY <1>4, <2>1 DEF AllowClosed
<1>5. CASE Observe
  BY <1>5 DEF Observe, StateNow, ProbingNow, HalfOpenDue
<1>6. CASE Tick
  BY <1>6 DEF Tick
<1>7. CASE UNCHANGED vars
  BY <1>7 DEF vars
<1>8. QED
  BY <1>1, <1>2, <1>3, <1>4, <1>5, <1>6, <1>7 DEF Next, Done, Allow

\* The clock part: a probe that reports in time was out when the breaker
\* tripped, so it belongs to an interrupted half-open period.
LEMMA StaysOpenStep ==
  ASSUME TypeOK, ProbeInv, StaysOpenFor, [Next]_vars
  PROVE  StaysOpenFor'
<1> USE BreakerAssumption DEF TypeOK, StaysOpenFor
<1>1. ASSUME NEW c \in Calls, NEW success \in BOOLEAN, Report(c, success)
      PROVE  StaysOpenFor'
  BY <1>1 DEF Report, Trip
<1>2. ASSUME NEW c \in Calls, NEW success \in BOOLEAN, ReportProbe(c, success)
      PROVE  StaysOpenFor'
  <2>1. c \in Probes /\ interrupted' = interrupted
    BY <1>2 DEF ReportProbe, Probes
  <2>2. ~interrupted => state = "halfopen"
    BY <2>1 DEF ProbeInv
  <2>3. ~interrupted => ~(age < OpenFor)
    BY <2>2
  <2>4. QED
    BY <1>2, <2>1, <2>3 DEF ReportProbe, Trip
<1>3. ASSUME NEW c \in Calls, Allow(c) PROVE StaysOpenFor'
  BY <1>3 DEF Allow, AllowClosed, AllowProbe, StateNow, HalfOpenDue
<1>4. CASE Observe
  BY <1>4 DEF Observe, StateNow, HalfOpenDue
<1>5. CASE Tick
  BY <1>5 DEF Tick
<1>6. CASE UNCHANGED vars
  BY <1>6 DEF vars
<1>7. QED
  BY <1>1, <1>2, <1>3, <1>4, <1>5, <1>6 DEF Next, Done

LEMMA IInvariant == Spec => []IInv
<1>1. IInv /\ [Next]_vars => IInv'
  BY WindowStep, ProbeStep, StaysOpenStep DEF IInv
<1>2. QED
  BY <1>1, InitIInv, PTL DEF Spec

\* The window never holds 2 * MinRequests outcomes, whatever straggling calls
\* report while the breaker is open or half-open.
THEOREM WindowIsBounded == Spec => []WindowBounded
<1>1. IInv => WindowBounded
  BY DEF IInv
<1>2. QED
  BY <1>1, IInvariant, PTL

\* A half-open breaker that refuses calls is waiting for a probe in flight.
THEOREM BreakerNeverWedged == Spec => []NeverWedged
<1>1. IInv => NeverWedged
  BY DEF IInv, ProbingInv, NeverWedged
<1>2. QED
  BY <1>1, IInvariant, PTL

\* A second concurrent probe needs a straggling ordinary call to trip the
\* breaker while the first is out.
THEOREM OneProbe == Spec => []OneProbeUnlessInterrupted
<1>1. IInv => OneProbeUnlessInterrupted
  <2> SUFFICES ASSUME IInv, ~interrupted
               PROVE  OneProbeAtATime /\ (Probes # {} => state = "halfopen" /\ probing)
    BY DEF OneProbeUnlessInterrupted
  <2>1. Probes = {} \/ \E c \in Calls : Probes = {c}
    BY DEF IInv, ProbeInv, Probes
  <2>2. Cardinality(Probes) = 0 \/ Cardinality(Probes) = 1
    BY <2>1, FS_EmptySet, FS_Singleton
  <2>3. QED
    BY <2>2 DEF IInv, ProbeInv, OneProbeAtATime
<1>2. QED
  BY <1>1, IInvariant, PTL

\* A trip keeps the breaker open for OpenFor, unless a probe was out when an
\* ordinary call tripped it.
THEOREM OpenIsKept == Spec => []StaysOpenFor
<1>1. IInv => StaysOpenFor
  BY DEF IInv
<1>2. QED
  BY <1>1, IInvariant, PTL
=============================================================================
