----------------------- MODULE RuntimeLifecycleProofs -----------------------
(***************************************************************************)
(* Proofs about RuntimeLifecycle, for every set of requests and every      *)
(* bound.  The argument: refs[g] counts the requests between their add and *)
(* their matching add(-1) (RefsCount), so zero means no holder; a retired  *)
(* runtime gets no new holder (RetireInv), so a zero read after retirement *)
(* stays true until the close it justifies.                                *)
(***************************************************************************)
EXTENDS RuntimeLifecycle, FiniteSetTheorems, TLAPS

\* The set a reference count stands for is finite, and empty when it is zero.
LEMMA CountedFinite ==
  ASSUME NEW g
  PROVE  /\ IsFiniteSet(Counted(g))
         /\ Cardinality(Counted(g)) \in Nat
         /\ Cardinality(Counted(g)) = 0 => Counted(g) = {}
<1>1. Counted(g) \in SUBSET Requests
  BY DEF Counted
<1>2. IsFiniteSet(Counted(g))
  BY <1>1, RequestsAssumption, FS_Subset
<1>3. QED
  BY <1>2, FS_CardinalityType, FS_EmptySet

\* A request that holds a runtime keeps its reference count above zero.
LEMMA ZeroMeansNobodyHolds ==
  ASSUME TypeOK, RefsCount, NEW g \in Gens, refs[g] <= 0
  PROVE  NobodyHolds(g)
<1>1. Cardinality(Counted(g)) = 0
  BY CountedFinite DEF TypeOK, RefsCount
<1>2. Counted(g) = {}
  BY <1>1, CountedFinite
<1>3. QED
  BY <1>2 DEF NobodyHolds, Holding, Counted

-----------------------------------------------------------------------------
(* Layer 1: types, control points and the reference count. *)

CoreInv == TypeOK /\ ControlInv /\ RefsCount

LEMMA CoreInit == Init => CoreInv
<1> SUFFICES ASSUME Init PROVE CoreInv
  OBVIOUS
<1>1. TypeOK
  BY BoundsAssumption DEF Init, TypeOK, Gens, NoGen, Callers, Closers, RequestPoints, ControlPoints
<1>2. ControlInv
  BY DEF Init, ControlInv, Callers
<1>3. RefsCount
  <2> SUFFICES ASSUME NEW g \in Gens PROVE refs[g] = Cardinality(Counted(g))
    BY DEF RefsCount
  <2>1. Counted(g) = {}
    BY DEF Init, Counted
  <2>2. QED
    BY <2>1, FS_EmptySet DEF Init
<1>4. QED
  BY <1>1, <1>2, <1>3 DEF CoreInv

\* Only AcquireAdd and ReleaseAdd change the counts; every other step leaves
\* both refs and the counted requests as they are.
LEMMA RefsCountKept ==
  ASSUME RefsCount, refs' = refs, \A g \in Gens : Counted(g)' = Counted(g)
  PROVE  RefsCount'
<1> SUFFICES ASSUME NEW g \in Gens PROVE refs'[g] = Cardinality(Counted(g)')
  BY DEF RefsCount
<1>1. Counted(g)' = Counted(g)
  OBVIOUS
<1>2. QED
  BY <1>1 DEF RefsCount

LEMMA RefsCountUntouched ==
  ASSUME RefsCount, UNCHANGED <<refs, pc, rt>>
  PROVE  RefsCount'
<1>1. \A g \in Gens : Counted(g)' = Counted(g)
  BY DEF Counted
<1>2. QED
  BY <1>1, RefsCountKept

\* The add of Acquire puts r among the counted requests of its runtime.
LEMMA RefsCountAcquire ==
  ASSUME CoreInv, NEW r \in Requests, AcquireAdd(r)
  PROVE  RefsCount'
<1> USE DEF CoreInv
<1>1. PICK k \in Gens : k = rt[r]
  BY DEF AcquireAdd, ControlInv
<1>2. r \notin Counted(k)
  BY DEF AcquireAdd, Counted
<1>3. Counted(k)' = Counted(k) \cup {r}
  BY <1>1 DEF AcquireAdd, Counted, TypeOK
<1>4. ASSUME NEW g \in Gens, g # k PROVE Counted(g)' = Counted(g)
  BY <1>1, <1>4 DEF AcquireAdd, Counted, TypeOK
<1>5. Cardinality(Counted(k) \cup {r}) = Cardinality(Counted(k)) + 1
  <2>1. IsFiniteSet(Counted(k))
    BY CountedFinite
  <2>2. QED
    BY <2>1, <1>2, FS_AddElement
<1>6. ASSUME NEW g \in Gens PROVE refs'[g] = Cardinality(Counted(g)')
  <2>1. CASE g = k
    <3>1. refs'[k] = refs[k] + 1
      BY <1>1 DEF AcquireAdd, TypeOK
    <3>2. QED
      BY <2>1, <3>1, <1>3, <1>5 DEF RefsCount
  <2>2. CASE g # k
    <3>1. refs'[g] = refs[g]
      BY <1>1, <2>2 DEF AcquireAdd, TypeOK
    <3>2. QED
      BY <2>2, <3>1, <1>4 DEF RefsCount
  <2>3. QED
    BY <2>1, <2>2
<1>7. QED
  BY <1>6 DEF RefsCount

\* The add(-1) of Release takes r out of them; the count was at least one.
LEMMA RefsCountRelease ==
  ASSUME CoreInv, NEW r \in Requests, ReleaseAdd(r)
  PROVE  RefsCount' /\ refs' \in [Gens -> Nat]
<1> USE DEF CoreInv
<1>1. PICK k \in Gens : k = rt[r]
  BY DEF ReleaseAdd, ControlInv
<1>2. r \in Counted(k)
  BY <1>1 DEF ReleaseAdd, Counted
<1>3. \/ rt' = [rt EXCEPT ![r] = NoGen]
      \/ rt' = rt
  BY DEF ReleaseAdd, Retry, Return
<1>4. pc'[r] \in {"undoZero", "doneZero", "load", "idle"}
      /\ \A q \in Requests : q # r => pc'[q] = pc[q]
  BY DEF ReleaseAdd, Retry, Return, TypeOK
<1>5. Counted(k)' = Counted(k) \ {r}
  BY <1>1, <1>3, <1>4 DEF Counted, TypeOK
<1>6. ASSUME NEW g \in Gens, g # k PROVE Counted(g)' = Counted(g)
  BY <1>1, <1>3, <1>4, <1>6 DEF Counted, TypeOK
<1>7. IsFiniteSet(Counted(k)) /\ Cardinality(Counted(k)) \in Nat \ {0}
  BY <1>2, CountedFinite
<1>8. Cardinality(Counted(k) \ {r}) = Cardinality(Counted(k)) - 1
  BY <1>2, <1>7, FS_RemoveElement
<1>9. refs'[k] = refs[k] - 1 /\ refs[k] \in Nat \ {0}
  BY <1>1, <1>7 DEF ReleaseAdd, TypeOK, RefsCount
<1>10. ASSUME NEW g \in Gens PROVE refs'[g] = Cardinality(Counted(g)')
  <2>1. CASE g = k
    BY <2>1, <1>5, <1>8, <1>9 DEF RefsCount
  <2>2. CASE g # k
    <3>1. refs'[g] = refs[g]
      BY <1>1, <2>2 DEF ReleaseAdd, TypeOK
    <3>2. QED
      BY <2>2, <3>1, <1>6 DEF RefsCount
  <2>3. QED
    BY <2>1, <2>2
<1>11. refs' \in [Gens -> Nat]
  BY <1>1, <1>9 DEF ReleaseAdd, TypeOK
<1>12. QED
  BY <1>10, <1>11 DEF RefsCount

\* What the two ways out of Release, and close, do to types.
LEMMA CloseType ==
  ASSUME closedBy \in [Gens -> Closers], NEW g \in Gens, NEW who \in Closers, Close(g, who)
  PROVE  closedBy' \in [Gens -> Closers]
  BY DEF Close

RequestTypes ==
  /\ pc \in [Requests -> RequestPoints]
  /\ rt \in [Requests -> Gens \cup {NoGen}]
  /\ tries \in [Requests -> 0..MaxTries]
  /\ set \in [Requests -> Gens \cup {NoGen}]
  /\ entry \in [Requests -> Gens \cup {NoGen}]
  /\ stale \in [Requests -> BOOLEAN]

LEMMA RetryType ==
  ASSUME CoreInv, NEW r \in Requests, tries[r] < MaxTries, Retry(r)
  PROVE  RequestTypes'
<1>1. tries' \in [Requests -> 0..MaxTries]
  BY BoundsAssumption DEF CoreInv, TypeOK, Retry
<1>2. QED
  BY <1>1 DEF CoreInv, TypeOK, RequestTypes, Retry, RequestPoints

LEMMA ReturnType ==
  ASSUME CoreInv, NEW r \in Requests, Return(r)
  PROVE  RequestTypes'
<1>1. tries' \in [Requests -> 0..MaxTries]
  BY BoundsAssumption DEF CoreInv, TypeOK, Return
<1>2. rt' \in [Requests -> Gens \cup {NoGen}] /\ pc' \in [Requests -> RequestPoints]
  BY DEF CoreInv, TypeOK, Return, RequestPoints
<1>3. set' \in [Requests -> Gens \cup {NoGen}] /\ entry' \in [Requests -> Gens \cup {NoGen}]
  BY DEF CoreInv, TypeOK, Return
<1>4. stale' \in [Requests -> BOOLEAN]
  BY DEF CoreInv, TypeOK, Return
<1>5. QED
  BY <1>1, <1>2, <1>3, <1>4 DEF RequestTypes

LEMMA CoreStep == CoreInv /\ [Next]_vars => CoreInv'
<1> SUFFICES ASSUME CoreInv, [Next]_vars PROVE CoreInv'
  OBVIOUS
<1> USE BoundsAssumption DEF CoreInv, TypeOK, ControlInv, Gens, NoGen, Callers, Closers,
        RequestPoints, ControlPoints, serverVars, runtimeVars, requestVars, controlVars
<1>1. ASSUME NEW r \in Requests, Arrive(r) PROVE CoreInv'
  <2>1. TypeOK' /\ ControlInv'
    BY <1>1 DEF Arrive
  <2>2. RefsCount'
    <3>1. \A g \in Gens : Counted(g)' = Counted(g)
      BY <1>1 DEF Arrive, Counted
    <3>2. QED
      BY <3>1, <1>1, RefsCountKept DEF Arrive
  <2>3. QED
    BY <2>1, <2>2
<1>2. ASSUME NEW r \in Requests, LoadCurrent(r) PROVE CoreInv'
  <2>1. TypeOK' /\ ControlInv'
    BY <1>2 DEF LoadCurrent
  <2>2. RefsCount'
    <3>1. \A g \in Gens : Counted(g)' = Counted(g)
      BY <1>2 DEF LoadCurrent, Counted
    <3>2. QED
      BY <3>1, <1>2, RefsCountKept DEF LoadCurrent
  <2>3. QED
    BY <2>1, <2>2
<1>3. ASSUME NEW r \in Requests, Refuse(r) PROVE CoreInv'
  <2>1. TypeOK' /\ ControlInv'
    BY <1>3 DEF Refuse
  <2>2. RefsCount'
    <3>1. \A g \in Gens : Counted(g)' = Counted(g)
      BY <1>3 DEF Refuse, Counted
    <3>2. QED
      BY <3>1, <1>3, RefsCountKept DEF Refuse
  <2>3. QED
    BY <2>1, <2>2
<1>4. ASSUME NEW r \in Requests, AcquireAdd(r) PROVE CoreInv'
  <2>1. TypeOK' /\ ControlInv'
    <3>1. TypeOK'
      <4>1. rt[r] \in Gens
        BY <1>4 DEF AcquireAdd
      <4>2. refs' \in [Gens -> Nat]
        BY <4>1, <1>4 DEF AcquireAdd
      <4>3. QED
        BY <4>2, <1>4 DEF AcquireAdd
    <3>2. ControlInv'
      BY <1>4 DEF AcquireAdd
    <3>3. QED
      BY <3>1, <3>2
  <2>2. RefsCount'
    BY <1>4, RefsCountAcquire
  <2>3. QED
    BY <2>1, <2>2
<1>5. ASSUME NEW r \in Requests, AcquireCheck(r) PROVE CoreInv'
  <2>1. TypeOK' /\ ControlInv'
    BY <1>5 DEF AcquireCheck
  <2>2. RefsCount'
    <3>1. \A g \in Gens : Counted(g)' = Counted(g)
      BY <1>5 DEF AcquireCheck, Counted
    <3>2. QED
      BY <3>1, <1>5, RefsCountKept DEF AcquireCheck
  <2>3. QED
    BY <2>1, <2>2
<1>6. ASSUME NEW r \in Requests, LoadSettings(r) PROVE CoreInv'
  <2>1. TypeOK' /\ ControlInv'
    BY <1>6 DEF LoadSettings
  <2>2. RefsCount'
    <3>1. \A g \in Gens : Counted(g)' = Counted(g)
      BY <1>6 DEF LoadSettings, Counted
    <3>2. QED
      BY <3>1, <1>6, RefsCountKept DEF LoadSettings
  <2>3. QED
    BY <2>1, <2>2
<1>7. ASSUME NEW r \in Requests, ReleaseAdd(r) PROVE CoreInv'
  <2>1. RefsCount' /\ refs' \in [Gens -> Nat]
    BY <1>7, RefsCountRelease
  <2>2. TypeOK' /\ ControlInv'
    <3>1. RequestTypes'
      <4>1. CASE refs[rt[r]] = 1
        <5>1. stale' \in [Requests -> BOOLEAN]
          BY <4>1, <1>7 DEF ReleaseAdd
        <5>2. pc' \in [Requests -> RequestPoints]
          <6>1. \/ pc' = [pc EXCEPT ![r] = "undoZero"]
                \/ pc' = [pc EXCEPT ![r] = "doneZero"]
            BY <4>1, <1>7 DEF ReleaseAdd
          <6>2. QED
            BY <6>1
        <5>3. QED
          BY <5>1, <5>2, <4>1, <1>7 DEF ReleaseAdd, RequestTypes
      <4>2. CASE refs[rt[r]] # 1
        BY <4>2, <1>7, RetryType, ReturnType DEF ReleaseAdd
      <4>3. QED
        BY <4>1, <4>2
    <3>2. TypeOK'
      BY <3>1, <2>1, <1>7 DEF ReleaseAdd, RequestTypes
    <3>3. ControlInv'
      <4>1. CASE refs[rt[r]] = 1
        <5>1. \/ pc[r] = "undo" /\ pc' = [pc EXCEPT ![r] = "undoZero"]
              \/ pc[r] = "serving" /\ pc' = [pc EXCEPT ![r] = "doneZero"]
          BY <4>1, <1>7 DEF ReleaseAdd
        <5>2. QED
          BY <5>1, <4>1, <1>7 DEF ReleaseAdd
      <4>2. CASE refs[rt[r]] # 1 /\ pc[r] = "undo" /\ Retry(r)
        BY <4>2, <1>7 DEF ReleaseAdd, Retry
      <4>3. CASE refs[rt[r]] # 1 /\ pc[r] = "serving" /\ Return(r)
        BY <4>3, <1>7 DEF ReleaseAdd, Return
      <4>4. QED
        BY <4>1, <4>2, <4>3, <1>7 DEF ReleaseAdd
    <3>4. QED
      BY <3>2, <3>3
  <2>3. QED
    BY <2>1, <2>2
<1>8. ASSUME NEW r \in Requests, ReleaseCheck(r) PROVE CoreInv'
  <2>1. TypeOK' /\ ControlInv'
    <3>1. TypeOK'
      <4>1. rt[r] \in Gens
        BY <1>8 DEF ReleaseCheck
      <4>2. closedBy' \in [Gens -> Closers]
        <5>1. CASE retired[rt[r]]
          BY <5>1, <4>1, <1>8, CloseType DEF ReleaseCheck
        <5>2. CASE ~retired[rt[r]]
          BY <5>2, <1>8 DEF ReleaseCheck
        <5>3. QED
          BY <5>1, <5>2
      <4>3. RequestTypes'
        BY <1>8, RetryType, ReturnType DEF ReleaseCheck
      <4>4. QED
        BY <4>2, <4>3, <1>8 DEF ReleaseCheck, RequestTypes
    <3>2. ControlInv'
      BY <1>8 DEF ReleaseCheck, Retry, Return, Close
    <3>3. QED
      BY <3>1, <3>2
  <2>2. RefsCount'
    <3>1. \A g \in Gens : Counted(g)' = Counted(g)
      BY <1>8 DEF ReleaseCheck, Retry, Return, Counted
    <3>2. QED
      BY <3>1, <1>8, RefsCountKept DEF ReleaseCheck, Retry, Return
  <2>3. QED
    BY <2>1, <2>2
<1>9. ASSUME NEW r \in Requests, RefusedReturns(r) PROVE CoreInv'
  <2>1. TypeOK' /\ ControlInv'
    <3>1. TypeOK'
      BY <1>9 DEF RefusedReturns, Return
    <3>2. ControlInv'
      BY <1>9 DEF RefusedReturns, Return
    <3>3. QED
      BY <3>1, <3>2
  <2>2. RefsCount'
    <3>1. \A g \in Gens : Counted(g)' = Counted(g)
      BY <1>9 DEF RefusedReturns, Return, Counted
    <3>2. QED
      BY <3>1, <1>9, RefsCountKept DEF RefusedReturns, Return
  <2>3. QED
    BY <2>1, <2>2
<1>10. ASSUME NEW c \in Callers, RetireStore(c) PROVE CoreInv'
  <2>1. TypeOK' /\ ControlInv'
    BY <1>10 DEF RetireStore
  <2>2. RefsCount'
    BY <1>10, RefsCountUntouched DEF RetireStore
  <2>3. QED
    BY <2>1, <2>2
<1>11. ASSUME NEW c \in Callers, RetireCheck(c) PROVE CoreInv'
  <2>1. TypeOK' /\ ControlInv'
    <3>1. TypeOK'
      <4>1. target[c] \in Gens
        BY <1>11 DEF RetireCheck
      <4>2. closedBy' \in [Gens -> Closers]
        BY <4>1, <1>11, CloseType DEF RetireCheck
      <4>3. drainers' \in SUBSET (Callers \X Gens)
        BY <4>1, <1>11 DEF RetireCheck
      <4>4. QED
        BY <4>2, <4>3, <1>11 DEF RetireCheck
    <3>2. ControlInv'
      BY <1>11 DEF RetireCheck, Close
    <3>3. QED
      BY <3>1, <3>2
  <2>2. RefsCount'
    BY <1>11, RefsCountUntouched DEF RetireCheck
  <2>3. QED
    BY <2>1, <2>2
<1>12. ASSUME NEW c \in Callers, NEW g \in Gens, DrainTick(c, g) PROVE CoreInv'
  <2>1. TypeOK' /\ ControlInv'
    BY <1>12 DEF DrainTick, Close
  <2>2. RefsCount'
    BY <1>12, RefsCountUntouched DEF DrainTick
  <2>3. QED
    BY <2>1, <2>2
<1>13. ASSUME NEW c \in Callers, NEW g \in Gens, DrainDeadline(c, g) PROVE CoreInv'
  <2>1. TypeOK' /\ ControlInv'
    BY <1>13 DEF DrainDeadline, Close
  <2>2. RefsCount'
    BY <1>13, RefsCountUntouched DEF DrainDeadline
  <2>3. QED
    BY <2>1, <2>2
<1>14. ASSUME ReloadLock PROVE CoreInv'
  <2>1. TypeOK' /\ ControlInv'
    BY <1>14 DEF ReloadLock
  <2>2. RefsCount'
    BY <1>14, RefsCountUntouched DEF ReloadLock
  <2>3. QED
    BY <2>1, <2>2
<1>15. ASSUME ReloadConfigFails PROVE CoreInv'
  <2>1. TypeOK' /\ ControlInv'
    BY <1>15 DEF ReloadConfigFails
  <2>2. RefsCount'
    BY <1>15, RefsCountUntouched DEF ReloadConfigFails
  <2>3. QED
    BY <2>1, <2>2
<1>16. ASSUME ReloadBuild PROVE CoreInv'
  <2>1. TypeOK' /\ ControlInv'
    <3>1. TypeOK'
      <4>1. generation + 1 \in Gens
        BY <1>16 DEF ReloadBuild
      <4>2. built' \in SUBSET Gens /\ fresh' \in Gens \cup {NoGen} /\ generation' \in Gens
        BY <4>1, <1>16 DEF ReloadBuild
      <4>3. QED
        BY <4>2, <1>16 DEF ReloadBuild
    <3>2. ControlInv'
      BY <1>16 DEF ReloadBuild
    <3>3. QED
      BY <3>1, <3>2
  <2>2. RefsCount'
    BY <1>16, RefsCountUntouched DEF ReloadBuild
  <2>3. QED
    BY <2>1, <2>2
<1>17. ASSUME ReloadCIDRsFail PROVE CoreInv'
  <2>1. TypeOK' /\ ControlInv'
    BY <1>17 DEF ReloadCIDRsFail
  <2>2. RefsCount'
    BY <1>17, RefsCountUntouched DEF ReloadCIDRsFail
  <2>3. QED
    BY <2>1, <2>2
<1>18. ASSUME ReloadSwap PROVE CoreInv'
  <2>1. TypeOK' /\ ControlInv'
    BY <1>18 DEF ReloadSwap
  <2>2. RefsCount'
    BY <1>18, RefsCountUntouched DEF ReloadSwap
  <2>3. QED
    BY <2>1, <2>2
<1>19. ASSUME ReloadSettings PROVE CoreInv'
  <2>1. TypeOK' /\ ControlInv'
    BY <1>19 DEF ReloadSettings
  <2>2. RefsCount'
    BY <1>19, RefsCountUntouched DEF ReloadSettings
  <2>3. QED
    BY <2>1, <2>2
<1>20. ASSUME Shutdown PROVE CoreInv'
  <2>1. TypeOK' /\ ControlInv'
    BY <1>20 DEF Shutdown
  <2>2. RefsCount'
    BY <1>20, RefsCountUntouched DEF Shutdown
  <2>3. QED
    BY <2>1, <2>2
<1>21. ASSUME ShutdownReturns PROVE CoreInv'
  <2>1. TypeOK' /\ ControlInv'
    BY <1>21 DEF ShutdownReturns
  <2>2. RefsCount'
    BY <1>21, RefsCountUntouched DEF ShutdownReturns
  <2>3. QED
    BY <2>1, <2>2
<1>22. ASSUME Exit PROVE CoreInv'
  <2>1. TypeOK' /\ ControlInv'
    BY <1>22 DEF Exit
  <2>2. RefsCount'
    BY <1>22, RefsCountUntouched DEF Exit
  <2>3. QED
    BY <2>1, <2>2
<1>23. CASE UNCHANGED vars
  <2>1. TypeOK' /\ ControlInv'
    BY <1>23 DEF vars
  <2>2. RefsCount'
    BY <1>23, RefsCountUntouched DEF vars
  <2>3. QED
    BY <2>1, <2>2
<1>24. QED
  BY <1>1, <1>2, <1>3, <1>4, <1>5, <1>6, <1>7, <1>8, <1>9, <1>10, <1>11, <1>12, <1>13, <1>14, <1>15, <1>16, <1>17, <1>18, <1>19, <1>20, <1>21, <1>22, <1>23 DEF Next, RequestStep, ReloadStep

\* Type correctness: every variable keeps its type and refs never goes negative,
\* for any number of requests and reloads.
THEOREM TypeCorrect == Spec => []TypeOK
<1>1. CoreInv => TypeOK
  BY DEF CoreInv
<1>2. QED
  BY <1>1, CoreInit, CoreStep, PTL DEF Spec

LEMMA CoreInvariant == Spec => []CoreInv
  BY CoreInit, CoreStep, PTL DEF Spec

\* refs is the number of requests between their Acquire add and Release add.
THEOREM ReferencesAreCounted == Spec => []RefsCount
<1>1. CoreInv => RefsCount
  BY DEF CoreInv
<1>2. QED
  BY <1>1, CoreInvariant, PTL

-----------------------------------------------------------------------------
(* Layer 2: a retired runtime and its holders. *)

\* Nothing un-retires a runtime.
LEMMA RetiredForGood ==
  ASSUME CoreInv, [Next]_vars, NEW g \in Gens, retired[g]
  PROVE  retired'[g]
<1>1. CASE \E c \in Callers : RetireStore(c)
  BY <1>1 DEF RetireStore, CoreInv, TypeOK
<1>2. CASE UNCHANGED retired
  BY <1>2
<1>3. QED
  BY <1>1, <1>2 DEF Next, RequestStep, ReloadStep, vars, runtimeVars, Arrive, LoadCurrent, Refuse,
     AcquireAdd, AcquireCheck, LoadSettings, ReleaseAdd, ReleaseCheck, RefusedReturns,
     RetireCheck, DrainTick, DrainDeadline, ReloadLock, ReloadConfigFails, ReloadBuild,
     ReloadCIDRsFail, ReloadSwap, ReloadSettings, Shutdown, ShutdownReturns, Exit

\* A retired runtime gets no new holder: Acquire reads retired after its add.
LEMMA NoNewHolder ==
  ASSUME CoreInv, [Next]_vars, NEW g \in Gens, retired[g], NobodyHolds(g)
  PROVE  NobodyHolds(g)'
<1> USE DEF CoreInv, TypeOK, NobodyHolds, Holding
<1>1. CASE UNCHANGED <<pc, rt>>
  BY <1>1
<1>2. ASSUME NEW r \in Requests, Arrive(r) \/ RequestStep(r) PROVE NobodyHolds(g)'
  <2>1. CASE Arrive(r)
    BY <2>1 DEF Arrive
  <2>2. CASE LoadCurrent(r)
    BY <2>2 DEF LoadCurrent
  <2>3. CASE Refuse(r)
    BY <2>3 DEF Refuse
  <2>4. CASE AcquireAdd(r)
    BY <2>4 DEF AcquireAdd
  <2>5. CASE AcquireCheck(r)
    BY <2>5 DEF AcquireCheck
  <2>6. CASE LoadSettings(r)
    BY <2>6 DEF LoadSettings
  <2>7. CASE ReleaseAdd(r)
    <3>1. /\ pc'[r] \in {"undoZero", "doneZero", "load", "idle"}
          /\ \A q \in Requests : q # r => pc'[q] = pc[q] /\ rt'[q] = rt[q]
      BY <2>7 DEF ReleaseAdd, Retry, Return
    <3>2. QED
      BY <3>1
  <2>8. CASE ReleaseCheck(r)
    BY <2>8 DEF ReleaseCheck, Retry, Return
  <2>9. CASE RefusedReturns(r)
    BY <2>9 DEF RefusedReturns, Return
  <2>10. QED
    BY <1>2, <2>1, <2>2, <2>3, <2>4, <2>5, <2>6, <2>7, <2>8, <2>9 DEF RequestStep
<1>3. QED
  BY <1>1, <1>2 DEF Next, ReloadStep, vars, requestVars, RetireStore,
     RetireCheck, DrainTick, DrainDeadline, ReloadLock, ReloadConfigFails, ReloadBuild,
     ReloadCIDRsFail, ReloadSwap, ReloadSettings, Shutdown, ShutdownReturns, Exit

\* A close that is justified by an empty set of holders, or that claims nothing.
LEMMA CloseKeeps ==
  ASSUME CoreInv, NEW k \in Gens, NEW who \in Closers, Close(k, who), NEW g \in Gens
  PROVE  closedBy'[g] = closedBy[g] \/ (g = k /\ closedBy'[g] = who)
  BY DEF Close, CoreInv, TypeOK

LEMMA RetireInit == Init => RetireInv
  BY DEF Init, RetireInv, Callers

\* Who may close a runtime, and what it knows when it does.
LEMMA CloseIsJustified ==
  ASSUME CoreInv, RetireInv, [Next]_vars, NEW g \in Gens, closedBy'[g] # closedBy[g]
  PROVE  /\ retired[g]
         /\ closedBy'[g] \in {"retire", "tick", "release"} => NobodyHolds(g)
<1> USE DEF CoreInv
<1>1. ASSUME NEW r \in Requests, ReleaseCheck(r)
      PROVE  /\ retired[g]
             /\ closedBy'[g] \in {"retire", "tick", "release"} => NobodyHolds(g)
  <2>1. rt[r] \in Gens /\ retired[rt[r]]
    BY <1>1 DEF ReleaseCheck, ControlInv
  <2>2. g = rt[r] /\ closedBy'[g] = IF stale[r] THEN "stale" ELSE "release"
    BY <1>1, <2>1, CloseKeeps DEF ReleaseCheck, Closers
  <2>3. QED
    BY <1>1, <2>1, <2>2 DEF ReleaseCheck, RetireInv
<1>2. ASSUME NEW c \in Callers, RetireCheck(c)
      PROVE  retired[g] /\ NobodyHolds(g)
  <2>1. target[c] \in Gens /\ retired[target[c]]
    BY <1>2 DEF RetireCheck, ControlInv, RetireInv
  <2>2. refs[target[c]] = 0
    BY <1>2 DEF RetireCheck
  <2>3. g = target[c]
    BY <1>2, <2>1, <2>2, CloseKeeps DEF RetireCheck, Closers
  <2>4. QED
    BY <2>1, <2>2, <2>3, ZeroMeansNobodyHolds
<1>3. ASSUME NEW c \in Callers, NEW k \in Gens, DrainTick(c, k)
      PROVE  retired[g] /\ NobodyHolds(g)
  <2>1. g = k
    BY <1>3, CloseKeeps DEF DrainTick, Closers
  <2>2. QED
    BY <1>3, <2>1, ZeroMeansNobodyHolds DEF DrainTick, RetireInv
<1>4. ASSUME NEW c \in Callers, NEW k \in Gens, DrainDeadline(c, k)
      PROVE  retired[g] /\ closedBy'[g] = "grace"
  BY <1>4, CloseKeeps DEF DrainDeadline, Closers, RetireInv
<1>5. QED
  BY <1>1, <1>2, <1>3, <1>4 DEF Next, RequestStep, ReloadStep, vars, runtimeVars, Arrive,
     LoadCurrent, Refuse, AcquireAdd, AcquireCheck, LoadSettings, ReleaseAdd, RefusedReturns,
     RetireStore, ReloadLock, ReloadConfigFails, ReloadBuild,
     ReloadCIDRsFail, ReloadSwap, ReloadSettings, Shutdown, ShutdownReturns, Exit

\* The request's half of RetireInv: a failed Acquire, and a zero read in time.
LEMMA RetireRequests ==
  ASSUME CoreInv, CoreInv', RetireInv, [Next]_vars,
         NEW q \in Requests, NEW k \in Gens, k = rt'[q]
  PROVE  /\ pc'[q] \in {"undo", "undoZero"} => retired'[k]
         /\ pc'[q] \in {"undoZero", "doneZero"} /\ ~stale'[q] => retired'[k] /\ NobodyHolds(k)'
<1> DEFINE Goal == /\ pc'[q] \in {"undo", "undoZero"} => retired'[k]
                   /\ pc'[q] \in {"undoZero", "doneZero"} /\ ~stale'[q] =>
                        retired'[k] /\ NobodyHolds(k)'
<1> USE DEF CoreInv
<1>1. CASE pc'[q] = pc[q] /\ rt'[q] = rt[q] /\ stale'[q] = stale[q]
  <2>1. retired[k] => retired'[k]
    BY RetiredForGood
  <2>2. retired[k] /\ NobodyHolds(k) => NobodyHolds(k)'
    BY NoNewHolder
  <2>3. QED
    BY <1>1, <2>1, <2>2 DEF RetireInv
<1>2. ASSUME NEW r \in Requests, AcquireCheck(r) PROVE Goal
  <2>1. CASE q = r
    BY <1>2, <2>1 DEF AcquireCheck, TypeOK, runtimeVars
  <2>2. CASE q # r
    BY <1>1, <1>2, <2>2 DEF AcquireCheck, TypeOK
  <2>3. QED
    BY <2>1, <2>2
<1>3. ASSUME NEW r \in Requests, ReleaseAdd(r) PROVE Goal
  <2>1. CASE q = r /\ refs[rt[r]] = 1
    <3>1. k = rt[r]
      BY <1>3, <2>1 DEF ReleaseAdd
    <3>2. rt' = rt /\ stale'[q] = ~retired[k] /\ refs'[k] = 0 /\ retired' = retired
      BY <1>3, <2>1, <3>1 DEF ReleaseAdd, TypeOK
    <3>3. NobodyHolds(k)'
      <4>1. Cardinality(Counted(k)') = 0
        BY <3>2 DEF RefsCount
      <4>2. IsFiniteSet(Counted(k)')
        <5>1. Counted(k)' \in SUBSET Requests
          BY DEF Counted
        <5>2. QED
          BY <5>1, RequestsAssumption, FS_Subset
      <4>3. Counted(k)' = {}
        BY <4>1, <4>2, FS_EmptySet
      <4>4. QED
        BY <4>3 DEF NobodyHolds, Holding, Counted
    <3>4. pc'[q] = "undoZero" => retired[k]
      BY <1>3, <2>1, <3>1 DEF ReleaseAdd, RetireInv, TypeOK
    <3>5. QED
      BY <2>1, <3>2, <3>3, <3>4, <1>3 DEF ReleaseAdd, TypeOK
  <2>2. CASE q = r /\ refs[rt[r]] # 1
    BY <1>3, <2>2 DEF ReleaseAdd, Retry, Return, TypeOK
  <2>3. CASE q # r
    BY <1>1, <1>3, <2>3 DEF ReleaseAdd, Retry, Return, TypeOK
  <2>4. QED
    BY <2>1, <2>2, <2>3
<1>4. ASSUME NEW r \in Requests,
             Arrive(r) \/ LoadCurrent(r) \/ Refuse(r) \/ AcquireAdd(r) \/ LoadSettings(r)
      PROVE Goal
  <2>1. CASE q = r
    BY <1>4, <2>1 DEF Arrive, LoadCurrent, Refuse, AcquireAdd, LoadSettings, TypeOK
  <2>2. CASE q # r
    BY <1>1, <1>4, <2>2 DEF Arrive, LoadCurrent, Refuse, AcquireAdd, LoadSettings, TypeOK
  <2>3. QED
    BY <2>1, <2>2
<1>5. ASSUME NEW r \in Requests, ReleaseCheck(r) \/ RefusedReturns(r) PROVE Goal
  <2>1. CASE q = r
    BY <1>5, <2>1 DEF ReleaseCheck, RefusedReturns, Retry, Return, TypeOK
  <2>2. CASE q # r
    BY <1>1, <1>5, <2>2 DEF ReleaseCheck, RefusedReturns, Retry, Return, TypeOK
  <2>3. QED
    BY <2>1, <2>2
<1>6. CASE UNCHANGED requestVars
  BY <1>1, <1>6 DEF requestVars
<1>7. QED
  BY <1>2, <1>3, <1>4, <1>5, <1>6 DEF Next, RequestStep, ReloadStep, vars, RetireStore,
     RetireCheck, DrainTick, DrainDeadline, ReloadLock, ReloadConfigFails, ReloadBuild,
     ReloadCIDRsFail, ReloadSwap, ReloadSettings, Shutdown, ShutdownReturns, Exit

LEMMA RetireStep ==
  ASSUME CoreInv, CoreInv', RetireInv, [Next]_vars
  PROVE  RetireInv'
<1>1. ASSUME NEW g \in Gens
      PROVE  /\ closedBy'[g] # "no" => retired'[g]
             /\ closedBy'[g] \in {"retire", "tick", "release"} => NobodyHolds(g)'
  <2>1. CASE closedBy'[g] = closedBy[g]
    BY <2>1, RetiredForGood, NoNewHolder DEF RetireInv
  <2>2. CASE closedBy'[g] # closedBy[g]
    BY <2>2, CloseIsJustified, RetiredForGood, NoNewHolder
  <2>3. QED
    BY <2>1, <2>2
<1>2. ASSUME NEW c \in Callers, NEW g \in Gens, <<c, g>> \in drainers'
      PROVE  retired'[g]
  <2>1. CASE <<c, g>> \in drainers
    BY <2>1, RetiredForGood DEF RetireInv
  <2>2. CASE <<c, g>> \notin drainers
    <3>1. PICK d \in Callers : RetireCheck(d)
      BY <1>2, <2>2 DEF Next, RequestStep, ReloadStep, vars, runtimeVars, Arrive, LoadCurrent,
         Refuse, AcquireAdd, AcquireCheck, LoadSettings, ReleaseAdd, ReleaseCheck,
         RefusedReturns, RetireStore, DrainTick, DrainDeadline, ReloadLock, ReloadConfigFails,
         ReloadBuild, ReloadCIDRsFail, ReloadSwap, ReloadSettings, Shutdown,
         ShutdownReturns, Exit
    <3>2. g = target[d]
      BY <1>2, <2>2, <3>1 DEF RetireCheck
    <3>3. QED
      BY <3>1, <3>2, RetiredForGood DEF RetireCheck, RetireInv
  <2>3. QED
    BY <2>1, <2>2
<1>3. ASSUME NEW c \in Callers, ctl'[c] = "retireCheck" PROVE retired'[target'[c]]
  <2>1. CASE ctl[c] = "retireCheck" /\ target'[c] = target[c]
    BY <2>1, RetiredForGood DEF RetireInv, CoreInv, ControlInv
  <2>2. ASSUME NEW d \in Callers, RetireStore(d) PROVE retired'[target'[c]]
    <3>1. target[d] \in Gens
      BY <2>2 DEF RetireStore, CoreInv, ControlInv
    <3>2. CASE c = d
      BY <2>2, <3>1, <3>2 DEF RetireStore, CoreInv, TypeOK
    <3>3. CASE c # d
      BY <2>1, <2>2, <3>3, <1>3 DEF RetireStore, CoreInv, TypeOK
    <3>4. QED
      BY <3>2, <3>3
  <2>3. CASE UNCHANGED <<ctl, target>>
    BY <1>3, <2>1, <2>3
  <2>4. ASSUME NEW d \in Callers, RetireCheck(d) PROVE retired'[target'[c]]
    BY <1>3, <2>1, <2>4 DEF RetireCheck, CoreInv, TypeOK, Callers
  <2>5. CASE ReloadLock \/ ReloadStep \/ Shutdown \/ ShutdownReturns \/ Exit
    BY <1>3, <2>1, <2>5 DEF ReloadLock, ReloadStep, ReloadConfigFails, ReloadBuild,
       ReloadCIDRsFail, ReloadSwap, ReloadSettings, Shutdown, ShutdownReturns, Exit,
       CoreInv, TypeOK, Callers
  <2>6. QED
    BY <2>2, <2>3, <2>4, <2>5 DEF Next, RequestStep, vars, controlVars, Arrive, LoadCurrent,
       Refuse, AcquireAdd, AcquireCheck, LoadSettings, ReleaseAdd, ReleaseCheck,
       RefusedReturns, DrainTick, DrainDeadline
<1>4. ASSUME NEW q \in Requests
      PROVE  (/\ pc[q] \in {"undo", "undoZero"} => retired[rt[q]]
              /\ pc[q] \in {"undoZero", "doneZero"} /\ ~stale[q] =>
                   retired[rt[q]] /\ NobodyHolds(rt[q]))'
  <2>1. CASE pc'[q] \in {"undo", "undoZero", "doneZero"}
    <3>1. PICK k \in Gens : k = rt'[q]
      BY <2>1 DEF CoreInv, ControlInv
    <3>2. QED
      BY <3>1, RetireRequests DEF NobodyHolds, Holding
  <2>2. QED
    BY <2>1
<1>5. QED
  BY <1>1, <1>2, <1>3, <1>4 DEF RetireInv

LEMMA RetireInvariant == Spec => []RetireInv
<1>1. CoreInv /\ CoreInv' /\ RetireInv /\ [Next]_vars => RetireInv'
  BY RetireStep
<1>2. QED
  BY <1>1, RetireInit, CoreInvariant, PTL DEF Spec

\* A close decided on a zero count read after retirement never takes the
\* runtime from a request that acquired it, for any number of requests,
\* reloads and interleavings of the atomic operations.
THEOREM DrainedCloseSafe == Spec => []DrainedCloseIsSafe
<1>1. CoreInv /\ RetireInv => DrainedCloseIsSafe
  BY DEF CoreInv, ControlInv, RetireInv, DrainedCloseIsSafe, NobodyHolds, Holding
<1>2. QED
  BY <1>1, CoreInvariant, RetireInvariant, PTL

\* Acquire never succeeds on a closed runtime.
THEOREM AcquireOpen == Spec => AcquireFindsOpen
<1>1. ASSUME CoreInv, RetireInv, [Next]_vars
      PROVE  [\A r \in Requests :
                pc[r] = "check" /\ pc'[r] = "held" => closedBy[rt[r]] = "no"]_vars
  <2> SUFFICES ASSUME NEW q \in Requests, pc[q] = "check", pc'[q] = "held"
               PROVE  closedBy[rt[q]] = "no"
    OBVIOUS
  <2>1. AcquireCheck(q)
    BY <1>1 DEF Next, RequestStep, ReloadStep, vars, requestVars, Arrive, LoadCurrent, Refuse,
       AcquireAdd, AcquireCheck, LoadSettings, ReleaseAdd, ReleaseCheck, RefusedReturns,
       Retry, Return, RetireStore, RetireCheck, DrainTick, DrainDeadline, ReloadLock,
       ReloadConfigFails, ReloadBuild, ReloadCIDRsFail, ReloadSwap, ReloadSettings,
       Shutdown, ShutdownReturns, Exit, CoreInv, TypeOK
  <2>2. QED
    BY <1>1, <2>1 DEF AcquireCheck, CoreInv, ControlInv, RetireInv, TypeOK
<1>2. QED
  BY <1>1, CoreInvariant, RetireInvariant, PTL DEF Spec, AcquireFindsOpen

-----------------------------------------------------------------------------
(* Layer 3: what Reload and main publish and retire. *)

LEMMA PublishInit == Init => PublishInv
  BY BoundsAssumption DEF Init, PublishInv, Gens, Callers

LEMMA PublishStep ==
  ASSUME CoreInv, PublishInv, [Next]_vars
  PROVE  PublishInv'
<1> USE DEF PublishInv, CoreInv, TypeOK, ControlInv, Gens, NoGen, Callers, ShuttingDown,
        serverVars, runtimeVars, requestVars, controlVars
<1>1. CASE UNCHANGED <<serverVars, retired, controlVars>>
  BY <1>1
<1>2. ASSUME NEW c \in Callers, RetireStore(c) PROVE PublishInv'
  <2>1. PICK k \in Gens : k = target[c]
    BY <1>2 DEF RetireStore
  <2>2. retired' = [retired EXCEPT ![k] = TRUE] /\ k \in built
    BY <1>2, <2>1 DEF RetireStore
  <2>3. retired'[current] => ShuttingDown' /\ target["main"] = current
    <3>1. CASE k = current
      BY <3>1, <1>2, <2>1 DEF RetireStore
    <3>2. CASE k # current
      BY <3>2, <1>2, <2>2 DEF RetireStore
    <3>3. QED
      BY <3>1, <3>2
  <2>4. ctl["reload"] = "built" => k # fresh
    BY <1>2, <2>1 DEF RetireStore
  <2>5. /\ ctl'["reload"] = "built" => ctl["reload"] = "built"
        /\ ctl'["reload"] = "settings" => ctl["reload"] = "settings"
        /\ \A d \in Callers : ctl'[d] \in {"retire", "retireCheck"} => ctl[d] \in {"retire", "retireCheck"}
    BY <1>2 DEF RetireStore
  <2>6. UNCHANGED <<current, generation, built, fresh, target>>
    BY <1>2 DEF RetireStore
  <2>7. QED
    BY <2>2, <2>3, <2>4, <2>5, <2>6
<1>3. ASSUME NEW c \in Callers, RetireCheck(c) PROVE PublishInv'
  BY <1>3 DEF RetireCheck
<1>4. CASE ReloadLock \/ ReloadConfigFails
  BY <1>4 DEF ReloadLock, ReloadConfigFails
<1>5. CASE ReloadBuild
  <2>1. generation' = generation + 1 /\ generation + 1 \in Gens
    BY <1>5, BoundsAssumption DEF ReloadBuild
  <2>2. generation + 1 \notin built
    OBVIOUS
  <2>3. current < generation + 1 /\ ~retired[generation + 1]
    BY <2>1, <2>2
  <2>4. \A g \in built' : g <= generation + 1
    <3>1. \A g \in built : g <= generation + 1
      OBVIOUS
    <3>2. built' = built \/ built' = built \cup {generation + 1}
      BY <1>5 DEF ReloadBuild
    <3>3. generation + 1 <= generation + 1
      OBVIOUS
    <3>4. ASSUME NEW g \in built' PROVE g \in built \/ g = generation + 1
      BY <3>2
    <3>5. QED
      BY <3>1, <3>3, <3>4
  <2>5. current \in built' /\ \A g \in Gens : retired[g] => g \in built'
    BY <1>5 DEF ReloadBuild
  <2>6. ctl["main"] \in {"retire", "retireCheck"} => target["main"] \in built'
    BY <1>5 DEF ReloadBuild
  <2>7. /\ ctl'["main"] = ctl["main"] /\ ctl'["reload"] \in {"idle", "built"}
        /\ ctl'["reload"] = "built" => fresh' = generation + 1 /\ fresh' \in built'
        /\ UNCHANGED <<current, retired, target>>
    BY <1>5 DEF ReloadBuild
  <2>8. QED
    BY <2>1, <2>3, <2>4, <2>5, <2>6, <2>7
<1>6. CASE ReloadCIDRsFail
  BY <1>6 DEF ReloadCIDRsFail
<1>7. CASE ReloadSwap
  BY <1>7 DEF ReloadSwap
<1>8. CASE ReloadSettings
  BY <1>8 DEF ReloadSettings
<1>9. CASE Shutdown \/ Exit
  BY <1>9 DEF Shutdown, Exit
<1>10. CASE ShutdownReturns
  BY <1>10 DEF ShutdownReturns
<1>11. QED
  BY <1>1, <1>2, <1>3, <1>4, <1>5, <1>6, <1>7, <1>8, <1>9, <1>10 DEF Next, RequestStep,
     ReloadStep, vars, Arrive, LoadCurrent, Refuse, AcquireAdd, AcquireCheck, LoadSettings,
     ReleaseAdd, ReleaseCheck, RefusedReturns, DrainTick, DrainDeadline

LEMMA PublishInvariant == Spec => []PublishInv
<1>1. CoreInv /\ PublishInv /\ [Next]_vars => PublishInv'
  BY PublishStep
<1>2. QED
  BY <1>1, PublishInit, CoreInvariant, PTL DEF Spec

\* Until shutdown, the published runtime is neither retired nor closed: no
\* reload, successful or failed, can leave the gateway without a live runtime.
THEOREM PublishedLive == Spec => []PublishedIsLive
<1>1. CoreInv /\ RetireInv /\ PublishInv => PublishedIsLive
  BY DEF CoreInv, TypeOK, RetireInv, PublishInv, PublishedIsLive
<1>2. QED
  BY <1>1, CoreInvariant, RetireInvariant, PublishInvariant, PTL

\* A step of Reload alone moves the settings, and the pointer before them.
LEMMA SettingsStep ==
  ASSUME CoreInv, PublishInv, SettingsFollowRuntime, [Next]_vars
  PROVE  SettingsFollowRuntime'
<1> USE DEF SettingsFollowRuntime, serverVars, controlVars, Callers
<1>1. CASE UNCHANGED <<serverVars, ctl>>
  BY <1>1
<1>2. ASSUME NEW c \in Callers, RetireStore(c) \/ RetireCheck(c) PROVE SettingsFollowRuntime'
  <2>1. UNCHANGED <<settings, current>> BY <1>2 DEF RetireStore, RetireCheck
  <2>2. ctl["reload"] = "settings" => ctl'["reload"] = "settings"
    BY <1>2 DEF RetireStore, RetireCheck, CoreInv, TypeOK
  <2> QED BY <2>1, <2>2
<1>3. CASE ReloadLock \/ ReloadConfigFails \/ ReloadBuild \/ ReloadCIDRsFail
  BY <1>3 DEF ReloadLock, ReloadConfigFails, ReloadBuild, ReloadCIDRsFail
<1>4. CASE ReloadSwap BY <1>4 DEF ReloadSwap, CoreInv, TypeOK
<1>5. CASE ReloadSettings BY <1>5 DEF ReloadSettings, PublishInv
<1>6. CASE Shutdown \/ ShutdownReturns \/ Exit
  BY <1>6 DEF Shutdown, ShutdownReturns, Exit, CoreInv, TypeOK
<1> QED
  BY <1>1, <1>2, <1>3, <1>4, <1>5, <1>6 DEF Next, RequestStep, ReloadStep, vars, Arrive,
     LoadCurrent, Refuse, AcquireAdd, AcquireCheck, LoadSettings, ReleaseAdd, ReleaseCheck,
     RefusedReturns, DrainTick, DrainDeadline

\* The settings in force are those of the published runtime, except between the swap and
\* the store of Reload, whatever reloads failed.
THEOREM SettingsFollow == Spec => []SettingsFollowRuntime
<1>1. Init => SettingsFollowRuntime BY DEF Init, SettingsFollowRuntime
<1>2. CoreInv /\ PublishInv /\ SettingsFollowRuntime /\ [Next]_vars => SettingsFollowRuntime'
  BY SettingsStep
<1> QED BY <1>1, <1>2, CoreInvariant, PublishInvariant, PTL DEF Spec

-----------------------------------------------------------------------------
(* Layer 4: the acquire loop. *)

\* What LoopInv says of one request, and what a refused one knows.
Loop(r) ==
  /\ pc[r] = "idle" => tries[r] = 0
  /\ pc[r] = "load" => ShuttingDown \/ entry[r] + tries[r] <= current
  /\ pc[r] \in {"add", "check", "undo", "undoZero"} =>
       rt[r] <= current /\ (ShuttingDown \/ entry[r] + tries[r] <= rt[r])
  /\ pc[r] = "refused" => ShuttingDown \/ current >= entry[r] + MaxTries

\* The published generation only grows, and a shutdown is not taken back.
LEMMA PublishedGrows ==
  ASSUME CoreInv, PublishInv, [Next]_vars
  PROVE  /\ current \in Int /\ current' \in Int /\ current <= current'
         /\ ShuttingDown => ShuttingDown'
<1> USE BoundsAssumption
<1>0. current \in Int BY DEF CoreInv, TypeOK, Gens
<1>1. CASE ReloadSwap
  <2>1. current' = fresh /\ current < fresh BY <1>1 DEF ReloadSwap, PublishInv
  <2>2. fresh \in Int BY <1>1 DEF ReloadSwap, CoreInv, ControlInv, Gens
  <2>3. ShuttingDown => ShuttingDown' BY <1>1 DEF ReloadSwap, ShuttingDown, CoreInv, TypeOK, Callers
  <2> QED BY <1>0, <2>1, <2>2, <2>3
<1>2. ~ReloadSwap => current' = current
  BY DEF Next, RequestStep, ReloadStep, vars, serverVars, Arrive, LoadCurrent, Refuse, AcquireAdd,
     AcquireCheck, LoadSettings, ReleaseAdd, ReleaseCheck, RefusedReturns, RetireStore,
     RetireCheck, DrainTick, DrainDeadline, ReloadLock, ReloadConfigFails, ReloadBuild,
     ReloadCIDRsFail, ReloadSettings, Shutdown, ShutdownReturns, Exit
<1>3. ShuttingDown => ShuttingDown'
  <2> SUFFICES ASSUME ctl["main"] \in {"retireCheck", "stopping", "exited"}
               PROVE  ctl'["main"] \in {"retireCheck", "stopping", "exited"}
    BY DEF ShuttingDown
  <2>1. ctl'["main"] = ctl["main"] \/ (\E c \in Callers : RetireStore(c) \/ RetireCheck(c)) \/ Exit
    BY DEF Next, RequestStep, ReloadStep, vars, controlVars, Arrive, LoadCurrent, Refuse, AcquireAdd,
       AcquireCheck, LoadSettings, ReleaseAdd, ReleaseCheck, RefusedReturns, DrainTick,
       DrainDeadline, ReloadLock, ReloadConfigFails, ReloadBuild, ReloadCIDRsFail, ReloadSwap,
       ReloadSettings, Shutdown, ShutdownReturns, CoreInv, TypeOK, Callers
  <2>2. ASSUME NEW c \in Callers, RetireStore(c) \/ RetireCheck(c)
        PROVE  ctl'["main"] \in {"retireCheck", "stopping", "exited"}
    BY <2>2 DEF RetireStore, RetireCheck, CoreInv, TypeOK, Callers
  <2>3. CASE Exit BY <2>3 DEF Exit, CoreInv, TypeOK, Callers
  <2> QED BY <2>1, <2>2, <2>3
<1> QED BY <1>0, <1>1, <1>2, <1>3

\* A turn of the loop fails only on a retired runtime, which is not the published one.
LEMMA TurnLost ==
  ASSUME CoreInv, RetireInv, PublishInv, NEW r \in Requests, Loop(r),
         pc[r] \in {"undo", "undoZero"}
  PROVE  ShuttingDown \/ entry[r] + tries[r] + 1 <= current
<1> USE BoundsAssumption
<1>1. rt[r] \in Gens /\ entry[r] \in Gens BY DEF CoreInv, ControlInv
<1>2. tries[r] \in Nat BY DEF CoreInv, TypeOK
<1>3. retired[rt[r]] BY DEF RetireInv
<1>4. rt[r] = current => ShuttingDown BY <1>3 DEF PublishInv
<1>5. rt[r] <= current /\ (ShuttingDown \/ entry[r] + tries[r] <= rt[r]) BY DEF Loop
<1>6. current \in Int BY DEF CoreInv, TypeOK, Gens
<1> QED BY <1>1, <1>2, <1>4, <1>5, <1>6 DEF Gens

LEMMA LoopStep ==
  ASSUME CoreInv, RetireInv, PublishInv, [Next]_vars, NEW q \in Requests, Loop(q)
  PROVE  Loop(q)'
<1> USE BoundsAssumption
<1>0. /\ current \in Int /\ current' \in Int /\ current <= current'
      /\ ShuttingDown => ShuttingDown'
  BY PublishedGrows
<1>1. /\ tries[q] \in Nat /\ rt[q] \in Int /\ entry[q] \in Int /\ MaxTries \in Nat
      /\ pc \in [Requests -> RequestPoints] /\ tries \in [Requests -> 0..MaxTries]
      /\ rt \in [Requests -> Gens \cup {NoGen}] /\ entry \in [Requests -> Gens \cup {NoGen}]
  BY DEF CoreInv, TypeOK, Gens, NoGen
<1>2. CASE pc'[q] = pc[q] /\ rt'[q] = rt[q] /\ tries'[q] = tries[q] /\ entry'[q] = entry[q]
  BY <1>0, <1>1, <1>2 DEF Loop
<1>3. CASE Arrive(q)
  <2>1. pc'[q] = "load" /\ entry'[q] = current /\ tries'[q] = 0 /\ current' = current
    BY <1>1, <1>3 DEF Arrive, serverVars, Loop
  <2> QED BY <1>0, <2>1 DEF Loop
<1>4. CASE LoadCurrent(q)
  <2>1. /\ pc[q] = "load" /\ pc'[q] = "add" /\ rt'[q] = current /\ current' = current
        /\ tries'[q] = tries[q] /\ entry'[q] = entry[q]
    BY <1>1, <1>4 DEF LoadCurrent, serverVars
  <2> QED BY <1>0, <1>1, <2>1 DEF Loop
<1>5. CASE Refuse(q)
  <2>1. /\ pc[q] = "load" /\ pc'[q] = "refused" /\ tries[q] >= MaxTries
        /\ entry'[q] = entry[q]
    BY <1>1, <1>5 DEF Refuse
  <2> QED BY <1>0, <1>1, <2>1 DEF Loop
<1>6. CASE AcquireAdd(q) \/ AcquireCheck(q) \/ LoadSettings(q)
  <2>1. /\ pc[q] \in {"add", "check", "held"}
        /\ pc'[q] \in {"check", "undo"} => pc[q] \in {"add", "check"}
        /\ pc'[q] \in {"check", "undo", "held", "serving"}
        /\ rt'[q] = rt[q] /\ tries'[q] = tries[q] /\ entry'[q] = entry[q]
    BY <1>1, <1>6 DEF AcquireAdd, AcquireCheck, LoadSettings
  <2> QED BY <1>0, <1>1, <2>1 DEF Loop
<1>7. ASSUME pc[q] \in {"undo", "undoZero"}, Retry(q) PROVE Loop(q)'
  <2>1. pc'[q] = "load" /\ tries'[q] = tries[q] + 1 /\ entry'[q] = entry[q]
    BY <1>1, <1>7 DEF Retry
  <2>2. ShuttingDown \/ entry[q] + tries[q] + 1 <= current BY <1>7, TurnLost
  <2> QED BY <1>0, <1>1, <2>1, <2>2 DEF Loop
<1>8. ASSUME Return(q) PROVE Loop(q)'
  <2>1. pc'[q] = "idle" /\ tries'[q] = 0 BY <1>1, <1>8 DEF Return
  <2> QED BY <2>1 DEF Loop
<1>9. CASE ReleaseAdd(q)
  <2>1. CASE refs[rt[q]] = 1
    <3>1. /\ (pc[q] = "undo" /\ pc'[q] = "undoZero") \/ pc'[q] = "doneZero"
          /\ rt'[q] = rt[q] /\ tries'[q] = tries[q] /\ entry'[q] = entry[q]
      BY <1>1, <1>9, <2>1 DEF ReleaseAdd, Retry, Return
    <3> QED BY <1>0, <1>1, <3>1 DEF Loop
  <2>2. CASE refs[rt[q]] # 1 BY <1>7, <1>8, <1>9, <2>2 DEF ReleaseAdd
  <2> QED BY <2>1, <2>2
<1>10. CASE ReleaseCheck(q) \/ RefusedReturns(q)
  BY <1>7, <1>8, <1>10 DEF ReleaseCheck, RefusedReturns
<1>11. ASSUME NEW r \in Requests, r # q, Arrive(r) \/ RequestStep(r) PROVE Loop(q)'
  <2>1. pc'[q] = pc[q] /\ rt'[q] = rt[q] /\ tries'[q] = tries[q] /\ entry'[q] = entry[q]
    BY <1>1, <1>11 DEF RequestStep, Arrive, LoadCurrent, Refuse, AcquireAdd, AcquireCheck,
       LoadSettings, ReleaseAdd, ReleaseCheck, RefusedReturns, Retry, Return
  <2> QED BY <1>2, <2>1
<1>12. ASSUME NEW r \in Requests, Arrive(r) \/ RequestStep(r) PROVE Loop(q)'
  BY <1>3, <1>4, <1>5, <1>6, <1>9, <1>10, <1>11, <1>12 DEF RequestStep
<1>13. CASE UNCHANGED requestVars BY <1>2, <1>13 DEF requestVars
<1> QED
  BY <1>12, <1>13 DEF Next, ReloadStep, vars, RetireStore, RetireCheck, DrainTick, DrainDeadline,
     ReloadLock, ReloadConfigFails, ReloadBuild, ReloadCIDRsFail, ReloadSwap, ReloadSettings,
     Shutdown, ShutdownReturns, Exit

\* "gateway is not ready" is answered only after MaxTries newer generations, or during a
\* shutdown: each turn that the loop of ServeHTTP loses, it loses to another runtime.
THEOREM RefusedByReloads == Spec => []RefusedOnlyByReloads
<1> DEFINE Loops == \A r \in Requests : Loop(r)
<1>1. Init => Loops BY DEF Init, Loop
<1>2. CoreInv /\ RetireInv /\ PublishInv /\ Loops /\ [Next]_vars => Loops' BY LoopStep
<1>3. Loops => RefusedOnlyByReloads BY DEF Loop, RefusedOnlyByReloads
<1> HIDE DEF Loops
<1> QED BY <1>1, <1>2, <1>3, CoreInvariant, RetireInvariant, PublishInvariant, PTL DEF Spec

-----------------------------------------------------------------------------
(* Layer 5: nobody forgets a runtime that was built. *)

\* What NothingLeaks says of one runtime.
Kept(g) ==
  \/ g = current
  \/ closedBy[g] # "no"
  \/ g = fresh /\ ctl["reload"] = "built"
  \/ \E c \in Callers : \/ <<c, g>> \in drainers
                        \/ g = target[c] /\ ctl[c] \in {"settings", "retire", "retireCheck"}

\* A close happens once and is not taken back.
LEMMA ClosedForGood ==
  ASSUME CoreInv, [Next]_vars, NEW g \in Gens, closedBy[g] # "no"
  PROVE  closedBy'[g] # "no"
<1>1. ASSUME NEW k, NEW who, Close(k, who) PROVE closedBy'[g] = closedBy[g]
  BY <1>1 DEF Close, CoreInv, TypeOK
<1>2. ASSUME NEW r \in Requests, ReleaseCheck(r) PROVE closedBy'[g] = closedBy[g]
  BY <1>1, <1>2 DEF ReleaseCheck
<1>3. ASSUME NEW c \in Callers, RetireCheck(c) PROVE closedBy'[g] = closedBy[g]
  BY <1>1, <1>3 DEF RetireCheck
<1>4. ASSUME NEW c \in Callers, NEW k \in Gens, DrainTick(c, k) \/ DrainDeadline(c, k)
      PROVE  closedBy'[g] = closedBy[g]
  BY <1>1, <1>4 DEF DrainTick, DrainDeadline
<1> QED
  BY <1>2, <1>3, <1>4 DEF Next, RequestStep, ReloadStep, vars, runtimeVars, Arrive, LoadCurrent,
     Refuse, AcquireAdd, AcquireCheck, LoadSettings, ReleaseAdd, RefusedReturns, RetireStore,
     ReloadLock, ReloadConfigFails, ReloadBuild, ReloadCIDRsFail, ReloadSwap, ReloadSettings,
     Shutdown, ShutdownReturns, Exit

\* Closing a runtime leaves it closed, by this close or an earlier one.
LEMMA CloseCloses ==
  ASSUME CoreInv, NEW g \in Gens, NEW who \in Closers \ {"no"}, Close(g, who)
  PROVE  closedBy'[g] # "no"
  BY DEF Close, CoreInv, TypeOK

\* The steps of Reload, of main and of the goroutines hand a runtime on.
LEMMA KeptStep ==
  ASSUME CoreInv, [Next]_vars, NEW g \in Gens, g \in built', g \in built => Kept(g)
  PROVE  Kept(g)'
<1> USE DEF Callers
<1>0. /\ ctl \in [Callers -> ControlPoints] /\ target \in [Callers -> Gens \cup {NoGen}]
  BY DEF CoreInv, TypeOK
<1>1. CASE closedBy[g] # "no" BY <1>1, ClosedForGood DEF Kept
<1>2. ASSUME UNCHANGED <<current, built, fresh, target, ctl, drainers>> PROVE Kept(g)'
  BY <1>1, <1>2 DEF Kept
<1>3. ASSUME NEW r \in Requests, Arrive(r) \/ RequestStep(r) PROVE Kept(g)'
  BY <1>2, <1>3 DEF RequestStep, Arrive, LoadCurrent, Refuse, AcquireAdd, AcquireCheck,
     LoadSettings, ReleaseAdd, ReleaseCheck, RefusedReturns, serverVars, runtimeVars, controlVars
<1>4. ASSUME NEW c \in Callers, RetireStore(c) PROVE Kept(g)'
  <2>1. /\ UNCHANGED <<current, built, fresh, target, closedBy, drainers>>
        /\ ctl[c] = "retire" /\ ctl' = [ctl EXCEPT ![c] = "retireCheck"]
    BY <1>4 DEF RetireStore, serverVars
  <2> QED BY <1>0, <2>1 DEF Kept
<1>5. ASSUME NEW c \in Callers, RetireCheck(c) PROVE Kept(g)'
  <2>1. /\ UNCHANGED <<current, built, fresh, target>> /\ ctl[c] = "retireCheck"
        /\ \A d \in Callers : d # c => ctl'[d] = ctl[d]
        /\ ctl'["reload"] = "built" <=> ctl["reload"] = "built"
        /\ drainers \subseteq drainers'
    BY <1>0, <1>5 DEF RetireCheck, serverVars
  <2>2. CASE g = target[c]
    <3>1. closedBy'[g] # "no" \/ <<c, g>> \in drainers'
      BY <1>5, <2>2, CloseCloses DEF RetireCheck, Closers
    <3> QED BY <3>1 DEF Kept
  <2>3. CASE g # target[c] BY <1>1, <2>1, <2>3 DEF Kept
  <2> QED BY <2>2, <2>3
<1>6. ASSUME NEW c \in Callers, NEW k \in Gens, DrainTick(c, k) \/ DrainDeadline(c, k)
      PROVE  Kept(g)'
  <2>1. /\ UNCHANGED <<current, built, fresh, target, ctl>> /\ drainers' = drainers \ {<<c, k>>}
    BY <1>6 DEF DrainTick, DrainDeadline, serverVars, controlVars
  <2>2. CASE g = k
    <3>1. closedBy'[g] # "no" BY <1>6, <2>2, CloseCloses DEF DrainTick, DrainDeadline, Closers
    <3> QED BY <3>1 DEF Kept
  <2>3. CASE g # k BY <1>1, <2>1, <2>3 DEF Kept
  <2> QED BY <2>2, <2>3
<1>7. ASSUME ReloadLock \/ ReloadConfigFails PROVE Kept(g)'
  <2>1. /\ UNCHANGED <<current, built, fresh, target, drainers, closedBy>>
        /\ ctl["reload"] \in {"idle", "locked"} /\ ctl'["main"] = ctl["main"]
    BY <1>0, <1>7 DEF ReloadLock, ReloadConfigFails, serverVars, runtimeVars
  <2> QED BY <2>1 DEF Kept
<1>8. ASSUME ReloadBuild PROVE Kept(g)'
  <2>1. /\ UNCHANGED <<current, target, drainers, closedBy>>
        /\ ctl["reload"] = "locked" /\ ctl'["main"] = ctl["main"]
        /\ g \notin built => fresh' = g /\ ctl'["reload"] = "built"
    BY <1>0, <1>8 DEF ReloadBuild, runtimeVars
  <2> QED BY <2>1 DEF Kept
<1>9. ASSUME ReloadCIDRsFail \/ ReloadSwap PROVE Kept(g)'
  <2>1. /\ UNCHANGED <<built, fresh, drainers, closedBy>> /\ ctl["reload"] = "built"
        /\ ctl'["main"] = ctl["main"] /\ target'["main"] = target["main"]
        /\ ctl'["reload"] \in {"retire", "settings"}
        /\ \/ current' = current /\ target'["reload"] = fresh
           \/ current' = fresh /\ target'["reload"] = current
    BY <1>0, <1>9 DEF ReloadCIDRsFail, ReloadSwap, serverVars, runtimeVars
  <2> QED BY <2>1 DEF Kept
<1>10. ASSUME ReloadSettings PROVE Kept(g)'
  <2>1. /\ UNCHANGED <<current, built, fresh, target, drainers, closedBy>>
        /\ ctl["reload"] = "settings" /\ ctl' = [ctl EXCEPT !["reload"] = "retire"]
    BY <1>10 DEF ReloadSettings, runtimeVars
  <2> QED BY <1>0, <2>1 DEF Kept
<1>11. ASSUME Shutdown \/ ShutdownReturns \/ Exit PROVE Kept(g)'
  <2>1. /\ UNCHANGED <<current, built, fresh, drainers, closedBy>>
        /\ ctl["main"] \in {"up", "draining", "stopping"}
        /\ ctl'["reload"] = ctl["reload"] /\ target'["reload"] = target["reload"]
    BY <1>0, <1>11 DEF Shutdown, ShutdownReturns, Exit, serverVars, runtimeVars
  <2> QED BY <2>1 DEF Kept
<1>12. CASE UNCHANGED vars
  BY <1>2, <1>12 DEF vars, serverVars, runtimeVars, controlVars
<1> QED
  BY <1>3, <1>4, <1>5, <1>6, <1>7, <1>8, <1>9, <1>10, <1>11, <1>12 DEF Next, ReloadStep

\* Whatever reloads fail or race with a shutdown, a runtime that Build returned is published,
\* closed, or in the hands of somebody who will retire or close it: its pools, pollers and
\* health checkers are never forgotten.
THEOREM NoRuntimeLeaks == Spec => []NothingLeaks
<1>1. Init => NothingLeaks BY DEF Init, NothingLeaks
<1>2. CoreInv /\ CoreInv' /\ NothingLeaks /\ [Next]_vars => NothingLeaks'
  <2> SUFFICES ASSUME CoreInv, CoreInv', NothingLeaks, [Next]_vars, NEW g \in built'
               PROVE  Kept(g)'
    BY DEF NothingLeaks, Kept
  <2>1. g \in Gens BY DEF CoreInv, TypeOK
  <2>2. g \in built => Kept(g) BY DEF NothingLeaks, Kept
  <2> QED BY <2>1, <2>2, KeptStep
<1> QED BY <1>1, <1>2, CoreInvariant, PTL DEF Spec

-----------------------------------------------------------------------------
(* The promise of Serving. *)

\* A request has not seen a runtime older than the one in force when it arrived.
Came(r) ==
  /\ pc[r] # "idle" => entry[r] \in Gens /\ entry[r] <= current
  /\ pc[r] \in {"add", "check"} => entry[r] <= rt[r] /\ rt[r] <= current

\* A request's own steps keep that, and the published generation only grows.
LEMMA CameStep ==
  ASSUME CoreInv, PublishInv, [Next]_vars, NEW q \in Requests, Came(q)
  PROVE  Came(q)'
<1> USE BoundsAssumption
<1>0. /\ current \in Gens /\ current \in Int /\ current' \in Int /\ current <= current'
      /\ rt[q] \in Int /\ entry[q] \in Int /\ Gens \subseteq Int
      /\ pc \in [Requests -> RequestPoints]
      /\ rt \in [Requests -> Gens \cup {NoGen}] /\ entry \in [Requests -> Gens \cup {NoGen}]
  <2>1. current \in Int /\ current' \in Int /\ current <= current' BY PublishedGrows
  <2>2. /\ current \in Gens /\ pc \in [Requests -> RequestPoints]
        /\ rt \in [Requests -> Gens \cup {NoGen}] /\ entry \in [Requests -> Gens \cup {NoGen}]
    BY DEF CoreInv, TypeOK
  <2>3. Gens \subseteq Int /\ NoGen \in Int BY DEF Gens, NoGen
  <2> QED BY <2>1, <2>2, <2>3
<1>1. CASE pc'[q] = pc[q] /\ rt'[q] = rt[q] /\ entry'[q] = entry[q]
  BY <1>0, <1>1 DEF Came, Gens
<1>2. CASE Arrive(q)
  <2>1. pc'[q] = "load" /\ entry'[q] = current /\ current' = current BY <1>0, <1>2 DEF Arrive, serverVars
  <2> QED BY <1>0, <2>1 DEF Came, Gens
<1>3. CASE LoadCurrent(q)
  <2>1. /\ pc[q] = "load" /\ pc'[q] = "add" /\ rt'[q] = current /\ current' = current
        /\ entry'[q] = entry[q]
    BY <1>0, <1>3 DEF LoadCurrent, serverVars
  <2> QED BY <1>0, <2>1 DEF Came, Gens
<1>4. CASE AcquireAdd(q)
  <2>1. /\ pc[q] = "add" /\ pc'[q] = "check" /\ rt'[q] = rt[q] /\ entry'[q] = entry[q]
    BY <1>0, <1>4 DEF AcquireAdd
  <2> QED BY <1>0, <2>1 DEF Came, Gens
<1>5. ASSUME pc[q] # "idle", pc'[q] \notin {"add", "check"}, pc'[q] = "idle" \/ entry'[q] = entry[q]
      PROVE  Came(q)'
  BY <1>0, <1>5 DEF Came, Gens
<1>6. CASE Refuse(q) \/ AcquireCheck(q) \/ LoadSettings(q)
  <2>1. pc[q] # "idle" /\ pc'[q] \notin {"add", "check"} /\ entry'[q] = entry[q]
    BY <1>0, <1>6 DEF Refuse, AcquireCheck, LoadSettings
  <2> QED BY <1>5, <2>1
<1>7. CASE ReleaseAdd(q) \/ ReleaseCheck(q) \/ RefusedReturns(q)
  <2>1. pc[q] # "idle" /\ pc'[q] \notin {"add", "check"} /\ (pc'[q] = "idle" \/ entry'[q] = entry[q])
    BY <1>0, <1>7 DEF ReleaseAdd, ReleaseCheck, RefusedReturns, Retry, Return
  <2> QED BY <1>5, <2>1
<1>8. ASSUME NEW r \in Requests, r # q, Arrive(r) \/ RequestStep(r) PROVE Came(q)'
  <2>1. pc'[q] = pc[q] /\ rt'[q] = rt[q] /\ entry'[q] = entry[q]
    BY <1>0, <1>8 DEF RequestStep, Arrive, LoadCurrent, Refuse, AcquireAdd, AcquireCheck,
       LoadSettings, ReleaseAdd, ReleaseCheck, RefusedReturns, Retry, Return
  <2> QED BY <1>1, <2>1
<1>9. ASSUME NEW r \in Requests, Arrive(r) \/ RequestStep(r) PROVE Came(q)'
  BY <1>2, <1>3, <1>4, <1>6, <1>7, <1>8, <1>9 DEF RequestStep
<1>10. CASE UNCHANGED requestVars BY <1>1, <1>10 DEF requestVars
<1> QED
  BY <1>9, <1>10 DEF Next, ReloadStep, vars, RetireStore, RetireCheck, DrainTick, DrainDeadline,
     ReloadLock, ReloadConfigFails, ReloadBuild, ReloadCIDRsFail, ReloadSwap, ReloadSettings,
     Shutdown, ShutdownReturns, Exit

\* All that is known when a step is taken.
ServingInv ==
  /\ CoreInv /\ RetireInv /\ PublishInv /\ RefusedOnlyByReloads
  /\ \A r \in Requests : Came(r)

\* The first close of a runtime is a Close of Serving, any other does nothing.
LEMMA ClosesAsPromised ==
  ASSUME ServingInv, [Next]_vars, NEW k \in Gens, NEW who \in Closers \ {"no"}, Close(k, who),
         current' = current, Since' = Since, By' = By, ShuttingDown' = ShuttingDown
  PROVE  [Promise!Next]_(Promise!vars)
<1>1. closedBy \in [Gens -> Closers] /\ k # NoGen
  BY DEF ServingInv, CoreInv, TypeOK, Gens, NoGen
<1>2. CASE closedBy[k] # "no"
  <2>1. closedBy' = closedBy BY <1>1, <1>2 DEF Close
  <2>2. Closed' = Closed /\ Cut' = Cut BY <2>1 DEF Closed, Cut
  <2> QED BY <2>2 DEF Promise!vars
<1>3. CASE closedBy[k] = "no"
  <2>1. closedBy' = [closedBy EXCEPT ![k] = who] BY <1>3 DEF Close
  <2>2. retired[k] /\ (who \in {"retire", "tick", "release"} => NobodyHolds(k))
    <3>1. closedBy'[k] = who /\ closedBy'[k] # closedBy[k] BY <1>1, <1>3, <2>1
    <3> QED BY <3>1, CloseIsJustified DEF ServingInv
  <2>3. k \notin Closed /\ Closed' = Closed \cup {k} BY <1>1, <1>3, <2>1 DEF Closed
  <2>4. k # current \/ ShuttingDown BY <2>2 DEF ServingInv, PublishInv
  <2>5. \/ Cut' = Cut \cup {k}
        \/ Cut' = Cut /\ \A r \in Requests : By[r] # k
    <3>1. CASE who \in {"grace", "stale"} BY <1>1, <2>1, <3>1 DEF Cut
    <3>2. CASE who \in {"retire", "tick", "release"}
      <4>1. Cut' = Cut BY <1>1, <1>3, <2>1, <3>2 DEF Cut
      <4>2. \A r \in Requests : By[r] # k BY <1>1, <2>2, <3>2 DEF By, NobodyHolds
      <4> QED BY <4>1, <4>2
    <3> QED BY <3>1, <3>2 DEF Closers
  <2>6. Promise!Close(k) BY <2>3, <2>4, <2>5 DEF Promise!Close
  <2> QED BY <2>6 DEF Promise!Next, Gens
<1> QED BY <1>2, <1>3

\* A step that touches neither requests nor runtimes nor what is published.
LEMMA NothingPromised ==
  ASSUME TypeOK, requestVars' = requestVars, closedBy' = closedBy
  PROVE  Since' = Since /\ By' = By /\ Closed' = Closed /\ Cut' = Cut
BY DEF requestVars, Since, By, Holding, Closed, Cut

\* A request's steps are those of Serving: it begins with the check of retired, and leaves
\* with the decrement or with the 503.
LEMMA RequestAsPromised ==
  ASSUME ServingInv, [Next]_vars, NEW r \in Requests, Arrive(r) \/ RequestStep(r)
  PROVE  [Promise!Next]_(Promise!vars)
<1> USE DEF NoGen, Promise!None
<1>0. /\ pc \in [Requests -> RequestPoints] /\ current \in Gens /\ Gens \subseteq Nat \ {0}
      /\ rt \in [Requests -> Gens \cup {NoGen}] /\ entry \in [Requests -> Gens \cup {NoGen}]
  <2>1. Gens \subseteq Nat \ {0} BY BoundsAssumption DEF Gens
  <2> QED BY <2>1 DEF ServingInv, CoreInv, TypeOK
<1>a. /\ pc[r] # "idle" => entry[r] \in Gens /\ entry[r] <= current
      /\ pc[r] \in {"check", "held", "serving"} => rt[r] \in Gens
      /\ pc[r] = "check" => entry[r] <= rt[r] /\ rt[r] <= current
  BY DEF ServingInv, Came, CoreInv, ControlInv
<1>b. current' = current /\ ctl' = ctl
  BY DEF RequestStep, Arrive, LoadCurrent, Refuse, AcquireAdd, AcquireCheck, LoadSettings,
     ReleaseAdd, ReleaseCheck, RefusedReturns, serverVars, controlVars
<1>c. ShuttingDown' = ShuttingDown BY <1>b DEF ShuttingDown
<1>d. ASSUME closedBy' = closedBy PROVE Closed' = Closed /\ Cut' = Cut
  BY <1>d DEF Closed, Cut
<1>1. CASE Arrive(r)
  <2>1. closedBy' = closedBy BY <1>1 DEF Arrive, runtimeVars
  <2>2. Since[r] = NoGen /\ Since' = [Since EXCEPT ![r] = current]
    BY <1>0, <1>1 DEF Arrive, Since
  <2>3. By' = By BY <1>0, <1>1 DEF Arrive, By, Holding
  <2>4. Promise!Arrive(r) BY <1>b, <1>c, <1>d, <2>1, <2>2, <2>3 DEF Promise!Arrive
  <2> QED BY <2>4 DEF Promise!Next
<1>2. CASE LoadCurrent(r) \/ Refuse(r) \/ AcquireAdd(r) \/ LoadSettings(r)
  <2>1. closedBy' = closedBy BY <1>2 DEF LoadCurrent, Refuse, AcquireAdd, LoadSettings, runtimeVars
  <2>2. Since' = Since BY <1>0, <1>2 DEF LoadCurrent, Refuse, AcquireAdd, LoadSettings, Since
  <2>3. By' = By BY <1>0, <1>2 DEF LoadCurrent, Refuse, AcquireAdd, LoadSettings, By, Holding
  <2> QED BY <1>b, <1>c, <1>d, <2>1, <2>2, <2>3 DEF Promise!vars
<1>3. CASE AcquireCheck(r)
  <2>1. closedBy' = closedBy BY <1>3 DEF AcquireCheck, runtimeVars
  <2>2. Since' = Since BY <1>0, <1>3 DEF AcquireCheck, Since
  <2>3. CASE retired[rt[r]]
    <3>1. By' = By BY <1>0, <1>3, <2>3 DEF AcquireCheck, By, Holding
    <3> QED BY <1>b, <1>c, <1>d, <2>1, <2>2, <3>1 DEF Promise!vars
  <2>4. CASE ~retired[rt[r]]
    <3>1. Since[r] = entry[r] /\ By[r] = NoGen BY <1>3 DEF AcquireCheck, Since, By, Holding
    <3>2. By' = [By EXCEPT ![r] = rt[r]] BY <1>0, <1>3, <2>4 DEF AcquireCheck, By, Holding
    <3>3. rt[r] \in entry[r]..current /\ entry[r] # NoGen
      <4>1. pc[r] = "check" BY <1>3 DEF AcquireCheck
      <4>2. entry[r] \in Gens /\ rt[r] \in Gens /\ entry[r] <= rt[r] /\ rt[r] <= current BY <1>a, <4>1
      <4>3. entry[r] \in Nat \ {0} /\ rt[r] \in Nat /\ current \in Nat BY <1>0, <4>2
      <4> QED BY <4>2, <4>3
    <3>4. rt[r] \notin Closed BY <1>3, <1>a, <2>4 DEF Closed, ServingInv, RetireInv, AcquireCheck
    <3>5. Promise!Begin(r) BY <1>b, <1>c, <1>d, <2>1, <2>2, <3>1, <3>2, <3>3, <3>4 DEF Promise!Begin
    <3> QED BY <3>5 DEF Promise!Next
  <2> QED BY <2>3, <2>4
<1>4. ASSUME pc[r] \in {"serving", "refused"}, Since' = [Since EXCEPT ![r] = NoGen],
             By' = [By EXCEPT ![r] = NoGen], closedBy' = closedBy
      PROVE  [Promise!Next]_(Promise!vars)
  <2>1. Since[r] = entry[r] /\ entry[r] # NoGen BY <1>0, <1>4, <1>a DEF Since
  <2>2. By[r] # NoGen \/ ShuttingDown \/ current >= Since[r] + MaxTries
    <3>1. CASE pc[r] = "serving" BY <1>0, <1>a, <3>1 DEF By, Holding
    <3>2. CASE pc[r] = "refused" BY <2>1, <3>2 DEF ServingInv, RefusedOnlyByReloads
    <3> QED BY <1>4, <3>1, <3>2
  <2>3. Promise!Leave(r) BY <1>b, <1>c, <1>d, <1>4, <2>1, <2>2 DEF Promise!Leave
  <2> QED BY <2>3 DEF Promise!Next
<1>5. CASE ReleaseAdd(r)
  <2>1. closedBy' = closedBy BY <1>5 DEF ReleaseAdd
  <2>2. CASE pc[r] = "undo"
    <3>1. /\ pc'[r] \in {"undoZero", "load"} /\ entry' = entry /\ rt' = rt
          /\ \A q \in Requests \ {r} : pc'[q] = pc[q]
      BY <1>0, <1>5, <2>2 DEF ReleaseAdd, Retry
    <3>2. Since' = Since BY <1>0, <2>2, <3>1 DEF Since
    <3>3. By' = By BY <1>0, <2>2, <3>1 DEF By, Holding
    <3> QED BY <1>b, <1>c, <1>d, <2>1, <3>2, <3>3 DEF Promise!vars
  <2>3. CASE pc[r] = "serving"
    <3>1. /\ pc'[r] \in {"doneZero", "idle"}
          /\ \A q \in Requests \ {r} : pc'[q] = pc[q] /\ entry'[q] = entry[q] /\ rt'[q] = rt[q]
      BY <1>0, <1>5, <2>3 DEF ReleaseAdd, Return
    <3>2. Since' = [Since EXCEPT ![r] = NoGen] BY <3>1 DEF Since
    <3>3. By' = [By EXCEPT ![r] = NoGen] BY <3>1 DEF By, Holding
    <3> QED BY <1>4, <2>1, <2>3, <3>2, <3>3
  <2> QED BY <1>5, <2>2, <2>3 DEF ReleaseAdd
<1>6. CASE ReleaseCheck(r)
  <2>1. /\ pc[r] \in {"undoZero", "doneZero"}
        /\ pc[r] = "undoZero" => pc'[r] = "load" /\ entry'[r] = entry[r]
        /\ pc[r] = "doneZero" => pc'[r] = "idle"
        /\ \A q \in Requests \ {r} : pc'[q] = pc[q] /\ entry'[q] = entry[q] /\ rt'[q] = rt[q]
    BY <1>0, <1>6 DEF ReleaseCheck, Retry, Return
  <2>2. Since' = Since BY <2>1 DEF Since
  <2>3. By' = By BY <2>1 DEF By, Holding
  <2>4. rt[r] \in Gens BY <2>1 DEF ServingInv, CoreInv, ControlInv
  <2>5. CASE retired[rt[r]]
    <3>1. PICK who \in {"stale", "release"} : Close(rt[r], who) BY <1>6, <2>5 DEF ReleaseCheck
    <3>2. who \in Closers \ {"no"} BY DEF Closers
    <3> QED BY <1>b, <1>c, <2>2, <2>3, <2>4, <3>1, <3>2, ClosesAsPromised
  <2>6. CASE ~retired[rt[r]]
    <3>1. closedBy' = closedBy BY <1>6, <2>6 DEF ReleaseCheck
    <3> QED BY <1>b, <1>c, <1>d, <2>2, <2>3, <3>1 DEF Promise!vars
  <2> QED BY <2>5, <2>6
<1>7. CASE RefusedReturns(r)
  <2>1. /\ pc[r] = "refused" /\ pc'[r] = "idle" /\ closedBy' = closedBy
        /\ \A q \in Requests \ {r} : pc'[q] = pc[q] /\ entry'[q] = entry[q] /\ rt'[q] = rt[q]
    BY <1>0, <1>7 DEF RefusedReturns, Return, runtimeVars
  <2>2. Since' = [Since EXCEPT ![r] = NoGen] BY <2>1 DEF Since
  <2>3. By' = [By EXCEPT ![r] = NoGen] BY <2>1 DEF By, Holding
  <2> QED BY <1>4, <2>1, <2>2, <2>3
<1> QED BY <1>1, <1>2, <1>3, <1>5, <1>6, <1>7 DEF RequestStep

\* The steps of Retire and of the goroutines it starts close a runtime or nothing; main's
\* is where the process begins to stop.
LEMMA RetireAsPromised ==
  ASSUME ServingInv, [Next]_vars,
         \/ \E c \in Callers : RetireStore(c) \/ RetireCheck(c)
         \/ \E c \in Callers, g \in Gens : DrainTick(c, g) \/ DrainDeadline(c, g)
  PROVE  [Promise!Next]_(Promise!vars)
<1>0. TypeOK /\ ctl \in [Callers -> ControlPoints] /\ "main" \in Callers
  BY DEF ServingInv, CoreInv, TypeOK, Callers
<1>1. current' = current /\ requestVars' = requestVars
  BY DEF RetireStore, RetireCheck, DrainTick, DrainDeadline, serverVars
<1>2. Since' = Since /\ By' = By BY <1>1 DEF requestVars, Since, By, Holding
<1>3. ASSUME NEW c \in Callers, RetireStore(c) PROVE [Promise!Next]_(Promise!vars)
  <2>1. closedBy' = closedBy BY <1>3 DEF RetireStore
  <2>2. Closed' = Closed /\ Cut' = Cut BY <2>1 DEF Closed, Cut
  <2>3. ShuttingDown' = ShuttingDown \/ ShuttingDown' = TRUE
    <3>1. ctl'["main"] = ctl["main"] \/ ctl'["main"] = "retireCheck" BY <1>0, <1>3 DEF RetireStore
    <3> QED BY <3>1 DEF ShuttingDown
  <2>4. CASE ShuttingDown' = ShuttingDown BY <1>1, <1>2, <2>2, <2>4 DEF Promise!vars
  <2>5. CASE ShuttingDown' = TRUE
    <3>1. Promise!Stop BY <1>1, <1>2, <2>2, <2>5 DEF Promise!Stop
    <3> QED BY <3>1 DEF Promise!Next
  <2> QED BY <2>3, <2>4, <2>5
<1>4. ASSUME NEW c \in Callers, RetireCheck(c) PROVE [Promise!Next]_(Promise!vars)
  <2>1. ShuttingDown' = ShuttingDown
    <3>1. \/ ctl'["main"] = ctl["main"]
          \/ ctl["main"] = "retireCheck" /\ ctl'["main"] = "stopping"
      BY <1>0, <1>4 DEF RetireCheck
    <3> QED BY <3>1 DEF ShuttingDown
  <2>2. CASE refs[target[c]] = 0
    <3>1. target[c] \in Gens BY <1>4 DEF RetireCheck, ServingInv, CoreInv, ControlInv
    <3>2. Close(target[c], "retire") /\ "retire" \in Closers \ {"no"} BY <1>4, <2>2 DEF RetireCheck, Closers
    <3> QED BY <1>1, <1>2, <2>1, <3>1, <3>2, ClosesAsPromised
  <2>3. CASE refs[target[c]] # 0
    <3>1. closedBy' = closedBy BY <1>4, <2>3 DEF RetireCheck
    <3>2. Closed' = Closed /\ Cut' = Cut BY <3>1 DEF Closed, Cut
    <3> QED BY <1>1, <1>2, <2>1, <3>2 DEF Promise!vars
  <2> QED BY <2>2, <2>3
<1>5. ASSUME NEW c \in Callers, NEW g \in Gens, DrainTick(c, g) \/ DrainDeadline(c, g)
      PROVE  [Promise!Next]_(Promise!vars)
  <2>1. ctl' = ctl BY <1>5 DEF DrainTick, DrainDeadline, controlVars
  <2>2. ShuttingDown' = ShuttingDown BY <2>1 DEF ShuttingDown
  <2>3. PICK who \in {"tick", "grace"} : Close(g, who) BY <1>5 DEF DrainTick, DrainDeadline
  <2>4. who \in Closers \ {"no"} BY DEF Closers
  <2> QED BY <1>1, <1>2, <2>2, <2>3, <2>4, ClosesAsPromised
<1> QED BY <1>3, <1>4, <1>5

\* Of Reload only the swap shows, of main the exit.
LEMMA ControlAsPromised ==
  ASSUME ServingInv, ReloadLock \/ ReloadStep \/ Shutdown \/ ShutdownReturns \/ Exit
  PROVE  [Promise!Next]_(Promise!vars)
<1> USE DEF ReloadStep, ReloadLock, ReloadConfigFails, ReloadBuild, ReloadCIDRsFail, ReloadSettings,
            Shutdown, ShutdownReturns
<1>0. TypeOK /\ ctl \in [Callers -> ControlPoints] /\ "main" \in Callers /\ "reload" \in Callers
  BY DEF ServingInv, CoreInv, TypeOK, Callers
<1>1. closedBy' = closedBy /\ requestVars' = requestVars BY DEF runtimeVars, ReloadSwap, Exit
<1>2. Since' = Since /\ By' = By /\ Closed' = Closed /\ Cut' = Cut BY <1>0, <1>1, NothingPromised
<1>3. CASE ReloadSwap
  <2>1. /\ current' = fresh /\ fresh \in Gens /\ current < fresh /\ ~retired[fresh]
        /\ ctl'["main"] = ctl["main"]
    BY <1>0, <1>3 DEF ReloadSwap, ServingInv, PublishInv, CoreInv, ControlInv
  <2>2. fresh > current BY <1>0, <2>1 DEF TypeOK, Gens
  <2>3. fresh \notin Closed BY <2>1 DEF Closed, ServingInv, RetireInv
  <2>4. ShuttingDown' = ShuttingDown BY <2>1 DEF ShuttingDown
  <2>5. Promise!Publish(fresh) BY <1>2, <2>1, <2>2, <2>3, <2>4 DEF Promise!Publish
  <2> QED BY <2>1, <2>5 DEF Promise!Next, Gens
<1>4. CASE Exit
  <2>1. current' = current /\ ctl'["main"] = "exited" BY <1>0, <1>4 DEF Exit, serverVars
  <2>2. ShuttingDown' = TRUE BY <2>1 DEF ShuttingDown
  <2>3. Promise!Stop BY <1>2, <2>1, <2>2 DEF Promise!Stop
  <2> QED BY <2>3 DEF Promise!Next
<1>5. CASE ~ReloadSwap /\ ~Exit
  <2>1. current' = current BY <1>5 DEF serverVars
  <2>2. \/ ctl'["main"] = ctl["main"]
        \/ ctl["main"] \in {"up", "draining"} /\ ctl'["main"] \in {"draining", "retire"}
    BY <1>0, <1>5
  <2>3. ShuttingDown' = ShuttingDown BY <2>2 DEF ShuttingDown
  <2> QED BY <1>2, <2>1, <2>3 DEF Promise!vars
<1> QED BY <1>3, <1>4, <1>5

\* The counters, flags and goroutines implement Serving, for any number of requests,
\* generations and tries: every atomic operation is a step of it or cannot be seen.
THEOREM KeepsThePromise == Spec => ServesAsPromised
<1> DEFINE AllCame == \A r \in Requests : Came(r)
<1>1. Init => AllCame BY DEF Init, Came
<1>2. CoreInv /\ PublishInv /\ AllCame /\ [Next]_vars => AllCame' BY CameStep
<1>3. CoreInv /\ RetireInv /\ PublishInv /\ RefusedOnlyByReloads /\ AllCame => ServingInv
  BY DEF ServingInv
<1>4. Init => Promise!Init
  BY DEF Init, Promise!Init, Promise!None, NoGen, Since, By, Holding, Closed, Cut, ShuttingDown, Callers
<1>5. ServingInv /\ [Next]_vars => [Promise!Next]_(Promise!vars)
  <2> SUFFICES ASSUME ServingInv, [Next]_vars PROVE [Promise!Next]_(Promise!vars)
    OBVIOUS
  <2>1. CASE UNCHANGED vars
    <3>1. TypeOK /\ requestVars' = requestVars /\ closedBy' = closedBy /\ current' = current /\ ctl' = ctl
      BY <2>1 DEF vars, requestVars, serverVars, runtimeVars, controlVars, ServingInv, CoreInv
    <3>2. Since' = Since /\ By' = By /\ Closed' = Closed /\ Cut' = Cut BY <3>1, NothingPromised
    <3>3. ShuttingDown' = ShuttingDown BY <3>1 DEF ShuttingDown
    <3> QED BY <3>1, <3>2, <3>3 DEF Promise!vars
  <2>2. CASE Next
    BY <2>2, RequestAsPromised, RetireAsPromised, ControlAsPromised DEF Next
  <2> QED BY <2>1, <2>2
<1> HIDE DEF AllCame
<1> QED
  BY <1>1, <1>2, <1>3, <1>4, <1>5, CoreInvariant, RetireInvariant, PublishInvariant, RefusedByReloads, PTL
  DEF Spec, ServesAsPromised, Promise!Spec
=============================================================================
