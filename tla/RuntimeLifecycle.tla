-------------------------- MODULE RuntimeLifecycle --------------------------
(***************************************************************************)
(* The life of a Runtime: how requests pin it, how a reload publishes its  *)
(* successor, and who closes it (internal/runtime/server.go, build.go and  *)
(* the shutdown path of cmd/nina/main.go).                                 *)
(*                                                                         *)
(* A runtime is named by its generation.  Every atomic load, store, swap   *)
(* or add of the code on shared state is a step of its own, so requests,   *)
(* the reload goroutine, the shutdown path and the drain goroutines        *)
(* interleave exactly where the Go program lets them.                      *)
(***************************************************************************)
EXTENDS Integers, FiniteSets

CONSTANTS
  Requests,   \* requests that reach Server.ServeHTTP
  MaxGen,     \* bound: generations the process ever numbers
  MaxTries    \* attempts of the acquire loop (8 in the code)

ASSUME RequestsAssumption == IsFiniteSet(Requests)
ASSUME BoundsAssumption   == MaxGen \in Nat \ {0} /\ MaxTries \in Nat \ {0}

VARIABLES
  current,    \* Server.current: generation of the published runtime
  settings,   \* Server.settings: generation whose settings are in force
  generation, \* Server.generation
  built,      \* generations Build returned a runtime for
  refs,       \* Runtime.refs
  retired,    \* Runtime.retired
  closedBy,   \* Runtime.closed, with the call of close() that won the Once
  pc,         \* where each request is in ServeHTTP
  rt,         \* the runtime each request loaded last
  tries,      \* failed turns of its acquire loop
  set,        \* the settings it loaded
  entry,      \* history: the generation published when it arrived
  stale,      \* history: it saw refs reach zero before the runtime was retired
  ctl,        \* where Reload and main are
  target,     \* the runtime each of them is about to retire
  fresh,      \* the runtime Reload has just built
  drainers    \* <<who, g>>: goroutines Retire has started

serverVars  == <<current, settings, generation, built>>
runtimeVars == <<refs, retired, closedBy, drainers>>
requestVars == <<pc, rt, tries, set, entry, stale>>
controlVars == <<ctl, target, fresh>>
vars == <<serverVars, runtimeVars, requestVars, controlVars>>

Gens    == 1..MaxGen
NoGen   == 0
Callers == {"reload", "main"}

RequestPoints == {"idle", "load", "add", "check", "undo", "undoZero", "held",
                  "serving", "doneZero", "refused"}
ControlPoints == {"idle", "locked", "built", "settings", "retire",
                  "retireCheck", "up", "draining", "stopping", "exited"}
Closers == {"no", "retire", "tick", "grace", "release", "stale"}

\* Nothing runs once the process has exited.
Running == ctl["main"] # "exited"

\* NewServer: the first runtime is built and published before any request.
Init ==
  /\ current = 1 /\ settings = 1 /\ generation = 1 /\ built = {1}
  /\ refs     = [g \in Gens |-> 0]
  /\ retired  = [g \in Gens |-> FALSE]
  /\ closedBy = [g \in Gens |-> "no"]
  /\ drainers = {}
  /\ pc    = [r \in Requests |-> "idle"]
  /\ rt    = [r \in Requests |-> NoGen]
  /\ tries = [r \in Requests |-> 0]
  /\ set   = [r \in Requests |-> NoGen]
  /\ entry = [r \in Requests |-> NoGen]
  /\ stale = [r \in Requests |-> FALSE]
  /\ ctl    = [c \in Callers |-> IF c = "main" THEN "up" ELSE "idle"]
  /\ target = [c \in Callers |-> NoGen]
  /\ fresh  = NoGen

-----------------------------------------------------------------------------
(* Runtime.close, run by a sync.Once: only the first caller has an effect. *)
Close(g, who) ==
  closedBy' = [closedBy EXCEPT ![g] = IF @ = "no" THEN who ELSE @]

(***************************************************************************)
(* A request: the acquire loop of ServeHTTP, Acquire and Release.          *)
(***************************************************************************)

\* net/http hands a request to the handler until Shutdown stops accepting.
Arrive(r) ==
  /\ ctl["main"] = "up"
  /\ pc[r] = "idle"
  /\ pc' = [pc EXCEPT ![r] = "load"]
  /\ entry' = [entry EXCEPT ![r] = current]
  /\ UNCHANGED <<serverVars, runtimeVars, controlVars, rt, tries, set, stale>>

\* A variant: the pointer is loaded once, before the loop.
LoadCurrentOnce(r) ==
  /\ Running
  /\ pc[r] = "load" /\ tries[r] < MaxTries
  /\ rt' = [rt EXCEPT ![r] = IF tries[r] = 0 THEN current ELSE @]
  /\ pc' = [pc EXCEPT ![r] = "add"]
  /\ UNCHANGED <<serverVars, runtimeVars, controlVars, tries, set, entry, stale>>

\* rt = s.current.Load()
LoadCurrent(r) ==
  /\ Running
  /\ pc[r] = "load" /\ tries[r] < MaxTries
  /\ rt' = [rt EXCEPT ![r] = current]
  /\ pc' = [pc EXCEPT ![r] = "add"]
  /\ UNCHANGED <<serverVars, runtimeVars, controlVars, tries, set, entry, stale>>

\* The loop is exhausted: 503 "gateway is not ready".
Refuse(r) ==
  /\ Running
  /\ pc[r] = "load" /\ tries[r] >= MaxTries
  /\ pc' = [pc EXCEPT ![r] = "refused"]
  /\ UNCHANGED <<serverVars, runtimeVars, controlVars, rt, tries, set, entry, stale>>

\* A variant: Acquire only checks, and takes no reference.
AcquireWithoutAdd(r) ==
  /\ Running
  /\ pc[r] = "add"
  /\ pc' = [pc EXCEPT ![r] = "check"]
  /\ UNCHANGED <<serverVars, runtimeVars, controlVars, rt, tries, set, entry, stale>>

\* Acquire: rt.refs.Add(1)
AcquireAdd(r) ==
  /\ Running
  /\ pc[r] = "add"
  /\ refs' = [refs EXCEPT ![rt[r]] = @ + 1]
  /\ pc' = [pc EXCEPT ![r] = "check"]
  /\ UNCHANGED <<serverVars, retired, closedBy, drainers, controlVars,
                 rt, tries, set, entry, stale>>

\* A variant: Acquire does not look at retired.
AcquireUnchecked(r) ==
  /\ Running
  /\ pc[r] = "check"
  /\ pc' = [pc EXCEPT ![r] = "held"]
  /\ UNCHANGED <<serverVars, runtimeVars, controlVars, rt, tries, set, entry, stale>>

\* Acquire: if rt.retired.Load()
AcquireCheck(r) ==
  /\ Running
  /\ pc[r] = "check"
  /\ pc' = [pc EXCEPT ![r] = IF retired[rt[r]] THEN "undo" ELSE "held"]
  /\ UNCHANGED <<serverVars, runtimeVars, controlVars, rt, tries, set, entry, stale>>

\* set := s.settings.Load(); the request is now in the handler chain.
LoadSettings(r) ==
  /\ Running
  /\ pc[r] = "held"
  /\ set' = [set EXCEPT ![r] = settings]
  /\ pc' = [pc EXCEPT ![r] = "serving"]
  /\ UNCHANGED <<serverVars, runtimeVars, controlVars, rt, tries, entry, stale>>

(***************************************************************************)
(* Release is two atomic operations: refs.Add(-1), and only when that gave *)
(* zero a load of retired.  A failed Acquire releases too and goes round   *)
(* the loop again; a finished request returns and its locals are gone.     *)
(***************************************************************************)
Retry(r) ==
  /\ pc' = [pc EXCEPT ![r] = "load"]
  /\ tries' = [tries EXCEPT ![r] = @ + 1]
  /\ stale' = [stale EXCEPT ![r] = FALSE]
  /\ UNCHANGED <<rt, set, entry>>

Return(r) ==
  /\ pc' = [pc EXCEPT ![r] = "idle"]
  /\ tries' = [tries EXCEPT ![r] = 0]
  /\ stale' = [stale EXCEPT ![r] = FALSE]
  /\ rt' = [rt EXCEPT ![r] = NoGen]
  /\ set' = [set EXCEPT ![r] = NoGen]
  /\ entry' = [entry EXCEPT ![r] = NoGen]

\* rt.refs.Add(-1)
ReleaseAdd(r) ==
  LET g == rt[r] IN
  /\ Running
  /\ pc[r] \in {"undo", "serving"}
  /\ refs' = [refs EXCEPT ![g] = @ - 1]
  /\ \/ /\ refs[g] = 1
        /\ pc' = [pc EXCEPT ![r] = IF @ = "undo" THEN "undoZero" ELSE "doneZero"]
        /\ stale' = [stale EXCEPT ![r] = ~retired[g]]
        /\ UNCHANGED <<rt, tries, set, entry>>
     \/ refs[g] # 1 /\ pc[r] = "undo" /\ Retry(r)
     \/ refs[g] # 1 /\ pc[r] = "serving" /\ Return(r)
  /\ UNCHANGED <<serverVars, retired, closedBy, drainers, controlVars>>

\* ... == 0 && rt.retired.Load(), and close() if so.
ReleaseCheck(r) ==
  LET g == rt[r] IN
  /\ Running
  /\ pc[r] \in {"undoZero", "doneZero"}
  /\ IF retired[g]
     THEN Close(g, IF stale[r] THEN "stale" ELSE "release")
     ELSE UNCHANGED closedBy
  /\ \/ pc[r] = "undoZero" /\ Retry(r)
     \/ pc[r] = "doneZero" /\ Return(r)
  /\ UNCHANGED <<serverVars, refs, retired, drainers, controlVars>>

\* The 503 is written and ServeHTTP returns.
RefusedReturns(r) ==
  /\ Running
  /\ pc[r] = "refused"
  /\ Return(r)
  /\ UNCHANGED <<serverVars, runtimeVars, controlVars>>

RequestStep(r) ==
  \/ LoadCurrent(r) \/ Refuse(r) \/ AcquireAdd(r) \/ AcquireCheck(r)
  \/ LoadSettings(r) \/ ReleaseAdd(r) \/ ReleaseCheck(r) \/ RefusedReturns(r)

(***************************************************************************)
(* Retire, called by Reload on the old runtime, by Reload on a runtime it  *)
(* could not publish, and by main on the way out.                          *)
(***************************************************************************)

\* rt.retired.Store(true)
RetireStore(c) ==
  /\ Running
  /\ ctl[c] = "retire"
  /\ retired' = [retired EXCEPT ![target[c]] = TRUE]
  /\ ctl' = [ctl EXCEPT ![c] = "retireCheck"]
  /\ UNCHANGED <<serverVars, refs, closedBy, drainers, requestVars, target, fresh>>

\* A variant: Retire leaves a busy runtime to its last Release alone.
RetireWithoutDrain(c) ==
  LET g == target[c] IN
  /\ Running
  /\ ctl[c] = "retireCheck"
  /\ IF refs[g] = 0 THEN Close(g, "retire") ELSE UNCHANGED closedBy
  /\ ctl' = [ctl EXCEPT ![c] = IF c = "main" THEN "stopping" ELSE "idle"]
  /\ UNCHANGED <<serverVars, refs, retired, drainers, requestVars, target, fresh>>

\* if rt.refs.Load() == 0 { close } else { go drain }; Reload then unlocks.
RetireCheck(c) ==
  LET g == target[c] IN
  /\ Running
  /\ ctl[c] = "retireCheck"
  /\ IF refs[g] = 0
     THEN Close(g, "retire") /\ UNCHANGED drainers
     ELSE drainers' = drainers \cup {<<c, g>>} /\ UNCHANGED closedBy
  /\ ctl' = [ctl EXCEPT ![c] = IF c = "main" THEN "stopping" ELSE "idle"]
  /\ UNCHANGED <<serverVars, refs, retired, requestVars, target, fresh>>

\* The goroutine's 50 ms tick finds no reference left.
DrainTick(c, g) ==
  /\ Running
  /\ <<c, g>> \in drainers
  /\ refs[g] <= 0
  /\ Close(g, "tick")
  /\ drainers' = drainers \ {<<c, g>>}
  /\ UNCHANGED <<serverVars, refs, retired, requestVars, controlVars>>

\* A variant: the deadline, like the tick, waits for the last reference.
DrainWithoutDeadline(c, g) ==
  /\ Running
  /\ <<c, g>> \in drainers
  /\ refs[g] <= 0
  /\ Close(g, "grace")
  /\ drainers' = drainers \ {<<c, g>>}
  /\ UNCHANGED <<serverVars, refs, retired, requestVars, controlVars>>

\* The grace period expires, whatever the count.
DrainDeadline(c, g) ==
  /\ Running
  /\ <<c, g>> \in drainers
  /\ Close(g, "grace")
  /\ drainers' = drainers \ {<<c, g>>}
  /\ UNCHANGED <<serverVars, refs, retired, requestVars, controlVars>>

(***************************************************************************)
(* Reload.  reloadMu admits one at a time, so one thread of control stands *)
(* for every trigger: a file change, a spec poll, SIGHUP.                  *)
(***************************************************************************)
ReloadLock ==
  /\ Running
  /\ ctl["reload"] = "idle" /\ generation < MaxGen
  /\ ctl' = [ctl EXCEPT !["reload"] = "locked"]
  /\ UNCHANGED <<serverVars, runtimeVars, requestVars, target, fresh>>

\* config.Load fails: the mutex is released and nothing else happens.
ReloadConfigFails ==
  /\ Running
  /\ ctl["reload"] = "locked"
  /\ ctl' = [ctl EXCEPT !["reload"] = "idle"]
  /\ UNCHANGED <<serverVars, runtimeVars, requestVars, target, fresh>>

\* s.generation.Add(1) happens before Build can fail.
ReloadBuild ==
  /\ Running
  /\ ctl["reload"] = "locked"
  /\ generation' = generation + 1
  /\ \/ /\ ctl' = [ctl EXCEPT !["reload"] = "idle"]
        /\ UNCHANGED <<built, fresh>>
     \/ /\ ctl' = [ctl EXCEPT !["reload"] = "built"]
        /\ built' = built \cup {generation + 1}
        /\ fresh' = generation + 1
  /\ UNCHANGED <<current, settings, runtimeVars, requestVars, target>>

\* ParseCIDRs fails on a built runtime: rt.Retire(0).
ReloadCIDRsFail ==
  /\ Running
  /\ ctl["reload"] = "built"
  /\ target' = [target EXCEPT !["reload"] = fresh]
  /\ ctl' = [ctl EXCEPT !["reload"] = "retire"]
  /\ UNCHANGED <<serverVars, runtimeVars, requestVars, fresh>>

\* A variant: Reload goes on to retire the runtime it has just published.
ReloadSwapRetiresNew ==
  /\ Running
  /\ ctl["reload"] = "built"
  /\ target' = [target EXCEPT !["reload"] = fresh]
  /\ current' = fresh
  /\ ctl' = [ctl EXCEPT !["reload"] = "settings"]
  /\ UNCHANGED <<settings, generation, built, runtimeVars, requestVars, fresh>>

\* old := s.current.Swap(rt)
ReloadSwap ==
  /\ Running
  /\ ctl["reload"] = "built"
  /\ target' = [target EXCEPT !["reload"] = current]
  /\ current' = fresh
  /\ ctl' = [ctl EXCEPT !["reload"] = "settings"]
  /\ UNCHANGED <<settings, generation, built, runtimeVars, requestVars, fresh>>

\* A variant: the settings are read at start-up only.
ReloadKeepsSettings ==
  /\ Running
  /\ ctl["reload"] = "settings"
  /\ ctl' = [ctl EXCEPT !["reload"] = "retire"]
  /\ UNCHANGED <<serverVars, runtimeVars, requestVars, target, fresh>>

\* s.settings.Store(...), then on to old.Retire(s.drainGrace)
ReloadSettings ==
  /\ Running
  /\ ctl["reload"] = "settings"
  /\ settings' = fresh
  /\ ctl' = [ctl EXCEPT !["reload"] = "retire"]
  /\ UNCHANGED <<current, generation, built, runtimeVars, requestVars, target, fresh>>

ReloadStep == ReloadConfigFails \/ ReloadBuild \/ ReloadCIDRsFail
              \/ ReloadSwap \/ ReloadSettings

(***************************************************************************)
(* main.                                                                   *)
(***************************************************************************)

\* SIGTERM or SIGINT: the listeners stop accepting.
Shutdown ==
  /\ ctl["main"] = "up"
  /\ ctl' = [ctl EXCEPT !["main"] = "draining"]
  /\ UNCHANGED <<serverVars, runtimeVars, requestVars, target, fresh>>

\* Shutdown returned, with every request answered or its time-out passed.
ShutdownReturns ==
  /\ ctl["main"] = "draining"
  /\ target' = [target EXCEPT !["main"] = current]
  /\ ctl' = [ctl EXCEPT !["main"] = "retire"]
  /\ UNCHANGED <<serverVars, runtimeVars, requestVars, fresh>>

\* The process ends: after Retire, or at once when a listener fails.
Exit ==
  /\ ctl["main"] \in {"up", "stopping"}
  /\ ctl' = [ctl EXCEPT !["main"] = "exited"]
  /\ UNCHANGED <<serverVars, runtimeVars, requestVars, target, fresh>>

Next ==
  \/ \E r \in Requests : Arrive(r) \/ RequestStep(r)
  \/ \E c \in Callers : RetireStore(c) \/ RetireCheck(c)
  \/ \E c \in Callers, g \in Gens : DrainTick(c, g) \/ DrainDeadline(c, g)
  \/ ReloadLock \/ ReloadStep
  \/ Shutdown \/ ShutdownReturns \/ Exit

Spec == Init /\ [][Next]_vars

(***************************************************************************)
(* The Go scheduler runs every goroutine that is ready, and timers fire.   *)
(* A handler may take for ever (a client that never reads its response),   *)
(* and no request, reload or signal need ever arrive.                      *)
(***************************************************************************)
Fairness ==
  /\ \A r \in Requests : WF_vars(pc[r] # "serving" /\ RequestStep(r))
  /\ \A c \in Callers : WF_vars(RetireStore(c) \/ RetireCheck(c))
  /\ \A c \in Callers, g \in Gens : WF_vars(DrainDeadline(c, g))
  /\ WF_vars(ReloadStep)

FairSpec == Spec /\ Fairness

-----------------------------------------------------------------------------
(* Properties. *)

\* The request holds a reference it obtained from a successful Acquire.
Holding(r) == pc[r] \in {"held", "serving"}

\* The requests whose increment of refs[g] has not been undone yet.
Counted(g) ==
  {r \in Requests : pc[r] \in {"check", "undo", "held", "serving"} /\ rt[r] = g}

\* main has marked the runtime it found published as retired.
ShuttingDown == ctl["main"] \in {"retireCheck", "stopping", "exited"}

\* Every variable stays in its range; refs never goes negative.
TypeOK ==
  /\ current \in Gens /\ settings \in Gens /\ generation \in Gens
  /\ built \in SUBSET Gens
  /\ refs \in [Gens -> Nat]
  /\ retired \in [Gens -> BOOLEAN]
  /\ closedBy \in [Gens -> Closers]
  /\ drainers \in SUBSET (Callers \X Gens)
  /\ pc \in [Requests -> RequestPoints]
  /\ rt \in [Requests -> Gens \cup {NoGen}]
  /\ tries \in [Requests -> 0..MaxTries]
  /\ set \in [Requests -> Gens \cup {NoGen}]
  /\ entry \in [Requests -> Gens \cup {NoGen}]
  /\ stale \in [Requests -> BOOLEAN]
  /\ ctl \in [Callers -> ControlPoints]
  /\ target \in [Callers -> Gens \cup {NoGen}]
  /\ fresh \in Gens \cup {NoGen}

\* The count Retire and Release decide on is the number of requests between
\* the add of Acquire and the add of Release, failed acquires included.
RefsCount == \A g \in Gens : refs[g] = Cardinality(Counted(g))

\* A close decided on a zero count read after the runtime was retired (by
\* Retire, by the drain tick, or by the last Release) never pulls the runtime
\* from under a request that acquired it.
DrainedCloseIsSafe ==
  \A r \in Requests :
    Holding(r) => closedBy[rt[r]] \notin {"retire", "tick", "release"}

\* What the README promises: "In-flight requests hold a reference to the
\* runtime they started on and finish against it.  The retired runtime closes
\* once they drain, or after the grace period."
InFlightRequestsFinish ==
  \A r \in Requests : Holding(r) => closedBy[rt[r]] \in {"no", "grace"}

\* The published runtime is neither retired nor closed, except by shutdown:
\* the swap comes before the old runtime is retired, a failed reload retires
\* only what it never published.
PublishedIsLive ==
  \/ ShuttingDown /\ target["main"] = current
  \/ ~retired[current] /\ closedBy[current] = "no"

\* No runtime that was built is forgotten: it is published, closed, in the
\* hands of Reload or main, or watched by a drain goroutine.
NothingLeaks ==
  \A g \in built :
    \/ g = current
    \/ closedBy[g] # "no"
    \/ g = fresh /\ ctl["reload"] = "built"
    \/ \E c \in Callers : \/ <<c, g>> \in drainers
                          \/ g = target[c] /\ ctl[c] \in {"settings", "retire", "retireCheck"}

\* "gateway is not ready" is answered to a request only if MaxTries newer
\* generations were published while it was arriving, or the process is
\* shutting down: a turn of the loop never fails twice on one runtime.
RefusedOnlyByReloads ==
  \A r \in Requests :
    pc[r] = "refused" => ShuttingDown \/ current >= entry[r] + MaxTries

\* The runtime and the settings are published together: outside the window
\* between the swap and the store they are of one generation, whatever
\* reloads failed.
SettingsFollowRuntime == ctl["reload"] # "settings" => settings = current

\* Acquire never succeeds on a runtime whose resources are already closed.
AcquireFindsOpen ==
  [][\A r \in Requests :
       pc[r] = "check" /\ pc'[r] = "held" => closedBy[rt[r]] = "no"]_vars

\* What this module means in the terms of Serving: a request is there from its arrival
\* to its last use of the runtime, and is served while it holds it.
Since  == [r \in Requests |-> IF pc[r] \in {"idle", "doneZero"} THEN NoGen ELSE entry[r]]
By     == [r \in Requests |-> IF Holding(r) THEN rt[r] ELSE NoGen]
Closed == {g \in Gens : closedBy[g] # "no"}
Cut    == {g \in Gens : closedBy[g] \in {"grace", "stale"}}

Promise == INSTANCE Serving WITH
  published <- current, since <- Since, by <- By, closed <- Closed, cut <- Cut, stopping <- ShuttingDown

\* The counters, flags and goroutines keep the promise: a request is served by one
\* runtime, open when it got it and not older than the one in force when it arrived; it is
\* turned away only after as many reloads as the loop has turns, or in a shutdown; and a
\* runtime is closed once, never while it is published, and under a request only by the
\* grace period or by the stale release.
ServesAsPromised == Promise!Spec

\* A retired runtime is closed in the end, however long its requests take,
\* unless the process exits first.
RetiredIsClosed ==
  \A g \in Gens : retired[g] ~> (closedBy[g] # "no" \/ ~Running)

-----------------------------------------------------------------------------
(* The inductive invariant behind the safety properties, in layers. *)

\* Which control points each thread has, and what its locals hold there.
ControlInv ==
  /\ ctl["reload"] \in {"idle", "locked", "built", "settings", "retire", "retireCheck"}
  /\ ctl["main"] \in {"up", "draining", "retire", "retireCheck", "stopping", "exited"}
  /\ ctl["reload"] = "locked" => generation < MaxGen
  /\ ctl["reload"] \in {"built", "settings"} => fresh \in Gens
  /\ \A c \in Callers :
       ctl[c] \in {"settings", "retire", "retireCheck"} => target[c] \in Gens
  /\ \A r \in Requests :
       /\ pc[r] \notin {"idle", "load", "refused"} => rt[r] \in Gens
       /\ pc[r] \notin {"idle", "refused"} => entry[r] \in Gens
       /\ pc[r] \in {"add", "check", "undo", "undoZero"} => tries[r] < MaxTries

NobodyHolds(g) == \A r \in Requests : Holding(r) => rt[r] # g

\* What is known of a runtime once it is retired: nobody acquires it any more,
\* so a zero count read from then on stays true of its holders.
RetireInv ==
  /\ \A g \in Gens : closedBy[g] # "no" => retired[g]
  /\ \A g \in Gens : closedBy[g] \in {"retire", "tick", "release"} => NobodyHolds(g)
  /\ \A c \in Callers, g \in Gens : <<c, g>> \in drainers => retired[g]
  /\ \A c \in Callers : ctl[c] = "retireCheck" => retired[target[c]]
  /\ \A r \in Requests :
       /\ pc[r] \in {"undo", "undoZero"} => retired[rt[r]]
       /\ pc[r] \in {"undoZero", "doneZero"} /\ ~stale[r] =>
            retired[rt[r]] /\ NobodyHolds(rt[r])

\* Generations are numbered upwards, and Reload retires only what is no
\* longer, or not yet, published.
PublishInv ==
  /\ current \in built /\ current <= generation
  /\ \A g \in built : g <= generation
  /\ \A g \in Gens : retired[g] => g \in built
  /\ ctl["reload"] = "built" =>
       fresh = generation /\ fresh \in built /\ current < fresh /\ ~retired[fresh]
  /\ ctl["reload"] = "settings" => fresh = current
  /\ ctl["reload"] \in {"settings", "retire", "retireCheck"} =>
       target["reload"] # current /\ target["reload"] \in built
  /\ ctl["main"] \in {"retire", "retireCheck"} =>
       target["main"] \in built /\ target["main"] <= current
  /\ retired[current] => ShuttingDown /\ target["main"] = current

\* Every turn of the acquire loop that failed was lost to a newer generation.
LoopInv ==
  \A r \in Requests :
    /\ pc[r] = "load" => ShuttingDown \/ entry[r] + tries[r] <= current
    /\ pc[r] \in {"add", "check", "undo", "undoZero"} =>
         rt[r] <= current /\ (ShuttingDown \/ entry[r] + tries[r] <= rt[r])
=============================================================================
