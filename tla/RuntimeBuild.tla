---------------------------- MODULE RuntimeBuild ----------------------------
(***************************************************************************)
(* runtime.Build and what it acquires on its way (internal/runtime/build.go*)
(* with Registry.Build of internal/chain/chain.go), around the route table *)
(* and the router.  Every step that returns an error may fail; the         *)
(* deferred function then releases what was built, unless the runtime has  *)
(* been handed over.                                                       *)
(***************************************************************************)
EXTENDS RouteTable

CONSTANTS
  Instances,   \* the configured middleware
  Backends     \* the configured backends

\* Names are unique in their own section of the configuration only: they stand for
\* objects of different kinds here.
ASSUME ResourcesApart ==
  /\ Instances \cap Backends = {}
  /\ "stores" \notin Instances \cup Backends

VARIABLES
  step,       \* where Build is, or what became of the runtime
  life,       \* what became of each resource
  out,        \* the instances in Registry.Build
  instances,  \* Build's variables: what the deferred function knows of
  backends,
  stores,
  checking    \* whether health checks run, under the runtime's context

buildVars == <<step, life, out, instances, backends, stores, checking>>
allVars == <<vars, buildVars>>

Resources == Instances \cup Backends \cup {"stores"}

BuildInit ==
  /\ Init
  /\ step = "stores"
  /\ life = [r \in Resources |-> "none"]
  /\ out = {} /\ instances = {} /\ backends = {} /\ stores = {}
  /\ checking = FALSE

-----------------------------------------------------------------------------
Open(r) == life' = [life EXCEPT ![r] = "open"]
Close(R) ==
  life' = [r \in Resources |->
             IF r \notin R THEN life[r]
             ELSE IF life[r] = "closed" THEN "closed twice" ELSE "closed"]

\* A step that acquires nothing succeeds, or returns its error.
Passes(from, to) ==
  /\ step = from
  /\ step' \in {to, "cleanup"}
  /\ UNCHANGED <<vars, life, out, instances, backends, stores, checking>>

\* store.NewRegistry.  The ping that follows only warns.
OpenStores ==
  /\ step = "stores"
  /\ \/ Open("stores") /\ stores' = {"stores"} /\ step' = "guard"
     \/ UNCHANGED <<life, stores>> /\ step' = "cleanup"
  /\ UNCHANGED <<vars, out, instances, backends, checking>>

\* scanguard.New, over a store it does not own.
BuildGuard == Passes("guard", "instances")

\* Registry.Build: one constructor succeeds.
Construct ==
  /\ step = "instances"
  /\ \E i \in Instances \ out : Open(i) /\ out' = out \cup {i}
  /\ UNCHANGED <<vars, step, instances, backends, stores, checking>>

\* One fails, or its type is unknown: CloseAll, and no map is returned.
ConstructFails ==
  /\ step = "instances" /\ out # Instances
  /\ Close(out)
  /\ step' = "cleanup"
  /\ UNCHANGED <<vars, out, instances, backends, stores, checking>>

InstancesBuilt ==
  /\ step = "instances" /\ out = Instances
  /\ instances' = out
  /\ step' = "specs"
  /\ UNCHANGED <<vars, life, out, backends, stores, checking>>

\* The specs of all backends are fetched and loaded.
FetchSpecs == Passes("specs", "table")

\* routetable.Build.
BuildTable ==
  /\ step = "table"
  /\ Select
  /\ step' = IF phase' = "refused" THEN "cleanup" ELSE "backends"
  /\ UNCHANGED <<life, out, instances, backends, stores, checking>>

\* proxy.NewBackend for each of them.
NewBackend ==
  /\ step = "backends"
  /\ \/ \E b \in Backends \ backends :
          Open(b) /\ backends' = backends \cup {b} /\ UNCHANGED step
     \/ backends # Backends /\ step' = "cleanup" /\ UNCHANGED <<life, backends>>
     \/ backends = Backends /\ step' = "routes" /\ UNCHANGED <<life, backends>>
  /\ UNCHANGED <<vars, out, instances, stores, checking>>

\* The routes and the pre-flight routes.
BindRoutes ==
  /\ step = "routes"
  /\ Bind \/ BindEnds \/ AddPreflight \/ PreflightEnds
  /\ step' = IF phase' = "refused" THEN "cleanup" ELSE IF phase' = "serving" THEN "health" ELSE step
  /\ UNCHANGED <<life, out, instances, backends, stores, checking>>

\* Assemble fails: a middleware cannot be bound to a route.
AssembleFails ==
  /\ step = "routes" /\ todo # {}
  /\ step' = "cleanup"
  /\ UNCHANGED <<vars, life, out, instances, backends, stores, checking>>

\* Health checks start when nothing can fail any more, and the runtime is handed over.
Commit ==
  /\ step = "health"
  /\ checking' = TRUE
  /\ step' = "live"
  /\ UNCHANGED <<vars, life, out, instances, backends, stores>>

\* A variant: the backends' transports are forgotten.
CleanupForgetsBackends ==
  /\ step = "cleanup"
  /\ Close(instances \cup stores)
  /\ step' = "failed"
  /\ UNCHANGED <<vars, out, instances, backends, stores, checking>>

\* The deferred function: cancelRuntime, CloseAll, the backends, the stores.
Cleanup ==
  /\ step = "cleanup"
  /\ Close(instances \cup backends \cup stores)
  /\ step' = "failed"
  /\ UNCHANGED <<vars, out, instances, backends, stores, checking>>

\* Runtime.close, once the runtime is retired and drained.
CloseRuntime ==
  /\ step = "live"
  /\ checking' = FALSE
  /\ Close(instances \cup backends \cup stores)
  /\ step' = "closed"
  /\ UNCHANGED <<vars, out, instances, backends, stores>>

BuildNext ==
  \/ OpenStores \/ BuildGuard \/ Construct \/ ConstructFails \/ InstancesBuilt
  \/ FetchSpecs \/ BuildTable \/ NewBackend \/ BindRoutes \/ AssembleFails
  \/ Commit \/ Cleanup \/ CloseRuntime

BuildSpec == BuildInit /\ [][BuildNext]_allVars

-----------------------------------------------------------------------------
(* Properties. *)

\* Nothing leaks (the comment at the top of Build: "a failing reload leaks a Redis client
\* and a JWKS poller per attempt"): wherever a build fails, and when a runtime is closed,
\* all that was acquired has been released, and nothing twice, although Registry.Build
\* closes its own part of a failed build and Build the rest; a live runtime has all it
\* needs.
NoBuildLeaks ==
  /\ \A r \in Resources : life[r] # "closed twice"
  /\ step \in {"failed", "closed"} => (\A r \in Resources : life[r] # "open") /\ ~checking
  /\ step = "live" => (\A r \in Resources : life[r] = "open") /\ phase = "serving"
=============================================================================
