------------------------------ MODULE Serving -------------------------------
(***************************************************************************)
(* What the server promises of requests and runtimes, with no counters,    *)
(* flags or goroutines: the specification RuntimeLifecycle implements.     *)
(* A runtime is named by its generation.                                   *)
(***************************************************************************)
EXTENDS Naturals

CONSTANTS
  Requests,
  MaxGen,     \* bound on generations
  MaxTries    \* the newer generations it takes to turn a request away

VARIABLES
  published,  \* the runtime for new requests
  since,      \* the runtime published when a request arrived; None: it is not here
  by,         \* the runtime that serves it; None: none does yet
  closed,     \* the runtimes that are closed
  cut,        \* those that were closed without waiting for their requests
  stopping    \* the process has begun to stop

None == 0

vars == <<published, since, by, closed, cut, stopping>>

Init ==
  /\ published = 1 /\ closed = {} /\ cut = {} /\ stopping = FALSE
  /\ since = [r \in Requests |-> None]
  /\ by = [r \in Requests |-> None]

Arrive(r) ==
  /\ since[r] = None
  /\ since' = [since EXCEPT ![r] = published]
  /\ UNCHANGED <<published, by, closed, cut, stopping>>

\* A request is served by one runtime, open, and published at some time since it came.
Begin(r) ==
  /\ since[r] # None /\ by[r] = None
  /\ \E g \in since[r]..published : g \notin closed /\ by' = [by EXCEPT ![r] = g]
  /\ UNCHANGED <<published, since, closed, cut, stopping>>

\* It leaves when it was served, or was overtaken by MaxTries generations.
Leave(r) ==
  /\ since[r] # None
  /\ by[r] # None \/ stopping \/ published >= since[r] + MaxTries
  /\ since' = [since EXCEPT ![r] = None]
  /\ by' = [by EXCEPT ![r] = None]
  /\ UNCHANGED <<published, closed, cut, stopping>>

\* Generations are published upwards, and never one that is closed.
Publish(g) ==
  /\ g > published /\ g \notin closed
  /\ published' = g
  /\ UNCHANGED <<since, by, closed, cut, stopping>>

\* A runtime is closed once, not while it is published, and not under a request unless it is cut.
Close(g) ==
  /\ g \notin closed
  /\ g # published \/ stopping
  /\ closed' = closed \cup {g}
  /\ \/ cut' = cut \cup {g}
     \/ cut' = cut /\ \A r \in Requests : by[r] # g
  /\ UNCHANGED <<published, since, by, stopping>>

Stop ==
  /\ stopping' = TRUE
  /\ UNCHANGED <<published, since, by, closed, cut>>

Next ==
  \/ \E r \in Requests : Arrive(r) \/ Begin(r) \/ Leave(r)
  \/ \E g \in 1..MaxGen : Publish(g) \/ Close(g)
  \/ Stop

Spec == Init /\ [][Next]_vars
=============================================================================
