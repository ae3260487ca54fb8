# A TLA+ verification project for Nina

Nina is an API gateway written in Go.  It merges the OpenAPI documents of its
backends into one route table, runs each request through a chain of middleware
and forwards it to an upstream host.  Its configuration and the documents can
change while it runs: a reload builds a whole new runtime and swaps it in.

This directory holds TLA+ models of the parts whose correctness depends on the
order of events, TLC configurations that check them on small instances, and
TLAPS proofs of the central invariants for every size of instance.

## The system

| Component | State | Operations | Meets |
|---|---|---|---|
| Server and Runtime (`runtime/server.go`, `runtime/build.go`) | pointer to the published runtime, settings, generation number; per runtime a reference count, a retired flag, a close-once | `ServeHTTP` (acquire, serve, release), `Reload`, `Retire`, `close` | requests, reload triggers, shutdown, drain goroutines |
| Shutdown (`cmd/nina/main.go`) | none of its own | stop the listeners, wait, retire the published runtime | the server |
| Reload triggers (`runtime/watch.go`, SIGHUP) | file watches and one poller per polled backend | debounce, poll, compare hashes, `Reload` | server, fetcher |
| Specification fetcher (`specsrc/`) | HTTP validators per URL, copies on disk per backend and URL | `Fetch` with a fall-back policy | pollers and `Build`, which run concurrently |
| Circuit breaker (`proxy/breaker.go`) | state, window counters, time of the trip, probing flag | `Allow`, the `done` function it returns, `State` | every proxied call; the status page |
| Pool and health checks (`proxy/pool.go`) | per host healthy, in-flight count, streaks; round-robin counter | `Pick`, one checking goroutine per host | proxied calls; the gauge in `build.go` |
| Proxy (`proxy/proxy.go`) | per request: attempt, last host | `Do`: retry loop over pool and breaker | breaker, pool, client's context |
| Scan guard (`scanguard/`) | strikes, bans and offences per client | `Blocked`, `Miss`, `Unban`; memory and Redis stores | requests; admin; survives reloads |
| Rate limiter (`store/`, `mw/ratelimit`) | two counters per key, in memory or Redis | `Allow` on a sliding window, fail-open | requests |
| Router, route table, pre-flight routes (`router/`, `routetable/`, `build.go`) | immutable once built | match; build with overrides, renames and conflicts | `Build`, requests |
| OpenAPI merge (`oas/`) | immutable once built | parse, rename, merge | `Build` |
| Middleware and chain (`chain/`, `mw/`, `reqctx/`) | instances shared by routes; the JWT keys | construct, close, refresh the keys; one decision per request | `Build`, requests, the issuer |
| Admin, metrics, configuration, command line | views and parsing | | |

What is hard about it: requests pin a runtime with lock-free counters while
reloads retire it; a reload can fail at any of a dozen stages; outcomes of
upstream calls arrive in breaker states other than the one they were admitted
in; a poller and a reload fetch the same document at once; and the process can
die between the steps of a cache write.

What makes each part correct:

- *Runtime*: no request is served by a closed runtime; every retired runtime is
  closed; a failed reload changes nothing a request can see; a request is
  refused only when it must be.
- *Breaker*: it refuses for as long as it says, lets one probe through, and
  recovers when the upstream does.
- *Fetcher*: what it returns is a whole document, up to the limit on what is read, and
  the current one unless it says otherwise or the disk failed; a lost copy heals by
  itself.
- *Pool and proxy*: in-flight counts are exact, a request that may not be
  replayed is sent once, every admitted call reports exactly once.
- *Scan guard and limiter*: a banned client stays banned for the whole ban
  across reloads, strikes outside the window do not count, of what is counted no stretch of
  time lets through more than the limit and the stretch's share of it.
- *Router and route table*: the most specific route wins, whatever the order of
  registration; document, router and CORS agree on what is served.
- *Build*: whatever a failed build acquired is released, once.
- *Merge*: the published document means what the specs meant.
- *Reload triggers*: what was saved or released last is in force in the end, and
  nothing older comes back; the exceptions the code makes are listed with the runs.

PROJECT.json lists the hazards with their lines and the properties that cover
them.

## The modules

`RuntimeLifecycle` models `Server` and `Runtime`.  A runtime is its generation
number.  `current`, `settings` and `generation` are the fields of `Server`;
`refs`, `retired` and `closedBy` those of each `Runtime`, where `closedBy` also
remembers which call of `close` won the `sync.Once`.  Each atomic operation of
the Go code is one action: a request goes `load` → `add` → `check` → `held` →
`serving` and back through `ReleaseAdd` and, when the count reached zero,
`ReleaseCheck`; a failed acquire goes through `undo` and round the loop again.
`Reload` is sequential because of `reloadMu`, so one thread of control stands
for all triggers; it may fail when the configuration is loaded, in `Build`
(after the generation was numbered) or on the CIDRs.  `Retire` is two steps and
is called by the reload and by `main`; each call may leave a drain goroutine.
The process may exit from `up` when a listener fails, or after shutdown.  What
`Build` assembles, and what the handler does between acquire and release, are
left out: they do not touch this state.  `entry` and `stale` are history
variables.

`Serving` is what the server promises of requests and runtimes, without counters, flags
or goroutines: a request arrives, begins on an open runtime that was published at some
time since, and leaves; generations are published upwards; a runtime is closed once, not
while it is published, and not under a request unless it is *cut*.  `RuntimeLifecycle`
implements it (`Promise`, an instance under the mapping `Since`, `By`, `Closed`, `Cut`):
a request begins at the check of `retired` in `Acquire` and leaves at the decrement in
`Release` or with the 503; `cut` are the runtimes closed by the grace period or by the
stale release below.

`Breaker` models `breaker.go`.  Every method body holds `mu`, so it is one
action; a call between `Allow` and `done` is an entry of `call` that names the
function `done` is.  The ratio is a fraction; the clock is `age`, the ticks
since the latest trip, counted up to `OpenFor`.  `interrupted` is a history
variable: an ordinary call tripped the breaker while a probe was out.

`Proxy` models `Backend.Do` with `pool.go`, and composes with `Breaker`, which it
instantiates over its own variables: a request's `Allow` and `done` are the
breaker's actions.  Each access to shared state (a health flag, an in-flight
counter, the breaker) and each wait (back-off, round trip, the body in the
caller's hands) is a step; the context may end at any of them.  A request is
abstracted to whether its method may be replayed and whether its body is absent,
small enough to buffer or too large; `body` says what the next attempt would
send.  `Pick` reads all flags at once, and round robin and random both come down
to any candidate; `least_conn` is exact.  Paths, headers and latencies are left
out.  `sent` is a history variable.

`RateLimiter` models the two limiters of `store.go` for one key.  A request reads
the clock in `Arrive` and reaches the counters later, in one step (the mutex, or
the script); `MaxDelay` bounds the time between, which also stands for a replica
whose clock is behind.  The estimate is compared exactly, as integers, where the
code uses floating point.  A bucket in Redis remembers when its key expires.
Redis may be unreachable, and may run a script whose answer is lost.  `counted` is a
history variable: a record of each request that was counted, with the time it read,
its window, its number there, and whether it was *late*: counted in a window that
began after it read the clock (memory), or in a bucket whose successor is in use
(Redis).  Eviction from the LRU cache and the numbers reported to the client are left
out.

`SpecFetcher` models `specsrc.go` for sources with one URL.  A document is its
version and an ETag is the version it names; the upstream may return to an
earlier version.  Files have inodes, because two writers may hold the same
temporary file open: `OpenTmp` truncates, `WriteTmp` writes and may leave bytes
of another writer behind, `Rename` moves whatever is at the temporary path.
`WriteFails` and `LoseCopy` are the disk's doing, `Crash` loses memory and
keeps the disk.  A failing rename is one of the ways of `WriteFails`, and a `Fetcher`
without a `CacheDir` is one whose every write fails.  Of a document longer than 64 MiB
(`Large`) `io.ReadAll` returns the first 64 MiB and no error, so what is returned,
vouched for and cached is `Received`.  `owed` and `spoilt` are history variables.

`ScanGuard` models the guard and its two stores for one client.  The memory store
reads the clock before it takes its lock, so a request may reach the store up to
`MaxDelay` ticks after the time it counts by; a Redis script is one step with
Redis' own clock, and `Unban` there is two commands that may be separated, or the
second lost.  An entry whose time has passed is treated as absent by every
operation, so its removal is no action.  `passed`, a record of each miss that was let
go, and `torn` are history variables.

`Router`, `RouteTable` and `RuntimeBuild` extend one another and follow a
configuration to the answers.  `Router` has the operators: a template is its
segments and whether it ends in a slash, the tree is the set of its handlers, and
`Walk` is the search with its backtrack, as a recursive function over the nodes.  `RouteTable` selects, places
and checks the operations, binds them in any order, adds pre-flight routes;
`RuntimeBuild` puts the steps of `Build` around it, every one of which may fail,
with the deferred clean-up and the runtime's own close.

`Merge` models how components get from the specs into the published document: a
queue of imports that grows while it is drained, names made free by numbering,
then groups of identical components collapsed under a bare name.  `merger` is the
struct of that name, `stage` where `run` is, `built` the operations with their new
references, `groups` and `aliases` the locals of `dedupe`.  A component is a kind and
its references in order.  A name is a sequence of letters, so that two names are one
text exactly when they are one sequence: the namespace, the capitalised name and the
number that `strconv.Itoa` writes may be told apart or not, as in the code.  `Hash` is
the fingerprint with its cut at cycles: a recursive function of the stack of components
that `canonical` keeps, which ends because a stack that returns to a component is cut.
What the properties compare with is said of the specs alone: `Needed` is the least set
of components that the operations refer to and that is closed under references, and
`Alike` relates a component of a spec and a published one as long as no number of
references tells them apart.

`ReloadTriggers` has the three goroutines that reload (file watcher, poller,
SIGHUP) with `Server.Reload` as far as it orders them: mutex, load, build,
publish.  Files and documents are numbered; the file watched is the configuration's,
local spec files being watched in the same way.  The poller and `Build` fetch the same
document, and may do so at once, with one validator (`valid`) and one copy on disk
(`copy`) between them.  A fetch is two steps: the answer (`NotModified`, `NoCopy`,
`Answer`, `NoAnswer`), which stores the validator, and the write of the copy, which may
come after that of a newer document or fail (`WriteCopy`, `WriteFails`); what
`SpecFetcher` takes apart further, the request from its answer and the write from the
rename, is one step here.  Either the document received or the copy goes to
`Returns`: to the runtime that is built, or to the comparison of `pollOne`.  Events can be
lost when the watcher's queue overflows, and in the initial states a save may have fallen
between the load of the configuration and the start of the watch.  `missed` and
`behind` are history variables: the last save was not noticed or its reload failed,
and the document of the runtime being built is a copy that was older than the
published one.  The directories, and the pollers, are those of the first configuration.

`MC...` modules instantiate them for TLC, `...Proofs` modules hold the theorems.
Definitions marked "A variant" are plausible mistakes in the code; replacing the
definition after them by the variant makes TLC report the property that
PROJECT.json pairs them with, which shows that the property can fail.

## The runs

| Run | Instance | Shows |
|---|---|---|
| `LifecycleSafety` | 2 requests, 2 generations, 2 tries | a close decided on a zero count read after retirement never hits a holder; the published runtime is live; no runtime is forgotten; settings follow the runtime; all of it implements `Serving` (refinement) |
| `LifecycleLiveness` | 1 request, 3 generations, 2 tries, fair | a retired runtime is closed even if a handler hangs; a request is refused only after as many newer generations as the loop has turns, or in a shutdown |
| `LifecycleStaleRelease` | violation | `Release` closes a runtime under a request that acquired it between its decrement and its load of `retired` |
| `BreakerCalls` | 4 calls, 2 in the window, pause of 2, fair | never wedged; one probe, and a full pause, unless a straggler tripped the breaker under a probe; recovery |
| `FetcherDisk` | 1 thread, 1 source, 3 documents, one of them over the limit, unreliable disk | no torn copy is returned, and nothing is cut but at the limit; a document not marked stale is the current one unless its copy was spoilt; validators vouch for the copy; a 304 without a copy does not repeat |
| `FetcherOverlap` | violation | two concurrent fetches of one source cache a mixture |
| `ProxyRetries` | 2 requests of 3 kinds, 2 hosts with `least_conn`, 1 retry | every admitted call reports once, however its request ends; in-flight counters are exact; nothing is replayed that may not be, or from a body already read; no context is left behind; the probe a half-open breaker waits for is a request on its way to report |
| `LimiterWindows` | both stores, 2 requests, a limit of 3 in windows of 3 ticks, 8 ticks | of what is counted, any stretch of d ticks lets the limit and its share for d through, or up to twice the limit if it holds a request that was overtaken across a boundary; a block has its reason in the latest two windows |
| `GuardBans` | both stores, 2 requests, a threshold of 3 in windows of 2 ticks, bans of 1 to 3 ticks | behind every ban stand its strikes; each ban is twice the last, up to the cap; a scanner is caught however the windows fall |
| `BuildServes` | every selection from 6 overlapping operations of 2 backends, 6 kinds of override, prefixes, CORS with and without `allow_methods`; every step failing | each request gets the answer a reader of the configuration expects, and its segments are in their places in the URL sent upstream; document and router agree, and CORS where it derives its methods; refusals have a reason; nothing leaks or is closed twice |
| `MergeKeeps` | 3 specs of up to 3 components, two groups that want one name, every pattern of references, cycles included, every order of the Go maps | exactly what is needed is imported; from every operation, the published components mean what those of its backend meant; a bare name is uncontested |
| `ReloadTriggers` | 3 goroutines, 2 saves of 3 contents, 2 documents, fair | nothing older is published, but for a copy that was behind; the last good save and the document are in force in the end, unless the validator vouches for another copy; reloading ends |

Some disagreements were met on the way that have no run of their own:

- A request pins its runtime and loads the settings afterwards, so one that pinned
  the old runtime may serve with the new settings, although the comment in `Reload`
  says it "keeps the previous settings to completion".
- An ordinary call that trips the breaker while a probe is out leads to a second
  probe; `OneProbeUnlessInterrupted` and `StaysOpenFor` name the exception.
- A failed cache write is ignored after the validators were stored.  The comment says
  "we simply lose the stale-copy safety net until it succeeds", but a later 304 brings
  the older copy as current (`FreshUnlessSpoilt`), a reload then publishes it over the
  newer document (`PublishesInOrder`), and it is served for good: every poll is answered
  304, and the copy is what the runtime has (`SpecIsFollowed`).  It takes one write
  that failed in a poll; the write of a fetch that was overtaken does it too.  Each of
  the three properties names the exception, and without it TLC finds the behaviour.
- A document over 64 MiB is cut at the limit without an error, returned as fresh and
  cached (`ResultIsWhole` and `Received`).
- Two backends with one URL share validators but not copies.  In one `Build` the first
  stores the validators and the second is answered 304 without a copy, which fails the
  build; it drops the validators "so the next attempt is unconditional", but the next
  build fetches for the first backend again before.
- A path parameter is escaped by `substituteParams` and the result assigned to the
  `Path` of the upstream URL, without a `RawPath`, so it is escaped again: `x%2Fy` leaves
  the gateway as `x%252Fy`.  The comment's aim, that "a value containing a slash must not
  create a new path segment", is kept; the value is not (`AsksForTheResource`).
- A CORS middleware with `allow_methods` advertises that list on every route, although
  the comment on `ForRoute` says that the methods are derived "from the route table
  rather than from configuration, so a preflight answer can never advertise a method the
  gateway does not actually serve" (`AdvertisedIsServed`).
- A gateway path with parameters that the upstream path lacks is accepted: `checkParams`
  looks one way only.  The comments say "a gateway path must declare exactly the
  parameters its upstream path does" and "the same set of template parameters"
  (`routetable.go:188`, `360`).  The proxy can rebuild the upstream URL all the same;
  `RefusedForAReason` counts only what is missing.
- A reference that points into a component is not rewritten when that component is
  collapsed; `MeaningIsKept` names the exception.  It is left dangling, unless the name
  is taken again, as the bare name of another group: then it points into a component of
  another meaning (one of the inputs of `MCMerge`, `Reuse`, gets there).  Which of
  "user" and "User" gets the bare name depends on the order of a Go map.  The test
  `TestMergeNoDanglingRefs` calls it "the invariant that matters most: every $ref in the
  published document must resolve inside it"; its fixtures have no such reference.
- The poller of a backend that a reload removed, or moved to another URL, reloads
  at every tick; `ReloadsEnd` names the exception.  The pollers' sources leave
  `InsecureSkipVerify` out, so every poll of a backend that needs it fails.
- A reload of a good file that fails on a fetch is not tried again by the watcher;
  `SavedIsLoaded` names the exception, and the other one: a save that no event tells of,
  because the queue overflowed or the watch had not begun.
- Two CORS paths of one shape and different spelling are refused with an error
  about a route that nobody configured.
- `Unban` in Redis can clear the strikes of a ban set between its two commands
  (`torn` in `ScanGuard`).

Bounds.  Two requests and two generations are enough for every race between an
acquire, a release and a retirement of one runtime: each involves one runtime
and at most two holders, and the proofs below show that no larger instance
differs.  Two tries with three generations let the acquire loop be exhausted
both by reloads and by a shutdown.  Four calls with a window of two allow a
probe, two stragglers and a further call at once.  Three versions let the
upstream serve a document, replace it and return to it while a third is cached.
Two requests, two hosts and one retry let a retry change hosts, meet the other
request's effect on the breaker and run out; requests and hosts are symmetric.
Eight ticks are more than two windows, so a window is rolled, and dropped after a
pause; two ticks of delay let a request be overtaken across a boundary.
For the guard, six ticks hold two windows and a ban with its escalation, and a delay
of two carries a request across a window.  The operations of `BuildServes` overlap in
shape, parameter names, trailing slashes and methods, and paths include an escaped
slash and an empty segment; three components and a third spec let a collision be
numbered, a cycle be reached through another component, and a group disagree.  Two
saves let one fall into the debounce or the reload of the other; with one new document,
a validator and a copy that may be of either or missing, and two fetches at once, a copy
can be behind both the validator and the published runtime.
Deadlock is not checked for `RuntimeLifecycle`, whose process exits, and for
`RuntimeBuild` and `Merge`, which end.

Fairness.  The Go scheduler runs every ready goroutine, and timers fire: weak
fairness on each step of a request, of `Retire`, of `Reload` and of the drain
deadline.  No fairness is assumed of a handler, of clients, of signals, or of
the drain tick.  For the breaker, time passes and every call ends, because each
carries a timeout; that requests keep coming, and that from some time on none
fails, are premises of `Recovers`.  For the triggers, timers and tickers fire and
goroutines run (weak fairness), and a waiter gets `reloadMu` in the end (strong
fairness): Go's mutex hands itself to a waiter of more than a millisecond.  The
world owes nothing; that it settles, and that fetches and builds succeed from then
on, is the premise `Settled`, which takes a failure with the effect of an answer for
one.

## The proofs

Type correctness is part of the inductive invariants, and is checked by a run or proved
where a proof needs it; the runs' properties are about what can go wrong.

`RuntimeLifecycleProofs` proves, for any finite set of requests and any bounds,
type correctness, `RefsCount`, `DrainedCloseIsSafe`, `PublishedIsLive`,
`SettingsFollowRuntime`, `RefusedOnlyByReloads`, the action property
`AcquireFindsOpen`, and that `RuntimeLifecycle` implements `Serving`.  None is inductive by itself; the invariant
comes in layers.  `ControlInv` fixes which locals are valid at which point, and
with `TypeOK` and `RefsCount` is inductive: `RefsCount` needs the cardinality of
the set of counted requests to change by one with each add.  `RetireInv` says
what is known once a runtime is retired: whoever is between a zero count and its
close read that zero when nobody held the runtime, and since `Acquire` checks
`retired` after its increment nobody can hold it later.  The exception, a
`Release` whose zero is older than the retirement, is exactly what `stale`
marks and `LifecycleStaleRelease` exhibits.  `PublishInv` orders the
generations, so that the reload never retires what it has published.
`LoopInv` adds what a turn of the acquire loop has learnt: each failed turn met a
generation newer than the last, unless the process is shutting down.  The refinement
(`KeepsThePromise`) takes all layers and one more, `Came`: no runtime a request has seen
is older than the one in force when it arrived.  Every step then maps to a step of
`Serving` or to a stutter; the closes are handled at one place (`ClosesAsPromised`), and
only the first close of a runtime shows.

`BreakerProofs` proves `WindowBounded`, `NeverWedged`,
`OneProbeUnlessInterrupted` and `StaysOpenFor` for any number of calls, any
positive `MinRequests` and `OpenFor` and any positive ratio.  The strengthening
is `ProbingInv` (the flag is set only while a probe is out) and `ProbeInv`.

`ProxyProofs` proves, for any number of requests, hosts and attempts,
`CallsAreInDo`, `ProbeIsCarried`, `InflightIsExact` and `RetriesAreSafe`.  There are four
inductive invariants: `CallInv`, which adds types; `ProbingInv`, that the breaker's flag
is up only while a call that is a probe is out, which with `CallInv` puts the probe in
`Do`;
`FlightInv`, which adds that a request past `Pick` has a host, so that the
cardinality of each host's set of round trips moves with its counter; and
`LoopInv`, which ties the number of attempts to what was sent and says that a
second attempt is only reached by a request that may be replayed, whose body
therefore is not a stream.

`ReloadTriggersProofs` proves type correctness with the mutual exclusion of builders,
and the action property `PublishesInOrder`, for any contents and bounds, either policy,
and whatever becomes of the fetches and of the copy.  The inductive invariant adds
`OrderInv`: the runtime being built has a file no older than the published one and no
newer than the file on disk; an answer that a build has received is no older than the
published document, because the upstream had published that before; and what was
built from a copy is in order as well, or was marked `behind` when it was read.  It needs
the mutex: only its holder builds, so nothing is published between the answer, or
the reading of the copy, and the swap.

`ScanGuardProofs` proves `StrikesOutliveBan` for both stores, any number of requests
and any delays, and from it (`StrikesInv` adds types) the action property
`BansEscalate`.  That one needs that powers of two double, which none of the provers
knows: it is the hypothesis `PowersDouble`.  `ScannerIsCaught` is about how many
records fall into a stretch of time.  `CaughtInv` describes the records one by one and
in pairs: a window's first miss opens it, every other read the clock less than a
window's length after that, no two have the same number in one window, and different
windows begin at least a window's length apart.  A stretch then meets two
windows, or three in memory, and `EveryMissIsOnRecord` shows that counting records is
counting misses.  The hypothesis is `MaxDelay <= Window`: a request waits no longer
than a window between reading the clock and the counters.  The bound in
`ScannerIsCaught` has a case for a threshold of one, which the configuration allows:
such a window leaves nothing to its neighbours.

`RateLimiterProofs` proves `WindowSlides` and `BlockedForRecent` for both stores, any
limit, window and number of requests, under the same hypothesis.  `LimiterInv` has the
clock (`ClockInv`), the records (`RecordInv`), and what ties them to the counters:
`MemoryInv` for the window in memory and the one before it, `RedisInv` for the buckets
and when their keys expire (a key that is needed has not expired).  `Judged` is what a
request of one window learnt from the window before when it was let through; two
records of neighbouring windows are judged unless they were overtaken, and
`SharedLimit` is the arithmetic from there to the bound.  The attempt to prove an
earlier form of `WindowSlides`, which allowed twice the limit in Redis only, showed it
false: with a limit of 4 in windows of 2 ticks, requests that were overtaken in memory
bring a stretch of two ticks one over its share.  The property now says where
such a request is.

`SpecFetcherProofs` proves `ResultIsWhole` whenever no two writers have the temporary
file of one source open at once (`FetcherOverlap` shows the mixture otherwise), and so
for one goroutine; crashes, failing writes, lost copies and documents over the limit
included.  `FileInv` says
that a temporary and a cached name never share an inode, that what a writer wrote so
far is its own document, and that every copy is whole.  For one source whose fetches do
not overlap it proves `ValidatorHasCopy` and `NextAttemptUnconditional` (`ValidInv`:
the validator a request was sent with is still the one in memory when the answer comes),
and for one goroutine `FreshUnlessSpoilt`, where a copy read after a 304 must be the one
the validator stood for when the request was sent.  With two backends on one URL,
which share validators but not copies, these do not hold.

`RuntimeBuildProofs` follows a configuration to the answers, for any configurations,
paths, instances and backends.  `WalkFindsTheBest` is about the router alone: the
recursive search ends exactly at the best fitting shape.  It takes the recursive
function by its fixpoint equation and a deepest node at which search and definition
disagree, since no induction over data is available.  `BuildInv` (what is open at which
step, and which of it the deferred function knows) gives `NoBuildLeaks`.  `TreeInv` says
how far the tree reflects the table at each step of the two loops: what was added is
there once, what is left to add is not there, nothing else is; it gives
`RefusedForAReason`, and with the configuration's types (`ServingInv`) and
`WalkFindsTheBest` also `AdvertisedIsServed`, `AnswersAsConfigured` and
`AsksForTheResource`.  `DocumentIsServed` needs a request path for each route that no
other route's static segments take over; `HasFreshPaths` says the set of paths has one,
as the set of all paths does.  Three assumptions of `RouteTable` are of substance:
`ConfigsAssumption` (templates, prefixes and middleware lists are sequences of strings),
`PathsAreCanonical` (request paths are escaped as `url.PathEscape` escapes; others
reach the upstream in that spelling) and `EncodePathEscapes` (what `net/url` does to a
segment of a `Path`: it can be read back, and is left alone if nothing in it needs
escaping).

The second half of `RuntimeBuildProofs` is about the document that `Build` has merged,
for any specs, components, references and operations.

- *Import.*  `ImportInv` says of the merger that names and imported components
  correspond one to one (`MergerOK`), that each component taken from the queue is copied
  with its references resolved (`Importing`), and that nothing is imported that the
  operations do not need.  What is done stays done while more is imported (`Grown`).
  `FreeNameIsFree` counts: of one more number than there are names, one is free.  An empty
  queue then means that the imported components are closed under references, hence all
  that is needed: `NeededIsImported`.
- *Fingerprints.*  `HashExists` gives the recursive function its values: a call for a new
  component leaves fewer components that are not on the stack, and their number ranks the
  calls.
  `FingerprintsTell` is the heart: two components with one fingerprint, although cycles
  are cut at a distance that depends on the way there, are related by a bisimulation of
  the source components.  It relates the ends of any two stacks along which all
  fingerprints agree (`SameWay`), and where one is cut, so is the other, at the same
  distance, and both are back at a related pair.
- *Dedupe.*  `DedupeInv` has the groups still to do (`GroupOK`: all that share a base name,
  pairwise alike), where each imported component is found (`PlacesOK`: a collapsed one at
  its alias, in a copy of one that is like it; another under its own name), and that the
  components of one base name share their fate (`Agreed`): `BareNamesAgreed`.
- *Meaning.*  `Meant` pairs a component with every published copy of something like it;
  it is kept by references, in whatever order the groups were collapsed, so no number of
  steps tells its pairs apart, and it is part of `Alike`: `DocumentMeansTheSame`.

The attempt to prove an earlier form of `MeaningIsKept`, which held a reference into a
collapsed component to be dangling, showed it false: the name can be taken again.  TLC
shows it on the input that was added for it, and the property now names the exception
by the reference.  `InputsAssumption` is what a parsed input satisfies: finitely many
specs and components, names that are texts, and numbers that differ when written.

`RuntimeLifecycleProofs` and `ProxyProofs` also prove `NothingLeaks` (the layers above,
with who answers for a runtime at each point of `Reload` and of the shutdown) and
`ContextIsReleased` (`ContextInv`: only the points between the start of an attempt and
the end of its body have a context).

The constants' assumptions are finiteness of the sets, positive bounds and the four
above; TLC evaluates them in every run.  Every invariant of the runs is proved.  Only
model-checked: liveness (`RetiredIsClosed`, `Recovers`, and the last three of
`ReloadTriggers`), which is out of the prover's reach.  Where a proof needs an induction
over data, over paths in the router, stacks of components, or steps of `Alike`, it takes
the least or the deepest counterexample instead, since the induction
theorems are out of the prover's reach too.

## Not modelled

Parsing and rendering of OpenAPI documents, folding of path parameters, schema
validation, checks of tokens and keys, header rewriting, the client address rule,
configuration parsing, metrics and error formatting work on one value at a time
without shared state; they are data rather than control.  The admin surface reads the
published runtime and calls `Unban`, which is part of `ScanGuard`.  The LRU caches of
the memory stores drop a client or key when they are full; the models have one client
and one key.  The JWT middleware's refresh is a ticker whose turns share nothing but
the key set: a fetch that succeeds replaces it, one that fails is logged.  That keys
follow the issuer is the fairness of that loop and no more.  The middleware's decisions on one request are left out, and so is the
gauge of healthy hosts.

## What is left

1. Two backends on one URL, whose fetches take each other's validators.
2. The interleaved reads of `Pick`, which may find no healthy host although there was
   one at every moment.
3. Several keys and clients, with the eviction from the LRU caches.
