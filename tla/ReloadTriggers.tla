--------------------------- MODULE ReloadTriggers ---------------------------
(***************************************************************************)
(* What makes the gateway reload (internal/runtime/watch.go, watchSIGHUP   *)
(* of cmd/nina/main.go), with the reload itself as Server.Reload orders it *)
(* and the fetches of the poller and of Build, which may overlap.          *)
(*                                                                         *)
(* One backend has a remote spec that is polled.  A fetch is two steps:    *)
(* the answer, with what it does to the validator, and the write of the    *)
(* copy; SpecFetcher takes both further apart.  Files and documents are    *)
(* numbered in the order they appear.                                      *)
(***************************************************************************)
EXTENDS Integers

CONSTANTS
  Contents,   \* what the configuration file may hold
  Good,       \* ... that config.Load accepts
  Serving,    \* ... that still configures the backend as it was at the start
  OnError,    \* spec.on_error of the backend: "fail" or "stale"
  MaxSaves,   \* bound: writes to the file
  MaxDocs     \* bound: versions of the upstream document

ASSUME ReloadTriggersAssumption ==
  /\ Good \subseteq Contents /\ Serving \subseteq Good
  /\ OnError \in {"fail", "stale"}
  /\ MaxSaves \in Nat /\ MaxDocs \in Nat \ {0}

VARIABLES
  file,       \* the configuration file: content, and the number of its last write
  doc,        \* the upstream's document
  events,     \* whether the watcher has events of the file to receive
  timer,      \* the debounce timer is on: timerC is not nil
  hup,        \* a SIGHUP is in the channel
  valid,      \* the document the fetcher's validator is of, NoDoc if there is none
  copy,       \* the document on disk, NoDoc if there is none
  ans,        \* the document each goroutine was sent and is about to cache
  pc,         \* where each goroutine is
  seen,       \* the hash of the runtime that the poller read before its fetch
  mu,         \* who holds reloadMu
  got,        \* the runtime each goroutine is building
  run,        \* the published runtime
  missed,     \* history: the last write was tried and failed, or never noticed
  behind      \* history: what is being built has its document from a copy that was
              \* older than the published one

outside   == <<file, doc>>
watchVars == <<events, timer>>
cacheVars == <<valid, copy, ans>>
vars == <<outside, watchVars, hup, cacheVars, pc, seen, mu, got, run, missed, behind>>

Threads == {"watcher", "poller", "hup"}
None    == "none"
NoDoc   == 0
Runtimes  == [save : 0..MaxSaves, config : Good, doc : 0..MaxDocs]
NoRuntime == [save |-> -1, config |-> None, doc |-> NoDoc]

\* The first runtime is up: with or without a validator, and with a copy unless that could
\* not be written.  A save since config.Load, before the watcher was added, went unnoticed.
Init ==
  /\ \E c \in Serving : run  = [save |-> 0, config |-> c, doc |-> 1]
  /\ \/ file = [content |-> run.config, save |-> 0]
     \/ MaxSaves > 0 /\ \E c \in Contents : file = [content |-> c, save |-> 1]
  /\ missed = (file.save # 0)
  /\ doc = 1
  /\ valid \in {1, NoDoc} /\ copy \in {1, NoDoc}
  /\ ans = [p \in Threads |-> NoDoc]
  /\ events = FALSE /\ timer = FALSE /\ hup = FALSE
  /\ pc = [p \in Threads |-> "idle"]
  /\ seen = NoDoc
  /\ mu = None
  /\ got = [p \in Threads |-> NoRuntime]
  /\ behind = FALSE

Goto(p, l) == pc' = [pc EXCEPT ![p] = l]

-----------------------------------------------------------------------------
(* The world. *)

\* A write to the file, of a whole configuration or of part of one.
Write ==
  /\ file.save < MaxSaves
  /\ \E c \in Contents : file' = [content |-> c, save |-> file.save + 1]
  /\ events' = TRUE
  /\ missed' = FALSE
  /\ UNCHANGED <<doc, timer, hup, cacheVars, pc, seen, mu, got, run, behind>>

\* The queue of the watcher overflows; w.Errors is only logged.
Overflow ==
  /\ events
  /\ events' = FALSE
  /\ missed' = TRUE
  /\ UNCHANGED <<outside, timer, hup, cacheVars, pc, seen, mu, got, run, behind>>

Release ==
  /\ doc < MaxDocs
  /\ doc' = doc + 1
  /\ UNCHANGED <<file, watchVars, hup, cacheVars, pc, seen, mu, got, run, missed, behind>>

\* Signals that find the channel full are one with the signal in it.
Signal ==
  /\ ~hup
  /\ hup' = TRUE
  /\ missed' = FALSE
  /\ UNCHANGED <<outside, watchVars, cacheVars, pc, seen, mu, got, run, behind>>

-----------------------------------------------------------------------------
(* The triggers. *)

\* watchFiles receives an event: the timer starts, or starts again.
Event ==
  /\ pc["watcher"] = "idle" /\ events
  /\ events' = FALSE
  /\ timer' = TRUE
  /\ UNCHANGED <<outside, hup, cacheVars, pc, seen, mu, got, run, missed, behind>>

\* The timer fires, unless an event starts it again.
FileReload ==
  /\ pc["watcher"] = "idle" /\ timer
  /\ timer' = FALSE
  /\ Goto("watcher", "reload")
  /\ UNCHANGED <<outside, events, hup, cacheVars, seen, mu, got, run, missed, behind>>

\* pollOne, at a tick: it remembers the runtime of now, then fetches.
PollTick ==
  /\ pc["poller"] = "idle"
  /\ seen' = run.doc
  /\ Goto("poller", "ask")
  /\ UNCHANGED <<outside, watchVars, hup, cacheVars, mu, got, run, missed, behind>>

\* watchSIGHUP.
HupReload ==
  /\ pc["hup"] = "idle" /\ hup
  /\ hup' = FALSE
  /\ Goto("hup", "reload")
  /\ UNCHANGED <<outside, watchVars, cacheVars, seen, mu, got, run, missed, behind>>

-----------------------------------------------------------------------------
(* Server.Reload begins. *)

Fetches(config) == config \in Serving

\* A variant: the mutex is taken for the swap alone.
LoadUnlocked(p) ==
  /\ pc[p] = "reload"
  /\ IF file.content \in Good
     THEN /\ got' = [got EXCEPT ![p] = [save |-> file.save, config |-> file.content, doc |-> NoDoc]]
          /\ Goto(p, IF Fetches(file.content) THEN "ask" ELSE "built")
     ELSE Goto(p, "idle") /\ UNCHANGED got
  /\ UNCHANGED <<outside, watchVars, hup, cacheVars, seen, mu, run, missed, behind>>

\* reloadMu, then config.Load; what it cannot load is logged and left.
Load(p) ==
  /\ pc[p] = "reload" /\ mu = None
  /\ IF file.content \in Good
     THEN /\ mu' = p
          /\ got' = [got EXCEPT ![p] = [save |-> file.save, config |-> file.content, doc |-> NoDoc]]
          /\ Goto(p, IF Fetches(file.content) THEN "ask" ELSE "built")
     ELSE Goto(p, "idle") /\ UNCHANGED <<mu, got>>
  /\ UNCHANGED <<outside, watchVars, hup, cacheVars, seen, run, missed, behind>>

Building(p) == got[p] # NoRuntime

-----------------------------------------------------------------------------
(* Fetch, of the poller and of Build. *)

\* A variant: with the last document fetched, whatever became of it.
ChangedSinceFetch(res) == res # copy

\* A variant: no comparison.
ChangedAlways(res) == TRUE

\* The comparison with the hash of the runtime, which is empty for an unknown backend.
Changed(res) == res # seen

\* Build goes on with the Result, or pollOne compares it.
Returns(p, res, old) ==
  IF Building(p)
  THEN /\ got' = [got EXCEPT ![p].doc = res]
       /\ Goto(p, "built")
       /\ behind' = old
       /\ UNCHANGED seen
  ELSE /\ Goto(p, IF Changed(res) THEN "reload" ELSE "idle")
       /\ seen' = NoDoc
       /\ UNCHANGED <<got, behind>>

ReturnsCopy(p) == Returns(p, copy, copy < run.doc) /\ UNCHANGED <<mu, missed>>

\* The poller waits for the next tick.  A build fails for good: nobody tries again.
Fails(p) ==
  /\ Goto(p, "idle")
  /\ got' = [got EXCEPT ![p] = NoRuntime]
  /\ mu' = IF mu = p THEN None ELSE mu
  /\ missed' = (missed \/ got[p].save = file.save)
  /\ seen' = IF p = "poller" THEN NoDoc ELSE seen
  /\ behind' = IF Building(p) THEN FALSE ELSE behind

\* 304: the validator is that of the upstream's document, and the Result is the copy.
NotModified(p) ==
  /\ pc[p] = "ask" /\ valid = doc /\ copy # NoDoc
  /\ ReturnsCopy(p)
  /\ UNCHANGED <<outside, watchVars, hup, cacheVars, run>>

\* 304 without a copy: the validator is dropped, and the fetch fails.
NoCopy(p) ==
  /\ pc[p] = "ask" /\ valid = doc /\ copy = NoDoc
  /\ valid' = NoDoc
  /\ Fails(p)
  /\ UNCHANGED <<outside, watchVars, hup, copy, ans, run>>

\* 200: the validator, if the upstream sends one, is stored before the copy is written.
Answer(p) ==
  /\ pc[p] = "ask" /\ valid # doc
  /\ ans' = [ans EXCEPT ![p] = doc]
  /\ valid' \in {doc, NoDoc}
  /\ Goto(p, "write")
  /\ UNCHANGED <<outside, watchVars, hup, copy, seen, mu, got, run, missed, behind>>

\* writeCache, perhaps after another fetch has written a newer document, ...
WriteCopy(p) ==
  /\ pc[p] = "write"
  /\ copy' = ans[p]
  /\ Returns(p, ans[p], FALSE)
  /\ ans' = [ans EXCEPT ![p] = NoDoc]
  /\ UNCHANGED <<outside, watchVars, hup, valid, mu, run, missed>>

\* ... or in vain: its error is ignored.
WriteFails(p) ==
  /\ pc[p] = "write"
  /\ Returns(p, ans[p], FALSE)
  /\ ans' = [ans EXCEPT ![p] = NoDoc]
  /\ UNCHANGED <<outside, watchVars, hup, valid, copy, mu, run, missed>>

\* The upstream does not answer: the copy does, if there is one and the policy allows it.
NoAnswer(p) ==
  /\ pc[p] = "ask"
  /\ IF OnError = "stale" /\ copy # NoDoc THEN ReturnsCopy(p) ELSE Fails(p)
  /\ UNCHANGED <<outside, watchVars, hup, cacheVars, run>>

-----------------------------------------------------------------------------
(* Server.Reload ends. *)

\* Build fails before its fetch, or after it.
BuildFails(p) ==
  /\ Building(p) /\ pc[p] \in {"ask", "built"}
  /\ Fails(p)
  /\ UNCHANGED <<outside, watchVars, hup, cacheVars, run>>

\* A variant: the watcher drops the events that came during its reload.
PublishDrains(p) ==
  /\ pc[p] = "built"
  /\ run' = got[p]
  /\ mu' = None
  /\ missed' = (missed /\ got[p].save # file.save)
  /\ events' = (events /\ p # "watcher")
  /\ got' = [got EXCEPT ![p] = NoRuntime]
  /\ behind' = FALSE
  /\ Goto(p, "idle")
  /\ UNCHANGED <<outside, timer, hup, cacheVars, seen>>

\* current.Swap.
Publish(p) ==
  /\ pc[p] = "built"
  /\ run' = got[p]
  /\ mu' = None
  /\ missed' = (missed /\ got[p].save # file.save)
  /\ got' = [got EXCEPT ![p] = NoRuntime]
  /\ behind' = FALSE
  /\ Goto(p, "idle")
  /\ UNCHANGED <<outside, watchVars, hup, cacheVars, seen>>

-----------------------------------------------------------------------------
Fetch(p) == NotModified(p) \/ NoCopy(p) \/ Answer(p) \/ WriteCopy(p) \/ WriteFails(p) \/ NoAnswer(p)

Next ==
  \/ Write \/ Overflow \/ Release \/ Signal
  \/ Event \/ FileReload \/ PollTick \/ HupReload
  \/ \E p \in Threads : Load(p) \/ Fetch(p) \/ BuildFails(p) \/ Publish(p)

\* The runtime schedules every goroutine and timer, a fetch ends (the client has a
\* time-out), and a mutex of Go serves a waiter in the end: one that waits for more than
\* a millisecond is handed it in turn.
Fairness ==
  /\ WF_vars(Event) /\ WF_vars(FileReload) /\ WF_vars(HupReload) /\ WF_vars(PollTick)
  /\ \A p \in Threads : /\ SF_vars(Load(p))
                        /\ WF_vars(Fetch(p) \/ BuildFails(p) \/ Publish(p))

Spec == Init /\ [][Next]_vars /\ Fairness

-----------------------------------------------------------------------------
(* Properties. *)

\* Every variable stays in its range.
TypeOK ==
  /\ file \in [content : Contents, save : 0..MaxSaves]
  /\ doc \in 1..MaxDocs /\ valid \in 0..MaxDocs /\ copy \in 0..MaxDocs
  /\ ans \in [Threads -> 0..MaxDocs]
  /\ events \in BOOLEAN /\ timer \in BOOLEAN /\ hup \in BOOLEAN
  /\ missed \in BOOLEAN /\ behind \in BOOLEAN
  /\ pc \in [Threads -> {"idle", "reload", "ask", "write", "built"}]
  /\ seen \in 0..MaxDocs
  /\ mu \in Threads \cup {None}
  /\ got \in [Threads -> Runtimes \cup {NoRuntime}]
  /\ run \in Runtimes

\* The mutex is held by the one who builds, and of the others only the poller fetches.
MutexHeld ==
  \A p \in Threads :
    /\ Building(p) <=> mu = p
    /\ Building(p) => pc[p] \in {"ask", "write", "built"}
    /\ pc[p] = "built" \/ (pc[p] \in {"ask", "write"} /\ p # "poller") => Building(p)

\* Reloads take effect in the order of what they read, whatever triggered them: a runtime
\* is never replaced by one of an older file, nor by one of an older document, unless
\* Fetch returned the copy on disk while that was older than the published document.
PublishesInOrder ==
  [][/\ run.save <= run'.save
     /\ run'.doc = NoDoc \/ run.doc <= run'.doc \/ behind]_vars

\* The world leaves the gateway alone and everything works: a failure is only seen
\* where it comes to the same as an answer.
Settled ==
  /\ UNCHANGED outside /\ ~Signal /\ ~Overflow
  /\ \A p \in Threads : /\ NoAnswer(p) => NotModified(p)
                        /\ WriteFails(p) => WriteCopy(p)
                        /\ ~BuildFails(p)

\* The last good save ends up in force, wherever in a debounce or a reload it fell
\* (README, "Reload": "triggered by a config or local spec file change, by SIGHUP").
\* What is left out is a save that no event told of, and one whose own reload failed: no
\* one tries it again before the next event, signal or spec change.
SavedIsLoaded ==
  <>[][Settled]_vars => <>[](missed \/ file.content \notin Good \/ run.save = file.save)

\* The document the upstream settles on is published in the end, however many polls
\* and reloads failed before (PLAN.md: "periodic re-fetch and live route reload"),
\* unless a broken file is in the way, which every reload reads first; or the
\* validator vouches for it and the copy is another: then that copy is served for good,
\* although the comment on a failed writeCache says "we simply lose the stale-copy
\* safety net until it succeeds".
SpecIsFollowed ==
  <>[][Settled]_vars =>
    <>[](run.config \in Serving /\ file.content \in Good =>
           run.doc = doc \/ (valid = doc /\ run.doc = copy))

\* Reloads end: pollSpecs "reloads only when the content has actually changed".  It
\* holds while the backend is configured as at the start and the file is good; the
\* poller of a backend that was removed compares with an empty hash, and reloads at
\* every tick.
ReloadsEnd ==
  <>[][Settled]_vars =>
    <>[](run.config \in Serving /\ file.content \in Good =>
           \A p \in Threads : pc[p] # "reload" /\ ~Building(p))
=============================================================================
