------------------------------ MODULE ScanGuard ------------------------------
(***************************************************************************)
(* The scan guard (internal/scanguard) and its two stores, for one client  *)
(* that the guard does not ignore; clients share no state but the bounded  *)
(* tables of the memory store.                                             *)
(*                                                                         *)
(* The memory store reads the clock first and takes MemoryStore.mu later;  *)
(* in Redis a script is one step and counts time itself, while Unban is    *)
(* two commands.  An entry whose time has passed is as good as absent in   *)
(* every operation, so nothing removes it here.                            *)
(***************************************************************************)
EXTENDS Integers, FiniteSets

CONSTANTS
  Requests,    \* requests of the client that may be served at once
  Stores,      \* the stores to configure, a subset of {"memory", "redis"}
  MaxMisses,   \* max_misses
  Window,      \* window, in ticks
  Base,        \* ban, in ticks
  MaxBan,      \* max_ban, in ticks
  MaxDelay,    \* bound: ticks between reading the clock and reaching the store
  MaxTime,     \* bound: when the clock stops
  MaxCount     \* bound: a client with as many misses or strikes misses no more

ASSUME ScanGuardAssumption ==
  /\ Stores \subseteq {"memory", "redis"}
  /\ MaxMisses \in Nat \ {0} /\ Window \in Nat \ {0}
  /\ Base \in Nat \ {0} /\ MaxBan \in Nat /\ MaxBan >= Base
  /\ MaxDelay \in Nat /\ MaxTime \in Nat /\ MaxCount \in Nat

VARIABLES
  store,     \* which store the guard was built over
  time,      \* the time
  misses,    \* the client's miss window: start, count
  ban,       \* its ban: strikes, ends
  strikes,   \* its strikes: count, expires
  pc,        \* where each request is in ServeHTTP
  now,       \* what it read from the clock on its way to the store
  admin,     \* where the administrator's Unban is
  passed,    \* history: misses let go since the last ban or unban, and what they were counted as
  torn       \* history: the ban in force was set between the halves of an Unban

requestVars == <<pc, now>>
storeVars == <<misses, ban, strikes>>
vars == <<store, time, storeVars, requestVars, admin, passed, torn>>

Times    == 0..MaxTime
NoMisses == [start |-> -Window, count |-> 0]
NoBan    == [strikes |-> 0, ends |-> 0]
NoStrike == [count |-> 0, expires |-> 0]
Answered == {"refused", "answered"}   \* a request has its answer

Init ==
  /\ store \in Stores
  /\ time = 0
  /\ misses = NoMisses /\ ban = NoBan /\ strikes = NoStrike
  /\ pc = [r \in Requests |-> "answered"]
  /\ now = [r \in Requests |-> 0]
  /\ admin = "idle"
  /\ passed = {}
  /\ torn = FALSE

-----------------------------------------------------------------------------
(* The guard. *)

Banned == ban.ends > time
Goto(r, l) == pc' = [pc EXCEPT ![r] = l] /\ now' = [now EXCEPT ![r] = 0]

\* A variant: the cap is forgotten.
BanLengthUncapped(s) == Base * 2^(s - 1)

\* The first length doubled with each strike after the first, up to MaxBan.
BanLength(s) == IF Base * 2^(s - 1) < MaxBan THEN Base * 2^(s - 1) ELSE MaxBan

\* The next request of the client: Blocked asks the store for a ban.  A store
\* that fails lets it through.
Blocked(r) ==
  /\ pc[r] \in Answered
  /\ \/ Banned /\ Goto(r, "refused")
     \/ (~Banned \/ store = "redis") /\ Goto(r, "routing")
  /\ UNCHANGED <<store, time, storeVars, admin, passed, torn>>

\* The router finds a route or the wrong method, or nothing: that is a miss, and a
\* path among the traps is not counted but banned at once.
Route(r) ==
  /\ pc[r] = "routing"
  /\ \/ Goto(r, "answered")
     \/ /\ misses.count < MaxCount /\ strikes.count < MaxCount
        /\ Goto(r, "miss") \/ Goto(r, "ban")
  /\ UNCHANGED <<store, time, storeVars, admin, passed, torn>>

\* Miss and Ban read the clock before they reach the store.
ReadClock(r) ==
  /\ pc[r] \in {"miss", "ban"}
  /\ pc' = [pc EXCEPT ![r] = IF @ = "miss" THEN "missing" ELSE "banning"]
  /\ now' = [now EXCEPT ![r] = time]
  /\ UNCHANGED <<store, time, storeVars, admin, passed, torn>>

\* The time the store goes by.
Now(r) == IF store = "memory" THEN now[r] ELSE time

\* The miss window with one more miss.
Missed(r) ==
  IF Now(r) - misses.start >= Window
  THEN [start |-> Now(r), count |-> 1]
  ELSE [misses EXCEPT !.count = @ + 1]

\* What the history keeps of a miss that is let go: no two are the same.
LetGo(r) == [at |-> Now(r), window |-> Missed(r).start, nth |-> Missed(r).count]

\* A variant: the threshold is the number of misses that go unpunished.
OverTheNext(count) == count > MaxMisses

\* The count calls for a ban.
Over(count) == count >= MaxMisses

\* Guard.Miss counts: over the threshold the client is banned next.  In Redis the
\* script may run and its answer be lost.
Miss(r) ==
  /\ pc[r] = "missing"
  /\ misses' = Missed(r)
  /\ \/ /\ Over(misses'.count)
        /\ Goto(r, "ban")
        /\ passed' = {}
     \/ /\ ~Over(misses'.count)
        /\ Goto(r, "answered")
        /\ passed' = passed \cup {LetGo(r)}
     \/ /\ store = "redis" /\ Goto(r, "answered") /\ UNCHANGED passed
  /\ UNCHANGED <<store, time, ban, strikes, admin, torn>>

\* The client's strikes with one more.
Struck(r) == IF Now(r) < strikes.expires THEN strikes.count + 1 ELSE 1

\* A variant: strikes are forgotten when the ban ends.
ForgottenAtOnce(ends) == ends

\* When the strikes of a ban that ends then are forgotten.
Forgotten(ends) == ends + MaxBan

\* MemoryStore.Ban under the lock, or banScript: a strike, the ban sized from it,
\* and the misses cleared.
Ban(r) ==
  LET s == Struck(r) IN
  /\ pc[r] = "banning"
  /\ ban' = [strikes |-> s, ends |-> Now(r) + BanLength(s)]
  /\ strikes' = [count |-> s, expires |-> Forgotten(ban'.ends)]
  /\ misses' = NoMisses
  /\ passed' = {}
  /\ torn' = FALSE
  /\ Goto(r, "answered")
  /\ UNCHANGED <<store, time, admin>>

\* Redis is not reached: storeError, and the request goes its way.
StoreFails(r) ==
  /\ store = "redis"
  /\ pc[r] \in {"missing", "banning"}
  /\ Goto(r, "answered")
  /\ UNCHANGED <<store, time, storeVars, admin, passed, torn>>

-----------------------------------------------------------------------------
(* The administrator. *)

\* MemoryStore.Unban, under the lock.
MemoryUnban ==
  /\ store = "memory" /\ admin = "idle"
  /\ ban' = NoBan /\ strikes' = NoStrike /\ misses' = NoMisses
  /\ passed' = {}
  /\ UNCHANGED <<store, time, requestVars, admin, torn>>

\* RedisStore.Unban: first the ban ...
RedisUnbanBan ==
  /\ store = "redis" /\ admin = "idle"
  /\ ban' = NoBan
  /\ admin' = "lifted"
  /\ UNCHANGED <<store, time, misses, strikes, requestVars, passed, torn>>

\* ... then the strikes and the misses, of whatever was set in between.
RedisUnbanRest ==
  /\ admin = "lifted"
  /\ strikes' = NoStrike /\ misses' = NoMisses
  /\ passed' = {}
  /\ torn' = (ban # NoBan)
  /\ admin' = "idle"
  /\ UNCHANGED <<store, time, ban, requestVars>>

\* Redis fails between the two: the ban is lifted, the rest stays.
RedisUnbanFails ==
  /\ admin = "lifted"
  /\ admin' = "idle"
  /\ UNCHANGED <<store, time, storeVars, requestVars, passed, torn>>

-----------------------------------------------------------------------------
Tick ==
  /\ time < MaxTime
  /\ \A r \in Requests : pc[r] \in {"missing", "banning"} => time - now[r] < MaxDelay
  /\ time' = time + 1
  /\ UNCHANGED <<store, storeVars, requestVars, admin, passed, torn>>

Next ==
  \/ \E r \in Requests :
       Blocked(r) \/ Route(r) \/ ReadClock(r) \/ Miss(r) \/ Ban(r) \/ StoreFails(r)
  \/ MemoryUnban \/ RedisUnbanBan \/ RedisUnbanRest \/ RedisUnbanFails
  \/ Tick

Spec == Init /\ [][Next]_vars

-----------------------------------------------------------------------------
(* Properties. *)

\* The strikes outlive the ban (the comment on Store.Ban: "strikes are forgotten
\* max after the last ban ends"): behind every ban stands its own number of strikes,
\* until MaxBan after its end, unless Redis cleared them under a ban set in the
\* middle of an Unban.
StrikesOutliveBan ==
  ban # NoBan /\ ~torn =>
    /\ strikes.count = ban.strikes
    /\ strikes.expires = ban.ends + MaxBan

\* Bans escalate: a client banned again before MaxBan after its last ban was lifted
\* by time is banned with one strike more, and for twice as long, up to MaxBan.
BansEscalate ==
  [][\A r \in Requests :
       Ban(r) /\ ban # NoBan /\ ~torn /\ Now(r) < ban.ends + MaxBan =>
         /\ ban'.strikes = ban.strikes + 1
         /\ LET twice == 2 * BanLength(ban.strikes)
            IN  ban'.ends - Now(r) = IF twice < MaxBan THEN twice ELSE MaxBan]_vars

\* A scanner is caught: however the fixed windows fall, a stretch of a window's
\* length that lets misses go without a ban holds at most what one window lets go and
\* what the window before had left; in memory, where a request that waited for the
\* lock is counted in a later window than its own, the window after as well.  (A
\* window leaves all but its first miss, and nothing where one miss is enough.)
ScannerIsCaught ==
  LET left == IF MaxMisses = 1 THEN 0 ELSE MaxMisses - 2 IN
  \A t \in Times :
    Cardinality({p \in passed : p.at \in t..(t + Window - 1)})
      <= (MaxMisses - 1) + (IF store = "redis" THEN 1 ELSE 2) * left
=============================================================================
