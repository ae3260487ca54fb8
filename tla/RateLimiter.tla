----------------------------- MODULE RateLimiter -----------------------------
(***************************************************************************)
(* The sliding window limiters (internal/store/store.go), in memory and in *)
(* Redis, for one key; keys do not influence each other.                   *)
(*                                                                         *)
(* A request reads its gateway's clock first and reaches the counters      *)
(* later: under MemoryLimiter.mu, or as one run of the script in Redis.    *)
(* A replica whose clock is behind looks the same as one that was slow.    *)
(* The estimate prev * frac + count is compared with the limit exactly,    *)
(* with both sides multiplied by the window.                               *)
(***************************************************************************)
EXTENDS Integers, FiniteSets

CONSTANTS
  Requests,   \* requests for the key that may be in Allow at once
  Stores,     \* the stores to configure, a subset of {"memory", "redis"}
  Limit,      \* limit
  Window,     \* dur, in ticks
  MaxDelay,   \* bound: ticks between reading the clock and reaching the counters
  MaxTime     \* bound: when the clock stops

ASSUME RateLimiterAssumption ==
  /\ Stores \subseteq {"memory", "redis"}
  /\ Limit \in Nat \ {0} /\ Window \in Nat \ {0}
  /\ MaxDelay \in Nat /\ MaxTime \in Nat

VARIABLES
  store,    \* settings.Store: which limiter the middleware was built with
  time,     \* the time
  memory,   \* the window of the key: start, count, prev
  redis,    \* the buckets in Redis: count, and when the key expires
  pc,       \* where each request is in Allow
  now,      \* what it read from the clock
  counted   \* history: the requests counted: when they read the clock, in which window,
            \* as its how manieth, and whether they came late, see below

vars == <<store, time, memory, redis, pc, now, counted>>

Times   == 0..MaxTime
Buckets == 0..(MaxTime \div Window)
NoWindow == [start |-> -1, count |-> 0, prev |-> 0]   \* not in the cache

Init ==
  /\ store \in Stores
  /\ time = 0
  /\ memory = NoWindow
  /\ redis = [b \in Buckets |-> [count |-> 0, expires |-> 0]]
  /\ pc = [r \in Requests |-> "idle"]
  /\ now = [r \in Requests |-> 0]
  /\ counted = {}

-----------------------------------------------------------------------------
\* Allow reads the clock.
Arrive(r) ==
  /\ pc[r] = "idle"
  /\ pc' = [pc EXCEPT ![r] = "allow"]
  /\ now' = [now EXCEPT ![r] = time]
  /\ UNCHANGED <<store, time, memory, redis, counted>>

Leave(r) ==
  /\ pc' = [pc EXCEPT ![r] = "idle"]
  /\ now' = [now EXCEPT ![r] = 0]

\* One more record: no two are the same.
Count(r, start, n, late) ==
  counted' = counted \cup {[at |-> now[r], window |-> start, nth |-> n, late |-> late]}

\* The sliding estimate has reached the limit.
Reached(prev, left, count) == prev * left + count * Window >= Limit * Window

\* A variant: the window before is forgotten at the boundary.
RolledAfresh(n) ==
  IF memory = NoWindow \/ n - memory.start >= Window
  THEN [start |-> n, count |-> 0, prev |-> 0]
  ELSE memory

\* A variant: after a pause the latest window still counts as the one before.
RolledKeepsCount(n) ==
  IF memory = NoWindow THEN [start |-> n, count |-> 0, prev |-> 0]
  ELSE IF n - memory.start >= 2 * Window
  THEN [start |-> n, count |-> 0, prev |-> memory.count]
  ELSE IF n - memory.start >= Window
  THEN [start |-> memory.start + Window, count |-> 0, prev |-> memory.count]
  ELSE memory

\* The key's window, created or rolled forward to n.
Rolled(n) ==
  LET elapsed == n - memory.start IN
  IF memory = NoWindow \/ elapsed >= 2 * Window
  THEN [start |-> n, count |-> 0, prev |-> 0]
  ELSE IF elapsed >= Window
  THEN [start |-> memory.start + Window, count |-> 0, prev |-> memory.count]
  ELSE memory

MemoryReached(w, n) ==
  LET left == Window - (n - w.start)
  IN  Reached(w.prev, IF left < 0 THEN 0 ELSE left, w.count)

\* MemoryLimiter.Allow, under the lock.  A request is late if the window that counts
\* it began after it read the clock.
MemoryAllow(r) ==
  LET w == Rolled(now[r]) IN
  /\ store = "memory" /\ pc[r] = "allow"
  /\ ~MemoryReached(w, now[r])
  /\ memory' = [w EXCEPT !.count = @ + 1]
  /\ Count(r, w.start, memory'.count, now[r] < w.start)
  /\ Leave(r)
  /\ UNCHANGED <<store, time, redis>>

MemoryBlock(r) ==
  LET w == Rolled(now[r]) IN
  /\ store = "memory" /\ pc[r] = "allow"
  /\ MemoryReached(w, now[r])
  /\ memory' = w
  /\ Leave(r)
  /\ UNCHANGED <<store, time, redis, counted>>

-----------------------------------------------------------------------------
\* GET: an expired key is not there.
Get(b) == IF b \in Buckets /\ time < redis[b].expires THEN redis[b].count ELSE 0

RedisReached(n) ==
  LET b == n \div Window
  IN  Reached(Get(b - 1), Window - (n % Window), Get(b))

\* INCR and PEXPIRE of the current bucket.  A request is late if the next is in use.
Incr(r) ==
  LET b == now[r] \div Window
  IN  /\ redis' = [redis EXCEPT ![b] = [count |-> Get(b) + 1, expires |-> time + 2 * Window]]
      /\ Count(r, b * Window, Get(b) + 1, Get(b + 1) > 0)

\* slidingWindow, as one step of Redis.
RedisAllow(r) ==
  /\ store = "redis" /\ pc[r] = "allow"
  /\ ~RedisReached(now[r])
  /\ Incr(r)
  /\ Leave(r)
  /\ UNCHANGED <<store, time, memory>>

RedisBlock(r) ==
  /\ store = "redis" /\ pc[r] = "allow"
  /\ RedisReached(now[r])
  /\ Leave(r)
  /\ UNCHANGED <<store, time, memory, redis, counted>>

\* The script ran, its answer was lost, and the client sends it again.
RedisAnswerLost(r) ==
  /\ store = "redis" /\ pc[r] = "allow"
  /\ ~RedisReached(now[r])
  /\ Incr(r)
  /\ UNCHANGED <<store, time, memory, pc, now>>

\* Redis is not reached, or the client gave up: with failOpen the request is let
\* through, otherwise refused, and either way it is not counted (again).
RedisUnreachable(r) ==
  /\ store = "redis" /\ pc[r] = "allow"
  /\ Leave(r)
  /\ UNCHANGED <<store, time, memory, redis, counted>>

-----------------------------------------------------------------------------
Tick ==
  /\ time < MaxTime
  /\ \A r \in Requests : pc[r] = "allow" => time - now[r] < MaxDelay
  /\ time' = time + 1
  /\ UNCHANGED <<store, memory, redis, pc, now, counted>>

Next ==
  \/ \E r \in Requests :
       \/ Arrive(r) \/ MemoryAllow(r) \/ MemoryBlock(r)
       \/ RedisAllow(r) \/ RedisBlock(r) \/ RedisAnswerLost(r) \/ RedisUnreachable(r)
  \/ Tick

Spec == Init /\ [][Next]_vars

-----------------------------------------------------------------------------
(* Properties. *)

\* The window slides (the comments on MemoryLimiter and in Allow): of the requests
\* that read the clock in d ticks, up to a window's length and wherever they begin, the
\* limit and d's share of it are let through, where a counter that starts from zero at
\* each boundary lets twice the limit through at once.  A request that is overtaken
\* across a boundary, while it was under way or by a replica whose clock is ahead, is
\* counted in the next window, or in Redis judged by its own bucket only; then it may be
\* twice the limit, but never more.
WindowSlides ==
  \A t \in Times, d \in 0..(Window - 1) :
    LET S == {p \in counted : p.at \in t..(t + d)} IN
    Cardinality(S) <= IF \E p \in S : p.late THEN 2 * Limit
                      ELSE Limit + (Limit * d + Window - 1) \div Window

\* Nobody is blocked for traffic of long ago: a blocked request finds at least Limit
\* requests counted in windows that began less than two windows before.  (In memory, one
\* that read the clock before the window it finds began gives the window before too
\* much weight.)
BlockedForRecent ==
  [][\A r \in Requests :
       RedisBlock(r) \/ (MemoryBlock(r) /\ now[r] >= memory.start)
         => Cardinality({p \in counted : p.window > now[r] - 2 * Window}) >= Limit]_vars
=============================================================================
