-------------------------- MODULE RateLimiterProofs -------------------------
(***************************************************************************)
(* The sliding windows, for any limit, any window, any number of requests  *)
(* and either store, where no request takes longer from its clock to the   *)
(* counters than a window.                                                 *)
(*                                                                         *)
(* What makes it inductive: the record of a request that was let through   *)
(* was judged against every record of the window before that is near it    *)
(* in time, or else that one came late.                                    *)
(***************************************************************************)
EXTENDS RateLimiter, FiniteSetTheorems, WellFoundedInduction, TLAPS

Records == [at : Nat, window : Nat, nth : Nat, late : BOOLEAN]

\* One window begins where the other ends, or later by another window.
Spaced(u, v) == u < v => v = u + Window \/ v >= u + 2 * Window

\* The judgement that let p through, with the requests up to q in the window before.
Judged(q, p) == q.nth * (Window - (p.at - p.window)) + (p.nth - 1) * Window < Limit * Window

RecordOK(p) ==
  /\ 1 <= p.nth /\ p.nth <= Limit
  /\ p.at < p.window + Window /\ p.window <= p.at + MaxDelay
  /\ store = "redis" \/ ~p.late => p.window <= p.at

PairOK(p, q) ==
  /\ Spaced(p.window, q.window)
  /\ p.window = q.window /\ p.nth = q.nth => p = q
  /\ q.window = p.window + Window /\ q.at < p.at + Window => Judged(p, q) \/ (store = "redis" /\ p.late)

RecordInv ==
  /\ IsFiniteSet(counted) /\ counted \subseteq Records
  /\ \A p \in counted : RecordOK(p) /\ p.at <= time
  /\ \A p, q \in counted : PairOK(p, q)

ClockInv ==
  /\ store \in {"memory", "redis"} /\ time \in Times
  /\ now \in [Requests -> Nat] /\ pc \in [Requests -> {"idle", "allow"}]
  /\ \A r \in Requests : now[r] <= time
  /\ \A r \in Requests : pc[r] = "allow" => time <= now[r] + MaxDelay

\* A window of the memory limiter and its records: the count, and that of the window before.
WindowOK(w) ==
  /\ w \in [start : Int, count : Nat, prev : Nat]
  /\ \A p \in counted :
       /\ p.window <= w.start /\ Spaced(p.window, w.start)
       /\ p.window = w.start => p.nth <= w.count
       /\ w.start = p.window + Window => p.nth <= w.prev
  /\ \A k \in 1..w.count : \E p \in counted : p.window = w.start /\ p.nth = k
  /\ \A k \in 1..w.prev : \E p \in counted : w.start = p.window + Window /\ p.nth = k

MemoryInv ==
  store = "memory" =>
    /\ memory = NoWindow => counted = {}
    /\ memory # NoWindow => memory.start \in Nat /\ memory.start <= time
    /\ WindowOK(memory)

Bucket(p) == p.at \div Window

RedisInv ==
  store = "redis" =>
    /\ redis \in [Buckets -> [count : Nat, expires : Nat]]
    /\ \A p \in counted :
         /\ Bucket(p) \in Buckets /\ p.window = Bucket(p) * Window
         /\ p.nth <= redis[Bucket(p)].count
         /\ p.at + 2 * Window <= redis[Bucket(p)].expires
    /\ \A b \in Buckets : \A k \in 1..redis[b].count : \E p \in counted : p.window = b * Window /\ p.nth = k

LimiterInv == ClockInv /\ RecordInv /\ MemoryInv /\ RedisInv

USE RateLimiterAssumption

-----------------------------------------------------------------------------
(* Arithmetic. *)

\* A time lies in the bucket it is divided into.
LEMMA Division ==
  ASSUME NEW n \in Nat
  PROVE  /\ n \div Window \in Nat
         /\ (n \div Window) * Window <= n /\ n < (n \div Window) * Window + Window
         /\ n % Window = n - (n \div Window) * Window
OBVIOUS

\* Every time of the clock has a bucket.
LEMMA BucketOfTime ==
  ASSUME NEW n \in Times
  PROVE  n \div Window \in Buckets
BY DEF Times, Buckets

\* Buckets in order begin a window's length, or two, apart.
LEMMA Multiples ==
  ASSUME NEW b \in Nat, NEW c \in Nat
  PROVE  /\ b * Window \in Nat /\ c * Window \in Nat
         /\ b = c + 1 => b * Window = c * Window + Window
         /\ b < c => b * Window + Window <= c * Window
         /\ b + 1 < c => b * Window + 2 * Window <= c * Window
<1>1. b * Window \in Nat /\ c * Window \in Nat OBVIOUS
<1>2. b = c + 1 => b * Window = c * Window + Window OBVIOUS
<1>3. b < c => b * Window + Window <= c * Window OBVIOUS
<1>4. b + 1 < c => b * Window + 2 * Window <= c * Window OBVIOUS
<1> QED BY <1>1, <1>2, <1>3, <1>4

\* The starts of buckets are spaced as windows are, and tell the buckets apart.
LEMMA MultiplesApart ==
  ASSUME NEW b \in Nat, NEW c \in Nat
  PROVE  /\ Spaced(b * Window, c * Window)
         /\ b * Window = c * Window => b = c
         /\ c * Window = b * Window + Window => c = b + 1
<1> DEFINE x == b * Window
           y == c * Window
<1>1. /\ x \in Nat /\ y \in Nat
      /\ b < c => x + Window <= y
      /\ b + 1 < c => x + 2 * Window <= y
      /\ b = c + 1 => x = y + Window
  BY Multiples
<1>2. /\ c < b => y + Window <= x
      /\ c = b + 1 => y = x + Window
  BY Multiples
<1> HIDE DEF x, y
<1>3. b < c => c = b + 1 \/ b + 1 < c OBVIOUS
<1>4. b < c \/ b = c \/ c < b OBVIOUS
<1>5. Spaced(x, y)
  <2> SUFFICES ASSUME x < y PROVE y = x + Window \/ y >= x + 2 * Window BY DEF Spaced
  <2>1. b # c BY DEF x, y
  <2>2. b < c BY <1>1, <1>2, <1>4, <2>1
  <2> QED BY <1>1, <1>2, <1>3, <2>2
<1>6. x = y => b = c BY <1>1, <1>2, <1>4
<1>7. y = x + Window => c = b + 1
  <2> SUFFICES ASSUME y = x + Window PROVE c = b + 1 OBVIOUS
  <2>1. b < c
    <3>1. b # c BY <1>1 DEF x, y
    <3> QED BY <1>1, <1>2, <1>4, <3>1
  <2> QED BY <1>1, <1>3, <2>1
<1> QED BY <1>5, <1>6, <1>7 DEF x, y

\* The sliding estimate below the limit: the count is, and a smaller number before does no harm.
LEMMA BelowLimit ==
  ASSUME NEW prev \in Nat, NEW left \in Nat, NEW count \in Nat, ~Reached(prev, left, count)
  PROVE  /\ count < Limit
         /\ \A m \in Nat : m <= prev => m * left + count * Window < Limit * Window
<1>1. prev * left \in Nat /\ prev * left + count * Window < Limit * Window BY DEF Reached
<1>2. count < Limit
  <2>1. count * Window < Limit * Window BY <1>1
  <2>2. count >= Limit => count * Window >= Limit * Window OBVIOUS
  <2> QED BY <2>1, <2>2
<1>3. ASSUME NEW m \in Nat, m <= prev PROVE m * left + count * Window < Limit * Window
  <2>1. m * left <= prev * left BY <1>3
  <2>2. m * left \in Nat /\ count * Window \in Nat /\ Limit * Window \in Nat OBVIOUS
  <2> QED BY <1>1, <2>1, <2>2
<1> QED BY <1>2, <1>3

\* At the limit, with no weight above one: the two windows hold the limit.
LEMMA AtLimit ==
  ASSUME NEW prev \in Nat, NEW left \in Nat, left <= Window, NEW count \in Nat, Reached(prev, left, count)
  PROVE  prev + count >= Limit
<1>1. prev * left <= prev * Window OBVIOUS
<1>2. prev * Window \in Nat /\ prev * left \in Nat /\ count * Window \in Nat OBVIOUS
<1>3. prev * Window + count * Window = (prev + count) * Window OBVIOUS
<1>4. (prev + count) * Window >= Limit * Window BY <1>1, <1>2, <1>3 DEF Reached
<1>5. prev + count < Limit => (prev + count) * Window < Limit * Window OBVIOUS
<1> QED BY <1>4, <1>5

-----------------------------------------------------------------------------
(* A record is added. *)

\* A record that agrees with all the others may be added.
LEMMA AddRecord ==
  ASSUME RecordInv, NEW g \in Records, RecordOK(g), g.at <= time, time' = time, store' = store,
         \A p \in counted : PairOK(p, g) /\ PairOK(g, p),
         counted' = counted \cup {g}
  PROVE  RecordInv'
<1>1. IsFiniteSet(counted') /\ counted' \subseteq Records BY FS_AddElement DEF RecordInv
<1>2. \A p : RecordOK(p)' <=> RecordOK(p) BY DEF RecordOK
<1>3. \A p, q : PairOK(p, q)' <=> PairOK(p, q) BY DEF PairOK, Spaced, Judged
<1>4. PairOK(g, g)
  <2>1. g.window # g.window + Window BY DEF Records
  <2>2. g.window < g.window => FALSE BY DEF Records
  <2> QED BY <2>1, <2>2 DEF PairOK, Spaced
<1>5. \A p \in counted' : RecordOK(p) /\ p.at <= time BY DEF RecordInv
<1>6. \A p, q \in counted' : PairOK(p, q) BY <1>4 DEF RecordInv
<1> QED BY <1>1, <1>2, <1>3, <1>5, <1>6 DEF RecordInv

\* Time passing leaves the records valid.
LEMMA SameRecords ==
  ASSUME RecordInv, counted' = counted, store' = store, time \in Nat, time' \in {time, time + 1}
  PROVE  RecordInv'
<1>1. \A p : RecordOK(p)' <=> RecordOK(p) BY DEF RecordOK
<1>2. \A p, q : PairOK(p, q)' <=> PairOK(p, q) BY DEF PairOK, Spaced, Judged
<1>3. \A p \in counted : p.at \in Nat /\ p.at <= time BY DEF RecordInv, Records
<1>4. \A p \in counted : p.at <= time' BY <1>3
<1> QED BY <1>1, <1>2, <1>4 DEF RecordInv

-----------------------------------------------------------------------------
(* In memory. *)

\* The window a request finds in memory, rolled forward or not, agrees with the records.
LEMMA RolledOK ==
  ASSUME LimiterInv, store = "memory", NEW n \in Nat, n <= time, time <= n + MaxDelay
  PROVE  LET w == Rolled(n) IN
         /\ WindowOK(w) /\ w.start \in Nat /\ w.start <= time
         /\ n < w.start + Window /\ w.start <= n + MaxDelay
         /\ memory # NoWindow /\ n >= memory.start => w.start <= n
         /\ w = memory \/ (w.count = 0 /\ w.start <= n)
<1>1. /\ WindowOK(memory) /\ time \in Nat
      /\ memory = NoWindow => counted = {}
      /\ memory # NoWindow => memory.start \in Nat /\ memory.start <= time
  BY DEF LimiterInv, MemoryInv, ClockInv, Times
<1>2. memory.start \in Int /\ memory.count \in Nat /\ memory.prev \in Nat BY <1>1 DEF WindowOK
<1>3. \A p \in counted : p.window \in Nat /\ p.nth \in Nat BY DEF LimiterInv, RecordInv, Records
<1>4. CASE memory = NoWindow \/ n - memory.start >= 2 * Window
  <2> DEFINE w == [start |-> n, count |-> 0, prev |-> 0]
  <2>1. Rolled(n) = w BY <1>4 DEF Rolled
  <2>2. w.start = n /\ w.count = 0 /\ w.prev = 0 /\ w \in [start : Int, count : Nat, prev : Nat] OBVIOUS
  <2> HIDE DEF w
  <2>3. \A p \in counted : p.window + 2 * Window <= n BY <1>1, <1>2, <1>3, <1>4 DEF WindowOK
  <2>4. \A p \in counted : /\ p.window <= n /\ Spaced(p.window, n) /\ p.window # n /\ n # p.window + Window
    BY <1>3, <2>3 DEF Spaced
  <2>5. WindowOK(w) BY <2>2, <2>4 DEF WindowOK
  <2> QED BY <2>1, <2>2, <2>5
<1>5. CASE ~(memory = NoWindow \/ n - memory.start >= 2 * Window) /\ n - memory.start >= Window
  <2> DEFINE w == [start |-> memory.start + Window, count |-> 0, prev |-> memory.count]
  <2>1. Rolled(n) = w BY <1>5 DEF Rolled
  <2>2. /\ w.start = memory.start + Window /\ w.count = 0 /\ w.prev = memory.count
        /\ w \in [start : Int, count : Nat, prev : Nat]
    BY <1>2
  <2> HIDE DEF w
  <2>3. \A p \in counted : /\ p.window <= memory.start
                           /\ p.window < memory.start => p.window + Window <= memory.start
                           /\ p.window = memory.start => p.nth <= memory.count
    BY <1>1, <1>2, <1>3 DEF WindowOK, Spaced
  <2>4. \A p \in counted : /\ p.window <= w.start /\ Spaced(p.window, w.start) /\ p.window # w.start
                           /\ w.start = p.window + Window => p.nth <= w.prev
    BY <1>2, <1>3, <2>2, <2>3 DEF Spaced
  <2>5. \A k \in 1..w.prev : \E p \in counted : w.start = p.window + Window /\ p.nth = k
    BY <1>1, <2>2 DEF WindowOK
  <2>6. WindowOK(w) BY <2>2, <2>4, <2>5 DEF WindowOK
  <2>7. w.start \in Nat /\ w.start <= n /\ n < w.start + Window BY <1>1, <1>5, <2>2
  <2> QED BY <1>1, <2>1, <2>2, <2>6, <2>7
<1>6. CASE ~(memory = NoWindow \/ n - memory.start >= 2 * Window) /\ ~(n - memory.start >= Window)
  <2>1. Rolled(n) = memory BY <1>6 DEF Rolled
  <2> QED BY <1>1, <1>2, <1>6, <2>1
<1> QED BY <1>4, <1>5, <1>6

\* The judgement of MemoryLimiter.Allow, as the record keeps it.
LEMMA MemoryAllowKeeps ==
  ASSUME LimiterInv, NEW r \in Requests, MemoryAllow(r)
  PROVE  RecordInv' /\ MemoryInv'
<1> DEFINE n == now[r]
           w == Rolled(n)
           g == [at |-> n, window |-> w.start, nth |-> w.count + 1, late |-> n < w.start]
           left == Window - (n - w.start)
<1>1. n \in Nat /\ n <= time /\ time <= n + MaxDelay /\ store = "memory" /\ time \in Nat
  BY DEF LimiterInv, ClockInv, MemoryAllow, Times
<1>2. /\ WindowOK(w) /\ w.start \in Nat /\ w.start <= time
      /\ n < w.start + Window /\ w.start <= n + MaxDelay
  BY <1>1, RolledOK
<1>3. w \in [start : Int, count : Nat, prev : Nat] BY <1>2 DEF WindowOK
<1>4. /\ ~MemoryReached(w, n) /\ memory' = [w EXCEPT !.count = @ + 1]
      /\ counted' = counted \cup {[at |-> n, window |-> w.start, nth |-> memory'.count, late |-> n < w.start]}
      /\ UNCHANGED <<store, time>>
  BY DEF MemoryAllow, Count
<1>5. /\ memory'.count = w.count + 1 /\ memory'.start = w.start /\ memory'.prev = w.prev
      /\ memory' \in [start : Int, count : Nat, prev : Nat]
  BY <1>3, <1>4
<1>6. counted' = counted \cup {g} BY <1>4, <1>5
<1>7. g.at = n /\ g.window = w.start /\ g.nth = w.count + 1 /\ g.late = (n < w.start) OBVIOUS
<1>8. g \in Records BY <1>1, <1>2, <1>3 DEF Records
<1>9. left \in Nat /\ left >= 1 BY <1>1, <1>2
<1>10. ~Reached(w.prev, left, w.count)
  <2>1. (IF left < 0 THEN 0 ELSE left) = left BY <1>9
  <2>2. MemoryReached(w, n) = Reached(w.prev, IF left < 0 THEN 0 ELSE left, w.count) BY DEF MemoryReached
  <2> HIDE DEF left, w
  <2> QED BY <1>4, <2>1, <2>2
<1>11. \A p \in counted : /\ p \in Records /\ p.window \in Nat /\ p.nth \in Nat /\ p.window <= w.start
                          /\ Spaced(p.window, w.start)
                          /\ p.window = w.start => p.nth <= w.count
                          /\ w.start = p.window + Window => p.nth <= w.prev
  BY <1>2 DEF WindowOK, LimiterInv, RecordInv, Records
<1>12. w.count < Limit /\ \A m \in Nat : m <= w.prev => m * left + w.count * Window < Limit * Window
  <2> HIDE DEF left, w
  <2> QED BY <1>3, <1>9, <1>10, BelowLimit
<1> HIDE DEF w, g, n
<1>13. RecordOK(g)
  <2>1. n < w.start \/ w.start <= n BY <1>1, <1>2
  <2>2. n < w.start => g.late BY <1>7
  <2>3. store # "redis" BY <1>1
  <2>4. store = "redis" \/ ~g.late => g.window <= g.at BY <1>7, <2>1, <2>2, <2>3
  <2>5. 1 <= g.nth /\ g.nth <= Limit BY <1>3, <1>7, <1>12
  <2>6. g.at < g.window + Window /\ g.window <= g.at + MaxDelay BY <1>2, <1>7
  <2> QED BY <2>4, <2>5, <2>6 DEF RecordOK
<1>14. ASSUME NEW p \in counted PROVE PairOK(p, g) /\ PairOK(g, p)
  <2>1. Spaced(g.window, p.window) BY <1>2, <1>7, <1>11 DEF Spaced
  <2>2. p.window = w.start => p.nth # g.nth BY <1>3, <1>7, <1>11
  <2>3. p.window # g.window + Window BY <1>2, <1>7, <1>11
  <2>4. g.window = p.window + Window => Judged(p, g)
    <3> SUFFICES ASSUME g.window = p.window + Window PROVE Judged(p, g)
      OBVIOUS
    <3>1. p.nth <= w.prev /\ p.nth \in Nat BY <1>7, <1>11
    <3>2. p.nth * left + w.count * Window < Limit * Window BY <1>12, <3>1
    <3>3. g.nth - 1 = w.count /\ Window - (g.at - g.window) = left BY <1>3, <1>7
    <3> HIDE DEF left
    <3> QED BY <3>2, <3>3 DEF Judged
  <2> QED BY <1>7, <1>11, <2>1, <2>2, <2>3, <2>4 DEF PairOK
<1>15. RecordInv'
  <2>1. RecordInv /\ g.at <= time BY <1>1, <1>7 DEF LimiterInv
  <2> QED BY <1>4, <1>6, <1>8, <1>13, <1>14, <2>1, AddRecord
<1>16. WindowOK(memory)'
  <2>1. \A p \in counted' : /\ p.window <= memory'.start /\ Spaced(p.window, memory'.start)
                            /\ p.window = memory'.start => p.nth <= memory'.count
                            /\ memory'.start = p.window + Window => p.nth <= memory'.prev
    <3>1. ASSUME NEW p \in counted
          PROVE  /\ p.window <= memory'.start /\ Spaced(p.window, memory'.start)
                 /\ p.window = memory'.start => p.nth <= memory'.count
                 /\ memory'.start = p.window + Window => p.nth <= memory'.prev
      BY <1>3, <1>5, <1>11
    <3>2. /\ g.window <= memory'.start /\ Spaced(g.window, memory'.start)
          /\ g.window = memory'.start => g.nth <= memory'.count
          /\ memory'.start = g.window + Window => g.nth <= memory'.prev
      BY <1>2, <1>3, <1>5, <1>7 DEF Spaced
    <3> QED BY <1>6, <3>1, <3>2
  <2>2. ASSUME NEW k \in 1..memory'.count PROVE \E p \in counted' : p.window = memory'.start /\ p.nth = k
    <3>1. CASE k = w.count + 1 BY <1>5, <1>6, <1>7, <3>1
    <3>2. CASE k \in 1..w.count
      <4>1. PICK p \in counted : p.window = w.start /\ p.nth = k BY <1>2, <3>2 DEF WindowOK
      <4> QED BY <1>5, <1>6, <4>1
    <3> QED BY <1>3, <1>5, <3>1, <3>2
  <2>3. ASSUME NEW k \in 1..memory'.prev PROVE \E p \in counted' : memory'.start = p.window + Window /\ p.nth = k
    <3>1. PICK p \in counted : w.start = p.window + Window /\ p.nth = k BY <1>2, <1>5 DEF WindowOK
    <3> QED BY <1>5, <1>6, <3>1
  <2> QED BY <1>5, <2>1, <2>2, <2>3 DEF WindowOK
<1>17. memory'.start \in Nat /\ memory'.start <= time' /\ memory' # NoWindow
  <2>1. memory'.start \in Nat /\ memory'.start <= time' BY <1>2, <1>4, <1>5
  <2>2. NoWindow.start = -1 BY DEF NoWindow
  <2>3. memory'.start # -1 BY <2>1
  <2> QED BY <2>1, <2>2, <2>3
<1> QED BY <1>15, <1>16, <1>17 DEF MemoryInv

\* A block rolls the window and counts nothing.
LEMMA MemoryBlockKeeps ==
  ASSUME LimiterInv, NEW r \in Requests, MemoryBlock(r)
  PROVE  RecordInv' /\ MemoryInv'
<1> DEFINE w == Rolled(now[r])
<1>1. now[r] \in Nat /\ now[r] <= time /\ time <= now[r] + MaxDelay /\ store = "memory" /\ time \in Nat
  BY DEF LimiterInv, ClockInv, MemoryBlock, Times
<1>2. WindowOK(w) /\ w.start \in Nat /\ w.start <= time BY <1>1, RolledOK
<1>3. memory' = w /\ UNCHANGED <<store, time, counted>> BY DEF MemoryBlock
<1> HIDE DEF w
<1>4. RecordInv' BY <1>1, <1>3, SameRecords DEF LimiterInv
<1>5. WindowOK(memory)' BY <1>2, <1>3 DEF WindowOK
<1>6. memory' # NoWindow
  <2>1. NoWindow.start = -1 BY DEF NoWindow
  <2>2. w.start # -1 BY <1>2
  <2> QED BY <1>3, <2>1, <2>2
<1> QED BY <1>2, <1>3, <1>4, <1>5, <1>6 DEF MemoryInv

-----------------------------------------------------------------------------
(* In Redis. *)

\* What the keys hold when a request runs: all of its bucket, all of the bucket before that
\* is near it in time, and something of the next, if anything is there.
LEMMA KeysAreThere ==
  ASSUME LimiterInv, store = "redis", MaxDelay <= Window,
         NEW n \in Nat, n <= time, time <= n + MaxDelay
  PROVE  LET b == n \div Window IN
         /\ b \in Nat /\ b \in Buckets /\ Get(b) \in Nat /\ Get(b - 1) \in Nat /\ Get(b + 1) \in Nat
         /\ \A p \in counted :
              /\ Bucket(p) = b => p.nth <= Get(b)
              /\ Bucket(p) + 1 = b /\ n < p.at + Window => p.nth <= Get(b - 1)
              /\ Bucket(p) = b + 1 => Get(b + 1) > 0
         /\ \A k \in 1..Get(b) : \E p \in counted : p.window = b * Window /\ p.nth = k
         /\ \A k \in 1..Get(b - 1) : \E p \in counted : p.window = (b - 1) * Window /\ p.nth = k
<1> DEFINE b == n \div Window
<1>1. b \in Nat /\ b * Window \in Nat /\ b * Window <= n /\ n < b * Window + Window BY Division, Multiples
<1>2. time \in Nat /\ time \in Times BY DEF LimiterInv, ClockInv, Times
<1>3. b \in Buckets
  <2>1. n \in Times BY <1>2 DEF Times
  <2> QED BY <2>1, BucketOfTime
<1>4. redis \in [Buckets -> [count : Nat, expires : Nat]] BY DEF LimiterInv, RedisInv
<1>5. \A c : Get(c) \in Nat BY <1>4 DEF Get
<1>6. \A c \in Buckets : c \in Nat BY DEF Buckets
<1>7. \A p \in counted : /\ Bucket(p) \in Buckets /\ Bucket(p) \in Nat /\ p.at \in Nat /\ p.nth \in Nat /\ p.nth >= 1
                         /\ p.nth <= redis[Bucket(p)].count
                         /\ p.at + 2 * Window <= redis[Bucket(p)].expires
                         /\ Bucket(p) * Window <= p.at
  <2> TAKE p \in counted
  <2>1. p.at \in Nat /\ p.nth \in Nat /\ p.nth >= 1 BY DEF LimiterInv, RecordInv, RecordOK, Records
  <2>2. Bucket(p) * Window <= p.at BY <2>1, Division DEF Bucket
  <2> QED BY <1>6, <2>1, <2>2 DEF LimiterInv, RedisInv
<1> HIDE DEF b
<1>8. ASSUME NEW p \in counted, time < p.at + 2 * Window PROVE p.nth <= Get(Bucket(p))
  <2>1. redis[Bucket(p)].expires \in Nat BY <1>4, <1>7
  <2>2. time < redis[Bucket(p)].expires BY <1>2, <1>7, <1>8, <2>1
  <2> QED BY <1>7, <2>2 DEF Get
<1>9. ASSUME NEW p \in counted, Bucket(p) = b PROVE p.nth <= Get(b)
  <2>1. time < p.at + 2 * Window BY <1>1, <1>2, <1>7, <1>9
  <2> QED BY <1>8, <1>9, <2>1
<1>10. ASSUME NEW p \in counted, Bucket(p) + 1 = b, n < p.at + Window PROVE p.nth <= Get(b - 1)
  <2>1. time < p.at + 2 * Window BY <1>2, <1>7, <1>10
  <2>2. Bucket(p) = b - 1 BY <1>1, <1>7, <1>10
  <2> QED BY <1>8, <2>1, <2>2
<1>11. ASSUME NEW p \in counted, Bucket(p) = b + 1 PROVE Get(b + 1) > 0
  <2>1. (b + 1) * Window = b * Window + Window BY <1>1, Multiples
  <2>2. n < p.at BY <1>1, <1>7, <1>11, <2>1
  <2>3. time < p.at + 2 * Window BY <1>2, <1>7, <2>2
  <2>4. p.nth <= Get(Bucket(p)) BY <1>8, <2>3
  <2> QED BY <1>5, <1>7, <1>11, <2>4
<1>12. ASSUME NEW c, NEW k \in 1..Get(c) PROVE \E p \in counted : p.window = c * Window /\ p.nth = k
  <2>1. Get(c) # 0 BY <1>12
  <2>2. c \in Buckets /\ Get(c) = redis[c].count BY <2>1 DEF Get
  <2> QED BY <2>2 DEF LimiterInv, RedisInv
<1> QED BY <1>1, <1>3, <1>5, <1>9, <1>10, <1>11, <1>12 DEF b

\* One run of the script that counts.
LEMMA IncrKeeps ==
  ASSUME LimiterInv, MaxDelay <= Window, NEW r \in Requests, store = "redis", pc[r] = "allow",
         ~RedisReached(now[r]), Incr(r), UNCHANGED <<store, time>>
  PROVE  RecordInv' /\ RedisInv'
<1> DEFINE n == now[r]
           b == n \div Window
           g == [at |-> n, window |-> b * Window, nth |-> Get(b) + 1, late |-> Get(b + 1) > 0]
           left == Window - (n % Window)
<1>1. n \in Nat /\ n <= time /\ time <= n + MaxDelay /\ time \in Nat
  BY DEF LimiterInv, ClockInv, Times
<1>2. /\ b \in Nat /\ b \in Buckets /\ Get(b) \in Nat /\ Get(b - 1) \in Nat /\ Get(b + 1) \in Nat
      /\ \A p \in counted :
           /\ Bucket(p) = b => p.nth <= Get(b)
           /\ Bucket(p) + 1 = b /\ n < p.at + Window => p.nth <= Get(b - 1)
           /\ Bucket(p) = b + 1 => Get(b + 1) > 0
      /\ \A k \in 1..Get(b) : \E p \in counted : p.window = b * Window /\ p.nth = k
  BY <1>1, KeysAreThere
<1>3. /\ b * Window \in Nat /\ b * Window <= n /\ n < b * Window + Window /\ n % Window = n - b * Window
  BY <1>1, <1>2, Division, Multiples
<1>4. /\ redis' = [redis EXCEPT ![b] = [count |-> Get(b) + 1, expires |-> time + 2 * Window]]
      /\ counted' = counted \cup {g}
  BY DEF Incr, Count
<1>5. left \in Nat /\ left = Window - (n - b * Window) BY <1>1, <1>3
<1>6. ~Reached(Get(b - 1), left, Get(b)) BY DEF RedisReached
<1>7. g.at = n /\ g.window = b * Window /\ g.nth = Get(b) + 1 /\ g.late = (Get(b + 1) > 0) OBVIOUS
<1>8. g \in Records BY <1>1, <1>2, <1>3 DEF Records
<1>9. Bucket(g) = b BY <1>7 DEF Bucket
<1> HIDE DEF g, left
<1>10. Get(b) < Limit /\ \A m \in Nat : m <= Get(b - 1) => m * left + Get(b) * Window < Limit * Window
  <2> HIDE DEF n, b
  <2> QED BY <1>2, <1>5, <1>6, BelowLimit
<1> HIDE DEF n, b
<1>11. \A p \in counted : /\ p \in Records /\ p.at \in Nat /\ p.nth \in Nat /\ p.at <= time
                          /\ Bucket(p) \in Nat /\ p.window = Bucket(p) * Window
  BY DEF LimiterInv, RecordInv, RedisInv, Records, Buckets
<1>12. RecordOK(g) BY <1>1, <1>2, <1>3, <1>7, <1>10 DEF RecordOK
<1>13. ASSUME NEW p \in counted PROVE PairOK(p, g) /\ PairOK(g, p)
  <2> DEFINE c == Bucket(p)
  <2>1. /\ c \in Nat /\ p.window = c * Window /\ g.window = b * Window BY <1>7, <1>11
  <2> HIDE DEF c
  <2>2. /\ Spaced(p.window, g.window)
        /\ p.window = g.window => c = b
        /\ g.window = p.window + Window => b = c + 1
    BY <1>2, <2>1, MultiplesApart
  <2>3. /\ Spaced(g.window, p.window)
        /\ p.window = g.window + Window => c = b + 1
    BY <1>2, <2>1, MultiplesApart
  <2>4. p.window = g.window => p.nth # g.nth BY <1>2, <1>7, <1>11, <2>2 DEF c
  <2>5. g.window = p.window + Window /\ g.at < p.at + Window => Judged(p, g)
    <3> SUFFICES ASSUME g.window = p.window + Window, g.at < p.at + Window PROVE Judged(p, g)
      OBVIOUS
    <3>1. p.nth <= Get(b - 1) /\ p.nth \in Nat BY <1>2, <1>7, <1>11, <2>2 DEF c
    <3>2. p.nth * left + Get(b) * Window < Limit * Window BY <1>10, <3>1
    <3>3. g.nth - 1 = Get(b) /\ Window - (g.at - g.window) = left BY <1>2, <1>5, <1>7
    <3> QED BY <3>2, <3>3 DEF Judged
  <2>6. p.window = g.window + Window => g.late BY <1>2, <1>7, <2>3 DEF c
  <2> QED BY <2>2, <2>3, <2>4, <2>5, <2>6 DEF PairOK
<1>14. RecordInv'
  <2>1. RecordInv /\ g.at <= time BY <1>1, <1>7 DEF LimiterInv
  <2> QED BY <1>4, <1>8, <1>12, <1>13, <2>1, AddRecord
<1>15. redis \in [Buckets -> [count : Nat, expires : Nat]] BY DEF LimiterInv, RedisInv
<1>16. /\ redis' \in [Buckets -> [count : Nat, expires : Nat]]
       /\ redis'[b].count = Get(b) + 1 /\ redis'[b].expires = time + 2 * Window
       /\ \A c \in Buckets \ {b} : redis'[c] = redis[c]
  BY <1>1, <1>2, <1>4, <1>15
<1>17. ASSUME NEW p \in counted'
       PROVE  /\ Bucket(p) \in Buckets /\ p.window = Bucket(p) * Window
              /\ p.nth <= redis'[Bucket(p)].count
              /\ p.at + 2 * Window <= redis'[Bucket(p)].expires
  <2>1. CASE p = g BY <1>1, <1>2, <1>7, <1>9, <1>16, <2>1
  <2>2. CASE p \in counted /\ Bucket(p) = b
    <3>1. p.nth <= Get(b) /\ p.nth \in Nat BY <1>2, <1>11, <2>2
    <3> QED BY <1>1, <1>2, <1>11, <1>16, <2>2, <3>1
  <2>3. CASE p \in counted /\ Bucket(p) # b BY <1>16, <2>3 DEF LimiterInv, RedisInv
  <2> QED BY <1>4, <2>1, <2>2, <2>3
<1>18. ASSUME NEW c \in Buckets, NEW k \in 1..redis'[c].count
       PROVE  \E p \in counted' : p.window = c * Window /\ p.nth = k
  <2>1. CASE c # b
    <3>1. PICK p \in counted : p.window = c * Window /\ p.nth = k BY <1>16, <2>1 DEF LimiterInv, RedisInv
    <3> QED BY <1>4, <3>1
  <2>2. CASE c = b /\ k \in 1..Get(b)
    <3>1. PICK p \in counted : p.window = b * Window /\ p.nth = k BY <1>2, <2>2
    <3> QED BY <1>4, <2>2, <3>1
  <2>3. CASE c = b /\ k = Get(b) + 1 BY <1>4, <1>7, <2>3
  <2> QED BY <1>2, <1>16, <2>1, <2>2, <2>3
<1>19. \A p : Bucket(p)' = Bucket(p) BY DEF Bucket
<1> QED BY <1>14, <1>16, <1>17, <1>18, <1>19 DEF RedisInv

-----------------------------------------------------------------------------
(* All steps. *)

LEMMA LimiterInit == Init => LimiterInv
<1> SUFFICES ASSUME Init PROVE LimiterInv
  OBVIOUS
<1>1. ClockInv
  <2>1. now = [r \in Requests |-> 0] /\ pc = [r \in Requests |-> "idle"] /\ time = 0 BY DEF Init
  <2> QED BY <2>1 DEF Init, ClockInv, Times
<1>2. RecordInv BY FS_EmptySet DEF Init, RecordInv
<1>3. MemoryInv
  <2>1. memory = NoWindow /\ counted = {} BY DEF Init
  <2>2. NoWindow \in [start : Int, count : Nat, prev : Nat] /\ NoWindow.count = 0 /\ NoWindow.prev = 0 BY DEF NoWindow
  <2> QED BY <2>1, <2>2 DEF MemoryInv, WindowOK
<1>4. RedisInv
  <2>1. redis = [b \in Buckets |-> [count |-> 0, expires |-> 0]] /\ counted = {} BY DEF Init
  <2> QED BY <2>1 DEF RedisInv
<1> QED BY <1>1, <1>2, <1>3, <1>4 DEF LimiterInv

LEMMA ClockStep ==
  ASSUME LimiterInv, [Next]_vars PROVE ClockInv' /\ store' = store
<1>1. ASSUME NEW r \in Requests, Leave(r), UNCHANGED <<store, time>> PROVE ClockInv' /\ store' = store
  BY <1>1 DEF Leave, LimiterInv, ClockInv, Times
<1>2. ASSUME NEW r \in Requests, Arrive(r) PROVE ClockInv' /\ store' = store
  BY <1>2 DEF Arrive, LimiterInv, ClockInv, Times
<1>3. CASE Tick BY <1>3 DEF Tick, LimiterInv, ClockInv, Times
<1>4. CASE UNCHANGED vars BY <1>4 DEF vars, LimiterInv, ClockInv
<1>5. ASSUME NEW r \in Requests, RedisAnswerLost(r) PROVE ClockInv' /\ store' = store
  BY <1>5 DEF RedisAnswerLost, LimiterInv, ClockInv
<1>6. ASSUME NEW r \in Requests,
             MemoryAllow(r) \/ MemoryBlock(r) \/ RedisAllow(r) \/ RedisBlock(r) \/ RedisUnreachable(r)
      PROVE  ClockInv' /\ store' = store
  BY <1>1, <1>6 DEF MemoryAllow, MemoryBlock, RedisAllow, RedisBlock, RedisUnreachable
<1> QED BY <1>2, <1>3, <1>4, <1>5, <1>6 DEF Next

\* A step that leaves the counters alone keeps the invariant.
LEMMA NothingCounted ==
  ASSUME LimiterInv, UNCHANGED <<store, memory, redis, counted>>, time' \in {time, time + 1}
  PROVE  RecordInv' /\ MemoryInv' /\ RedisInv'
<1>1. time \in Nat BY DEF LimiterInv, ClockInv, Times
<1>2. RecordInv' BY <1>1, SameRecords DEF LimiterInv
<1>3. WindowOK(memory)' <=> WindowOK(memory) BY DEF WindowOK, Spaced
<1>4. MemoryInv' BY <1>1, <1>3 DEF LimiterInv, MemoryInv
<1>5. RedisInv' BY DEF LimiterInv, RedisInv, Bucket
<1> QED BY <1>2, <1>4, <1>5

LEMMA LimiterStep ==
  ASSUME MaxDelay <= Window PROVE LimiterInv /\ [Next]_vars => LimiterInv'
<1> SUFFICES ASSUME LimiterInv, [Next]_vars PROVE RecordInv' /\ MemoryInv' /\ RedisInv'
  BY ClockStep DEF LimiterInv
<1>1. ASSUME NEW r \in Requests, MemoryAllow(r) \/ MemoryBlock(r) PROVE RecordInv' /\ MemoryInv' /\ RedisInv'
  <2>1. RecordInv' /\ MemoryInv' BY <1>1, MemoryAllowKeeps, MemoryBlockKeeps
  <2>2. store' # "redis" BY <1>1 DEF MemoryAllow, MemoryBlock
  <2> QED BY <2>1, <2>2 DEF RedisInv
<1>2. ASSUME NEW r \in Requests, RedisAllow(r) \/ RedisAnswerLost(r) PROVE RecordInv' /\ MemoryInv' /\ RedisInv'
  <2>1. /\ store = "redis" /\ pc[r] = "allow" /\ ~RedisReached(now[r]) /\ Incr(r) /\ UNCHANGED <<store, time>>
    BY <1>2 DEF RedisAllow, RedisAnswerLost
  <2>2. RecordInv' /\ RedisInv' BY <2>1, IncrKeeps
  <2> QED BY <2>1, <2>2 DEF MemoryInv
<1>3. ASSUME NEW r \in Requests, Arrive(r) \/ RedisBlock(r) \/ RedisUnreachable(r)
      PROVE  RecordInv' /\ MemoryInv' /\ RedisInv'
  BY <1>3, NothingCounted DEF Arrive, RedisBlock, RedisUnreachable
<1>4. CASE Tick BY <1>4, NothingCounted DEF Tick
<1>5. CASE UNCHANGED vars BY <1>5, NothingCounted DEF vars
<1> QED BY <1>1, <1>2, <1>3, <1>4, <1>5 DEF Next

LEMMA LimiterInvariant == ASSUME MaxDelay <= Window PROVE Spec => []LimiterInv
<1>1. LimiterInv /\ [Next]_vars => LimiterInv' BY LimiterStep
<1> QED BY <1>1, LimiterInit, PTL DEF Spec

-----------------------------------------------------------------------------
(* Counting. *)

\* The cardinality of a union.
LEMMA UnionBound ==
  ASSUME NEW S, NEW T, IsFiniteSet(S), IsFiniteSet(T)
  PROVE  /\ IsFiniteSet(S \cup T) /\ Cardinality(S \cup T) \in Nat
         /\ Cardinality(S) \in Nat /\ Cardinality(T) \in Nat
         /\ Cardinality(S \cup T) <= Cardinality(S) + Cardinality(T)
         /\ S \cap T = {} => Cardinality(S \cup T) = Cardinality(S) + Cardinality(T)
<1>1. IsFiniteSet(S \cup T) /\ Cardinality(S \cup T) = Cardinality(S) + Cardinality(T) - Cardinality(S \cap T)
  BY FS_Union
<1>2. IsFiniteSet(S \cap T) BY FS_Intersection
<1>3. Cardinality(S) \in Nat /\ Cardinality(T) \in Nat /\ Cardinality(S \cap T) \in Nat
  BY <1>2, FS_CardinalityType
<1>4. Cardinality(S \cup T) \in Nat BY <1>1, FS_CardinalityType
<1>5. S \cap T = {} => Cardinality(S \cap T) = 0 BY FS_EmptySet
<1> QED BY <1>1, <1>3, <1>4, <1>5

\* Every set of numbers has a least one.
LEMMA LeastNumber ==
  ASSUME NEW T, T \subseteq Nat, T # {}
  PROVE  \E x \in T : \A y \in T : x <= y
<1> DEFINE R == {ss \in Nat \X Nat : ss[1] < ss[2]}
<1>1. IsWellFoundedOn(R, Nat)
  BY NatLessThanWellFounded, Zenon DEF OpToRel
<1> HIDE DEF R
<1>2. \E x \in T : \A y \in T : <<y, x>> \notin R
  BY <1>1, WFMin
<1>3. \A x, y \in Nat : <<y, x>> \notin R => x <= y
  BY DEF R
<1> QED BY <1>2, <1>3

\* Requests that one window counted are at most as many as the number of the last of them.
LEMMA LastOfWindow ==
  ASSUME RecordInv, NEW S, S \subseteq counted, S # {}, \A p, q \in S : p.window = q.window
  PROVE  \E m \in S : IsFiniteSet(S) /\ Cardinality(S) \in Nat /\ Cardinality(S) <= m.nth
<1> DEFINE T == {Limit - p.nth : p \in S}
<1>1. \A p \in S : p.nth \in Nat /\ 1 <= p.nth /\ p.nth <= Limit BY DEF RecordInv, RecordOK, Records
<1>2. T \subseteq Nat /\ T # {} BY <1>1
<1>3. PICK x \in T : \A y \in T : x <= y
  <2> HIDE DEF T
  <2> QED BY <1>2, LeastNumber
<1>4. PICK m \in S : x = Limit - m.nth OBVIOUS
<1>5. \A p \in S : p.nth <= m.nth
  <2> TAKE p \in S
  <2>1. Limit - m.nth <= Limit - p.nth BY <1>3, <1>4
  <2> QED BY <1>1, <2>1
<1> DEFINE f == [p \in S |-> p.nth]
<1>6. f \in Injection(S, 1..m.nth)
  <2>1. f \in [S -> 1..m.nth] BY <1>1, <1>5
  <2>2. \A p, q \in S : p.nth = q.nth => p = q BY DEF RecordInv, PairOK
  <2> QED BY <2>1, <2>2 DEF Injection, IsInjective
<1>7. IsFiniteSet(1..m.nth) /\ Cardinality(1..m.nth) = m.nth
  <2> DEFINE k == m.nth
  <2>1. 1 \in Int /\ k \in Int /\ k >= 1 BY <1>1
  <2> HIDE DEF k
  <2>2. IsFiniteSet(1..k) /\ Cardinality(1..k) = IF 1 > k THEN 0 ELSE k - 1 + 1 BY <2>1, FS_Interval
  <2>3. Cardinality(1..k) = k BY <2>1, <2>2
  <2> QED BY <2>2, <2>3 DEF k
<1> HIDE DEF f, T
<1>8. IsFiniteSet(S) /\ Cardinality(S) <= m.nth BY <1>6, <1>7, FS_Injection
<1> QED BY <1>8, FS_CardinalityType

-----------------------------------------------------------------------------
(* The window slides. *)

\* Two windows in a row, and a request of the second that was judged against the first:
\* together they let the limit and the share of e ticks through.
LEMMA SharedLimit ==
  ASSUME NEW a \in Nat, NEW b \in Nat, NEW e \in Nat, NEW d \in Nat, e <= d, d < Window, b >= 1, a <= Limit,
         a * (Window - e) + (b - 1) * Window < Limit * Window
  PROVE  a + b <= Limit + (Limit * d + Window - 1) \div Window
<1>1. a * (Window - e) = a * Window - a * e OBVIOUS
<1>2. (b - 1) * Window = b * Window - Window OBVIOUS
<1>3. a * e <= Limit * d
  <2>1. a * e <= Limit * e OBVIOUS
  <2>2. Limit * e <= Limit * d OBVIOUS
  <2>3. a * e \in Nat /\ Limit * e \in Nat /\ Limit * d \in Nat OBVIOUS
  <2> QED BY <2>1, <2>2, <2>3
<1>4. /\ a * Window \in Nat /\ b * Window \in Nat /\ a * e \in Nat /\ Limit * d \in Nat /\ Limit * Window \in Nat
  OBVIOUS
<1>5. a * Window + b * Window - Limit * Window <= Limit * d + Window - 1 BY <1>1, <1>2, <1>3, <1>4
<1>6. (a + b - Limit) * Window = a * Window + b * Window - Limit * Window OBVIOUS
<1> DEFINE n == a + b - Limit
           m == Limit * d + Window - 1
<1>7. n \in Int /\ m \in Int /\ n * Window <= m BY <1>4, <1>5, <1>6
<1> HIDE DEF n, m
<1>8. n <= m \div Window BY <1>7
<1>9. m \div Window \in Int BY <1>7
<1> QED BY <1>7, <1>8, <1>9 DEF n, m

\* Judged with full weight and more: together within the limit.
LEMMA WithinLimit ==
  ASSUME NEW a \in Nat, NEW b \in Nat, NEW left \in Nat, left >= Window,
         a * left + (b - 1) * Window < Limit * Window
  PROVE  a + b <= Limit
<1>1. a * Window <= a * left OBVIOUS
<1>2. (b - 1) * Window = b * Window - Window OBVIOUS
<1>3. a * Window \in Nat /\ b * Window \in Nat /\ a * left \in Nat /\ Limit * Window \in Nat OBVIOUS
<1>4. a * Window + b * Window < Limit * Window + Window BY <1>1, <1>2, <1>3
<1>5. (a + b) * Window = a * Window + b * Window /\ (Limit + 1) * Window = Limit * Window + Window OBVIOUS
<1>6. (a + b) * Window < (Limit + 1) * Window BY <1>4, <1>5
<1>7. a + b >= Limit + 1 => (a + b) * Window >= (Limit + 1) * Window OBVIOUS
<1> QED BY <1>6, <1>7

\* The window slides, for every limit, window, number of requests and store: wherever a
\* stretch of d ticks begins, it lets through at most the limit and d's share of it, or
\* twice the limit where requests were overtaken across a boundary.
THEOREM WindowsSlide == ASSUME MaxDelay <= Window PROVE Spec => []WindowSlides
<1>1. LimiterInv => WindowSlides
  <2> SUFFICES ASSUME LimiterInv, NEW t \in Times, NEW d \in 0..(Window - 1)
               PROVE  LET S == {p \in counted : p.at \in t..(t + d)} IN
                      Cardinality(S) <= IF \E p \in S : p.late THEN 2 * Limit
                                        ELSE Limit + (Limit * d + Window - 1) \div Window
    BY DEF WindowSlides
  <2> DEFINE S == {p \in counted : p.at \in t..(t + d)}
             A == {p \in S : p.window < t}
             B == {p \in S : t <= p.window /\ p.window < t + Window}
             C == {p \in S : t + Window <= p.window}
             share == (Limit * d + Window - 1) \div Window
  <2>1. t \in Nat /\ d \in Nat /\ d < Window BY DEF Times
  <2>2. RecordInv /\ store \in {"memory", "redis"} BY DEF LimiterInv, ClockInv
  <2>3. \A p \in S : /\ p \in counted /\ p.at \in Nat /\ p.window \in Nat /\ p.nth \in Nat
                     /\ p.nth >= 1 /\ p.nth <= Limit
                     /\ t <= p.at /\ p.at <= t + d
                     /\ p.at < p.window + Window /\ p.window <= p.at + MaxDelay
                     /\ store = "redis" \/ ~p.late => p.window <= p.at
    BY <2>1, <2>2 DEF RecordInv, RecordOK, Records
  <2>4. \A p, q \in S : /\ p.window < q.window => q.window = p.window + Window \/ q.window >= p.window + 2 * Window
                        /\ q.window = p.window + Window => Judged(p, q) \/ (store = "redis" /\ p.late)
    <3> TAKE p, q \in S
    <3>1. PairOK(p, q) BY <2>2 DEF RecordInv
    <3>2. q.at < p.at + Window BY <2>1, <2>3
    <3> QED BY <3>1, <3>2 DEF PairOK, Spaced
  <2>5. A \subseteq counted /\ B \subseteq counted /\ C \subseteq counted OBVIOUS
  <2>6. \A p \in A : p \in S /\ p.window < t OBVIOUS
  <2>7. \A p \in B : p \in S /\ t <= p.window /\ p.window < t + Window OBVIOUS
  <2>8. \A p \in C : p \in S /\ t + Window <= p.window OBVIOUS
  <2>9. S = A \cup B \cup C BY <2>1, <2>3
  <2>10. share \in Nat
    <3>1. Limit * d + Window - 1 \in Nat BY <2>1
    <3> QED BY <3>1, Division
  <2> HIDE DEF S, A, B, C, share
  <2>11. \A p, q \in A : p.window = q.window
    <3>1. \A p, q \in A : ~(p.window < q.window) BY <2>1, <2>3, <2>4, <2>6
    <3> QED BY <2>3, <2>6, <3>1
  <2>12. \A p, q \in B : p.window = q.window
    <3>1. \A p, q \in B : ~(p.window < q.window) BY <2>1, <2>3, <2>4, <2>7
    <3> QED BY <2>3, <2>7, <3>1
  <2>13. \A p, q \in C : p.window = q.window
    <3>1. \A p, q \in C : ~(p.window < q.window) BY <2>1, <2>3, <2>4, <2>8
    <3> QED BY <2>3, <2>8, <3>1
  <2>14. \A X \in {A, B, C} :
           \/ X = {} /\ IsFiniteSet(X) /\ Cardinality(X) = 0
           \/ \E m \in X : IsFiniteSet(X) /\ Cardinality(X) \in Nat /\ Cardinality(X) <= m.nth
    <3> TAKE X \in {A, B, C}
    <3>1. CASE X = {} BY <3>1, FS_EmptySet
    <3>2. CASE X # {} BY <2>2, <2>5, <2>11, <2>12, <2>13, <3>2, LastOfWindow
    <3> QED BY <3>1, <3>2
  <2> DEFINE a == Cardinality(A)
             b == Cardinality(B)
             c == Cardinality(C)
  <2>15. \A p \in A \cup B \cup C : p.nth \in Nat /\ p.nth <= Limit BY <2>3, <2>6, <2>7, <2>8
  <2>16. a \in Nat /\ b \in Nat /\ c \in Nat /\ a <= Limit /\ b <= Limit /\ c <= Limit
    <3>1. a \in Nat /\ a <= Limit BY <2>14, <2>15
    <3>2. b \in Nat /\ b <= Limit BY <2>14, <2>15
    <3>3. c \in Nat /\ c <= Limit BY <2>14, <2>15
    <3> QED BY <3>1, <3>2, <3>3
  <2>17. Cardinality(S) \in Nat /\ Cardinality(S) <= a + b + c
    <3> DEFINE AB == A \cup B
    <3>1. IsFiniteSet(A) /\ IsFiniteSet(B) /\ IsFiniteSet(C) BY <2>14
    <3>2. IsFiniteSet(AB) /\ Cardinality(AB) \in Nat /\ Cardinality(AB) <= a + b BY <3>1, UnionBound
    <3>3. S = AB \cup C BY <2>9
    <3> HIDE DEF AB
    <3>4. Cardinality(S) \in Nat /\ Cardinality(S) <= Cardinality(AB) + c BY <3>1, <3>2, <3>3, UnionBound
    <3> QED BY <2>16, <3>2, <3>4
  <2> HIDE DEF a, b, c
  <2>18. CASE \E p \in S : p.late
    <3>1. CASE c = 0 BY <2>16, <2>17, <2>18, <3>1 DEF S
    <3>2. CASE b = 0 BY <2>16, <2>17, <2>18, <3>2 DEF S
    <3>3. CASE b # 0 /\ c # 0
      <4>1. PICK p \in B : b <= p.nth BY <2>14, <3>3 DEF b
      <4>2. PICK q \in C : c <= q.nth BY <2>14, <3>3 DEF c
      <4>3. p \in S /\ q \in S BY <2>7, <2>8
      <4>4. q.window = p.window + Window BY <2>1, <2>3, <2>4, <2>7, <2>8, <4>3
      <4>5. q.at < q.window BY <2>1, <2>3, <2>8, <4>3
      <4>6. store # "redis" BY <2>3, <4>3, <4>5
      <4>7. Judged(p, q) BY <2>4, <4>3, <4>4, <4>6
      <4> DEFINE left == Window - (q.at - q.window)
      <4>8. left \in Nat /\ left >= Window BY <2>3, <4>3, <4>5
      <4>9. p.nth * left + (q.nth - 1) * Window < Limit * Window BY <4>7 DEF Judged
      <4>10. p.nth \in Nat /\ q.nth \in Nat BY <2>3, <4>3
      <4> HIDE DEF left
      <4>11. p.nth + q.nth <= Limit BY <4>8, <4>9, <4>10, WithinLimit
      <4>12. b + c <= Limit BY <2>16, <4>1, <4>2, <4>10, <4>11
      <4>13. Cardinality(S) <= 2 * Limit BY <2>16, <2>17, <4>12
      <4> QED BY <2>18, <4>13 DEF S
    <3> QED BY <3>1, <3>2, <3>3
  <2>19. CASE ~ \E p \in S : p.late
    <3>1. \A p \in S : ~p.late /\ p.window <= p.at BY <2>3, <2>19
    <3>2. C = {} BY <2>1, <2>3, <2>8, <3>1
    <3>3. c = 0 BY <3>2, FS_EmptySet DEF c
    <3>4. Cardinality(S) <= Limit + share
      <4>1. CASE a = 0 BY <2>10, <2>16, <2>17, <3>3, <4>1
      <4>2. CASE b = 0 BY <2>10, <2>16, <2>17, <3>3, <4>2
      <4>3. CASE a # 0 /\ b # 0
        <5>1. PICK p \in A : a <= p.nth BY <2>14, <4>3 DEF a
        <5>2. PICK q \in B : b <= q.nth BY <2>14, <4>3 DEF b
        <5>3. p \in S /\ q \in S BY <2>6, <2>7
        <5>4. q.window = p.window + Window BY <2>1, <2>3, <2>4, <2>6, <2>7, <3>1, <5>3
        <5>5. Judged(p, q) BY <2>4, <3>1, <5>3, <5>4
        <5> DEFINE e == q.at - q.window
        <5>6. e \in Nat /\ e <= d BY <2>1, <2>3, <2>7, <3>1, <5>3
        <5>7. p.nth * (Window - e) + (q.nth - 1) * Window < Limit * Window BY <5>5 DEF Judged
        <5>8. p.nth \in Nat /\ q.nth \in Nat /\ q.nth >= 1 /\ p.nth <= Limit BY <2>3, <5>3
        <5> HIDE DEF e
        <5>9. p.nth + q.nth <= Limit + share BY <2>1, <5>6, <5>7, <5>8, SharedLimit DEF share
        <5> QED BY <2>10, <2>16, <2>17, <3>3, <5>1, <5>2, <5>8, <5>9
      <4> QED BY <4>1, <4>2, <4>3
    <3> QED BY <2>19, <3>4 DEF S, share
  <2> QED BY <2>18, <2>19
<1> QED BY <1>1, LimiterInvariant, PTL

\* Each request that is counted is on record, as itself: the record counts them.
THEOREM EveryRequestIsOnRecord ==
  ASSUME MaxDelay <= Window
  PROVE  Spec => [][\A r \in Requests : MemoryAllow(r) \/ RedisAllow(r) \/ RedisAnswerLost(r) =>
                      Cardinality(counted') = Cardinality(counted) + 1]_vars
<1>1. ASSUME LimiterInv, NEW r \in Requests, MemoryAllow(r)
      PROVE  Cardinality(counted') = Cardinality(counted) + 1
  <2> DEFINE w == Rolled(now[r])
             g == [at |-> now[r], window |-> w.start, nth |-> memory'.count, late |-> now[r] < w.start]
  <2>1. now[r] \in Nat /\ now[r] <= time /\ time <= now[r] + MaxDelay /\ store = "memory"
    BY <1>1 DEF LimiterInv, ClockInv, MemoryAllow
  <2>2. WindowOK(w) BY <1>1, <2>1, RolledOK
  <2>3. memory' = [w EXCEPT !.count = @ + 1] /\ counted' = counted \cup {g} BY <1>1 DEF MemoryAllow, Count
  <2>4. w.count \in Nat /\ memory'.count = w.count + 1 BY <2>2, <2>3 DEF WindowOK
  <2>5. g.window = w.start /\ g.nth = w.count + 1 BY <2>4
  <2>6. \A p \in counted : p.nth \in Nat /\ (p.window = w.start => p.nth <= w.count)
    BY <1>1, <2>2 DEF WindowOK, LimiterInv, RecordInv, Records
  <2> HIDE DEF w, g
  <2>7. g \notin counted BY <2>4, <2>5, <2>6
  <2>8. IsFiniteSet(counted) BY <1>1 DEF LimiterInv, RecordInv
  <2> QED BY <2>3, <2>7, <2>8, FS_AddElement
<1>2. ASSUME LimiterInv, NEW r \in Requests, RedisAllow(r) \/ RedisAnswerLost(r)
      PROVE  Cardinality(counted') = Cardinality(counted) + 1
  <2> DEFINE b == now[r] \div Window
             g == [at |-> now[r], window |-> b * Window, nth |-> Get(b) + 1, late |-> Get(b + 1) > 0]
  <2>1. /\ now[r] \in Nat /\ now[r] <= time /\ time <= now[r] + MaxDelay /\ store = "redis" /\ Incr(r)
    BY <1>2 DEF LimiterInv, ClockInv, RedisAllow, RedisAnswerLost
  <2>2. Get(b) \in Nat /\ \A p \in counted : Bucket(p) = b => p.nth <= Get(b) BY <1>2, <2>1, KeysAreThere
  <2>3. counted' = counted \cup {g} BY <2>1 DEF Incr, Count
  <2>4. Bucket(g) = b /\ g.nth = Get(b) + 1 BY DEF Bucket
  <2>5. \A p \in counted : p.nth \in Nat BY <1>2 DEF LimiterInv, RecordInv, Records
  <2> HIDE DEF b, g
  <2>6. g \notin counted BY <2>2, <2>4, <2>5
  <2>7. IsFiniteSet(counted) BY <1>2 DEF LimiterInv, RecordInv
  <2> QED BY <2>3, <2>6, <2>7, FS_AddElement
<1>3. LimiterInv /\ [Next]_vars =>
        [\A r \in Requests : MemoryAllow(r) \/ RedisAllow(r) \/ RedisAnswerLost(r) =>
           Cardinality(counted') = Cardinality(counted) + 1]_vars
  BY <1>1, <1>2
<1> QED BY <1>3, LimiterInvariant, PTL DEF Spec

-----------------------------------------------------------------------------
(* Nobody is blocked for traffic of long ago. *)

OfWindow(v) == {p \in counted : p.window = v}
Since(x)    == {p \in counted : p.window > x}
Full(v, k)  == \A i \in 1..k : \E p \in counted : p.window = v /\ p.nth = i

\* A window that has counted k requests has k records.
LEMMA FullWindow ==
  ASSUME RecordInv, NEW v \in Int, NEW k \in Nat, Full(v, k)
  PROVE  IsFiniteSet(OfWindow(v)) /\ Cardinality(OfWindow(v)) \in Nat /\ Cardinality(OfWindow(v)) >= k
<1> DEFINE S == OfWindow(v)
           f == [i \in 1..k |-> CHOOSE p \in S : p.nth = i]
<1>1. IsFiniteSet(S)
  <2>1. S \in SUBSET counted BY DEF OfWindow
  <2> HIDE DEF S
  <2> QED BY <2>1, FS_Subset DEF RecordInv
<1>2. \A i \in 1..k : \E p \in S : p.nth = i BY DEF OfWindow, Full
<1> HIDE DEF S
<1>3. \A i \in 1..k : f[i] \in S /\ f[i].nth = i BY <1>2
<1>4. f \in [1..k -> S] BY <1>3
<1> HIDE DEF f
<1>5. f \in Injection(1..k, S) BY <1>3, <1>4 DEF Injection, IsInjective
<1>6. Cardinality(1..k) <= Cardinality(S) BY <1>1, <1>5, FS_Injection
<1>7. Cardinality(1..k) = k
  <2>1. 1 \in Int /\ k \in Int OBVIOUS
  <2>2. Cardinality(1..k) = IF 1 > k THEN 0 ELSE k - 1 + 1 BY <2>1, FS_Interval
  <2> QED BY <2>2
<1>8. Cardinality(S) \in Nat BY <1>1, FS_CardinalityType
<1> QED BY <1>1, <1>6, <1>7, <1>8 DEF S

\* Two windows that hold the limit between them, both begun after x.
LEMMA TwoWindows ==
  ASSUME RecordInv, NEW u \in Int, NEW v \in Int, u # v, NEW x \in Int, x < u, x < v,
         NEW k \in Nat, Full(u, k), NEW l \in Nat, Full(v, l), k + l >= Limit
  PROVE  Cardinality(Since(x)) >= Limit
<1> DEFINE U == OfWindow(u)
           V == OfWindow(v)
           X == Since(x)
<1>1. IsFiniteSet(U) /\ Cardinality(U) \in Nat /\ Cardinality(U) >= k BY FullWindow
<1>2. IsFiniteSet(V) /\ Cardinality(V) \in Nat /\ Cardinality(V) >= l BY FullWindow
<1>3. U \cap V = {} /\ (U \cup V) \in SUBSET X /\ X \in SUBSET counted BY DEF OfWindow, Since
<1> HIDE DEF U, V, X
<1>4. Cardinality(U \cup V) = Cardinality(U) + Cardinality(V) BY <1>1, <1>2, <1>3, UnionBound
<1>5. IsFiniteSet(X) BY <1>3, FS_Subset DEF RecordInv
<1>6. Cardinality(U \cup V) <= Cardinality(X) BY <1>3, <1>5, FS_Subset
<1>7. Cardinality(X) \in Nat BY <1>5, FS_CardinalityType
<1>8. Cardinality(X) >= Limit BY <1>1, <1>2, <1>4, <1>6, <1>7
<1> QED BY <1>8 DEF X

\* A blocked request finds its reason in the latest two windows, for every limit, window,
\* number of requests and store: no counter is kept past its time, and none is lost.
THEOREM BlocksAreRecent == ASSUME MaxDelay <= Window PROVE Spec => BlockedForRecent
<1>1. ASSUME LimiterInv, NEW r \in Requests, RedisBlock(r)
      PROVE  Cardinality({p \in counted : p.window > now[r] - 2 * Window}) >= Limit
  <2> DEFINE n == now[r]
             b == n \div Window
             left == Window - (n % Window)
  <2>1. n \in Nat /\ n <= time /\ time <= n + MaxDelay /\ store = "redis"
    BY <1>1 DEF LimiterInv, ClockInv, RedisBlock
  <2>2. /\ b \in Nat /\ Get(b) \in Nat /\ Get(b - 1) \in Nat
        /\ \A k \in 1..Get(b) : \E p \in counted : p.window = b * Window /\ p.nth = k
        /\ \A k \in 1..Get(b - 1) : \E p \in counted : p.window = (b - 1) * Window /\ p.nth = k
    BY <1>1, <2>1, KeysAreThere
  <2>3. b * Window \in Nat /\ b * Window <= n /\ n < b * Window + Window /\ n % Window = n - b * Window
    BY <2>1, <2>2, Division, Multiples
  <2>4. left \in Nat /\ left <= Window BY <2>1, <2>3
  <2>5. Reached(Get(b - 1), left, Get(b)) BY <1>1 DEF RedisBlock, RedisReached
  <2> HIDE DEF left, b, n
  <2>6. Get(b - 1) + Get(b) >= Limit BY <2>2, <2>4, <2>5, AtLimit
  <2>7. (b - 1) * Window = b * Window - Window BY <2>2
  <2> DEFINE u == (b - 1) * Window
             v == b * Window
             x == n - 2 * Window
  <2>8. u \in Int /\ v \in Int /\ u # v /\ x \in Int /\ x < u /\ x < v BY <2>1, <2>3, <2>7
  <2>9. RecordInv BY <1>1 DEF LimiterInv
  <2> HIDE DEF u, v, x
  <2> DEFINE k == Get(b - 1)
             l == Get(b)
  <2>10. Full(u, k) /\ Full(v, l) BY <2>2 DEF u, v, Full
  <2>11. k \in Nat /\ l \in Nat /\ k + l >= Limit BY <2>2, <2>6
  <2> HIDE DEF k, l
  <2>12. Cardinality(Since(x)) >= Limit BY <2>8, <2>9, <2>10, <2>11, TwoWindows
  <2> QED BY <2>12 DEF x, n, Since
<1>2. ASSUME LimiterInv, NEW r \in Requests, MemoryBlock(r), now[r] >= memory.start
      PROVE  Cardinality({p \in counted : p.window > now[r] - 2 * Window}) >= Limit
  <2> DEFINE n == now[r]
             w == Rolled(n)
             left == Window - (n - w.start)
  <2>1. n \in Nat /\ n <= time /\ time <= n + MaxDelay /\ store = "memory"
    BY <1>2 DEF LimiterInv, ClockInv, MemoryBlock
  <2>2. /\ WindowOK(w) /\ w.start \in Nat /\ n < w.start + Window
        /\ memory # NoWindow /\ n >= memory.start => w.start <= n
        /\ w = memory \/ (w.count = 0 /\ w.start <= n)
    BY <1>2, <2>1, RolledOK
  <2>3. w.start <= n BY <1>2, <2>1, <2>2
  <2>4. w.count \in Nat /\ w.prev \in Nat BY <2>2 DEF WindowOK
  <2>5. left \in Nat /\ left <= Window BY <2>1, <2>2, <2>3
  <2>6. Reached(w.prev, left, w.count)
    <3>1. (IF left < 0 THEN 0 ELSE left) = left BY <2>5
    <3>2. MemoryReached(w, n) = Reached(w.prev, IF left < 0 THEN 0 ELSE left, w.count) BY DEF MemoryReached
    <3>3. MemoryReached(w, n) BY <1>2 DEF MemoryBlock
    <3> HIDE DEF left, w, n
    <3> QED BY <3>1, <3>2, <3>3
  <2> HIDE DEF left, w, n
  <2>7. w.prev + w.count >= Limit BY <2>4, <2>5, <2>6, AtLimit
  <2> DEFINE u == w.start - Window
             v == w.start
             x == n - 2 * Window
  <2>8. u \in Int /\ v \in Int /\ u # v /\ x \in Int /\ x < u /\ x < v BY <2>1, <2>2
  <2>9. RecordInv BY <1>2 DEF LimiterInv
  <2>10. Full(u, w.prev) /\ Full(v, w.count)
    <3>1. ASSUME NEW i \in 1..w.prev PROVE \E p \in counted : p.window = u /\ p.nth = i
      <4>1. PICK p \in counted : w.start = p.window + Window /\ p.nth = i BY <2>2 DEF WindowOK
      <4>2. p.window \in Nat BY <2>9 DEF RecordInv, Records
      <4>3. p.window = u BY <2>2, <4>1, <4>2
      <4> QED BY <4>1, <4>3
    <3> QED BY <2>2, <3>1 DEF WindowOK, Full
  <2> HIDE DEF u, v, x
  <2> DEFINE k == w.prev
             l == w.count
  <2>11. Full(u, k) /\ Full(v, l) /\ k \in Nat /\ l \in Nat /\ k + l >= Limit BY <2>4, <2>7, <2>10
  <2> HIDE DEF k, l
  <2>12. Cardinality(Since(x)) >= Limit BY <2>8, <2>9, <2>11, TwoWindows
  <2> QED BY <2>12 DEF x, n, Since
<1>3. LimiterInv /\ [Next]_vars =>
        [\A r \in Requests :
           RedisBlock(r) \/ (MemoryBlock(r) /\ now[r] >= memory.start)
             => Cardinality({p \in counted : p.window > now[r] - 2 * Window}) >= Limit]_vars
  BY <1>1, <1>2
<1> QED BY <1>3, LimiterInvariant, PTL DEF Spec, BlockedForRecent
=============================================================================
