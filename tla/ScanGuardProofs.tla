-------------------------- MODULE ScanGuardProofs ---------------------------
(***************************************************************************)
(* The scan guard, for any number of requests, any settings and either     *)
(* store: the strikes outlive the ban, bans escalate, and a scanner is     *)
(* caught however the fixed windows fall.                                  *)
(***************************************************************************)
EXTENDS ScanGuard, FiniteSetTheorems, TLAPS

-----------------------------------------------------------------------------
(* The property is inductive as it stands once it says which Unban is under way: a ban   *)
(* that appears between the commands of RedisStore.Unban loses its strikes to the second.*)

\* The history variable is a Boolean, and the property holds.
IInv == torn \in BOOLEAN /\ StrikesOutliveBan

USE DEF storeVars, requestVars

\* Nobody is banned at the start.
LEMMA InitInv == Init => IInv
  BY DEF Init, IInv, StrikesOutliveBan

\* A request strikes and bans in one step, and changes neither elsewhere.
LEMMA RequestKeeps ==
  ASSUME NEW r \in Requests, IInv,
         Blocked(r) \/ Route(r) \/ ReadClock(r) \/ Miss(r) \/ Ban(r) \/ StoreFails(r)
  PROVE  IInv'
<1>1. CASE Ban(r)
  <2>1. ban'.strikes = Struck(r) /\ strikes'.count = Struck(r)
    BY <1>1 DEF Ban
  <2>2. strikes'.expires = ban'.ends + MaxBan BY <1>1 DEF Ban, Forgotten
  <2>3. torn' = FALSE BY <1>1 DEF Ban
  <2> QED BY <2>1, <2>2, <2>3 DEF IInv, StrikesOutliveBan
<1>2. CASE Blocked(r) \/ Route(r) \/ ReadClock(r) \/ Miss(r) \/ StoreFails(r)
  <2>1. UNCHANGED <<ban, strikes, torn>>
    BY <1>2 DEF Blocked, Route, ReadClock, Miss, StoreFails
  <2> QED BY <2>1 DEF IInv, StrikesOutliveBan
<1> QED BY <1>1, <1>2

\* An Unban takes the ban before, or with, its strikes.
LEMMA AdminKeeps ==
  ASSUME IInv, MemoryUnban \/ RedisUnbanBan \/ RedisUnbanRest \/ RedisUnbanFails
  PROVE  IInv'
<1>1. CASE MemoryUnban BY <1>1 DEF MemoryUnban, IInv, StrikesOutliveBan
<1>2. CASE RedisUnbanBan BY <1>2 DEF RedisUnbanBan, IInv, StrikesOutliveBan
<1>3. CASE RedisUnbanRest BY <1>3 DEF RedisUnbanRest, IInv, StrikesOutliveBan
<1>4. CASE RedisUnbanFails BY <1>4 DEF RedisUnbanFails, IInv, StrikesOutliveBan
<1> QED BY <1>1, <1>2, <1>3, <1>4

LEMMA NextKeeps == IInv /\ [Next]_vars => IInv'
<1> SUFFICES ASSUME IInv, [Next]_vars PROVE IInv'
  OBVIOUS
<1>1. CASE UNCHANGED vars BY <1>1 DEF vars, IInv, StrikesOutliveBan
<1>2. CASE Tick BY <1>2 DEF Tick, IInv, StrikesOutliveBan
<1>3. CASE Next BY <1>2, <1>3, RequestKeeps, AdminKeeps DEF Next
<1> QED BY <1>1, <1>3

\* Behind every ban stand its strikes, until MaxBan after its end: MemoryStore.Ban and
\* banScript write both, and only the second half of RedisStore.Unban parts them.
THEOREM StrikesStay == Spec => []StrikesOutliveBan
<1>1. IInv => StrikesOutliveBan BY DEF IInv
<1> QED BY InitInv, NextKeeps, <1>1, PTL DEF Spec

-----------------------------------------------------------------------------
(* Escalation. *)

\* What Ban counts from.
StrikesInv ==
  /\ IInv
  /\ strikes.count \in Nat /\ ban.strikes \in Nat
  /\ ban # NoBan => ban.strikes >= 1
  /\ store \in {"memory", "redis"} /\ time \in Nat /\ now \in [Requests -> Nat]

LEMMA StrikesInit == Init => StrikesInv
  BY InitInv, ScanGuardAssumption DEF Init, StrikesInv, NoBan, NoStrike

LEMMA StrikesStep == StrikesInv /\ [Next]_vars => StrikesInv'
<1> SUFFICES ASSUME StrikesInv, [Next]_vars PROVE StrikesInv'
  OBVIOUS
<1>1. IInv' BY NextKeeps DEF StrikesInv
<1>2. ASSUME NEW r \in Requests, Blocked(r) \/ Route(r) \/ Miss(r) \/ StoreFails(r)
      PROVE  StrikesInv'
  <2>1. UNCHANGED <<store, time, ban, strikes>> /\ now' = [now EXCEPT ![r] = 0]
    BY <1>2 DEF Blocked, Route, Miss, StoreFails, Goto
  <2> QED BY <1>1, <2>1 DEF StrikesInv
<1>3. ASSUME NEW r \in Requests, ReadClock(r) PROVE StrikesInv'
  BY <1>1, <1>3 DEF ReadClock, StrikesInv
<1>4. ASSUME NEW r \in Requests, Ban(r) PROVE StrikesInv'
  <2>1. UNCHANGED <<store, time>> /\ now' = [now EXCEPT ![r] = 0] BY <1>4 DEF Ban, Goto
  <2>2. ban'.strikes = Struck(r) /\ strikes'.count = Struck(r) BY <1>4 DEF Ban
  <2>3. Struck(r) \in Nat /\ Struck(r) >= 1 BY DEF Struck, StrikesInv
  <2> QED BY <1>1, <2>1, <2>2, <2>3 DEF StrikesInv
<1>5. CASE MemoryUnban \/ RedisUnbanBan \/ RedisUnbanRest \/ RedisUnbanFails
  BY <1>1, <1>5 DEF MemoryUnban, RedisUnbanBan, RedisUnbanRest, RedisUnbanFails, StrikesInv, NoBan, NoStrike
<1>6. CASE Tick BY <1>1, <1>6 DEF Tick, StrikesInv
<1>7. CASE UNCHANGED vars BY <1>1, <1>7 DEF vars, StrikesInv
<1> QED BY <1>2, <1>3, <1>4, <1>5, <1>6, <1>7 DEF Next

\* What arithmetic the provers do not know.
PowersDouble == \A n \in Nat : 2^n \in Nat /\ 2^(n + 1) = 2 * 2^n

\* A strike more makes a ban twice as long, up to the cap.
LEMMA BanLengthDoubles ==
  ASSUME PowersDouble, NEW s \in Nat, s >= 1
  PROVE  /\ BanLength(s) \in Nat /\ BanLength(s + 1) \in Nat
         /\ BanLength(s + 1) = IF 2 * BanLength(s) < MaxBan THEN 2 * BanLength(s) ELSE MaxBan
<1> DEFINE x == 2^(s - 1)
           y == 2^(s + 1 - 1)
<1>1. x \in Nat /\ y = 2 * x
  <2>1. s - 1 \in Nat /\ s + 1 - 1 = (s - 1) + 1 OBVIOUS
  <2> QED BY <2>1 DEF PowersDouble
<1>2. /\ BanLength(s) = IF Base * x < MaxBan THEN Base * x ELSE MaxBan
      /\ BanLength(s + 1) = IF Base * y < MaxBan THEN Base * y ELSE MaxBan
  BY DEF BanLength
<1> HIDE DEF x, y
<1>3. Base * x \in Nat /\ Base * y = 2 * (Base * x) BY <1>1, ScanGuardAssumption
<1>4. Base * y \in Nat BY <1>3
<1> QED BY <1>2, <1>3, <1>4, ScanGuardAssumption

\* A client that is banned again in time gets one strike more and twice the ban, up to
\* the cap, for any base and cap: whichever of the stores counts, and whatever Unban does
\* elsewhere.
THEOREM BansAlwaysEscalate == ASSUME PowersDouble PROVE Spec => BansEscalate
<1>1. ASSUME StrikesInv, NEW r \in Requests, Ban(r), ban # NoBan, ~torn, Now(r) < ban.ends + MaxBan
      PROVE  /\ ban'.strikes = ban.strikes + 1
             /\ LET twice == 2 * BanLength(ban.strikes)
                IN  ban'.ends - Now(r) = IF twice < MaxBan THEN twice ELSE MaxBan
  <2> DEFINE s == ban.strikes
  <2>1. s \in Nat /\ s >= 1 /\ Now(r) \in Nat BY <1>1 DEF StrikesInv, Now
  <2>2. strikes.count = s /\ strikes.expires = ban.ends + MaxBan
    BY <1>1 DEF StrikesInv, IInv, StrikesOutliveBan
  <2>3. Struck(r) = s + 1 BY <1>1, <2>2 DEF Struck
  <2>4. ban'.strikes = s + 1 /\ ban'.ends = Now(r) + BanLength(s + 1) BY <1>1, <2>3 DEF Ban
  <2>5. /\ BanLength(s) \in Nat /\ BanLength(s + 1) \in Nat
        /\ BanLength(s + 1) = IF 2 * BanLength(s) < MaxBan THEN 2 * BanLength(s) ELSE MaxBan
    BY <2>1, BanLengthDoubles
  <2> QED BY <2>1, <2>4, <2>5, ScanGuardAssumption
<1>2. StrikesInv /\ [Next]_vars =>
        [\A r \in Requests :
           Ban(r) /\ ban # NoBan /\ ~torn /\ Now(r) < ban.ends + MaxBan =>
             /\ ban'.strikes = ban.strikes + 1
             /\ LET twice == 2 * BanLength(ban.strikes)
                IN  ban'.ends - Now(r) = IF twice < MaxBan THEN twice ELSE MaxBan]_vars
  BY <1>1
<1> QED BY <1>2, StrikesInit, StrikesStep, PTL DEF Spec, BansEscalate

-----------------------------------------------------------------------------
(* A scanner. *)

\* The longest a request is behind the window it is counted in.
Behind == IF store = "redis" THEN 0 ELSE MaxDelay

Labels == Answered \cup {"routing", "miss", "ban", "missing", "banning"}

ClockInv ==
  /\ store \in {"memory", "redis"} /\ time \in Nat
  /\ now \in [Requests -> Nat] /\ pc \in [Requests -> Labels]
  /\ \A r \in Requests : now[r] <= time
  /\ \A r \in Requests : pc[r] \in {"missing", "banning"} => time - now[r] <= MaxDelay
  /\ misses \in [start : Int, count : Nat] /\ misses.start <= time
  /\ misses.count = 0 => misses.start = -Window

\* A window's first miss opens it, and every other is less than a window's length after
\* that, or behind it; windows are a window's length apart.
RecordInv ==
  /\ IsFiniteSet(passed) /\ passed \subseteq [at : Int, window : Int, nth : Int]
  /\ \A p \in passed :
       /\ 1 <= p.nth /\ p.nth <= MaxMisses - 1
       /\ p.nth = 1 => p.at = p.window
       /\ p.at < p.window + Window /\ p.window <= p.at + Behind
       /\ p.window = misses.start => p.nth <= misses.count
       /\ p.window # misses.start => p.window + Window <= misses.start
  /\ \A p, q \in passed :
       /\ p.window < q.window => p.window + Window <= q.window
       /\ p.window = q.window /\ p.nth = q.nth => p = q

CaughtInv == ClockInv /\ RecordInv

\* The next miss has a place of its own in the record.
LEMMA NextIsNew ==
  ASSUME CaughtInv, NEW r \in Requests
  PROVE  /\ LetGo(r) \in [at : Int, window : Int, nth : Int]
         /\ Missed(r) \in [start : Int, count : Nat] /\ Missed(r).count >= 1
         /\ Missed(r).start >= misses.start
         /\ \A p \in passed : /\ p.window = Missed(r).start => p.nth < Missed(r).count
                              /\ p.window # Missed(r).start => p.window + Window <= Missed(r).start
         /\ LetGo(r) \notin passed
<1>1. Now(r) \in Nat /\ misses.start \in Int /\ misses.count \in Nat BY DEF CaughtInv, ClockInv, Now
<1>2. Window \in Nat /\ Window >= 1 BY ScanGuardAssumption
<1>3. \A p \in passed : /\ p.window \in Int /\ p.nth \in Int
                        /\ p.window = misses.start => p.nth <= misses.count
                        /\ p.window # misses.start => p.window + Window <= misses.start
  BY DEF CaughtInv, RecordInv
<1>4. CASE Now(r) - misses.start >= Window
  <2>1. Missed(r) = [start |-> Now(r), count |-> 1] BY <1>4 DEF Missed
  <2>2. LetGo(r) = [at |-> Now(r), window |-> Now(r), nth |-> 1] BY <2>1 DEF LetGo
  <2>3. \A p \in passed : p.window + Window <= Now(r) BY <1>1, <1>2, <1>3, <1>4
  <2>4. \A p \in passed : p.window # Now(r) BY <1>1, <1>2, <1>3, <2>3
  <2> QED BY <1>1, <1>2, <1>4, <2>1, <2>2, <2>3, <2>4
<1>5. CASE ~(Now(r) - misses.start >= Window)
  <2>1. Missed(r) = [misses EXCEPT !.count = @ + 1] BY <1>5 DEF Missed
  <2>2. Missed(r).start = misses.start /\ Missed(r).count = misses.count + 1
        /\ Missed(r) \in [start : Int, count : Nat]
    BY <1>1, <2>1 DEF CaughtInv, ClockInv
  <2>3. LetGo(r) = [at |-> Now(r), window |-> misses.start, nth |-> misses.count + 1] BY <2>2 DEF LetGo
  <2>4. \A p \in passed : p.window = misses.start => p.nth < misses.count + 1 BY <1>1, <1>3
  <2>5. LetGo(r) \notin passed BY <1>1, <2>3, <2>4
  <2> QED BY <1>1, <1>3, <2>2, <2>3, <2>4, <2>5
<1> QED BY <1>4, <1>5

LEMMA CaughtInit == Init => CaughtInv
<1> SUFFICES ASSUME Init PROVE CaughtInv
  OBVIOUS
<1>1. ClockInv
  <2>1. Window \in Nat /\ MaxDelay \in Nat /\ store \in {"memory", "redis"} BY ScanGuardAssumption DEF Init
  <2>2. misses \in [start : Int, count : Nat] /\ misses.start <= 0 /\ misses.start = -Window BY <2>1 DEF Init, NoMisses
  <2>3. /\ time = 0 /\ now = [r \in Requests |-> 0] /\ pc = [r \in Requests |-> "answered"] BY DEF Init
  <2>4. now \in [Requests -> Nat] /\ pc \in [Requests -> Labels] BY <2>3 DEF Labels, Answered
  <2>5. \A r \in Requests : now[r] = 0 /\ pc[r] = "answered" BY <2>3
  <2> QED BY <2>1, <2>2, <2>3, <2>4, <2>5 DEF ClockInv
<1>2. RecordInv BY FS_EmptySet DEF Init, RecordInv
<1> QED BY <1>1, <1>2 DEF CaughtInv

\* A ban or an Unban starts the history afresh.
LEMMA Forgets ==
  ASSUME passed' = {} PROVE RecordInv'
BY FS_EmptySet DEF RecordInv

\* A step that lets no miss go keeps the records.
LEMMA KeepsRecord ==
  ASSUME RecordInv, UNCHANGED <<store, misses, passed>> PROVE RecordInv'
BY DEF RecordInv, Behind

\* A miss that is let go is recorded in its window, after those already there.
LEMMA MissRecords ==
  ASSUME CaughtInv, NEW r \in Requests, Miss(r) PROVE RecordInv'
<1> DEFINE M == Missed(r)
           g == LetGo(r)
<1>1. misses' = M /\ store' = store BY DEF Miss
<1>2. /\ g \in [at : Int, window : Int, nth : Int] /\ M \in [start : Int, count : Nat] /\ M.count >= 1
      /\ M.start >= misses.start
      /\ \A p \in passed : /\ p.window = M.start => p.nth < M.count
                           /\ p.window # M.start => p.window + Window <= M.start
  BY NextIsNew
<1>3. g.at = Now(r) /\ g.window = M.start /\ g.nth = M.count BY DEF LetGo
<1>4. Window \in Nat /\ Window >= 1 BY ScanGuardAssumption
<1>5. IsFiniteSet(passed) /\ passed \subseteq [at : Int, window : Int, nth : Int] BY DEF CaughtInv, RecordInv
<1>6. CASE passed' = {} BY <1>6, Forgets
<1>7. CASE passed' = passed
  <2>1. \A p \in passed : /\ p.window = M.start => p.nth <= M.count
                          /\ p.window # M.start => p.window + Window <= M.start
    BY <1>2, <1>5
  <2> HIDE DEF M
  <2> QED BY <1>1, <1>7, <2>1 DEF CaughtInv, RecordInv, Behind
<1>8. CASE ~Over(M.count) /\ passed' = passed \cup {g}
  <2>1. g.nth <= MaxMisses - 1 /\ 1 <= g.nth BY <1>2, <1>3, <1>8, ScanGuardAssumption DEF Over
  <2>2. g.at < g.window + Window /\ g.window <= g.at + Behind /\ (g.nth = 1 => g.at = g.window)
    <3>1. Now(r) \in Nat /\ misses.start \in Int /\ misses.count \in Nat /\ misses.start <= time /\ time \in Nat
      BY DEF CaughtInv, ClockInv, Now
    <3>2. CASE Now(r) - misses.start >= Window
      <4>1. M.start = Now(r) BY <3>2 DEF Missed
      <4>2. 0 <= Behind /\ Behind \in Int BY ScanGuardAssumption DEF Behind
      <4> HIDE DEF M, g
      <4> QED BY <1>3, <1>4, <3>1, <4>1, <4>2
    <3>3. CASE ~(Now(r) - misses.start >= Window)
      <4>1. M.start = misses.start /\ M.count = misses.count + 1 BY <3>1, <3>3 DEF Missed, CaughtInv, ClockInv
      <4>2. misses.start <= Now(r) + Behind /\ Behind \in Int
        <5>1. CASE store = "redis" BY <3>1, <5>1 DEF Now, Behind
        <5>2. CASE store = "memory"
          <6>1. Now(r) = now[r] /\ Behind = MaxDelay BY <5>2 DEF Now, Behind
          <6>2. time - now[r] <= MaxDelay BY DEF CaughtInv, ClockInv, Miss
          <6> QED BY <3>1, <6>1, <6>2, ScanGuardAssumption
        <5> QED BY <5>1, <5>2 DEF CaughtInv, ClockInv
      <4>3. misses.count = 0 => misses.start + Window <= Now(r) BY <1>4, <3>1 DEF CaughtInv, ClockInv
      <4>4. misses.count # 0 BY <1>4, <3>1, <3>3, <4>3
      <4>5. g.nth # 1 BY <1>3, <3>1, <4>1, <4>4
      <4> HIDE DEF M, g
      <4> QED BY <1>3, <1>4, <3>1, <3>3, <4>1, <4>2, <4>5
    <3> QED BY <3>2, <3>3
  <2>3. IsFiniteSet(passed') /\ passed' \subseteq [at : Int, window : Int, nth : Int]
    <3> HIDE DEF g
    <3> QED BY <1>2, <1>5, <1>8, FS_AddElement
  <2>4. Behind' = Behind BY <1>1 DEF Behind
  <2> HIDE DEF M, g
  <2>5. ASSUME NEW p \in passed'
        PROVE  /\ 1 <= p.nth /\ p.nth <= MaxMisses - 1
               /\ p.nth = 1 => p.at = p.window
               /\ p.at < p.window + Window /\ p.window <= p.at + Behind
               /\ p.window = M.start => p.nth <= M.count
               /\ p.window # M.start => p.window + Window <= M.start
    <3>1. CASE p = g BY <1>2, <1>3, <2>1, <2>2, <3>1
    <3>2. CASE p \in passed BY <1>2, <1>5, <3>2 DEF CaughtInv, RecordInv
    <3> QED BY <1>8, <3>1, <3>2
  <2>6. ASSUME NEW p \in passed', NEW q \in passed'
        PROVE  /\ p.window < q.window => p.window + Window <= q.window
               /\ p.window = q.window /\ p.nth = q.nth => p = q
    <3>1. CASE p \in passed /\ q \in passed BY <3>1 DEF CaughtInv, RecordInv
    <3>2. CASE p = g /\ q = g BY <1>2, <3>2
    <3>3. CASE p \in passed /\ q = g BY <1>2, <1>3, <1>5, <3>3
    <3>4. CASE p = g /\ q \in passed BY <1>2, <1>3, <1>4, <1>5, <3>4
    <3> QED BY <1>8, <3>1, <3>2, <3>3, <3>4
  <2> QED BY <1>1, <2>3, <2>4, <2>5, <2>6 DEF RecordInv
<1> QED BY <1>1, <1>6, <1>7, <1>8 DEF Miss

LEMMA ClockStep == ASSUME CaughtInv, [Next]_vars PROVE ClockInv'
<1>1. Window \in Nat /\ Window >= 1 /\ MaxDelay \in Nat BY ScanGuardAssumption
<1>2. NoMisses \in [start : Int, count : Nat] /\ NoMisses.start = -Window /\ NoMisses.start <= time
  BY <1>1 DEF NoMisses, CaughtInv, ClockInv
<1>3. ASSUME NEW r \in Requests, \E l \in {"refused", "routing", "answered", "miss", "ban"} : Goto(r, l),
             store' = store, time' = time,
             misses' \in [start : Int, count : Nat], misses'.start <= time,
             misses'.count = 0 => misses'.start = -Window
      PROVE  ClockInv'
  <2>1. PICK l \in {"refused", "routing", "answered", "miss", "ban"} : Goto(r, l) BY <1>3
  <2>2. pc' = [pc EXCEPT ![r] = l] /\ now' = [now EXCEPT ![r] = 0] BY <2>1 DEF Goto
  <2>3. now' \in [Requests -> Nat] /\ pc' \in [Requests -> Labels] /\ l \notin {"missing", "banning"}
    BY <2>2 DEF CaughtInv, ClockInv, Labels, Answered
  <2>4. \A x \in Requests : /\ now'[x] = (IF x = r THEN 0 ELSE now[x])
                            /\ pc'[x] = (IF x = r THEN l ELSE pc[x])
    BY <2>2 DEF CaughtInv, ClockInv
  <2>5. \A x \in Requests : /\ now'[x] <= time
                            /\ pc'[x] \in {"missing", "banning"} => time - now'[x] <= MaxDelay
    BY <2>3, <2>4 DEF CaughtInv, ClockInv
  <2>6. store \in {"memory", "redis"} /\ time \in Nat BY DEF CaughtInv, ClockInv
  <2> QED BY <1>3, <2>3, <2>5, <2>6 DEF ClockInv
<1>4. misses \in [start : Int, count : Nat] /\ misses.start <= time /\ (misses.count = 0 => misses.start = -Window)
  BY DEF CaughtInv, ClockInv
<1>5. ASSUME NEW r \in Requests, Blocked(r) \/ Route(r) \/ StoreFails(r) PROVE ClockInv'
  <2>1. UNCHANGED <<store, time, misses>> BY <1>5 DEF Blocked, Route, StoreFails
  <2>2. \E l \in {"refused", "routing", "answered", "miss", "ban"} : Goto(r, l) BY <1>5 DEF Blocked, Route, StoreFails
  <2> QED BY <1>3, <1>4, <2>1, <2>2
<1>6. ASSUME NEW r \in Requests, ReadClock(r) PROVE ClockInv'
  <2>1. /\ UNCHANGED <<store, time, misses>> /\ now' = [now EXCEPT ![r] = time]
        /\ \E l \in {"missing", "banning"} : pc' = [pc EXCEPT ![r] = l]
    BY <1>6 DEF ReadClock
  <2>2. PICK l \in {"missing", "banning"} : pc' = [pc EXCEPT ![r] = l] BY <2>1
  <2>3. time - time = 0 /\ time <= time BY DEF CaughtInv, ClockInv
  <2>4. \A x \in Requests : now'[x] = IF x = r THEN time ELSE now[x] BY <2>1 DEF CaughtInv, ClockInv
  <2>5. now' \in [Requests -> Nat] /\ pc' \in [Requests -> Labels] BY <2>1, <2>2 DEF CaughtInv, ClockInv, Labels
  <2>6. \A x \in Requests \ {r} : pc'[x] = pc[x] BY <2>2 DEF CaughtInv, ClockInv
  <2> QED BY <1>1, <2>1, <2>3, <2>4, <2>5, <2>6 DEF CaughtInv, ClockInv
<1>7. ASSUME NEW r \in Requests, Miss(r) PROVE ClockInv'
  <2>1. UNCHANGED <<store, time>> /\ misses' = Missed(r) BY <1>7 DEF Miss
  <2>2. \E l \in {"refused", "routing", "answered", "miss", "ban"} : Goto(r, l) BY <1>7 DEF Miss
  <2>3. Missed(r) \in [start : Int, count : Nat] /\ Missed(r).count >= 1 BY NextIsNew
  <2>4. Missed(r).start <= time
    <3>1. Now(r) <= time /\ Now(r) \in Nat BY DEF Now, CaughtInv, ClockInv
    <3> QED BY <1>4, <3>1 DEF Missed
  <2> QED BY <1>3, <2>1, <2>2, <2>3, <2>4
<1>8. ASSUME NEW r \in Requests, Ban(r) PROVE ClockInv'
  <2>1. UNCHANGED <<store, time>> /\ misses' = NoMisses /\ Goto(r, "answered") BY <1>8 DEF Ban
  <2> QED BY <1>2, <1>3, <2>1
<1>9. CASE MemoryUnban \/ RedisUnbanBan \/ RedisUnbanRest \/ RedisUnbanFails
  <2>1. UNCHANGED <<store, time, pc, now>> /\ misses' \in {misses, NoMisses}
    BY <1>9 DEF MemoryUnban, RedisUnbanBan, RedisUnbanRest, RedisUnbanFails
  <2> QED BY <1>2, <2>1 DEF CaughtInv, ClockInv
<1>10. CASE Tick
  <2>1. /\ UNCHANGED <<store, misses, pc, now>> /\ time' = time + 1
        /\ \A r \in Requests : pc[r] \in {"missing", "banning"} => time - now[r] < MaxDelay
    BY <1>10 DEF Tick
  <2> QED BY <1>1, <2>1 DEF CaughtInv, ClockInv
<1>11. CASE UNCHANGED vars BY <1>11 DEF vars, CaughtInv, ClockInv
<1> QED BY <1>5, <1>6, <1>7, <1>8, <1>9, <1>10, <1>11 DEF Next

LEMMA CaughtStep == CaughtInv /\ [Next]_vars => CaughtInv'
<1> SUFFICES ASSUME CaughtInv, [Next]_vars PROVE RecordInv'
  BY ClockStep DEF CaughtInv
<1>1. ASSUME NEW r \in Requests, Miss(r) PROVE RecordInv' BY <1>1, MissRecords
<1>2. ASSUME NEW r \in Requests, Ban(r) PROVE RecordInv' BY <1>2, Forgets DEF Ban
<1>3. CASE MemoryUnban \/ RedisUnbanRest BY <1>3, Forgets DEF MemoryUnban, RedisUnbanRest
<1>4. CASE UNCHANGED <<store, misses, passed>> BY <1>4, KeepsRecord DEF CaughtInv
<1>5. CASE RedisUnbanBan \/ RedisUnbanFails \/ Tick \/ UNCHANGED vars
  BY <1>4, <1>5 DEF RedisUnbanBan, RedisUnbanFails, Tick, vars
<1>6. ASSUME NEW r \in Requests, Blocked(r) \/ Route(r) \/ ReadClock(r) \/ StoreFails(r) PROVE RecordInv'
  BY <1>4, <1>6 DEF Blocked, Route, ReadClock, StoreFails
<1> QED BY <1>1, <1>2, <1>3, <1>5, <1>6 DEF Next

LEMMA CaughtInvariant == Spec => []CaughtInv
  BY CaughtInit, CaughtStep, PTL DEF Spec

\* Each miss that is let go is on record, as itself: the record counts them.
THEOREM EveryMissIsOnRecord == Spec => [](\A r \in Requests : LetGo(r) \notin passed)
<1>1. CaughtInv => \A r \in Requests : LetGo(r) \notin passed BY NextIsNew
<1> QED BY <1>1, CaughtInvariant, PTL

\* The misses of one window: each has a number of its own.
LEMMA OneWindow ==
  ASSUME RecordInv, NEW S, S \subseteq passed, \A p, q \in S : p.window = q.window,
         NEW lo \in {1, 2}, \A p \in S : p.nth >= lo
  PROVE  /\ IsFiniteSet(S) /\ Cardinality(S) \in Nat
         /\ Cardinality(S) <= IF MaxMisses - 1 < lo THEN 0 ELSE MaxMisses - lo
<1> DEFINE f == [p \in S |-> p.nth]
           K == lo..(MaxMisses - 1)
<1>1. f \in Injection(S, K)
  <2>1. \A p \in S : p.nth \in Int /\ p.nth <= MaxMisses - 1 BY DEF RecordInv
  <2>2. f \in [S -> K] BY <2>1, ScanGuardAssumption
  <2>3. \A p, q \in S : p.nth = q.nth => p = q BY DEF RecordInv
  <2> QED BY <2>2, <2>3 DEF Injection, IsInjective
<1>2. IsFiniteSet(K) /\ Cardinality(K) = IF lo > MaxMisses - 1 THEN 0 ELSE MaxMisses - 1 - lo + 1
  <2>1. lo \in Int /\ MaxMisses - 1 \in Int BY ScanGuardAssumption
  <2> QED BY <2>1, FS_Interval
<1> HIDE DEF f, K
<1>3. IsFiniteSet(S) /\ Cardinality(S) <= Cardinality(K) BY <1>1, <1>2, FS_Injection
<1>4. Cardinality(S) \in Nat BY <1>3, FS_CardinalityType
<1> QED BY <1>2, <1>3, <1>4, ScanGuardAssumption

\* The cardinality of a union.
LEMMA UnionBound ==
  ASSUME NEW S, NEW T, IsFiniteSet(S), IsFiniteSet(T)
  PROVE  /\ IsFiniteSet(S \cup T) /\ Cardinality(S \cup T) \in Nat
         /\ Cardinality(S \cup T) <= Cardinality(S) + Cardinality(T)
<1>1. IsFiniteSet(S \cup T) /\ Cardinality(S \cup T) = Cardinality(S) + Cardinality(T) - Cardinality(S \cap T)
  BY FS_Union
<1>2. IsFiniteSet(S \cap T) BY FS_Intersection
<1>3. Cardinality(S) \in Nat /\ Cardinality(T) \in Nat /\ Cardinality(S \cap T) \in Nat
  BY <1>2, FS_CardinalityType
<1>4. Cardinality(S \cup T) \in Nat BY <1>1, FS_CardinalityType
<1> QED BY <1>1, <1>3, <1>4

\* A scanner is caught: for any settings, any number of requests at once and either store,
\* if none of them waits longer for the lock than a window.
THEOREM ScannersAreCaught == ASSUME MaxDelay <= Window PROVE Spec => []ScannerIsCaught
<1>1. CaughtInv => ScannerIsCaught
  <2> DEFINE left == IF MaxMisses = 1 THEN 0 ELSE MaxMisses - 2
  <2> SUFFICES ASSUME CaughtInv, NEW t \in Times
               PROVE  Cardinality({p \in passed : p.at \in t..(t + Window - 1)})
                        <= (MaxMisses - 1) + (IF store = "redis" THEN 1 ELSE 2) * left
    BY DEF ScannerIsCaught
  <2> DEFINE S == {p \in passed : p.at \in t..(t + Window - 1)}
             A == {p \in S : p.window < t}
             B == {p \in S : t <= p.window /\ p.window < t + Window}
             C == {p \in S : t + Window <= p.window}
  <2>1. t \in Nat /\ Window \in Nat /\ Window >= 1 /\ MaxMisses \in Nat /\ MaxMisses >= 1 /\ MaxDelay \in Nat
    BY ScanGuardAssumption DEF Times
  <2>2. RecordInv /\ store \in {"memory", "redis"} BY DEF CaughtInv, ClockInv
  <2>3. \A p \in S : /\ p \in passed /\ p.at \in Int /\ p.window \in Int /\ p.nth \in Int /\ p.nth >= 1
                     /\ t <= p.at /\ p.at < t + Window
                     /\ p.nth = 1 => p.at = p.window
                     /\ p.at < p.window + Window /\ p.window <= p.at + Behind
    BY <2>1, <2>2 DEF RecordInv
  <2>4. \A p, q \in S : p.window < q.window => p.window + Window <= q.window BY <2>2 DEF RecordInv
  <2>5. Behind \in Nat /\ Behind <= Window /\ (store = "redis" => Behind = 0) BY <2>1 DEF Behind
  <2>6. S = A \cup B \cup C BY <2>1, <2>3
  <2>7. A \subseteq passed /\ B \subseteq passed /\ C \subseteq passed OBVIOUS
  <2>8. \A p \in A : p \in S /\ p.window < t OBVIOUS
  <2>9. \A p \in B : p \in S /\ t <= p.window /\ p.window < t + Window OBVIOUS
  <2>10. \A p \in C : p \in S /\ t + Window <= p.window OBVIOUS
  <2> HIDE DEF S, A, B, C, left
  <2>11. IsFiniteSet(A) /\ Cardinality(A) \in Nat /\ Cardinality(A) <= left
    <3>1. \A p, q \in A : ~(p.window < q.window) BY <2>1, <2>3, <2>4, <2>8
    <3>2. \A p, q \in A : p.window = q.window BY <2>3, <2>8, <3>1
    <3>3. \A p \in A : p.nth >= 2 BY <2>1, <2>3, <2>8
    <3>4. /\ IsFiniteSet(A) /\ Cardinality(A) \in Nat
          /\ Cardinality(A) <= IF MaxMisses - 1 < 2 THEN 0 ELSE MaxMisses - 2
      BY <2>2, <2>7, <3>2, <3>3, OneWindow
    <3> QED BY <2>1, <3>4 DEF left
  <2>12. IsFiniteSet(B) /\ Cardinality(B) \in Nat /\ Cardinality(B) <= MaxMisses - 1
    <3>1. \A p, q \in B : ~(p.window < q.window) BY <2>1, <2>3, <2>4, <2>9
    <3>2. \A p, q \in B : p.window = q.window BY <2>3, <2>9, <3>1
    <3>3. \A p \in B : p.nth >= 1 BY <2>3, <2>9
    <3>4. /\ IsFiniteSet(B) /\ Cardinality(B) \in Nat
          /\ Cardinality(B) <= IF MaxMisses - 1 < 1 THEN 0 ELSE MaxMisses - 1
      BY <2>2, <2>7, <3>2, <3>3, OneWindow
    <3> QED BY <2>1, <3>4
  <2>13. /\ IsFiniteSet(C) /\ Cardinality(C) \in Nat /\ Cardinality(C) <= left
         /\ store = "redis" => C = {}
    <3>1. \A p, q \in C : ~(p.window < q.window) BY <2>1, <2>3, <2>4, <2>5, <2>10
    <3>2. \A p, q \in C : p.window = q.window BY <2>3, <2>10, <3>1
    <3>3. \A p \in C : p.nth >= 2 BY <2>1, <2>3, <2>10
    <3>4. /\ IsFiniteSet(C) /\ Cardinality(C) \in Nat
          /\ Cardinality(C) <= IF MaxMisses - 1 < 2 THEN 0 ELSE MaxMisses - 2
      BY <2>2, <2>7, <3>2, <3>3, OneWindow
    <3>5. store = "redis" => C = {} BY <2>1, <2>3, <2>5, <2>10
    <3> QED BY <2>1, <3>4, <3>5 DEF left
  <2>14. Cardinality(S) \in Nat /\ Cardinality(S) <= Cardinality(A) + Cardinality(B) + Cardinality(C)
    <3>1. IsFiniteSet(A \cup B) /\ Cardinality(A \cup B) \in Nat /\ Cardinality(A \cup B) <= Cardinality(A) + Cardinality(B)
      BY <2>11, <2>12, UnionBound
    <3> DEFINE AB == A \cup B
    <3> HIDE DEF AB
    <3>2. Cardinality(AB \cup C) \in Nat /\ Cardinality(AB \cup C) <= Cardinality(AB) + Cardinality(C)
      BY <2>13, <3>1, UnionBound DEF AB
    <3> QED BY <2>6, <2>11, <2>12, <2>13, <3>1, <3>2 DEF AB
  <2>15. left \in Nat BY <2>1 DEF left
  <2>16. Cardinality(S) <= (MaxMisses - 1) + (IF store = "redis" THEN 1 ELSE 2) * left
    <3>1. CASE store = "redis"
      <4>1. Cardinality(C) = 0 BY <2>13, <3>1, FS_EmptySet
      <4> QED BY <2>1, <2>11, <2>12, <2>14, <2>15, <3>1, <4>1
    <3>2. CASE store # "redis" BY <2>1, <2>11, <2>12, <2>13, <2>14, <2>15, <3>2
    <3> QED BY <3>1, <3>2
  <2> QED BY <2>16 DEF S, left
<1> QED BY <1>1, CaughtInvariant, PTL
=============================================================================
