------------------------ MODULE ReloadTriggersProofs ------------------------
(***************************************************************************)
(* Reloads take effect in order, for any number of writes and documents,   *)
(* either policy, and whatever becomes of the cached copy.  The argument   *)
(* is the mutex: while one goroutine builds, no other does, so what is     *)
(* published is still what it was when the file was read and the upstream  *)
(* answered.                                                               *)
(***************************************************************************)
EXTENDS ReloadTriggers, TLAPS

\* What a build has read is no older than what is published, and no newer than the world.
\* Only a copy may be older than the published document, and that is remembered.
OrderInv ==
  /\ run.save <= file.save
  /\ run.doc <= doc /\ copy <= doc
  /\ \A p \in Threads : ans[p] <= doc
  /\ \A p \in Threads : Building(p) => run.save <= got[p].save /\ got[p].save <= file.save
  /\ \A p \in Threads : Building(p) /\ pc[p] = "write" => run.doc <= ans[p]
  /\ \A p \in Threads : pc[p] = "built" =>
       got[p].doc <= doc /\ (got[p].doc = NoDoc \/ run.doc <= got[p].doc \/ behind)

IInv == TypeOK /\ MutexHeld /\ OrderInv

USE DEF Threads, None, NoDoc

\* No runtime has no file.
LEMMA NoRuntimeIsNone == NoRuntime \notin Runtimes
BY DEF NoRuntime, Runtimes

\* Documents, and none, are in the range of what the fetcher keeps.
LEMMA DocRange == NoDoc \in 0..MaxDocs /\ \A d \in 1..MaxDocs : d \in 0..MaxDocs
BY ReloadTriggersAssumption

\* The first runtime is built from the file and the document of the start.
LEMMA InitInv == Init => IInv
<1> SUFFICES ASSUME Init PROVE IInv
  OBVIOUS
<1> USE ReloadTriggersAssumption
<1>1. PICK c \in Serving : run = [save |-> 0, config |-> c, doc |-> 1] BY DEF Init
<1>2. run \in Runtimes BY <1>1 DEF Runtimes
<1>3. file \in [content : Contents, save : 0..MaxSaves]
  <2>1. CASE file = [content |-> run.config, save |-> 0] BY <1>1, <2>1
  <2>2. CASE MaxSaves > 0 /\ \E d \in Contents : file = [content |-> d, save |-> 1]
    <3>1. PICK d \in Contents : file = [content |-> d, save |-> 1] BY <2>2
    <3>2. 1 \in 0..MaxSaves BY <2>2
    <3> QED BY <3>1, <3>2
  <2> QED BY <2>1, <2>2 DEF Init
<1>4. TypeOK
  <2>1. doc \in 1..MaxDocs /\ valid \in 0..MaxDocs /\ copy \in 0..MaxDocs /\ seen \in 0..MaxDocs
    BY DEF Init
  <2>2. /\ events \in BOOLEAN /\ timer \in BOOLEAN /\ hup \in BOOLEAN
        /\ missed \in BOOLEAN /\ behind \in BOOLEAN
    BY DEF Init
  <2>3. /\ pc \in [Threads -> {"idle", "reload", "ask", "write", "built"}]
        /\ ans \in [Threads -> 0..MaxDocs]
        /\ got \in [Threads -> Runtimes \cup {NoRuntime}]
        /\ mu \in Threads \cup {None}
    BY DEF Init
  <2> QED BY <1>2, <1>3, <2>1, <2>2, <2>3 DEF TypeOK
<1>5. MutexHeld BY DEF Init, MutexHeld, Building
<1>6. run.save = 0 /\ run.doc = 1 /\ file.save \in 0..MaxSaves BY <1>1, <1>3
<1>7. OrderInv BY <1>6 DEF Init, OrderInv, Building
<1> QED BY <1>4, <1>5, <1>7 DEF IInv

-----------------------------------------------------------------------------
\* A step that only lets the file or the document grow, or touches neither them nor
\* what is being fetched, built or published.
LEMMA WorldKeeps ==
  ASSUME IInv, TypeOK', UNCHANGED <<copy, ans, pc, mu, got, run, behind>>,
         file.save <= file'.save, doc <= doc'
  PROVE  IInv'
<1> USE DEF IInv, TypeOK
<1>1. MutexHeld' BY DEF MutexHeld, Building
<1>2. OrderInv'
  <2>1. file.save \in Int /\ file'.save \in Int /\ run.save \in Int /\ run.doc \in Int BY DEF Runtimes
  <2>2. \A p \in Threads : Building(p)' <=> Building(p) BY DEF Building
  <2>3. \A p \in Threads : Building(p) => got[p].save \in Int /\ got[p].doc \in Int
    BY DEF Building, Runtimes
  <2>4. \A p \in Threads : pc[p] = "built" => Building(p) BY DEF MutexHeld
  <2> QED BY <2>1, <2>2, <2>3, <2>4 DEF OrderInv
<1> QED BY <1>1, <1>2

\* Steps of the world and of the triggers, none of which takes the mutex.
LEMMA TriggerKeeps ==
  IInv /\ (Write \/ Overflow \/ Release \/ Signal \/ Event \/ FileReload \/ PollTick \/ HupReload) => IInv'
<1> SUFFICES ASSUME IInv, Write \/ Overflow \/ Release \/ Signal \/ Event \/ FileReload \/ PollTick \/ HupReload
             PROVE  IInv'
  OBVIOUS
<1> USE ReloadTriggersAssumption DEF outside, watchVars, cacheVars
<1>0. TypeOK BY DEF IInv
<1>1. CASE Write
  <2>0. PICK c \in Contents : file' = [content |-> c, save |-> file.save + 1]
    BY <1>1 DEF Write
  <2>1. file' \in [content : Contents, save : 0..MaxSaves] /\ file.save <= file'.save
    BY <1>0, <1>1, <2>0 DEF Write, TypeOK
  <2>2. TypeOK' BY <1>0, <1>1, <2>1 DEF Write, TypeOK
  <2> QED BY <1>0, <1>1, <2>1, <2>2, WorldKeeps DEF Write, TypeOK
<1>2. CASE Overflow \/ Signal \/ Event
  <2>1. TypeOK' BY <1>0, <1>2 DEF Overflow, Signal, Event, TypeOK
  <2> QED BY <1>0, <1>2, <2>1, WorldKeeps DEF Overflow, Signal, Event, TypeOK
<1>3. CASE Release
  <2>1. TypeOK' BY <1>0, <1>3 DEF Release, TypeOK
  <2> QED BY <1>0, <1>3, <2>1, WorldKeeps DEF Release, TypeOK
<1>4. ASSUME NEW p \in Threads, NEW l \in {"reload", "ask"}, l = "ask" => p = "poller",
             pc[p] = "idle", Goto(p, l), TypeOK',
             UNCHANGED <<file, doc, copy, ans, mu, got, run, behind>>
      PROVE  IInv'
  <2>1. \A q \in Threads : pc'[q] = IF q = p THEN l ELSE pc[q] BY <1>0, <1>4 DEF Goto, TypeOK
  <2>2. ~Building(p) BY <1>4 DEF IInv, MutexHeld
  <2>3. MutexHeld' BY <1>4, <2>1, <2>2 DEF IInv, MutexHeld, Building
  <2>4. OrderInv' BY <1>4, <2>1, <2>2 DEF IInv, OrderInv, Building
  <2> QED BY <1>4, <2>3, <2>4 DEF IInv
<1>5. CASE FileReload
  <2>1. TypeOK' BY <1>0, <1>5 DEF FileReload, Goto, TypeOK
  <2> QED BY <1>4, <1>5, <2>1 DEF FileReload
<1>6. CASE PollTick
  <2>1. TypeOK' BY <1>0, <1>6 DEF PollTick, Goto, TypeOK, Runtimes
  <2> QED BY <1>4, <1>6, <2>1 DEF PollTick
<1>7. CASE HupReload
  <2>1. TypeOK' BY <1>0, <1>7 DEF HupReload, Goto, TypeOK
  <2> QED BY <1>4, <1>7, <2>1 DEF HupReload
<1> QED BY <1>1, <1>2, <1>3, <1>5, <1>6, <1>7

-----------------------------------------------------------------------------
\* The mutex keeps others from building.
LEMMA OthersDoNotBuild ==
  ASSUME IInv, NEW p \in Threads, mu = p \/ mu = None
  PROVE  \A q \in Threads : q # p => ~Building(q) /\ pc[q] # "built"
BY DEF IInv, MutexHeld

\* Load takes the mutex and reads the newest file.
LEMMA LoadKeeps ==
  ASSUME NEW p \in Threads, IInv, Load(p) PROVE IInv'
<1> USE ReloadTriggersAssumption DEF outside, watchVars, cacheVars
<1>0. TypeOK BY DEF IInv
<1>1. CASE file.content \notin Good
  <2>1. /\ pc' = [pc EXCEPT ![p] = "idle"] /\ pc[p] = "reload"
        /\ UNCHANGED <<file, doc, events, timer, hup, valid, copy, ans, seen, mu, got, run, missed, behind>>
    BY <1>1 DEF Load, Goto
  <2>2. ~Building(p) BY <2>1 DEF IInv, MutexHeld
  <2>3. TypeOK' BY <1>0, <2>1 DEF TypeOK
  <2>4. MutexHeld' BY <1>0, <2>1, <2>2 DEF IInv, MutexHeld, Building, TypeOK
  <2>5. OrderInv' BY <1>0, <2>1, <2>2 DEF IInv, OrderInv, Building, TypeOK
  <2> QED BY <2>3, <2>4, <2>5 DEF IInv
<1>2. CASE file.content \in Good
  <2> DEFINE r == [save |-> file.save, config |-> file.content, doc |-> NoDoc]
  <2>1. /\ got' = [got EXCEPT ![p] = r] /\ mu = None /\ mu' = p /\ pc[p] = "reload"
        /\ UNCHANGED <<file, doc, events, timer, hup, valid, copy, ans, seen, run, missed, behind>>
    BY <1>2 DEF Load
  <2>2. r \in Runtimes BY <1>0, <1>2 DEF TypeOK, Runtimes
  <2>3. PICK l \in {"ask", "built"} : pc' = [pc EXCEPT ![p] = l] BY <1>2 DEF Load, Goto
  <2>4. /\ \A q \in Threads : q # p => got'[q] = got[q] /\ pc'[q] = pc[q]
        /\ got'[p] = r /\ pc'[p] = l
    BY <1>0, <2>1, <2>3 DEF TypeOK
  <2>5. r.save = file.save /\ r.doc = NoDoc OBVIOUS
  <2> HIDE DEF r
  <2>6. TypeOK' BY <1>0, <2>1, <2>2, <2>3 DEF TypeOK
  <2>7. \A q \in Threads : q # p => ~Building(q) /\ pc[q] # "built" BY <2>1, OthersDoNotBuild
  <2>8. Building(p)' /\ \A q \in Threads : q # p => ~Building(q)' /\ pc'[q] # "built"
    BY <2>2, <2>4, <2>7, NoRuntimeIsNone DEF Building
  <2>9. MutexHeld' BY <2>1, <2>4, <2>7, <2>8 DEF IInv, MutexHeld
  <2>10. file.save \in Int /\ doc \in Int /\ 0 <= doc BY <1>0 DEF TypeOK
  <2>11. OrderInv' BY <2>1, <2>4, <2>5, <2>8, <2>10 DEF IInv, OrderInv
  <2> QED BY <2>6, <2>9, <2>11 DEF IInv
<1> QED BY <1>1, <1>2

\* Fetch returns to Build, which has a document then, or to pollOne.
LEMMA ReturnsKeeps ==
  ASSUME IInv, NEW p \in Threads, pc[p] \in {"ask", "write"},
         NEW res \in 0..MaxDocs, NEW old \in BOOLEAN, Returns(p, res, old),
         res <= doc, Building(p) => run.doc <= res \/ old,
         copy' \in 0..MaxDocs, copy' <= doc,
         ans' \in [Threads -> 0..MaxDocs], \A q \in Threads : ans'[q] = ans[q] \/ ans'[q] = NoDoc,
         \A q \in Threads : q # p => ans'[q] = ans[q],
         UNCHANGED <<file, doc, events, timer, hup, valid, mu, run, missed>>
  PROVE  IInv'
<1>0. TypeOK /\ NoDoc <= doc BY DEF IInv, TypeOK
<1>1. CASE Building(p)
  <2>1. /\ got' = [got EXCEPT ![p] = [got[p] EXCEPT !.doc = res]] /\ pc' = [pc EXCEPT ![p] = "built"]
        /\ behind' = old /\ seen' = seen
    BY <1>1 DEF Returns, Goto
  <2>2. got[p] \in Runtimes /\ mu = p BY <1>0, <1>1 DEF Building, TypeOK, IInv, MutexHeld
  <2>3. /\ got'[p] \in Runtimes /\ got'[p].save = got[p].save /\ got'[p].doc = res
        /\ pc'[p] = "built" /\ \A q \in Threads : q # p => got'[q] = got[q] /\ pc'[q] = pc[q]
    BY <1>0, <2>1, <2>2 DEF TypeOK, Runtimes
  <2>4. TypeOK' BY <1>0, <2>1, <2>3 DEF TypeOK
  <2>5. \A q \in Threads : q # p => ~Building(q) /\ pc[q] # "built" BY <2>2, OthersDoNotBuild
  <2>6. Building(p)' /\ \A q \in Threads : q # p => ~Building(q)' /\ pc'[q] # "built"
    BY <2>3, <2>5, NoRuntimeIsNone DEF Building
  <2>7. MutexHeld' BY <2>2, <2>3, <2>5, <2>6 DEF IInv, MutexHeld
  <2>8. OrderInv'
    <3>1. run'.save <= file'.save /\ run'.doc <= doc' /\ copy' <= doc' BY DEF IInv, OrderInv
    <3>2. \A q \in Threads : ans'[q] <= doc' BY <1>0 DEF IInv, OrderInv
    <3>3. run'.save <= got'[p].save /\ got'[p].save <= file'.save BY <1>1, <2>3 DEF IInv, OrderInv
    <3>4. got'[p].doc <= doc' /\ (run'.doc <= got'[p].doc \/ behind') BY <1>1, <2>1, <2>3
    <3> QED BY <2>3, <2>6, <3>1, <3>2, <3>3, <3>4 DEF OrderInv
  <2> QED BY <2>4, <2>7, <2>8 DEF IInv
<1>2. CASE ~Building(p)
  <2>1. PICK l \in {"reload", "idle"} : pc' = [pc EXCEPT ![p] = l]
    BY <1>2 DEF Returns, Goto
  <2>2. seen' = NoDoc /\ UNCHANGED <<got, behind>> BY <1>2 DEF Returns
  <2>3. pc'[p] = l /\ \A q \in Threads : q # p => pc'[q] = pc[q] BY <1>0, <2>1 DEF TypeOK
  <2>4. TypeOK'
    <3>1. pc' \in [Threads -> {"idle", "reload", "ask", "write", "built"}] BY <1>0, <2>1 DEF TypeOK
    <3>2. seen' \in 0..MaxDocs BY <2>2, DocRange
    <3> QED BY <1>0, <2>2, <3>1, <3>2 DEF TypeOK
  <2>5. \A q \in Threads : Building(q)' <=> Building(q) BY <2>2 DEF Building
  <2>6. MutexHeld' BY <1>2, <2>2, <2>3, <2>5 DEF IInv, MutexHeld
  <2>7. OrderInv' BY <1>0, <1>2, <2>2, <2>3, <2>5 DEF IInv, OrderInv
  <2> QED BY <2>4, <2>6, <2>7 DEF IInv
<1> QED BY <1>1, <1>2

\* A fetch or a build that fails leaves nothing behind.
LEMMA FailsKeeps ==
  ASSUME IInv, NEW p \in Threads, pc[p] \in {"ask", "built"}, Fails(p), valid' \in 0..MaxDocs,
         UNCHANGED <<file, doc, events, timer, hup, copy, ans, run>>
  PROVE  IInv'
<1>0. TypeOK BY DEF IInv
<1>1. /\ pc' = [pc EXCEPT ![p] = "idle"] /\ got' = [got EXCEPT ![p] = NoRuntime]
      /\ mu' = (IF mu = p THEN None ELSE mu) /\ seen' \in {NoDoc, seen}
      /\ missed' \in BOOLEAN /\ behind' = (IF Building(p) THEN FALSE ELSE behind)
  BY DEF Fails, Goto
<1>2. /\ pc'[p] = "idle" /\ got'[p] = NoRuntime
      /\ \A q \in Threads : q # p => got'[q] = got[q] /\ pc'[q] = pc[q]
  BY <1>0, <1>1 DEF TypeOK
<1>3. TypeOK'
  <2>1. behind' \in BOOLEAN
    <3>1. CASE Building(p) BY <1>1, <3>1
    <3>2. CASE ~Building(p) BY <1>0, <1>1, <3>2 DEF TypeOK
    <3> QED BY <3>1, <3>2
  <2>2. seen' \in 0..MaxDocs BY <1>0, <1>1, DocRange DEF TypeOK
  <2>3. mu' \in Threads \cup {None}
    <3>1. CASE mu = p BY <1>1, <3>1
    <3>2. CASE mu # p BY <1>0, <1>1, <3>2 DEF TypeOK
    <3> QED BY <3>1, <3>2
  <2>4. /\ pc' \in [Threads -> {"idle", "reload", "ask", "write", "built"}]
        /\ got' \in [Threads -> Runtimes \cup {NoRuntime}]
    BY <1>0, <1>1 DEF TypeOK
  <2> QED BY <1>0, <1>1, <2>1, <2>2, <2>3, <2>4 DEF TypeOK
<1>4. ~Building(p)' /\ \A q \in Threads : q # p => (Building(q)' <=> Building(q))
  BY <1>2 DEF Building
<1>5. MutexHeld' BY <1>1, <1>2, <1>4 DEF IInv, MutexHeld
<1>6. \A q \in Threads : q # p /\ pc[q] = "built" => behind' = behind
  BY <1>1 DEF IInv, MutexHeld
<1>7. OrderInv' BY <1>2, <1>4, <1>6 DEF IInv, OrderInv
<1> QED BY <1>3, <1>5, <1>7 DEF IInv

\* A fetch: an answer is of the document of now, a copy of one that was.
LEMMA FetchKeeps ==
  ASSUME NEW p \in Threads, IInv, Fetch(p) PROVE IInv'
<1> USE DEF outside, watchVars, cacheVars
<1>0. TypeOK /\ copy \in 0..MaxDocs /\ copy <= doc /\ run.doc \in Int /\ ans \in [Threads -> 0..MaxDocs]
      /\ NoDoc <= doc /\ doc \in 1..MaxDocs
  BY DEF IInv, OrderInv, TypeOK, Runtimes
<1>1. ASSUME ReturnsCopy(p), pc[p] = "ask", UNCHANGED <<file, doc, events, timer, hup, valid, copy, ans, run>>
      PROVE  IInv'
  <2>1. Returns(p, copy, copy < run.doc) /\ UNCHANGED <<mu, missed>> BY <1>1 DEF ReturnsCopy
  <2>2. run.doc <= copy \/ copy < run.doc BY <1>0
  <2>3. (copy < run.doc) \in BOOLEAN OBVIOUS
  <2> QED BY <1>0, <1>1, <2>1, <2>2, <2>3, ReturnsKeeps
<1>2. CASE NotModified(p) BY <1>1, <1>2 DEF NotModified
<1>3. CASE NoCopy(p)
  <2>1. valid' \in 0..MaxDocs BY <1>0, <1>3 DEF NoCopy
  <2> QED BY <1>3, <2>1, FailsKeeps DEF NoCopy
<1>4. CASE Answer(p)
  <2>1. /\ ans' = [ans EXCEPT ![p] = doc] /\ pc' = [pc EXCEPT ![p] = "write"] /\ pc[p] = "ask"
        /\ valid' \in {doc, NoDoc}
        /\ UNCHANGED <<file, doc, events, timer, hup, copy, seen, mu, got, run, missed, behind>>
    BY <1>4 DEF Answer, Goto
  <2>2. /\ ans'[p] = doc /\ pc'[p] = "write"
        /\ \A q \in Threads : q # p => ans'[q] = ans[q] /\ pc'[q] = pc[q]
    BY <1>0, <2>1 DEF TypeOK
  <2>3. TypeOK'
    <3>1. ans' \in [Threads -> 0..MaxDocs]
      <4>1. doc \in 0..MaxDocs BY <1>0, DocRange
      <4> QED BY <1>0, <2>1, <4>1
    <3>2. valid' \in 0..MaxDocs BY <1>0, <2>1, DocRange
    <3>3. pc' \in [Threads -> {"idle", "reload", "ask", "write", "built"}] BY <1>0, <2>1 DEF TypeOK
    <3> QED BY <1>0, <2>1, <3>1, <3>2, <3>3 DEF TypeOK
  <2>4. \A q \in Threads : Building(q)' <=> Building(q) BY <2>1 DEF Building
  <2>5. MutexHeld' BY <2>1, <2>2, <2>4 DEF IInv, MutexHeld
  <2>6. OrderInv' BY <1>0, <2>1, <2>2, <2>4 DEF IInv, OrderInv
  <2> QED BY <2>3, <2>5, <2>6 DEF IInv
<1>5. CASE WriteCopy(p) \/ WriteFails(p)
  <2>1. /\ pc[p] = "write" /\ Returns(p, ans[p], FALSE) /\ ans' = [ans EXCEPT ![p] = NoDoc]
        /\ copy' \in {copy, ans[p]}
        /\ UNCHANGED <<file, doc, events, timer, hup, valid, mu, run, missed>>
    BY <1>5 DEF WriteCopy, WriteFails
  <2>2. ans[p] \in 0..MaxDocs /\ ans[p] <= doc /\ (Building(p) => run.doc <= ans[p])
    BY <1>0, <2>1 DEF IInv, OrderInv
  <2>3. /\ ans' \in [Threads -> 0..MaxDocs] /\ \A q \in Threads : ans'[q] = ans[q] \/ ans'[q] = NoDoc
        /\ \A q \in Threads : q # p => ans'[q] = ans[q]
    <3> HIDE DEF NoDoc
    <3> QED BY <1>0, <2>1, DocRange
  <2>4. copy' \in 0..MaxDocs /\ copy' <= doc BY <1>0, <2>1, <2>2
  <2> QED BY <2>1, <2>2, <2>3, <2>4, ReturnsKeeps
<1>6. CASE NoAnswer(p)
  <2>1. CASE ReturnsCopy(p) BY <1>1, <1>6, <2>1 DEF NoAnswer
  <2>2. CASE Fails(p)
    <3>1. valid' \in 0..MaxDocs BY <1>0, <1>6 DEF NoAnswer, TypeOK
    <3> QED BY <1>6, <2>2, <3>1, FailsKeeps DEF NoAnswer
  <2> QED BY <1>6, <2>1, <2>2 DEF NoAnswer
<1> QED BY <1>2, <1>3, <1>4, <1>5, <1>6 DEF Fetch

\* The end of a reload.
LEMMA EndKeeps ==
  ASSUME NEW p \in Threads, IInv, BuildFails(p) \/ Publish(p) PROVE IInv'
<1> USE DEF outside, watchVars, cacheVars
<1>0. TypeOK BY DEF IInv
<1>1. CASE BuildFails(p)
  <2>1. valid' \in 0..MaxDocs BY <1>0, <1>1 DEF BuildFails, TypeOK
  <2> QED BY <1>1, <2>1, FailsKeeps DEF BuildFails
<1>2. CASE Publish(p)
  <2>1. /\ pc[p] = "built" /\ run' = got[p] /\ mu' = None /\ got' = [got EXCEPT ![p] = NoRuntime]
        /\ pc' = [pc EXCEPT ![p] = "idle"] /\ behind' = FALSE /\ missed' \in BOOLEAN
        /\ UNCHANGED <<file, doc, events, timer, hup, valid, copy, ans, seen>>
    BY <1>0, <1>2 DEF Publish, Goto, TypeOK
  <2>2. Building(p) /\ mu = p BY <2>1 DEF IInv, MutexHeld
  <2>3. got[p] \in Runtimes BY <1>0, <2>2 DEF Building, TypeOK
  <2>4. \A q \in Threads : q # p => ~Building(q) /\ pc[q] # "built" BY <2>2, OthersDoNotBuild
  <2>5. /\ pc'[p] = "idle" /\ got'[p] = NoRuntime
        /\ \A q \in Threads : q # p => got'[q] = got[q] /\ pc'[q] = pc[q]
    BY <1>0, <2>1 DEF TypeOK
  <2>6. \A q \in Threads : ~Building(q)' /\ pc'[q] # "built" BY <2>4, <2>5 DEF Building
  <2>7. TypeOK' BY <1>0, <2>1, <2>3 DEF TypeOK
  <2>8. MutexHeld' BY <2>1, <2>4, <2>5, <2>6 DEF IInv, MutexHeld
  <2>9. got[p].save <= file.save /\ got[p].doc <= doc BY <2>1, <2>2 DEF IInv, OrderInv
  <2>10. OrderInv' BY <2>1, <2>6, <2>9 DEF IInv, OrderInv
  <2> QED BY <2>7, <2>8, <2>10 DEF IInv
<1> QED BY <1>1, <1>2

LEMMA NextKeeps == IInv /\ [Next]_vars => IInv'
<1> SUFFICES ASSUME IInv, [Next]_vars PROVE IInv'
  OBVIOUS
<1>1. CASE UNCHANGED vars
  BY <1>1 DEF vars, outside, watchVars, cacheVars, IInv, TypeOK, MutexHeld, OrderInv, Building
<1>2. CASE Next BY <1>2, TriggerKeeps, LoadKeeps, FetchKeeps, EndKeeps DEF Next
<1> QED BY <1>1, <1>2

\* Every reachable state is well typed, and the mutex is held exactly by the goroutine
\* that builds.
THEOREM TypeCorrect == Spec => [](TypeOK /\ MutexHeld)
<1>1. IInv => TypeOK /\ MutexHeld BY DEF IInv
<1> QED BY InitInv, NextKeeps, <1>1, PTL DEF Spec

\* A step that publishes, publishes nothing older.
LEMMA StepInOrder ==
  IInv /\ [Next]_vars =>
    [/\ run.save <= run'.save
     /\ run'.doc = NoDoc \/ run.doc <= run'.doc \/ behind]_vars
<1> SUFFICES ASSUME IInv, Next
             PROVE  run.save <= run'.save /\ (run'.doc = NoDoc \/ run.doc <= run'.doc \/ behind)
  OBVIOUS
<1>0. run \in Runtimes BY DEF IInv, TypeOK
<1>1. CASE run' = run BY <1>0, <1>1 DEF Runtimes
<1>2. CASE \E p \in Threads : Publish(p)
  <2>1. PICK p \in Threads : Publish(p) BY <1>2
  <2>2. pc[p] = "built" /\ run' = got[p] BY <2>1 DEF Publish
  <2>3. Building(p) BY <2>2 DEF IInv, MutexHeld
  <2> QED BY <2>2, <2>3 DEF IInv, OrderInv
<1>3. run' = run \/ \E p \in Threads : Publish(p)
  BY DEF Next, Fetch, Write, Overflow, Release, Signal, Event, FileReload, PollTick, HupReload, Load,
         NotModified, NoCopy, Answer, WriteCopy, WriteFails, NoAnswer, BuildFails
<1> QED BY <1>1, <1>2, <1>3

\* Reloads take effect in the order of what they read (Server.Reload holds reloadMu from
\* before config.Load until after the swap), whatever triggered them: never an older file,
\* and an older document only from a copy that was older than the published one.
THEOREM InOrder == Spec => PublishesInOrder
<1> QED BY InitInv, NextKeeps, StepInOrder, PTL DEF Spec, PublishesInOrder
=============================================================================
