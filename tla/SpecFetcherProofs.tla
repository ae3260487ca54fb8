-------------------------- MODULE SpecFetcherProofs --------------------------
(***************************************************************************)
(* Proofs about SpecFetcher, for any upstream, any disk and any number of  *)
(* crashes.  Two writers of one cache file can tear it (FetcherOverlap),   *)
(* and a second thread or a second backend can part a validator from its   *)
(* copy; the theorems say what the fetcher promises short of that:         *)
(*   - if no two threads are ever inside writeCache for one source at the  *)
(*     same time, every Result is a whole document, for any number of      *)
(*     threads and sources;                                                *)
(*   - if the fetches of a URL that one backend uses do not overlap, its   *)
(*     validator vouches for its copy.                                     *)
(***************************************************************************)
EXTENDS SpecFetcher, FiniteSetTheorems, TLAPS

Writing(t) == pc[t] \in {"write", "rename"}

\* No two threads have the temporary file of one source open.
WritesApart ==
  \A t, u \in Threads : t # u /\ Writing(t) /\ Writing(u) => src[t] # src[u]

\* No two threads are in Fetch.
FetchesApart == \A t, u \in Threads : t # u => pc[t] = "idle" \/ pc[u] = "idle"

Points == {"idle", "sent", "failed", "notModified", "ok", "open", "write", "rename"}
Names    == Inodes \cup {None}
Bodies   == {Received(v) : v \in Versions}
Contents == Bodies \cup {Empty, Torn}

Types ==
  /\ doc \in Versions
  /\ cond \in Versions \cup {None}
  /\ cache \in [Sources -> Names] /\ tmp \in [Sources -> Names]
  /\ data \in [Inodes -> Contents]
  /\ pc \in [Threads -> Points]
  /\ src \in [Threads -> Sources]
  /\ sent \in [Threads -> Versions \cup {None}] /\ got \in [Threads -> Versions \cup {None}]
  /\ fd \in [Threads -> Names]
  /\ owed \in [Sources -> BOOLEAN] /\ spoilt \in [Sources -> BOOLEAN]
  /\ result \in [Threads -> [kind : Kinds, body : Contents, about : Versions \cup {None}]]
  /\ \A t \in Threads : pc[t] \in {"notModified", "ok", "open", "write", "rename"} => got[t] \in Versions

\* A temporary file is nobody's copy and no other source's temporary file.
NamesApart ==
  \A s, x \in Sources : tmp[s] # None => tmp[s] # cache[x] /\ (s # x => tmp[s] # tmp[x])

\* A writer has the temporary file of its source open, and found it empty.
WriterInv ==
  \A t \in Threads :
    /\ Writing(t) => fd[t] = tmp[src[t]] /\ fd[t] # None
    /\ pc[t] = "write" => data[fd[t]] = Empty
    /\ pc[t] = "rename" => data[fd[t]] = Received(got[t])

CopiesAreWhole == \A s \in Sources : cache[s] # None => data[cache[s]] \in Bodies

-----------------------------------------------------------------------------
(* There is always an inode for a new temporary file. *)

\* A function has no more values than arguments.
LEMMA ImageBound ==
  ASSUME NEW S, IsFiniteSet(S), NEW T, NEW f \in [S -> T]
  PROVE  /\ IsFiniteSet({f[x] : x \in S})
         /\ Cardinality({f[x] : x \in S}) \in Nat
         /\ Cardinality({f[x] : x \in S}) <= Cardinality(S)
<1> DEFINE I == {f[x] : x \in S}
<1>1. f \in [S -> I] BY f = [x \in S |-> f[x]]
<1>2. f \in Surjection(S, I) BY <1>1 DEF Surjection
<1> QED BY <1>2, FS_Surjection, FS_CardinalityType

\* The cardinality of a union.
LEMMA UnionBound ==
  ASSUME NEW S, NEW T, IsFiniteSet(S), IsFiniteSet(T)
  PROVE  /\ IsFiniteSet(S \cup T)
         /\ Cardinality(S \cup T) \in Nat
         /\ Cardinality(S \cup T) <= Cardinality(S) + Cardinality(T)
<1>1. IsFiniteSet(S \cap T) BY FS_Intersection
<1>2. /\ Cardinality(S) \in Nat /\ Cardinality(T) \in Nat /\ Cardinality(S \cap T) \in Nat
  BY <1>1, FS_CardinalityType
<1>3. IsFiniteSet(S \cup T) /\ Cardinality(S \cup T) = Cardinality(S) + Cardinality(T) - Cardinality(S \cap T)
  BY FS_Union
<1>4. Cardinality(S \cup T) \in Nat BY <1>3, FS_CardinalityType
<1> QED BY <1>2, <1>3, <1>4

\* The files that exist or are open are fewer than the inodes when a name is free.
LEMMA UnusedInode ==
  ASSUME Types, NEW s \in Sources, tmp[s] = None
  PROVE  Inodes \ ({cache[x] : x \in Sources} \cup {tmp[x] : x \in Sources}
                   \cup {fd[x] : x \in Threads}) # {}
<1> DEFINE C == {cache[x] : x \in Sources}
           D == {tmp[x] : x \in Sources}
           F == {fd[x] : x \in Threads}
           n == Cardinality(Sources)
           m == Cardinality(Threads)
           Used == (C \cup D) \cup F
<1>0. IsFiniteSet(Sources) /\ IsFiniteSet(Threads) /\ n \in Nat /\ m \in Nat
  BY FetcherAssumption, FS_CardinalityType
<1>1. IsFiniteSet(C) /\ Cardinality(C) \in Nat /\ Cardinality(C) <= n
  <2>1. cache \in [Sources -> Names] BY DEF Types
  <2> QED BY <1>0, <2>1, ImageBound, Zenon
<1>2. IsFiniteSet(D) /\ Cardinality(D) \in Nat /\ Cardinality(D) <= n
  <2>1. tmp \in [Sources -> Names] BY DEF Types
  <2> QED BY <1>0, <2>1, ImageBound, Zenon
<1>3. IsFiniteSet(F) /\ Cardinality(F) \in Nat /\ Cardinality(F) <= m
  <2>1. fd \in [Threads -> Names] BY DEF Types
  <2> QED BY <1>0, <2>1, ImageBound, Zenon
<1>4. None \in D OBVIOUS
<1> HIDE DEF C, D, F
<1>5. IsFiniteSet(C \cup D) /\ Cardinality(C \cup D) \in Nat /\ Cardinality(C \cup D) <= Cardinality(C) + Cardinality(D)
  BY <1>1, <1>2, UnionBound
<1>6. IsFiniteSet(Used) /\ Cardinality(Used) \in Nat /\ Cardinality(Used) <= Cardinality(C \cup D) + Cardinality(F)
  BY <1>3, <1>5, UnionBound
<1> HIDE DEF n, m
<1>7. Cardinality(Used) <= 2 * n + m
  BY <1>0, <1>1, <1>2, <1>3, <1>5, <1>6
<1>8. IsFiniteSet(Inodes) /\ Cardinality(Inodes) = 2 * n + m /\ None \notin Inodes
  <2>1. Inodes = 1..(2 * n + m) BY DEF Inodes, n, m
  <2>2. 2 * n + m \in Nat BY <1>0
  <2>3. IsFiniteSet(1..(2 * n + m)) /\ Cardinality(1..(2 * n + m)) = 2 * n + m
    BY <2>2, FS_Interval
  <2> QED BY <2>1, <2>3 DEF None
<1>9. IsFiniteSet(Inodes \cup {None}) /\ Cardinality(Inodes \cup {None}) = 2 * n + m + 1
  BY <1>8, FS_AddElement
<1>10. ASSUME Inodes \ Used = {} PROVE FALSE
  <2>1. Inodes \cup {None} \in SUBSET Used BY <1>4, <1>10
  <2>2. Cardinality(Inodes \cup {None}) <= Cardinality(Used) BY <2>1, <1>6, FS_Subset
  <2> QED BY <1>0, <1>6, <1>7, <1>9, <2>2
<1> QED BY <1>10 DEF C, D, F

-----------------------------------------------------------------------------
(* Types. *)

\* A document is none of the odd contents.
LEMMA DocNotOdd == \A v \in Versions : v # None /\ v # Empty /\ v # Torn
BY FetcherAssumption DEF Versions, None, Empty, Torn

\* What is read of a document is a content, and whole but for the limit.
LEMMA ReceivedBody ==
  /\ \A v \in Versions : Received(v) \in Bodies
  /\ Bodies \subseteq Contents
  /\ \A b : b \in Bodies <=> b \in Versions \ Large \/ \E v \in Large : b = Cut(v)
<1>1. Large \subseteq Versions BY FetcherAssumption DEF Versions
<1>2. \A v \in Large : Received(v) = Cut(v) BY DEF Received
<1>3. \A v \in Versions \ Large : Received(v) = v BY DEF Received
<1> QED BY <1>1, <1>2, <1>3 DEF Bodies, Contents

\* What a Return does to types.
LEMMA ReturnTypes ==
  ASSUME Types, NEW t \in Threads, NEW kind \in Kinds, NEW body \in Contents, Return(t, kind, body)
  PROVE  /\ pc' \in [Threads -> Points] /\ fd' \in [Threads -> Names]
         /\ result' \in [Threads -> [kind : Kinds, body : Contents, about : Versions \cup {None}]]
         /\ \A u \in Threads : pc'[u] # "idle" => u # t /\ pc'[u] = pc[u]
<1>1. got[t] \in Versions \cup {None} BY DEF Types
<1>2. [kind |-> kind, body |-> body, about |-> got[t]]
        \in [kind : Kinds, body : Contents, about : Versions \cup {None}]
  BY <1>1
<1> QED BY <1>2 DEF Types, Return, Points, Names

LEMMA TypesStep ==
  ASSUME Types, [Next]_vars
  PROVE  Types'
<1> USE FetcherAssumption DEF diskVars, threadVars, historyVars
<1>0. Contents = Bodies \cup {Empty, Torn} /\ Names = Inodes \cup {None} BY DEF Contents, Names
<1>1. ASSUME NEW t \in Threads, NEW s \in Sources, Begin(t, s) PROVE Types'
  <2>1. NoResult \in [kind : Kinds, body : Contents, about : Versions \cup {None}]
    BY DEF NoResult, Kinds, Contents
  <2> QED BY <1>1, <2>1 DEF Types, Begin, Points
<1>2. ASSUME NEW t \in Threads, NoAnswer(t) PROVE Types'
  BY <1>2 DEF Types, NoAnswer, Points
<1>3. ASSUME NEW t \in Threads, Answer(t) PROVE Types'
  <2>1. pc' = [pc EXCEPT ![t] = "notModified"] \/ pc' = [pc EXCEPT ![t] = "ok"] BY <1>3 DEF Answer
  <2> QED BY <1>3, <2>1 DEF Types, Answer, Points
<1>4. ASSUME NEW t \in Threads, UseCopy(t) PROVE Types'
  <2>1. data[cache[src[t]]] \in Contents BY <1>4 DEF Types, UseCopy, Names
  <2>2. Return(t, "notModified", data[cache[src[t]]]) /\ "notModified" \in Kinds
    BY <1>4 DEF UseCopy, Kinds
  <2> QED BY <1>4, <2>1, <2>2, ReturnTypes DEF Types, UseCopy
<1>5. ASSUME NEW t \in Threads, NoCopy(t) PROVE Types'
  BY <1>5 DEF Types, NoCopy, Points
<1>6. ASSUME NEW t \in Threads, StoreValidators(t) PROVE Types'
  BY <1>6 DEF Types, StoreValidators, Points
<1>7. ASSUME NEW t \in Threads, OpenTmp(t) PROVE Types'
  <2>1. PICK i \in Inodes : /\ tmp' = [tmp EXCEPT ![src[t]] = i] /\ data' = [data EXCEPT ![i] = Empty]
                            /\ fd' = [fd EXCEPT ![t] = i]
    <3>1. src[t] \in Sources BY DEF Types
    <3>2. CASE tmp[src[t]] # None BY <1>7, <3>1, <3>2 DEF Types, OpenTmp, Names
    <3>3. CASE tmp[src[t]] = None BY <1>7, <3>1, <3>3, UnusedInode DEF OpenTmp
    <3> QED BY <3>2, <3>3
  <2>2. tmp' \in [Sources -> Names] /\ fd' \in [Threads -> Names] BY <2>1 DEF Types, Names
  <2>3. data' \in [Inodes -> Contents] BY <2>1 DEF Types, Contents
  <2>4. pc' \in [Threads -> Points] /\ \A u \in Threads : pc'[u] = pc[u] \/ (u = t /\ pc[u] = "open")
    BY <1>7 DEF Types, OpenTmp, Points
  <2> QED BY <1>7, <2>2, <2>3, <2>4 DEF Types, OpenTmp
<1>8. ASSUME NEW t \in Threads, WriteTmp(t) PROVE Types'
  <2>1. PICK body \in {Received(got[t]), Torn} : data' = [data EXCEPT ![fd[t]] = body] BY <1>8 DEF WriteTmp
  <2>2. got[t] \in Versions BY <1>8 DEF Types, WriteTmp
  <2>3. body \in Contents BY <2>2, ReceivedBody DEF Contents
  <2> QED BY <1>8, <2>1, <2>3 DEF Types, WriteTmp, Points
<1>9. ASSUME NEW t \in Threads, Rename(t) PROVE Types'
  <2>0. got[t] \in Versions BY <1>9 DEF Types, Rename
  <2>1. Return(t, "fresh", Received(got[t])) /\ "fresh" \in Kinds /\ Received(got[t]) \in Contents
    BY <1>9, <2>0, ReceivedBody DEF Rename, Kinds
  <2>2. cache' \in [Sources -> Names] /\ tmp' \in [Sources -> Names]
    BY <1>9 DEF Types, Rename, Names
  <2>3. spoilt' \in [Sources -> BOOLEAN] BY <1>9 DEF Types, Rename
  <2> QED BY <1>9, <2>1, <2>2, <2>3, ReturnTypes DEF Types, Rename
<1>10. ASSUME NEW t \in Threads, WriteFails(t) PROVE Types'
  <2>0. got[t] \in Versions BY <1>10 DEF Types, WriteFails
  <2>1. Return(t, "fresh", Received(got[t])) /\ "fresh" \in Kinds /\ Received(got[t]) \in Contents
    BY <1>10, <2>0, ReceivedBody DEF WriteFails, Kinds
  <2>2. data' \in [Inodes -> Contents] BY <1>10 DEF Types, WriteFails, Contents
  <2>3. spoilt' \in [Sources -> BOOLEAN] BY <1>10 DEF Types, WriteFails
  <2> QED BY <1>10, <2>1, <2>2, <2>3, ReturnTypes DEF Types, WriteFails
<1>11. ASSUME NEW t \in Threads, FallBack(t) PROVE Types'
  <2>1. cache[src[t]] # None => data[cache[src[t]]] \in Contents BY DEF Types, Names
  <2>2. PICK kind \in Kinds, body \in Contents : Return(t, kind, body)
    BY <1>11, <2>1 DEF FallBack, Kinds, Contents
  <2> QED BY <1>11, <2>2, ReturnTypes DEF Types, FallBack
<1>12. ASSUME NEW s \in Sources, LoseCopy(s) PROVE Types'
  <2>1. cache' \in [Sources -> Names] BY <1>12 DEF Types, LoseCopy, Names
  <2>2. spoilt' \in [Sources -> BOOLEAN] BY <1>12 DEF Types, LoseCopy
  <2> QED BY <1>12, <2>1, <2>2 DEF Types, LoseCopy
<1>13. CASE Crash
  <2>1. NoResult \in [kind : Kinds, body : Contents, about : Versions \cup {None}]
    BY DEF NoResult, Kinds, Contents
  <2> QED BY <1>13, <2>1 DEF Types, Crash, Points, Names
<1>14. CASE Publish BY <1>14 DEF Types, Publish
<1>15. CASE UNCHANGED vars BY <1>15 DEF Types, vars
<1> QED
  BY <1>1, <1>2, <1>3, <1>4, <1>5, <1>6, <1>7, <1>8, <1>9, <1>10, <1>11, <1>12, <1>13, <1>14,
     <1>15 DEF Next, Step

-----------------------------------------------------------------------------
(* Files. *)

FileInv == NamesApart /\ WriterInv /\ CopiesAreWhole

\* A step that leaves the disk and the writers alone.
LEMMA FileFrame ==
  ASSUME FileInv, UNCHANGED <<cache, tmp, data>>,
         \A t \in Threads : Writing(t)' => /\ pc'[t] = pc[t] /\ fd'[t] = fd[t]
                                           /\ src'[t] = src[t] /\ got'[t] = got[t]
  PROVE  FileInv'
<1>1. NamesApart' /\ CopiesAreWhole' BY DEF FileInv, NamesApart, CopiesAreWhole
<1>2. WriterInv' BY DEF FileInv, WriterInv, Writing
<1> QED BY <1>1, <1>2 DEF FileInv

\* The writer's inode is its own.
LEMMA WriterAlone ==
  ASSUME Types, FileInv, WritesApart, NEW t \in Threads, Writing(t)
  PROVE  /\ fd[t] \in Inodes
         /\ \A s \in Sources : cache[s] # fd[t]
         /\ \A u \in Threads : u # t /\ Writing(u) => fd[u] # fd[t]
<1>1. fd[t] = tmp[src[t]] /\ fd[t] # None /\ src[t] \in Sources BY DEF Types, FileInv, WriterInv
<1>2. fd[t] \in Inodes BY <1>1 DEF Types, Names
<1>3. ASSUME NEW s \in Sources PROVE cache[s] # fd[t] BY <1>1 DEF FileInv, NamesApart
<1>4. ASSUME NEW u \in Threads, u # t, Writing(u) PROVE fd[u] # fd[t]
  <2>1. fd[u] = tmp[src[u]] /\ src[u] \in Sources BY <1>4 DEF Types, FileInv, WriterInv
  <2>2. src[u] # src[t] BY <1>4 DEF WritesApart
  <2> QED BY <1>1, <2>1, <2>2 DEF FileInv, NamesApart
<1> QED BY <1>2, <1>3, <1>4

\* os.WriteFile opens the temporary file: a new inode, or one nobody else reads or writes.
LEMMA OpenKeepsFiles ==
  ASSUME Types, FileInv, WritesApart', NEW t \in Threads, OpenTmp(t)
  PROVE  FileInv'
<1> DEFINE s == src[t]
<1>0. s \in Sources /\ pc \in [Threads -> Points] /\ fd \in [Threads -> Names]
      /\ tmp \in [Sources -> Names] /\ data \in [Inodes -> Contents] BY DEF Types
<1>1. PICK i \in Inodes :
        /\ tmp' = [tmp EXCEPT ![s] = i] /\ data' = [data EXCEPT ![i] = Empty] /\ fd' = [fd EXCEPT ![t] = i]
        /\ \A x \in Sources : cache[x] # i /\ (x # s => tmp[x] # i)
  <2>1. CASE tmp[s] # None
    <3>1. tmp[s] \in Inodes BY <1>0, <2>1 DEF Names
    <3>2. \A x \in Sources : cache[x] # tmp[s] /\ (x # s => tmp[x] # tmp[s])
      BY <1>0, <2>1 DEF FileInv, NamesApart
    <3> QED BY <2>1, <3>1, <3>2 DEF OpenTmp
  <2>2. CASE tmp[s] = None
    <3> DEFINE unused == Inodes \ ({cache[x] : x \in Sources} \cup {tmp[x] : x \in Sources}
                                   \cup {fd[x] : x \in Threads})
    <3>1. unused # {} BY <1>0, <2>2, UnusedInode
    <3>2. PICK i \in unused : i = CHOOSE x \in unused : TRUE BY <3>1
    <3>3. /\ tmp' = [tmp EXCEPT ![s] = i] /\ data' = [data EXCEPT ![i] = Empty] /\ fd' = [fd EXCEPT ![t] = i]
      BY <2>2, <3>2 DEF OpenTmp
    <3>4. \A x \in Sources : cache[x] # i /\ tmp[x] # i OBVIOUS
    <3> QED BY <3>3, <3>4
  <2> QED BY <2>1, <2>2
<1>2. /\ cache' = cache /\ src' = src /\ got' = got /\ pc' = [pc EXCEPT ![t] = "write"]
  BY DEF OpenTmp
<1>3. i # None BY FetcherAssumption DEF Inodes, None
<1>4. tmp'[s] = i /\ \A x \in Sources : x # s => tmp'[x] = tmp[x] BY <1>0, <1>1
<1>5. data'[i] = Empty /\ \A j \in Inodes : j # i => data'[j] = data[j] BY <1>0, <1>1
<1>6. NamesApart'
  <2> SUFFICES ASSUME NEW a \in Sources, NEW x \in Sources, tmp'[a] # None
               PROVE  tmp'[a] # cache[x] /\ (a # x => tmp'[a] # tmp'[x])
    BY <1>2 DEF NamesApart
  <2>1. CASE a = s BY <1>1, <1>4, <2>1
  <2>2. CASE a # s BY <1>1, <1>4, <2>2 DEF FileInv, NamesApart
  <2> QED BY <2>1, <2>2
<1>7. CopiesAreWhole'
  <2> SUFFICES ASSUME NEW x \in Sources, cache[x] # None PROVE data'[cache[x]] \in Bodies
    BY <1>2 DEF CopiesAreWhole
  <2>1. cache[x] \in Inodes /\ cache[x] # i BY <1>1 DEF Types, Names
  <2> QED BY <1>5, <2>1 DEF FileInv, CopiesAreWhole
<1>8. WriterInv'
  <2> SUFFICES ASSUME NEW u \in Threads, Writing(u)'
               PROVE  /\ fd'[u] = tmp'[src[u]] /\ fd'[u] # None
                      /\ pc'[u] = "write" => data'[fd'[u]] = Empty
                      /\ pc'[u] = "rename" => data'[fd'[u]] = Received(got[u])
    BY <1>2 DEF WriterInv, Writing
  <2>1. CASE u = t BY <1>0, <1>1, <1>2, <1>3, <1>4, <1>5, <2>1
  <2>2. CASE u # t
    <3>1. Writing(u) /\ pc'[u] = pc[u] /\ fd'[u] = fd[u] BY <1>0, <1>1, <1>2, <2>2 DEF Writing
    <3>2. src[u] # s /\ src[u] \in Sources
      <4>1. Writing(t)' BY <1>0, <1>2 DEF Writing
      <4>2. src'[t] # src'[u] BY <2>2, <4>1 DEF WritesApart
      <4> QED BY <1>2, <4>2 DEF Types
    <3>3. fd[u] = tmp[src[u]] /\ fd[u] # None BY <3>1 DEF FileInv, WriterInv
    <3>4. fd[u] # i /\ fd[u] \in Inodes BY <1>1, <3>2, <3>3, <1>0 DEF Names
    <3>5. data'[fd[u]] = data[fd[u]] BY <1>5, <3>4
    <3> QED BY <1>4, <3>1, <3>2, <3>3, <3>5 DEF FileInv, WriterInv
  <2> QED BY <2>1, <2>2
<1> QED BY <1>6, <1>7, <1>8 DEF FileInv

\* A write changes the content of the writer's own inode.
LEMMA WriteKeepsFiles ==
  ASSUME Types, FileInv, WritesApart, NEW t \in Threads, pc[t] = "write",
         NEW c \in Contents, data' = [data EXCEPT ![fd[t]] = c],
         NEW p \in {"rename", "idle"}, pc' = [pc EXCEPT ![t] = p],
         UNCHANGED <<cache, tmp, src, got>>,
         \A u \in Threads : u # t => fd'[u] = fd[u],
         p = "rename" => c = Received(got[t]) /\ fd'[t] = fd[t]
  PROVE  FileInv'
<1>0. /\ fd[t] \in Inodes
      /\ \A s \in Sources : cache[s] # fd[t]
      /\ \A u \in Threads : u # t /\ Writing(u) => fd[u] # fd[t]
  BY WriterAlone DEF Writing
<1>1. NamesApart' BY DEF FileInv, NamesApart
<1>2. data'[fd[t]] = c /\ \A j \in Inodes : j # fd[t] => data'[j] = data[j] BY <1>0 DEF Types
<1>3. CopiesAreWhole'
  <2> SUFFICES ASSUME NEW x \in Sources, cache[x] # None PROVE data'[cache[x]] \in Bodies
    BY DEF CopiesAreWhole
  <2>1. cache[x] \in Inodes BY DEF Types, Names
  <2> QED BY <1>0, <1>2, <2>1 DEF FileInv, CopiesAreWhole
<1>4. WriterInv'
  <2> SUFFICES ASSUME NEW u \in Threads, Writing(u)'
               PROVE  /\ fd'[u] = tmp[src[u]] /\ fd'[u] # None
                      /\ pc'[u] = "write" => data'[fd'[u]] = Empty
                      /\ pc'[u] = "rename" => data'[fd'[u]] = Received(got[u])
    BY DEF WriterInv, Writing
  <2>1. CASE u = t
    <3>1. pc'[t] = p BY DEF Types
    <3>2. p = "rename" BY <2>1, <3>1 DEF Writing
    <3>3. fd[t] = tmp[src[t]] /\ fd[t] # None BY DEF FileInv, WriterInv, Writing
    <3> QED BY <1>2, <2>1, <3>1, <3>2, <3>3
  <2>2. CASE u # t
    <3>1. Writing(u) /\ pc'[u] = pc[u] /\ fd'[u] = fd[u] BY <2>2 DEF Writing, Types
    <3>2. fd[u] = tmp[src[u]] /\ fd[u] # None /\ fd[u] \in Inodes
      BY <3>1 DEF FileInv, WriterInv, Types, Names
    <3>3. data'[fd[u]] = data[fd[u]] BY <1>0, <1>2, <2>2, <3>1, <3>2
    <3> QED BY <3>1, <3>2, <3>3 DEF FileInv, WriterInv
  <2> QED BY <2>1, <2>2
<1> QED BY <1>1, <1>3, <1>4 DEF FileInv

\* os.Rename puts the writer's document in place.
LEMMA RenameKeepsFiles ==
  ASSUME Types, FileInv, WritesApart, NEW t \in Threads, Rename(t)
  PROVE  /\ FileInv'
         /\ cache'[src[t]] # None /\ data'[cache'[src[t]]] = Received(got[t])
<1> DEFINE s == src[t]
<1>0. s \in Sources /\ Writing(t) /\ got[t] \in Versions BY DEF Types, Rename, Writing
<1>1. tmp[s] = fd[t] /\ fd[t] # None /\ data[fd[t]] = Received(got[t])
  BY <1>0 DEF FileInv, WriterInv, Rename
<1>2. /\ cache' = [cache EXCEPT ![s] = fd[t]] /\ tmp' = [tmp EXCEPT ![s] = None] /\ data' = data
      /\ src' = src /\ got' = got /\ pc' = [pc EXCEPT ![t] = "idle"] /\ fd' = [fd EXCEPT ![t] = None]
  BY <1>1 DEF Rename, Return
<1>3. /\ cache'[s] = fd[t] /\ \A x \in Sources : x # s => cache'[x] = cache[x]
      /\ tmp'[s] = None /\ \A x \in Sources : x # s => tmp'[x] = tmp[x]
  BY <1>0, <1>2 DEF Types
<1>4. NamesApart'
  <2> SUFFICES ASSUME NEW a \in Sources, NEW x \in Sources, tmp'[a] # None
               PROVE  tmp'[a] # cache'[x] /\ (a # x => tmp'[a] # tmp'[x])
    BY DEF NamesApart
  <2>1. a # s /\ tmp'[a] = tmp[a] BY <1>3
  <2>2. tmp[a] # cache[x] /\ (a # x => tmp[a] # tmp[x]) /\ tmp[a] # tmp[s]
    BY <1>0, <2>1 DEF FileInv, NamesApart
  <2> QED BY <1>1, <1>3, <2>1, <2>2
<1>5. CopiesAreWhole'
  <2> SUFFICES ASSUME NEW x \in Sources, cache'[x] # None PROVE data[cache'[x]] \in Bodies
    BY <1>2 DEF CopiesAreWhole
  <2>1. CASE x = s BY <1>0, <1>1, <1>3, <2>1, ReceivedBody
  <2>2. CASE x # s BY <1>3, <2>2 DEF FileInv, CopiesAreWhole
  <2> QED BY <2>1, <2>2
<1>6. WriterInv'
  <2> SUFFICES ASSUME NEW u \in Threads, Writing(u)'
               PROVE  /\ fd'[u] = tmp'[src[u]] /\ fd'[u] # None
                      /\ pc'[u] = "write" => data[fd'[u]] = Empty
                      /\ pc'[u] = "rename" => data[fd'[u]] = Received(got[u])
    BY <1>2 DEF WriterInv, Writing
  <2>1. u # t /\ Writing(u) /\ pc'[u] = pc[u] /\ fd'[u] = fd[u] BY <1>2 DEF Writing, Types
  <2>2. src[u] # s /\ src[u] \in Sources BY <1>0, <2>1 DEF WritesApart, Types
  <2> QED BY <1>3, <2>1, <2>2 DEF FileInv, WriterInv
<1> QED BY <1>0, <1>1, <1>2, <1>3, <1>4, <1>5, <1>6 DEF FileInv

LEMMA FileStep ==
  ASSUME Types, FileInv, WritesApart, WritesApart', [Next]_vars
  PROVE  FileInv'
<1> USE DEF diskVars, threadVars, historyVars
<1>0. pc \in [Threads -> Points] BY DEF Types
<1>1. ASSUME NEW t \in Threads, NEW s \in Sources, Begin(t, s) PROVE FileInv'
  <2>1. \A u \in Threads : Writing(u)' => /\ pc'[u] = pc[u] /\ fd'[u] = fd[u]
                                          /\ src'[u] = src[u] /\ got'[u] = got[u]
    BY <1>0, <1>1 DEF Begin, Writing
  <2> QED BY <1>1, <2>1, FileFrame DEF Begin
<1>2. ASSUME NEW t \in Threads, NoAnswer(t) \/ Answer(t) \/ NoCopy(t) \/ StoreValidators(t) PROVE FileInv'
  <2>1. \A u \in Threads : Writing(u)' => /\ pc'[u] = pc[u] /\ fd'[u] = fd[u]
                                          /\ src'[u] = src[u] /\ got'[u] = got[u]
    <3> SUFFICES ASSUME NEW u \in Threads, Writing(u)'
                 PROVE  pc'[u] = pc[u] /\ fd'[u] = fd[u] /\ src'[u] = src[u] /\ got'[u] = got[u]
      OBVIOUS
    <3>1. u # t BY <1>0, <1>2 DEF NoAnswer, Answer, NoCopy, StoreValidators, Writing
    <3> QED BY <1>0, <1>2, <3>1 DEF NoAnswer, Answer, NoCopy, StoreValidators, Types
  <2> QED BY <1>2, <2>1, FileFrame DEF NoAnswer, Answer, NoCopy, StoreValidators
<1>3. ASSUME NEW t \in Threads, NEW kind, NEW body, Return(t, kind, body),
             UNCHANGED <<cache, tmp, data, src, got>>
      PROVE  FileInv'
  <2>1. \A u \in Threads : Writing(u)' => /\ pc'[u] = pc[u] /\ fd'[u] = fd[u]
                                          /\ src'[u] = src[u] /\ got'[u] = got[u]
    BY <1>0, <1>3 DEF Return, Writing, Types
  <2> QED BY <1>3, <2>1, FileFrame
<1>4. ASSUME NEW t \in Threads, UseCopy(t) \/ FallBack(t) PROVE FileInv'
  BY <1>3, <1>4 DEF UseCopy, FallBack
<1>5. ASSUME NEW t \in Threads, OpenTmp(t) PROVE FileInv' BY <1>5, OpenKeepsFiles
<1>6. ASSUME NEW t \in Threads, WriteTmp(t) PROVE FileInv'
  <2>1. data[fd[t]] = Empty BY <1>6 DEF WriteTmp, FileInv, WriterInv
  <2>2. data' = [data EXCEPT ![fd[t]] = Received(got[t])] BY <1>6, <2>1 DEF WriteTmp
  <2>3. Received(got[t]) \in Contents
    <3>1. got[t] \in Versions BY <1>6 DEF WriteTmp, Types
    <3> QED BY <3>1, ReceivedBody
  <2>4. /\ pc[t] = "write" /\ pc' = [pc EXCEPT ![t] = "rename"] /\ fd' = fd
        /\ UNCHANGED <<cache, tmp, src, got>>
    BY <1>6 DEF WriteTmp
  <2> QED BY <2>2, <2>3, <2>4, WriteKeepsFiles
<1>7. ASSUME NEW t \in Threads, Rename(t) PROVE FileInv' BY <1>7, RenameKeepsFiles
<1>8. ASSUME NEW t \in Threads, WriteFails(t) PROVE FileInv'
  <2>1. CASE pc[t] = "open" BY <1>3, <1>8, <2>1 DEF WriteFails
  <2>2. CASE pc[t] = "write"
    <3>1. /\ data' = [data EXCEPT ![fd[t]] = Torn] /\ pc' = [pc EXCEPT ![t] = "idle"]
          /\ UNCHANGED <<cache, tmp, src, got>> /\ \A u \in Threads : u # t => fd'[u] = fd[u]
      BY <1>8, <2>2 DEF WriteFails, Return, Types
    <3>2. Torn \in Contents BY DEF Contents
    <3> QED BY <2>2, <3>1, <3>2, WriteKeepsFiles
  <2>3. CASE pc[t] = "rename" BY <1>3, <1>8, <2>3 DEF WriteFails
  <2> QED BY <1>8, <2>1, <2>2, <2>3 DEF WriteFails
<1>9. ASSUME NEW s \in Sources, LoseCopy(s) PROVE FileInv'
  <2>1. /\ UNCHANGED <<tmp, data, pc, fd, src, got>>
        /\ \A x \in Sources : cache'[x] = cache[x] \/ cache'[x] = None
    BY <1>9 DEF LoseCopy, Types
  <2>2. NamesApart' BY <2>1 DEF FileInv, NamesApart
  <2>3. CopiesAreWhole' BY <2>1 DEF FileInv, CopiesAreWhole
  <2>4. WriterInv' BY <2>1 DEF FileInv, WriterInv, Writing
  <2> QED BY <2>2, <2>3, <2>4 DEF FileInv
<1>10. CASE Crash
  <2>1. \A u \in Threads : ~Writing(u)' BY <1>10 DEF Crash, Writing
  <2> QED BY <1>10, <2>1, FileFrame DEF Crash
<1>11. CASE Publish \/ UNCHANGED vars
  <2>1. UNCHANGED <<cache, tmp, data, pc, fd, src, got>> BY <1>11 DEF Publish, vars
  <2> QED BY <2>1, FileFrame
<1> QED
  BY <1>1, <1>2, <1>4, <1>5, <1>6, <1>7, <1>8, <1>9, <1>10, <1>11 DEF Next, Step

-----------------------------------------------------------------------------
(* Results. *)

\* What a step may put into a Result: nothing, an error, the document of the
\* response, or the content of a copy that is there.
LEMMA ResultOf ==
  ASSUME Types, [Next]_vars, NEW t \in Threads, result'[t] # result[t]
  PROVE  \/ result'[t].kind \in {"none", "error"}
         \/ /\ result'[t].kind = "fresh" /\ result'[t].body = Received(got[t]) /\ result'[t].about = got[t]
            /\ got[t] \in Versions
         \/ /\ result'[t].kind \in {"notModified", "stale"} /\ cache[src[t]] # None
            /\ result'[t].body = data[cache[src[t]]]
            /\ result'[t].kind = "notModified" => pc[t] = "notModified" /\ result'[t].about = got[t]
<1> USE DEF diskVars, threadVars, historyVars
<1>0. result \in [Threads -> [kind : Kinds, body : Contents, about : Versions \cup {None}]]
  BY DEF Types
<1>1. ASSUME NEW u \in Threads, NEW kind, NEW body, Return(u, kind, body)
      PROVE  u = t /\ result'[t] = [kind |-> kind, body |-> body, about |-> got[t]]
  BY <1>0, <1>1 DEF Return
<1>2. ASSUME NEW u \in Threads, NEW s \in Sources, Begin(u, s) PROVE result'[t].kind = "none"
  BY <1>0, <1>2 DEF Begin, NoResult
<1>3. CASE Crash BY <1>3 DEF Crash, NoResult
<1>4. ASSUME NEW u \in Threads, UseCopy(u)
      PROVE  /\ result'[t].kind = "notModified" /\ cache[src[t]] # None /\ pc[t] = "notModified"
             /\ result'[t].body = data[cache[src[t]]] /\ result'[t].about = got[t]
  <2>1. Return(u, "notModified", data[cache[src[u]]]) BY <1>4 DEF UseCopy
  <2>2. u = t /\ result'[t] = [kind |-> "notModified", body |-> data[cache[src[u]]], about |-> got[t]]
    BY <1>1, <2>1, Zenon
  <2> QED BY <1>4, <2>2 DEF UseCopy
<1>5. ASSUME NEW u \in Threads, Rename(u) \/ WriteFails(u)
      PROVE  /\ result'[t].kind = "fresh" /\ result'[t].body = Received(got[t]) /\ result'[t].about = got[t]
             /\ got[t] \in Versions
  <2>1. Return(u, "fresh", Received(got[u])) /\ pc[u] \in {"open", "write", "rename"}
    BY <1>5 DEF Rename, WriteFails
  <2>2. u = t /\ result'[t] = [kind |-> "fresh", body |-> Received(got[u]), about |-> got[t]]
    BY <1>1, <2>1, Zenon
  <2> QED BY <2>1, <2>2 DEF Types
<1>6. ASSUME NEW u \in Threads, FallBack(u)
      PROVE  \/ result'[t].kind = "error"
             \/ /\ result'[t].kind = "stale" /\ cache[src[t]] # None
                /\ result'[t].body = data[cache[src[t]]]
  <2>1. CASE Return(u, "error", Empty)
    <3>1. result'[t] = [kind |-> "error", body |-> Empty, about |-> got[t]] BY <1>1, <2>1, Zenon
    <3> QED BY <3>1
  <2>2. CASE cache[src[u]] # None /\ Return(u, "stale", data[cache[src[u]]])
    <3>1. u = t /\ result'[t] = [kind |-> "stale", body |-> data[cache[src[u]]], about |-> got[t]]
      BY <1>1, <2>2, Zenon
    <3> QED BY <2>2, <3>1
  <2> QED BY <1>6, <2>1, <2>2 DEF FallBack
<1>7. ASSUME NEW u \in Threads, NoAnswer(u) \/ Answer(u) \/ NoCopy(u) \/ StoreValidators(u)
                                \/ OpenTmp(u) \/ WriteTmp(u)
      PROVE  FALSE
  BY <1>7 DEF NoAnswer, Answer, NoCopy, StoreValidators, OpenTmp, WriteTmp
<1> QED
  BY <1>2, <1>3, <1>4, <1>5, <1>6, <1>7 DEF Next, Step, LoseCopy, Publish, vars

LEMMA DiskInit == Init => Types /\ FileInv /\ ResultIsWhole
<1> SUFFICES ASSUME Init PROVE Types /\ FileInv /\ ResultIsWhole OBVIOUS
<1>1. NoResult \in [kind : Kinds, body : Contents, about : Versions \cup {None}]
  BY DEF NoResult, Kinds, Contents
<1>2. Types BY <1>1 DEF Init, Types, Points, Names, Contents
<1>3. FileInv BY DEF Init, FileInv, NamesApart, WriterInv, CopiesAreWhole, Writing
<1>4. ResultIsWhole BY DEF Init, ResultIsWhole, Returned, NoResult
<1> QED BY <1>2, <1>3, <1>4

LEMMA DiskStep ==
  ASSUME Types, FileInv, ResultIsWhole, WritesApart, WritesApart', [Next]_vars
  PROVE  Types' /\ FileInv' /\ ResultIsWhole'
<1>1. Types' /\ FileInv' BY TypesStep, FileStep
<1>2. ASSUME NEW t \in Threads, Returned(t)' PROVE result'[t].body \in Bodies
  <2>1. CASE result'[t] = result[t] BY <1>2, <2>1, ReceivedBody DEF ResultIsWhole, Returned
  <2>2. CASE result'[t] # result[t]
    <3>1. src[t] \in Sources BY DEF Types
    <3> QED BY <1>2, <2>2, <3>1, ResultOf, ReceivedBody DEF Returned, FileInv, CopiesAreWhole
  <2> QED BY <2>1, <2>2
<1>3. ResultIsWhole' BY <1>2, ReceivedBody DEF ResultIsWhole
<1> QED BY <1>1, <1>3

LEMMA DiskInvariant == Spec /\ []WritesApart => [](Types /\ FileInv /\ ResultIsWhole)
<1>1. Types /\ FileInv /\ ResultIsWhole /\ WritesApart /\ WritesApart' /\ [Next]_vars =>
        Types' /\ FileInv' /\ ResultIsWhole'
  BY DiskStep
<1> QED BY <1>1, DiskInit, PTL DEF Spec

\* The comment in writeCache holds as long as no two threads write the copy of one source at
\* the same time, for any number of threads and sources: whatever crashes and failed writes
\* interrupt, Fetch returns no torn or truncated document.  The run FetcherOverlap shows that
\* the condition is needed.
THEOREM WholeUnlessWritersOverlap == Spec /\ []WritesApart => []ResultIsWhole
BY DiskInvariant, PTL

\* A single thread cannot overlap with itself.
THEOREM WholeForOneThread ==
  ASSUME \A t, u \in Threads : t = u
  PROVE  Spec => []ResultIsWhole
<1>1. WritesApart BY DEF WritesApart
<1>2. []WritesApart BY <1>1, PTL
<1> QED BY <1>2, WholeUnlessWritersOverlap, PTL

-----------------------------------------------------------------------------
(* Validators, when one backend uses the URL and fetches do not overlap. *)

OneSource == \A s, x \in Sources : s = x

Storing(t) == pc[t] \in {"open", "write", "rename"}

\* The validator a request was sent with is still the one in memory when its answer comes,
\* and the one stored is the answer's.
SentInv ==
  \A t \in Threads :
    /\ pc[t] \in {"sent", "notModified"} => sent[t] = cond
    /\ pc[t] = "notModified" => sent[t] = got[t]
    /\ Storing(t) => cond \in {got[t], None}

OwedInv == \A s \in Sources : owed[s] => cond = None

ValidInv == ValidatorHasCopy /\ SentInv /\ OwedInv

\* Where fetches do not overlap, neither do writes.
LEMMA FetchesThenWritesApart == FetchesApart => WritesApart
BY DEF FetchesApart, WritesApart, Writing

\* A thread in Fetch is alone, and a step of it moves no other thread.
LEMMA OthersIdle ==
  ASSUME Types, FetchesApart, FetchesApart', NEW t \in Threads,
         Step(t) \/ \E s \in Sources : Begin(t, s)
  PROVE  \A u \in Threads : u # t => pc[u] = "idle" /\ pc'[u] = "idle"
<1>1. \A u \in Threads : u # t => pc'[u] = pc[u]
  BY DEF Step, Begin, NoAnswer, Answer, UseCopy, NoCopy, StoreValidators, OpenTmp, WriteTmp, Rename,
     WriteFails, FallBack, Return, Types
<1>2. CASE pc[t] # "idle" BY <1>1, <1>2 DEF FetchesApart
<1>3. CASE pc[t] = "idle"
  <2>1. pc'[t] = "sent"
    BY <1>3 DEF Step, Begin, NoAnswer, Answer, UseCopy, NoCopy, StoreValidators, OpenTmp, WriteTmp,
       Rename, WriteFails, FallBack, Types
  <2> QED BY <1>1, <2>1 DEF FetchesApart
<1> QED BY <1>2, <1>3

\* A step outside writeCache leaves the copy alone; it may only drop the validator.
LEMMA VouchFrame ==
  ASSUME ValidatorHasCopy, UNCHANGED <<cache, data, spoilt>>, cond' \in {cond, None},
         \A u \in Threads : ~Storing(u)
  PROVE  ValidatorHasCopy'
BY DEF ValidatorHasCopy, Storing

LEMMA ValidStep ==
  ASSUME OneSource, Types, FileInv, ValidInv, FetchesApart, FetchesApart', [Next]_vars
  PROVE  ValidInv'
<1> USE DEF diskVars, threadVars, historyVars
<1>0. /\ pc \in [Threads -> Points] /\ src \in [Threads -> Sources] /\ owed \in [Sources -> BOOLEAN]
      /\ sent \in [Threads -> Versions \cup {None}] /\ got \in [Threads -> Versions \cup {None}]
      /\ spoilt \in [Sources -> BOOLEAN] /\ doc \in Versions
  BY DEF Types
\* The conjuncts about threads, for the one thread that moves.
<1>1. ASSUME NEW t \in Threads, Step(t) \/ \E s \in Sources : Begin(t, s),
             /\ pc'[t] \in {"sent", "notModified"} => sent'[t] = cond'
             /\ pc'[t] = "notModified" => sent'[t] = got'[t]
             /\ Storing(t)' => cond' \in {got'[t], None}
      PROVE  SentInv'
  <2>1. \A u \in Threads : u # t => pc'[u] = "idle" BY <1>1, OthersIdle
  <2> QED BY <1>1, <2>1 DEF SentInv, Storing
<1>2. ASSUME NEW t \in Threads, Step(t) \/ (\E s \in Sources : Begin(t, s)), ~Storing(t),
             UNCHANGED <<cache, data, spoilt>>, cond' \in {cond, None}
      PROVE  ValidatorHasCopy'
  <2>1. \A u \in Threads : ~Storing(u) BY <1>2, OthersIdle DEF Storing
  <2> QED BY <1>2, <2>1, VouchFrame DEF ValidInv
<1>3. ASSUME NEW t \in Threads, NEW s \in Sources, Begin(t, s) PROVE ValidInv'
  <2>1. ~Storing(t) /\ pc'[t] = "sent" /\ sent'[t] = cond BY <1>0, <1>3 DEF Begin, Storing
  <2>2. ValidatorHasCopy' BY <1>2, <1>3, <2>1 DEF Begin
  <2>3. SentInv' BY <1>1, <1>3, <2>1 DEF Begin, Storing
  <2>4. OwedInv' BY <1>3 DEF Begin, ValidInv, OwedInv
  <2> QED BY <2>2, <2>3, <2>4 DEF ValidInv
<1>4. ASSUME NEW t \in Threads, NoAnswer(t) PROVE ValidInv'
  <2>0. Step(t) BY <1>4 DEF Step
  <2>1. ~Storing(t) /\ pc'[t] = "failed" BY <1>0, <1>4 DEF NoAnswer, Storing
  <2>2. ValidatorHasCopy' BY <1>2, <1>4, <2>0, <2>1 DEF NoAnswer
  <2>3. SentInv' BY <1>1, <2>0, <2>1 DEF Storing
  <2>4. OwedInv' BY <1>0, <1>4 DEF NoAnswer, ValidInv, OwedInv
  <2> QED BY <2>2, <2>3, <2>4 DEF ValidInv
<1>5. ASSUME NEW t \in Threads, Answer(t) PROVE ValidInv'
  <2>0. Step(t) BY <1>5 DEF Step
  <2>1. /\ ~Storing(t) /\ pc[t] = "sent" /\ sent' = sent /\ cond' = cond /\ got'[t] = doc
        /\ pc'[t] = IF sent[t] = doc THEN "notModified" ELSE "ok"
    BY <1>0, <1>5 DEF Answer, Storing
  <2>2. ValidatorHasCopy' BY <1>2, <1>5, <2>0, <2>1 DEF Answer
  <2>3. SentInv'
    <3>1. sent[t] = cond BY <2>1 DEF ValidInv, SentInv
    <3> QED BY <1>1, <2>0, <2>1, <3>1 DEF Storing
  <2>4. OwedInv' BY <1>5 DEF Answer, ValidInv, OwedInv
  <2> QED BY <2>2, <2>3, <2>4 DEF ValidInv
<1>6. ASSUME NEW t \in Threads, UseCopy(t) \/ NoCopy(t) \/ FallBack(t) PROVE ValidInv'
  <2>0. Step(t) BY <1>6 DEF Step
  <2>1. /\ ~Storing(t) /\ pc'[t] \in {"idle", "failed"} /\ cond' \in {cond, None}
        /\ UNCHANGED <<cache, data, spoilt>>
    BY <1>0, <1>6 DEF UseCopy, NoCopy, FallBack, Return, Storing
  <2>2. ValidatorHasCopy' BY <1>2, <2>0, <2>1
  <2>3. SentInv' BY <1>1, <2>0, <2>1 DEF Storing
  <2>4. OwedInv'
    <3>1. CASE UseCopy(t) BY <1>0, <3>1 DEF UseCopy, ValidInv, OwedInv
    <3>2. CASE NoCopy(t) BY <3>2 DEF NoCopy, OwedInv
    <3>3. CASE FallBack(t) BY <3>3 DEF FallBack, ValidInv, OwedInv
    <3> QED BY <1>6, <3>1, <3>2, <3>3
  <2> QED BY <2>2, <2>3, <2>4 DEF ValidInv
<1>7. ASSUME NEW t \in Threads, Storing(t)' PROVE ValidatorHasCopy'
  BY <1>7 DEF ValidatorHasCopy, Storing
<1>8. ASSUME NEW t \in Threads, StoreValidators(t) PROVE ValidInv'
  <2>0. Step(t) BY <1>8 DEF Step
  <2>1. pc'[t] = "open" /\ cond' \in {got[t], None} /\ got' = got /\ owed' = [owed EXCEPT ![src[t]] = FALSE]
    BY <1>0, <1>8 DEF StoreValidators
  <2>2. ValidatorHasCopy' BY <1>7, <2>1 DEF Storing
  <2>3. SentInv' BY <1>1, <2>0, <2>1 DEF Storing
  <2>4. OwedInv'
    <3>1. \A s \in Sources : s = src[t] BY <1>0 DEF OneSource
    <3> QED BY <1>0, <2>1, <3>1 DEF OwedInv
  <2> QED BY <2>2, <2>3, <2>4 DEF ValidInv
<1>9. ASSUME NEW t \in Threads, OpenTmp(t) \/ WriteTmp(t) PROVE ValidInv'
  <2>0. Step(t) BY <1>9 DEF Step
  <2>1. Storing(t) /\ pc'[t] \in {"write", "rename"} /\ UNCHANGED <<cond, got, owed>>
    BY <1>0, <1>9 DEF OpenTmp, WriteTmp, Storing
  <2>2. ValidatorHasCopy' BY <1>7, <2>1 DEF Storing
  <2>3. cond \in {got[t], None} BY <2>1 DEF ValidInv, SentInv
  <2>4. SentInv' BY <1>1, <2>0, <2>1, <2>3 DEF Storing
  <2>5. OwedInv' BY <2>1 DEF ValidInv, OwedInv
  <2> QED BY <2>2, <2>4, <2>5 DEF ValidInv
<1>10. ASSUME NEW t \in Threads, Rename(t) PROVE ValidInv'
  <2>0. Step(t) BY <1>10 DEF Step
  <2>1. Storing(t) /\ pc'[t] = "idle" /\ UNCHANGED <<cond, owed>> BY <1>0, <1>10 DEF Rename, Return, Storing
  <2>2. cond \in {got[t], None} BY <2>1 DEF ValidInv, SentInv
  <2>3. cache'[src[t]] # None /\ data'[cache'[src[t]]] = Received(got[t])
    BY <1>10, RenameKeepsFiles, FetchesThenWritesApart
  <2>4. \A s \in Sources : s = src[t] BY <1>0 DEF OneSource
  <2>5. ValidatorHasCopy' BY <2>1, <2>2, <2>3, <2>4 DEF ValidatorHasCopy
  <2>6. SentInv' BY <1>1, <2>0, <2>1 DEF Storing
  <2>7. OwedInv' BY <2>1 DEF ValidInv, OwedInv
  <2> QED BY <2>5, <2>6, <2>7 DEF ValidInv
<1>11. ASSUME NEW t \in Threads, WriteFails(t) PROVE ValidInv'
  <2>0. Step(t) BY <1>11 DEF Step
  <2>1. pc'[t] = "idle" /\ UNCHANGED <<cond, owed>> BY <1>0, <1>11 DEF WriteFails, Return
  <2>2. \A s \in Sources : spoilt'[s] BY <1>0, <1>11 DEF WriteFails, OneSource
  <2>3. ValidatorHasCopy' BY <2>2 DEF ValidatorHasCopy
  <2>4. SentInv' BY <1>1, <2>0, <2>1 DEF Storing
  <2>5. OwedInv' BY <2>1 DEF ValidInv, OwedInv
  <2> QED BY <2>3, <2>4, <2>5 DEF ValidInv
<1>12. ASSUME NEW s \in Sources, LoseCopy(s) PROVE ValidInv'
  <2>1. \A x \in Sources : spoilt'[x] BY <1>0, <1>12 DEF LoseCopy, OneSource
  <2>2. ValidatorHasCopy' BY <2>1 DEF ValidatorHasCopy
  <2>3. SentInv' /\ OwedInv' BY <1>12 DEF LoseCopy, ValidInv, SentInv, OwedInv, Storing
  <2> QED BY <2>2, <2>3 DEF ValidInv
<1>13. CASE Crash
  <2>1. ValidatorHasCopy' BY <1>13 DEF Crash, ValidatorHasCopy
  <2>2. SentInv' /\ OwedInv' BY <1>13 DEF Crash, SentInv, OwedInv, Storing
  <2> QED BY <2>1, <2>2 DEF ValidInv
<1>14. CASE Publish \/ UNCHANGED vars
  <2>1. UNCHANGED <<cond, cache, data, pc, sent, got, owed, spoilt>> BY <1>14 DEF Publish, vars
  <2>2. ValidatorHasCopy' BY <2>1 DEF ValidInv, ValidatorHasCopy
  <2>3. SentInv' /\ OwedInv' BY <2>1 DEF ValidInv, SentInv, OwedInv, Storing
  <2> QED BY <2>2, <2>3 DEF ValidInv
<1> QED
  BY <1>3, <1>4, <1>5, <1>6, <1>8, <1>9, <1>10, <1>11, <1>12, <1>13, <1>14 DEF Next, Step

LEMMA ValidInvariant ==
  ASSUME OneSource
  PROVE  Spec /\ []FetchesApart => [](Types /\ FileInv /\ ValidInv)
<1>1. Init => ValidInv
  BY DEF Init, ValidInv, ValidatorHasCopy, SentInv, OwedInv, Storing
<1>2. Types /\ FileInv /\ ValidInv /\ FetchesApart /\ FetchesApart' /\ [Next]_vars => ValidInv'
  BY ValidStep
<1> QED BY <1>1, <1>2, DiskInvariant, FetchesThenWritesApart, PTL DEF Spec

\* When the fetches of a URL do not overlap and one backend uses it, the validator in memory
\* is that of the copy on disk, whatever crashes interrupted earlier fetches, unless that copy
\* was lost or could not be written: a 304 never stands for a document that is not there.
THEOREM ValidatorVouchesForCopy ==
  ASSUME OneSource
  PROVE  Spec /\ []FetchesApart => []ValidatorHasCopy
<1>1. ValidInv => ValidatorHasCopy BY DEF ValidInv
<1> QED BY <1>1, ValidInvariant, PTL

\* Under the same condition a 304 that finds no copy makes the next attempt unconditional.
THEOREM DropsValidators ==
  ASSUME OneSource
  PROVE  Spec /\ []FetchesApart => []NextAttemptUnconditional
<1>1. Types /\ ValidInv => NextAttemptUnconditional
  BY DEF Types, ValidInv, SentInv, OwedInv, NextAttemptUnconditional
<1> QED BY <1>1, ValidInvariant, PTL

\* A thread has no Result while it is in Fetch.
PendingInv == \A t \in Threads : pc[t] # "idle" => result[t].kind = "none"

LEMMA PendingStep ==
  ASSUME Types, PendingInv, [Next]_vars
  PROVE  PendingInv'
<1> USE DEF diskVars, threadVars, historyVars
<1>0. /\ pc \in [Threads -> Points]
      /\ result \in [Threads -> [kind : Kinds, body : Contents, about : Versions \cup {None}]]
  BY DEF Types
<1>1. ASSUME NEW t \in Threads, pc'[t] # "idle" PROVE result'[t].kind = "none"
  <2>1. CASE \E s \in Sources : Begin(t, s) BY <1>0, <2>1 DEF Begin, NoResult
  <2>2. ASSUME NEW u \in Threads, NEW kind, NEW body, Return(u, kind, body) PROVE u # t /\ result'[t] = result[t] /\ pc'[t] = pc[t]
    BY <1>0, <1>1, <2>2 DEF Return
  <2>3. ASSUME NEW u \in Threads, UseCopy(u) \/ Rename(u) \/ WriteFails(u) \/ FallBack(u)
        PROVE  result'[t] = result[t] /\ pc'[t] = pc[t]
    <3>1. \E kind, body : Return(u, kind, body) BY <2>3, Zenon DEF UseCopy, Rename, WriteFails, FallBack
    <3> QED BY <2>2, <3>1, Zenon
  <2>4. ASSUME NEW u \in Threads, u # t, NEW s \in Sources, Begin(u, s) PROVE result'[t] = result[t] /\ pc'[t] = pc[t]
    BY <1>0, <2>4 DEF Begin
  <2>5. ASSUME NEW u \in Threads, NoAnswer(u) \/ Answer(u) \/ NoCopy(u) \/ StoreValidators(u)
                                  \/ OpenTmp(u) \/ WriteTmp(u)
        PROVE  result'[t] = result[t] /\ (pc'[t] = pc[t] \/ pc[t] # "idle")
    BY <1>0, <2>5 DEF NoAnswer, Answer, NoCopy, StoreValidators, OpenTmp, WriteTmp
  <2>6. CASE Crash BY <2>6, <1>1 DEF Crash
  <2>7. CASE (\E s \in Sources : LoseCopy(s)) \/ Publish \/ UNCHANGED vars
    BY <1>1, <2>7 DEF LoseCopy, Publish, vars, PendingInv
  <2> QED
    BY <1>1, <2>1, <2>3, <2>4, <2>5, <2>6, <2>7 DEF Next, Step, PendingInv
<1> QED BY <1>1 DEF PendingInv

\* Only a rename of the thread's own makes a spoilt copy good again.
LEMMA MadeGood ==
  ASSUME OneSource, \A u, v \in Threads : u = v, Types, [Next]_vars, NEW t \in Threads,
         ~spoilt'[src'[t]], spoilt[src[t]], Types'
  PROVE  Rename(t)
<1> USE DEF diskVars, threadVars, historyVars
<1>1. src'[t] = src[t] BY DEF OneSource, Types
<1>2. spoilt' # spoilt BY <1>1
<1>3. ASSUME NEW u \in Threads, WriteFails(u) PROVE FALSE
  <2>1. u = t /\ src[t] \in Sources BY DEF Types
  <2> QED BY <1>1, <1>3, <2>1 DEF WriteFails, Types
<1>4. ASSUME NEW s \in Sources, LoseCopy(s) PROVE FALSE
  <2>1. s = src[t] BY DEF OneSource, Types
  <2> QED BY <1>1, <1>4, <2>1 DEF LoseCopy, Types
<1>5. ASSUME NEW u \in Threads, Rename(u) PROVE Rename(t) BY <1>5
<1> QED
  BY <1>2, <1>3, <1>4, <1>5 DEF Next, Step, Begin, NoAnswer, Answer, UseCopy, NoCopy, StoreValidators,
     OpenTmp, WriteTmp, FallBack, Crash, Publish, vars

LEMMA FreshStep ==
  ASSUME OneSource, \A u, v \in Threads : u = v, Types, Types', PendingInv, ValidInv,
         FreshUnlessSpoilt, [Next]_vars
  PROVE  FreshUnlessSpoilt'
<1> SUFFICES ASSUME NEW t \in Threads, ~spoilt'[src'[t]], result'[t].kind \in {"fresh", "notModified"}
             PROVE  result'[t].body = Received(result'[t].about)
  BY DEF FreshUnlessSpoilt
<1>1. CASE result'[t] = result[t]
  <2>1. ~Rename(t)
    <3>1. pc[t] = "rename" => result[t].kind = "none" BY DEF PendingInv
    <3> QED BY <1>1, <3>1 DEF Rename
  <2>2. ~spoilt[src[t]] BY <2>1, MadeGood
  <2> QED BY <1>1, <2>2 DEF FreshUnlessSpoilt
<1>2. CASE result'[t] # result[t]
  <2>1. CASE result'[t].kind = "fresh" BY <1>2, <2>1, ResultOf
  <2>2. CASE result'[t].kind = "notModified"
    <3>1. /\ pc[t] = "notModified" /\ cache[src[t]] # None
          /\ result'[t].body = data[cache[src[t]]] /\ result'[t].about = got[t]
      BY <1>2, <2>2, ResultOf
    <3>2. ~spoilt[src[t]]
      <4>1. ~Rename(t) BY <3>1 DEF Rename
      <4> QED BY <4>1, MadeGood
    <3>3. cond = got[t] /\ got[t] \in Versions BY <3>1 DEF ValidInv, SentInv, Types
    <3>4. cond # None BY <3>3, DocNotOdd
    <3>5. \A u \in Threads : pc[u] \notin {"open", "write", "rename"} BY <3>1
    <3>6. data[cache[src[t]]] = Received(cond) BY <3>2, <3>4, <3>5 DEF ValidInv, ValidatorHasCopy, Types
    <3> QED BY <3>1, <3>3, <3>6
  <2> QED BY <2>1, <2>2
<1> QED BY <1>1, <1>2

\* With one thread and one backend, a Result that is not marked stale is the document the
\* upstream answered about, unless a copy was lost or a write failed: the validators, stored
\* before the copy, are caught up by it, or forgotten with the process.
THEOREM FreshIsWhatWasAnswered ==
  ASSUME OneSource, \A u, v \in Threads : u = v
  PROVE  Spec => []FreshUnlessSpoilt
<1>0. FetchesApart BY DEF FetchesApart
<1>1. []FetchesApart BY <1>0, PTL
<1>2. Init => PendingInv /\ FreshUnlessSpoilt BY DEF Init, PendingInv, FreshUnlessSpoilt, NoResult
<1>3. Types /\ PendingInv /\ [Next]_vars => PendingInv' BY PendingStep
<1>4. Types /\ Types' /\ PendingInv /\ ValidInv /\ FreshUnlessSpoilt /\ [Next]_vars => FreshUnlessSpoilt'
  BY FreshStep
<1>5. Spec => [](Types /\ FileInv /\ ValidInv) BY <1>1, ValidInvariant, PTL
<1> QED BY <1>2, <1>3, <1>4, <1>5, PTL DEF Spec
=============================================================================
