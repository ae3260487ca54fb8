----------------------------- MODULE SpecFetcher -----------------------------
(***************************************************************************)
(* Fetching upstream documents by URL (internal/specsrc/specsrc.go): the   *)
(* validators kept in memory, the copies kept on disk, and the two threads *)
(* that fetch, the refresh poller of a backend and the Build of a reload.  *)
(*                                                                         *)
(* Every source of the model has the same URL: validators are keyed by URL *)
(* and cached copies by backend and URL.  A document is its version; the   *)
(* ETag of a version is the version.  Files on disk have inodes, because   *)
(* writeCache opens one fixed temporary path and renames it, and a second  *)
(* writer may have the same file open.  A source read from a local file    *)
(* keeps no state and is left out, and a Fetcher without a CacheDir is one *)
(* whose every write fails.                                                *)
(***************************************************************************)
EXTENDS Integers, FiniteSets

CONSTANTS
  Threads,     \* goroutines that call Fetch
  Sources,     \* backends whose spec.url is this URL
  MaxVersion,  \* bound: documents the upstream ever serves
  Large,       \* those longer than the 64 MiB that fetchURL reads of a body
  DiskFails,   \* whether cache writes may fail and cached copies get lost
  OnError      \* Source.OnError: "fail" or "stale"

ASSUME FetcherAssumption ==
  /\ IsFiniteSet(Threads) /\ IsFiniteSet(Sources)
  /\ MaxVersion \in Nat \ {0} /\ Large \subseteq 1..MaxVersion
  /\ DiskFails \in BOOLEAN
  /\ OnError \in {"fail", "stale"}

VARIABLES
  doc,     \* external: the document the upstream serves now
  cond,    \* Fetcher.conds[url]: the validator, None if there is none
  cache,   \* inode at cachePath of each source, or None
  tmp,     \* inode at cachePath + ".tmp" of each source, or None
  data,    \* what each inode holds
  pc,      \* where each thread is in Fetch
  src,     \* the source it fetches
  sent,    \* the validator it sent
  got,     \* the document the response was about
  fd,      \* the inode it writes to
  result,  \* the last Result it returned
  owed,    \* history: the last attempt of the source met a 304 without a copy
  spoilt   \* history: its copy was lost, or failed to be replaced, since it was written

diskVars   == <<cache, tmp, data>>
threadVars == <<pc, src, sent, got, fd, result>>
historyVars == <<owed, spoilt>>
vars == <<doc, cond, diskVars, threadVars, historyVars>>

None  == 0
Empty == 0      \* the content of a file just created or truncated
Torn  == -1     \* a mixture, or a part, of documents
Versions == 1..MaxVersion
Inodes   == 1..(2 * Cardinality(Sources) + Cardinality(Threads))

\* The first 64 MiB of a document that is longer.
Cut(v) == MaxVersion + v

\* What io.ReadAll returns of a document: it stops at the limit without an error.
Received(v) == IF v \in Large THEN Cut(v) ELSE v

NoResult == [kind |-> "none", body |-> Empty, about |-> None]
Kinds == {"none", "fresh", "notModified", "stale", "error"}

Init ==
  /\ doc \in Versions
  /\ cond = None
  /\ cache = [s \in Sources |-> None] /\ tmp = [s \in Sources |-> None]
  /\ data = [i \in Inodes |-> Empty]
  /\ pc = [t \in Threads |-> "idle"]
  /\ src \in [Threads -> Sources]
  /\ sent = [t \in Threads |-> None] /\ got = [t \in Threads |-> None]
  /\ fd = [t \in Threads |-> None]
  /\ result = [t \in Threads |-> NoResult]
  /\ owed = [s \in Sources |-> FALSE] /\ spoilt = [s \in Sources |-> FALSE]

-----------------------------------------------------------------------------
\* Fetch returns: the thread is idle again with its Result.
Return(t, kind, body) ==
  /\ pc' = [pc EXCEPT ![t] = "idle"]
  /\ result' = [result EXCEPT ![t] = [kind |-> kind, body |-> body, about |-> got[t]]]
  /\ fd' = [fd EXCEPT ![t] = None]

\* fetchURL: read the validator under the lock and send the request.
Begin(t, s) ==
  /\ pc[t] = "idle"
  /\ pc' = [pc EXCEPT ![t] = "sent"]
  /\ src' = [src EXCEPT ![t] = s]
  /\ sent' = [sent EXCEPT ![t] = cond]
  /\ got' = [got EXCEPT ![t] = None]
  /\ result' = [result EXCEPT ![t] = NoResult]
  /\ UNCHANGED <<doc, cond, diskVars, fd, historyVars>>

\* The request fails, is answered with another status, or its body breaks off.
NoAnswer(t) ==
  /\ pc[t] = "sent"
  /\ pc' = [pc EXCEPT ![t] = "failed"]
  /\ owed' = [owed EXCEPT ![src[t]] = FALSE]
  /\ UNCHANGED <<doc, cond, diskVars, src, sent, got, fd, result, spoilt>>

\* The upstream compares the validator with what it serves: 304 or 200.
Answer(t) ==
  /\ pc[t] = "sent"
  /\ got' = [got EXCEPT ![t] = doc]
  /\ pc' = [pc EXCEPT ![t] = IF sent[t] = doc THEN "notModified" ELSE "ok"]
  /\ UNCHANGED <<doc, cond, diskVars, src, sent, fd, result, historyVars>>

\* 304: the body is the cached copy ...
UseCopy(t) ==
  LET s == src[t] IN
  /\ pc[t] = "notModified" /\ cache[s] # None
  /\ Return(t, "notModified", data[cache[s]])
  /\ owed' = [owed EXCEPT ![s] = FALSE]
  /\ UNCHANGED <<doc, cond, diskVars, src, sent, got, spoilt>>

\* A variant: the validators are kept when the copy is missing.
KeepValidators(t) ==
  /\ pc[t] = "notModified" /\ cache[src[t]] = None
  /\ pc' = [pc EXCEPT ![t] = "failed"]
  /\ owed' = [owed EXCEPT ![src[t]] = TRUE]
  /\ UNCHANGED <<doc, cond, diskVars, src, sent, got, fd, result, spoilt>>

\* ... and without one the validators are dropped and the fetch fails.
NoCopy(t) ==
  /\ pc[t] = "notModified" /\ cache[src[t]] = None
  /\ cond' = None
  /\ pc' = [pc EXCEPT ![t] = "failed"]
  /\ owed' = [owed EXCEPT ![src[t]] = TRUE]
  /\ UNCHANGED <<doc, diskVars, src, sent, got, fd, result, spoilt>>

\* A variant: validators are stored only while there are none.
StoreFirstValidators(t) ==
  /\ pc[t] = "ok"
  /\ cond' = IF cond = None THEN got[t] ELSE cond
  /\ pc' = [pc EXCEPT ![t] = "open"]
  /\ owed' = [owed EXCEPT ![src[t]] = FALSE]
  /\ UNCHANGED <<doc, diskVars, src, sent, got, fd, result, spoilt>>

\* 200: the new validators, if the upstream sent any, replace the old ones
\* before the body is cached.
StoreValidators(t) ==
  /\ pc[t] = "ok"
  /\ cond' \in {got[t], None}
  /\ pc' = [pc EXCEPT ![t] = "open"]
  /\ owed' = [owed EXCEPT ![src[t]] = FALSE]
  /\ UNCHANGED <<doc, diskVars, src, sent, got, fd, result, spoilt>>

\* os.WriteFile creates the temporary file, or truncates the one that is there.
OpenTmp(t) ==
  LET s == src[t]
      unused == Inodes \ ({cache[x] : x \in Sources} \cup {tmp[x] : x \in Sources}
                          \cup {fd[x] : x \in Threads})
      i == IF tmp[s] # None THEN tmp[s] ELSE CHOOSE x \in unused : TRUE
  IN
  /\ pc[t] = "open"
  /\ tmp' = [tmp EXCEPT ![s] = i]
  /\ data' = [data EXCEPT ![i] = Empty]
  /\ fd' = [fd EXCEPT ![t] = i]
  /\ pc' = [pc EXCEPT ![t] = "write"]
  /\ UNCHANGED <<doc, cond, cache, src, sent, got, result, historyVars>>

\* A variant: the cache file itself is written, without a rename.
WriteInPlace(t) ==
  LET s == src[t] IN
  /\ pc[t] = "write"
  /\ cache' = [cache EXCEPT ![s] = fd[t]]
  /\ tmp' = [tmp EXCEPT ![s] = None]
  /\ pc' = [pc EXCEPT ![t] = "rename"]
  /\ UNCHANGED <<doc, cond, data, src, sent, got, fd, result, historyVars>>

\* ... and writes the document at its start.  Bytes another writer put there
\* since stay behind it unless this document is the longer one.
WriteTmp(t) ==
  /\ pc[t] = "write"
  /\ \E body \in {Received(got[t])} \cup IF data[fd[t]] = Empty THEN {} ELSE {Torn} :
       data' = [data EXCEPT ![fd[t]] = body]
  /\ pc' = [pc EXCEPT ![t] = "rename"]
  /\ UNCHANGED <<doc, cond, cache, tmp, src, sent, got, fd, result, historyVars>>

\* A variant: a copy that exists already is not replaced.
RenameOnce(t) ==
  LET s == src[t] IN
  /\ pc[t] = "rename"
  /\ cache' = IF cache[s] = None THEN [cache EXCEPT ![s] = tmp[s]] ELSE cache
  /\ tmp' = [tmp EXCEPT ![s] = None]
  /\ Return(t, "fresh", Received(got[t]))
  /\ UNCHANGED <<doc, cond, data, src, sent, got, historyVars>>

\* os.Rename, which fails unnoticed when another thread took the file away.
Rename(t) ==
  LET s == src[t] IN
  /\ pc[t] = "rename"
  /\ \/ /\ tmp[s] # None
        /\ cache' = [cache EXCEPT ![s] = tmp[s]]
        /\ tmp' = [tmp EXCEPT ![s] = None]
        /\ spoilt' = [spoilt EXCEPT ![s] = FALSE]
     \/ tmp[s] = None /\ UNCHANGED <<cache, tmp, spoilt>>
  /\ Return(t, "fresh", Received(got[t]))
  /\ UNCHANGED <<doc, cond, data, src, sent, got, owed>>

\* Opening fails, writing does, perhaps half-way, or renaming; the error is ignored.
WriteFails(t) ==
  /\ DiskFails
  /\ \/ pc[t] = "open" /\ UNCHANGED data
     \/ pc[t] = "write" /\ data' = [data EXCEPT ![fd[t]] = Torn]
     \/ pc[t] = "rename" /\ UNCHANGED data
  /\ Return(t, "fresh", Received(got[t]))
  /\ spoilt' = [spoilt EXCEPT ![src[t]] = TRUE]
  /\ UNCHANGED <<doc, cond, cache, tmp, src, sent, got, owed>>

\* Fetch after a failed fetchURL: the cached copy, if the policy allows it.
FallBack(t) ==
  LET s == src[t]
      usable == cache[s] # None /\ data[cache[s]] # Empty /\ OnError = "stale"
  IN
  /\ pc[t] = "failed"
  /\ \/ usable /\ Return(t, "stale", data[cache[s]])
     \/ ~usable /\ Return(t, "error", Empty)
  /\ UNCHANGED <<doc, cond, diskVars, src, sent, got, historyVars>>

\* The copy of a source disappears: the default cache directory is under
\* os.TempDir().
LoseCopy(s) ==
  /\ DiskFails /\ cache[s] # None
  /\ cache' = [cache EXCEPT ![s] = None]
  /\ spoilt' = [spoilt EXCEPT ![s] = TRUE]
  /\ UNCHANGED <<doc, cond, tmp, data, threadVars, owed>>

\* The process dies and starts again: memory is lost, the disk is not.
Crash ==
  /\ cond' = None
  /\ pc' = [t \in Threads |-> "idle"]
  /\ fd' = [t \in Threads |-> None]
  /\ result' = [t \in Threads |-> NoResult]
  /\ owed' = [s \in Sources |-> FALSE]
  /\ UNCHANGED <<doc, diskVars, src, sent, got, spoilt>>

\* The upstream publishes another document.
Publish ==
  /\ \E v \in Versions \ {doc} : doc' = v
  /\ UNCHANGED <<cond, diskVars, threadVars, historyVars>>

Step(t) ==
  \/ NoAnswer(t) \/ Answer(t) \/ UseCopy(t) \/ NoCopy(t) \/ StoreValidators(t)
  \/ OpenTmp(t) \/ WriteTmp(t) \/ Rename(t) \/ WriteFails(t) \/ FallBack(t)

Next ==
  \/ \E t \in Threads : Step(t) \/ \E s \in Sources : Begin(t, s)
  \/ \E s \in Sources : LoseCopy(s)
  \/ Crash \/ Publish

Spec == Init /\ [][Next]_vars

-----------------------------------------------------------------------------
(* Properties. *)

Returned(t) == result[t].kind \notin {"none", "error"}

\* A Result is a whole document, never a mixed one or one a crash cut short; only
\* what is longer than fetchURL reads is cut, at the limit.  The comment in writeCache:
\* "Write-and-rename so a crash mid-write cannot leave a truncated cache that would
\* later be served as a "good" stale copy."
ResultIsWhole ==
  \A t \in Threads : Returned(t) =>
    \/ result[t].body \in Versions \ Large
    \/ \E v \in Large : result[t].body = Cut(v)

\* A Result that is not marked stale is the document the upstream answered about, as
\* much as is read of it, unless a copy was lost or a write failed.  The comment on an
\* ignored write says no more is lost than "the stale-copy safety net"; but the
\* validators are stored first, and the next 304 then returns the older copy as the
\* current document.
FreshUnlessSpoilt ==
  \A t \in Threads : ~spoilt[src[t]] /\ result[t].kind \in {"fresh", "notModified"} =>
                        result[t].body = Received(result[t].about)

\* Between fetches a validator vouches for the copy on disk, whatever crashes
\* interrupted earlier fetches, unless that copy was lost or not written.
ValidatorHasCopy ==
  (cond # None /\ \A t \in Threads : pc[t] \notin {"open", "write", "rename"}) =>
    \A s \in Sources : spoilt[s] \/ (cache[s] # None /\ data[cache[s]] = Received(cond))

\* The comment on a 304 without a copy: "drop the validators so the next attempt
\* is unconditional".
NextAttemptUnconditional ==
  \A t \in Threads : pc[t] = "sent" /\ owed[src[t]] => sent[t] = None
=============================================================================
