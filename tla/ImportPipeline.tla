--------------------------- MODULE ImportPipeline ---------------------------
(***************************************************************************)
(* The streaming import of an archive (LocalStore::addToStoreFromDump() in *)
(* src/src/libstore/local-store.cc).                                       *)
(*                                                                         *)
(* The importing thread reads the archive once.  TeeSource copies what it  *)
(* reads to an AsyncHashSink, whose thread computes the digest of the      *)
(* archive, and FileHashingSink copies what it restores to an              *)
(* AsyncFileHasher, whose thread computes the digest of each file and      *)
(* replaces files that the link farm has already.  Both threads are fed    *)
(* through bounded queues, may fail, and are joined when their owner is    *)
(* done or an exception passes by.                                         *)
(*                                                                         *)
(* A digest stands for the sequence of what was hashed.                    *)
(***************************************************************************)
EXTENDS Integers, Sequences

CONSTANTS
  Archive,    \* the archive: a sequence of records [tag, path]
  InFarm,     \* the files whose content the link farm has
  MaxQueued,  \* the length of the two queues, 64 in the code
  NoDigest

ASSUME MaxQueuedAssumption == MaxQueued \in Nat \ {0}

FileTags == {"begin", "exec", "size", "data", "end"}
At(tags) == {n \in 1 .. Len(Archive) : Archive[n].tag \in tags}
Paths == {Archive[n].path : n \in 1 .. Len(Archive)}
IFiles == {Archive[n].path : n \in At({"begin"})}
IDirs == {Archive[n].path : n \in At({"mkdir"})}

\* The events of one file.
FileSpan(b, e) ==
  /\ b < e /\ Archive[b].tag = "begin" /\ Archive[e].tag = "end"
  /\ \A n \in b + 1 .. e - 1 : Archive[n].tag \in {"exec", "size", "data"}
  /\ \A n \in b .. e : Archive[n].path = Archive[b].path

\* What parseDump() accepts: the events of a file follow each other, no file is
\* there twice, and every directory is left again but for the root, which the
\* caller completes.
ASSUME ArchiveAssumption ==
  /\ Archive \in Seq([tag : FileTags \cup {"mkdir", "symlink", "enddir"}, path : STRING])
  /\ Len(Archive) > 0
  /\ \A n \in At(FileTags) :
        \E b, e \in 1 .. Len(Archive) : b <= n /\ n <= e /\ FileSpan(b, e)
  /\ \A m, n \in At({"begin"}) : Archive[m].path = Archive[n].path => m = n
  /\ \A n \in At({"mkdir"}) : n = 1 \/ \E m \in At({"enddir"}) : Archive[m].path = Archive[n].path

\* The directory that the entry is in, unless it is the root: the last one that
\* was entered and not left.
ParentOf(n) == LET open == {m \in At({"mkdir"}) :
                              m < n /\ ~\E k \in At({"enddir"}) :
                                          m < k /\ k < n /\ Archive[k].path = Archive[m].path}
               IN  {Archive[m].path : m \in {k \in open : \A l \in open : l <= k}}

\* The parts of a file; its content is all of them in their order.
IsPart(n) == Archive[n].tag \in {"exec", "data"}
PartsOf(f) == {n \in 1 .. Len(Archive) : Archive[n].path = f /\ IsPart(n)}
InOrder(s) == \A i, j \in 1 .. Len(s) : i < j => s[i] < s[j]
IsContent(s, f) == InOrder(s) /\ {s[i] : i \in 1 .. Len(s)} = PartsOf(f)

VARIABLES
  inMemory,  \* the archive fits the buffer: it is restored after it was read
  next,      \* the entry of the archive that the importing thread is at
  ppc,       \* control state of the importing thread
  thrown,    \* an exception is unwinding the stack of the importing thread
  tree,      \* tree[f]: what the restored file f contains
  buffer,    \* what FdSink holds of the file being restored
  stamped,   \* the directories with canonical metadata
  deferred,  \* deferCanonicalDirs: directories to stamp after the restore
  gone,      \* the destination has been deleted again
  digest,    \* the result of AsyncHashSink::finish()
  files,     \* ImportFileHashes::files
  thread     \* thread["nar"], thread["file"]: the two hashing threads

importVars == <<inMemory, next, ppc, thrown, tree, buffer, stamped, deferred,
                gone, digest, files, thread>>

Hasher == {"nar", "file"}
\* Where the importing thread is with respect to a hashing thread.
PushAt(h) == IF h = "nar" THEN "push-nar" ELSE "push-file"
FullAt(h) == IF h = "nar" THEN "full-nar" ELSE "full-file"
CloseAt(h) == IF h = "nar" THEN "close-nar" ELSE "close-file"
JoinAt(h) == IF h = "nar" THEN "join-nar" ELSE "join-file"
\* mtx protects queue and closed; failure and what was hashed belong to the
\* worker until it is joined.
NewThread == [pc |-> "loop", queue |-> <<>>, closed |-> FALSE, item |-> 0,
              failure |-> FALSE, hashed |-> <<>>, key |-> "none"]

ImportInit ==
  /\ inMemory \in BOOLEAN
  /\ next = 1
  /\ ppc = "read"
  /\ thrown = FALSE
  /\ tree = [f \in IFiles |-> <<>>]
  /\ buffer = <<>>
  /\ stamped = {}
  /\ deferred = <<>>
  /\ gone = FALSE
  /\ digest = NoDigest
  /\ files = [f \in IFiles |-> NoDigest]
  \* The file hasher is made when the restore begins.
  /\ thread = [h \in Hasher |-> IF h = "file" /\ inMemory
                                THEN [NewThread EXCEPT !.pc = "none"] ELSE NewThread]

-----------------------------------------------------------------------------
(* The hashing threads.  wait() on a condition variable sleeps until       *)
(* somebody notifies; "asleep" is the worker in cvPush.wait(), "full" the  *)
(* importing thread in cvPop.wait().                                       *)

\* Mutant: nobody is notified.
NotNotified(t) == t

\* notify_one() of the worker's condition variable.
Notified(t) == IF t.pc = "asleep" THEN [t EXCEPT !.pc = "loop"] ELSE t

\* Mutant: a closed queue is not emptied.
LeavesAtOnce(t) == t.closed
\* The worker returns when the queue is closed and empty.
Leaves(t) == t.closed /\ t.queue = <<>>

\* Take an item from the queue, or sleep, or return.
Take(h) ==
  LET t == thread[h]
  IN  /\ t.pc = "loop"
      /\ thread' = [thread EXCEPT ![h] =
           IF Leaves(t) THEN [t EXCEPT !.pc = "returned"]
           ELSE IF t.queue = <<>> THEN [t EXCEPT !.pc = "asleep"]
           ELSE [t EXCEPT !.pc = "work", !.item = Head(t.queue), !.queue = Tail(t.queue)]]
      \* cvPop.notify_one()
      /\ ppc' = IF t.queue # <<>> /\ ppc = FullAt(h) THEN PushAt(h) ELSE ppc
      /\ UNCHANGED <<inMemory, next, thrown, tree, buffer, stamped, deferred,
                     gone, digest, files>>

\* Hashing throws.  The worker goes on taking items.
Fail(h) ==
  /\ thread[h].pc = "work"
  /\ ~thread[h].failure
  /\ thread' = [thread EXCEPT ![h].pc = "loop", ![h].failure = TRUE]
  /\ UNCHANGED <<inMemory, next, ppc, thrown, tree, buffer, stamped, deferred,
                 gone, digest, files>>

\* After a failure items are dropped.
Drop(h) ==
  /\ thread[h].pc = "work"
  /\ thread[h].failure
  /\ thread' = [thread EXCEPT ![h].pc = "loop"]
  /\ UNCHANGED <<inMemory, next, ppc, thrown, tree, buffer, stamped, deferred,
                 gone, digest, files>>

\* AsyncHashSink: inner(chunk).
HashChunk(h) ==
  LET t == thread["nar"]
  IN  /\ h = "nar"
      /\ t.pc = "work"
      /\ ~t.failure
      /\ thread' = [thread EXCEPT !["nar"] =
                       [t EXCEPT !.pc = "loop", !.hashed = Append(@, t.item)]]
      /\ UNCHANGED <<inMemory, next, ppc, thrown, tree, buffer, stamped,
                     deferred, gone, digest, files>>

\* AsyncFileHasher: begin(), exec(), setSize(), data().
HashEvent(h) ==
  LET t == thread["file"]
      e == Archive[t.item]
  IN  /\ h = "file"
      /\ t.pc = "work"
      /\ ~t.failure
      /\ e.tag # "end"
      /\ thread' = [thread EXCEPT !["file"] =
           [t EXCEPT !.pc = "loop",
                     !.key = IF e.tag = "begin" THEN e.path ELSE @,
                     !.hashed = IF e.tag = "begin" THEN <<>>
                                ELSE IF IsPart(t.item) THEN Append(@, t.item) ELSE @]]
      /\ UNCHANGED <<inMemory, next, ppc, thrown, tree, buffer, stamped,
                     deferred, gone, digest, files>>

\* end(): tryDedup() replaces the file by the one of the link farm, which
\* changes the mtime of the directory, or leaves it; then the hash is recorded.
HashEnd(h) ==
  LET t == thread["file"]
      f == t.key
  IN  /\ h = "file"
      /\ t.pc = "work"
      /\ ~t.failure
      /\ Archive[t.item].tag = "end"
      /\ \/ /\ f \in InFarm
            /\ \E n \in 1 .. Len(t.hashed) : Archive[t.hashed[n]].tag = "data"  \* size > 0
            /\ tree' = [tree EXCEPT ![f] = t.hashed]
            /\ stamped' = stamped \ ParentOf(t.item)
         \/ UNCHANGED <<tree, stamped>>
      /\ files' = [files EXCEPT ![f] = t.hashed]
      /\ thread' = [thread EXCEPT !["file"] =
                       [t EXCEPT !.pc = "loop", !.hashed = <<>>, !.key = "none"]]
      /\ UNCHANGED <<inMemory, next, ppc, thrown, buffer, deferred, gone, digest>>

-----------------------------------------------------------------------------
(* The importing thread.                                                   *)

Entry == Archive[next]
Throw(label) == thrown' = TRUE /\ ppc' = label

\* source.read(): the archive ends early or is malformed.
ReadFails ==
  /\ ppc = "read"
  /\ Throw(IF inMemory THEN "delete" ELSE "close-file")
  /\ UNCHANGED <<inMemory, next, tree, buffer, stamped, deferred, gone, digest,
                 files, thread>>

\* source.read(): the next part of the archive, or its end.
Read ==
  /\ ppc = "read"
  /\ ppc' = IF next <= Len(Archive) THEN "push-nar"
            ELSE IF inMemory THEN "close-nar" ELSE "close-file"
  /\ UNCHANGED <<inMemory, next, thrown, tree, buffer, stamped, deferred, gone,
                 digest, files, thread>>

\* Push an item on the queue of a hashing thread; wait while it is full.
Push(h, then) ==
  /\ ppc = PushAt(h)
  /\ IF Len(thread[h].queue) < MaxQueued
     THEN /\ thread' = [thread EXCEPT ![h] =
                           Notified([thread[h] EXCEPT !.queue = Append(@, next)])]
          /\ ppc' = then
          /\ next' = IF then = "read" THEN next + 1 ELSE next
     ELSE /\ ppc' = FullAt(h)
          /\ UNCHANGED <<thread, next>>
  /\ UNCHANGED <<inMemory, thrown, tree, buffer, stamped, deferred, gone,
                 digest, files>>

\* AsyncHashSink::operator() from TeeSource.
PushChunk == Push("nar", IF inMemory THEN "read" ELSE "restore")

\* FileHashingSink: events of regular files go to the AsyncFileHasher first.
Dispatch ==
  /\ ppc = "restore"
  /\ ppc' = IF Entry.tag \in FileTags THEN "push-file" ELSE "apply"
  /\ UNCHANGED <<inMemory, next, thrown, tree, buffer, stamped, deferred, gone,
                 digest, files, thread>>

PushEvent == Push("file", "apply")

NextEntry ==
  /\ next' = next + 1
  /\ ppc' = IF ~inMemory THEN "read"
            ELSE IF next < Len(Archive) THEN "restore" ELSE "close-file"

\* RestoreSink::finishCanonical() with deferCanonicalDirs.
FinishCanonical == deferred' = Append(deferred, Entry.path) /\ UNCHANGED stamped

\* RestoreSink: create, write, flush.  FdSink buffers what is written, and
\* createRegularFile() flushes it to the descriptor after the callback, when
\* the name may already refer to the inode of the farm.
Apply ==
  /\ ppc = "apply"
  /\ buffer' = IF Entry.tag = "begin" THEN <<>>
               ELSE IF IsPart(next) THEN Append(buffer, next) ELSE buffer
  /\ tree' = IF Entry.tag = "end"
             THEN [tree EXCEPT ![Entry.path] = IF @ = <<>> THEN buffer ELSE @]
             ELSE tree
  /\ IF Entry.tag = "enddir" THEN FinishCanonical ELSE UNCHANGED <<stamped, deferred>>
  /\ NextEntry
  /\ UNCHANGED <<inMemory, thrown, gone, digest, files, thread>>

\* A write fails, or the parser finds a mistake.
ApplyFails ==
  /\ ppc = "apply"
  /\ Throw("close-file")
  /\ UNCHANGED <<inMemory, next, tree, buffer, stamped, deferred, gone, digest,
                 files, thread>>

\* close(): say that nothing follows, then join.
Close(h) ==
  /\ ppc = CloseAt(h)
  /\ thread' = [thread EXCEPT ![h] = Notified([thread[h] EXCEPT !.closed = TRUE])]
  /\ ppc' = JoinAt(h)
  /\ UNCHANGED <<inMemory, next, thrown, tree, buffer, stamped, deferred, gone,
                 digest, files>>

\* AsyncFileHasher::finish(), or its destructor during unwinding: join, rethrow
\* the failure, and stamp the deferred directories.
JoinFileHasher ==
  /\ ppc = "join-file"
  /\ thread["file"].pc = "returned"
  /\ LET fails == thrown \/ thread["file"].failure
     IN  /\ thrown' = fails
         /\ ppc' = IF fails THEN "delete" ELSE IF inMemory THEN "move" ELSE "close-nar"
         /\ stamped' = IF fails THEN stamped
                       ELSE stamped \cup {deferred[n] : n \in 1 .. Len(deferred)}
  /\ UNCHANGED <<inMemory, next, tree, buffer, deferred, gone, digest, files, thread>>

\* AsyncHashSink::finish(), or its destructor: join, rethrow, digest.  Then
\* an archive in memory is restored to its place.
JoinHashSink ==
  /\ ppc = "join-nar"
  /\ thread["nar"].pc = "returned"
  /\ LET fails == thrown \/ thread["nar"].failure
     IN  /\ thrown' = fails
         /\ ppc' = IF thrown THEN "failed" ELSE IF fails THEN "delete"
                   ELSE IF inMemory THEN "restore" ELSE "move"
         /\ digest' = IF fails THEN digest ELSE thread["nar"].hashed
         /\ next' = IF inMemory /\ ~fails THEN 1 ELSE next
         /\ thread' = IF inMemory /\ ~fails
                      THEN [thread EXCEPT !["file"].pc = "loop"] ELSE thread
  /\ UNCHANGED <<inMemory, tree, buffer, stamped, deferred, gone, files>>

\* Unwinding: the destructor of delTempDir deletes the temporary directory (an
\* archive in memory has none: what is left at the real path is deleted by the
\* next import); then the hash sink is destroyed, which joins its thread unless
\* finish() did.
DeleteTree ==
  /\ ppc = "delete"
  /\ gone' = ~inMemory
  /\ ppc' = IF thread["nar"].closed THEN "failed" ELSE "close-nar"
  /\ UNCHANGED <<inMemory, next, thrown, tree, buffer, stamped, deferred,
                 digest, files, thread>>

\* moveFile(), canonicaliseTimestampAndPermissions() of the root, and
\* registerValidPath().
Register ==
  /\ ppc = "move"
  /\ stamped' = stamped \cup {Archive[1].path}
  /\ ppc' = "registered"
  /\ UNCHANGED <<inMemory, next, thrown, tree, buffer, deferred, gone, digest,
                 files, thread>>

\* addToStoreFromDump() returned or threw.
ImportOver == ppc \in {"registered", "failed"} /\ UNCHANGED importVars

Worker(h) ==
  \/ Take(h) \/ Fail(h) \/ Drop(h)
  \/ HashChunk(h) \/ HashEvent(h) \/ HashEnd(h)

ImportThread ==
  \/ ReadFails \/ Read \/ PushChunk \/ Dispatch \/ PushEvent \/ Apply \/ ApplyFails
  \/ (\E h \in Hasher : Close(h)) \/ JoinFileHasher \/ JoinHashSink \/ DeleteTree
  \/ Register

ImportNext == ImportThread \/ (\E h \in Hasher : Worker(h)) \/ ImportOver

ImportSpec == ImportInit /\ [][ImportNext]_importVars

-----------------------------------------------------------------------------
ThreadPCs == {"none", "loop", "asleep", "work", "returned"}
ImportTypeOK ==
  /\ inMemory \in BOOLEAN /\ thrown \in BOOLEAN /\ gone \in BOOLEAN
  /\ next \in 1 .. Len(Archive) + 1
  /\ stamped \subseteq Paths
  /\ \A h \in Hasher :
        /\ thread[h].pc \in ThreadPCs
        /\ Len(thread[h].queue) <= MaxQueued
        /\ \A n \in 1 .. Len(thread[h].queue) : thread[h].queue[n] \in 1 .. Len(Archive)

\* A path is registered only with the digest of the whole archive in its
\* order, with every file as the archive has it, deduplicated or not, and with
\* the hash of each file captured: no part is lost in a queue, and no failure
\* of a worker goes unnoticed.
ImportedExactly ==
  ppc = "registered" =>
    /\ digest = [n \in 1 .. Len(Archive) |-> n]
    /\ \A f \in IFiles : IsContent(tree[f], f) /\ IsContent(files[f], f)

\* The directories of a registered path have canonical metadata, though the
\* deduplication behind the restore touches directories that are complete.
DirsStamped == ppc = "registered" => IDirs \subseteq stamped

\* The thread that replaces files is gone before what was restored is deleted
\* or registered, and at the end both are.
WorkersJoined ==
  /\ (gone \/ ppc \in {"move", "registered", "failed"}) =>
        thread["file"].pc \in {"none", "returned"}
  /\ ppc \in {"registered", "failed"} => thread["nar"].pc = "returned"

\* addToStoreFromDump(): all of the above, at every step of the import and of
\* its two hashing threads.
ImportIsExact == ImportTypeOK /\ ImportedExactly /\ DirsStamped /\ WorkersJoined

\* The importing thread and its hashing threads never wait for each other: a
\* hashing thread sleeps only while its queue is empty and open, and while the
\* importing thread waits for room in a queue or for the end of a hashing thread,
\* that thread is awake and, if there has to be room, has an item to take, also
\* after it has failed.
ImportWakesEnough ==
  \A h \in Hasher :
    /\ thread[h].pc = "asleep" => thread[h].queue = <<>> /\ ~thread[h].closed
    /\ ppc = FullAt(h) => thread[h].queue # <<>> /\ thread[h].pc \in {"loop", "work"}
    /\ ppc = JoinAt(h) => thread[h].closed /\ thread[h].pc \in {"loop", "work", "returned"}
=============================================================================
