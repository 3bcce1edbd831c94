------------------------------- MODULE StoreGC -------------------------------
(***************************************************************************)
(* The garbage collector of the local store (src/src/libstore/gc.cc) and   *)
(* the processes that add and root store paths while it runs.              *)
(*                                                                         *)
(* A store object has two names in the store directory: its path and the   *)
(* ".lock" file that sits beside it while it is being written.  Both carry *)
(* the same hash part, which is what the collector matches temporary roots *)
(* on; the object itself stands for its hash part here.                    *)
(*                                                                         *)
(* Each client is one process with one thread that uses the store API, and *)
(* can be killed at any point; the collector is whichever process holds    *)
(* the global GC lock exclusively, and can be killed at any point too.     *)
(***************************************************************************)
EXTENDS Integers

CONSTANTS
  Object,     \* the store objects, each identified by its hash part
  NoObject,   \* "no pending path": an empty std::optional
  Client,     \* the processes that use the store
  Refs,       \* Refs[o]: the objects that the contents of o refer to
  Options,    \* the GCOptions that collections may be started with
  MaxRuns     \* bound: how many collections a behaviour starts

Actions == {"gcDeleteDead", "gcDeleteSpecific", "gcReturnDead"}

ASSUME RefsAssumption == Refs \in [Object -> SUBSET Object]
ASSUME NoObjectAssumption == NoObject \notin Object
ASSUME MaxRunsAssumption == MaxRuns \in Nat
ASSUME OptionsAssumption ==
  Options \subseteq [action : Actions, specific : BOOLEAN,
                     paths : SUBSET Object, deleteReferrers : BOOLEAN]

(***************************************************************************)
(* Names in the store directory.                                           *)
(***************************************************************************)
Name == Object \X {"path", "lock"}
PathOf(o) == <<o, "path">>
LockOf(o) == <<o, "lock">>
\* Mutant: temporary roots are matched on full names.
HashPartOfPath(n) == IF n[2] = "path" THEN n[1] ELSE NoObject

HashPart(n) == n[1]

VARIABLES
  \* The store: the ValidPaths table, the directory, the gcroots links.
  valid, disk, gcroots,
  \* Clients: control state, the object and the operation it is about,
  \* the objects it was told are valid, and its temproots file.
  cpc, cpath, job, using, file,
  \* The global GC lock (shared holders; the collector holds it
  \* exclusively unless gcpc = "off") and the sockets to the collector.
  shared, conn, req,
  \* The collector: control state, options and the locals of
  \* collectGarbage() and maybeDeleteReferrersClosure().
  gcpc, opt, roots, tempRoots, pending, dead, alive, left, unscanned,
  start, visited, todo, sorted, cur, cache,
  \* History: collections started, which one acknowledged a client's
  \* root, and the objects rooted too late for the running collection.
  runs, ackRun, late

storeVars  == <<valid, disk, gcroots>>
clientVars == <<cpc, cpath, job, using, file>>
socketVars == <<conn, req>>
scanVars   == <<roots, unscanned>>
sharedVars == <<tempRoots, pending>>
walkVars   == <<dead, alive, left, start, visited, todo, sorted, cur, cache>>
gcVars     == <<gcpc, opt, scanVars, sharedVars, walkVars>>
histVars   == <<runs, ackRun, late>>
vars == <<storeVars, clientVars, shared, socketVars, gcVars, histVars>>

(***************************************************************************)
(* Helpers.                                                                *)
(***************************************************************************)

\* The objects reachable from o through references.
Closure(o) ==
  {x \in Object : \A S \in SUBSET Object :
      (o \in S /\ \A y \in S : Refs[y] \subseteq S) => x \in S}

\* queryGCReferrers(): the Refs table only has rows of valid paths.
Referrers(o) == {r \in valid : o \in Refs[r]}

\* referrersCache has no entry for an object whose value is this one.
NotCached == {NoObject}

\* The server socket of the collector accepts connections.
Listening == gcpc \notin {"off", "locked", "stopped"}

\* The collector has read the gcroots links; it has read every temproots
\* file; it is at work on one path.
PermRootsRead == gcpc \notin {"off", "locked", "permRoots"}
RootsRead     == PermRootsRead /\ gcpc # "tempRoots"
Deleting      == gcpc \in {"invalidate", "unlink"}

\* Mutant: a process gives up the lock on its temproots file when
\* addTempRoot() returns.
AliveWhileBusy(c) == cpc[c] \notin {"dead", "idle"}

Alive(c) == cpc[c] # "dead"

\* Between lockPaths() and the release of the path lock.
PathLocked(c) == cpc[c] \in {"recheck", "restore", "register", "unlock"}

NoOptions == [action |-> "gcReturnDead", specific |-> FALSE,
              paths |-> {}, deleteReferrers |-> FALSE]

-----------------------------------------------------------------------------
(***************************************************************************)
(* addTempRoot()                                                           *)
(***************************************************************************)

\* addToStore() and addToStoreFromDump() ("add"), optimisePath()
\* ("optimise") and addPermRoot() of an object the caller has ("perm") all
\* begin with addTempRoot().
Begin(c, o, j) ==
  /\ cpc[c] = "idle"
  /\ j = "perm" => o \in using[c]
  /\ cpc' = [cpc EXCEPT ![c] = "restart"]
  /\ cpath' = [cpath EXCEPT ![c] = o]
  /\ job' = [job EXCEPT ![c] = j]
  /\ UNCHANGED <<storeVars, using, file, shared, socketVars, gcVars, histVars>>

\* A shared lock on the GC lock, without blocking: it is refused while a
\* collection runs, and the collector has to be told over its socket.
TryGCLock(c) ==
  /\ cpc[c] = "restart"
  /\ \/ /\ gcpc = "off"
        /\ shared' = shared \cup {c}
        /\ cpc' = [cpc EXCEPT ![c] = "append"]
     \/ /\ gcpc # "off"
        /\ cpc' = [cpc EXCEPT ![c] = IF conn[c] = "closed" THEN "connect" ELSE "send"]
        /\ UNCHANGED shared
  /\ UNCHANGED <<storeVars, cpath, job, using, file, socketVars, gcVars, histVars>>

\* ECONNREFUSED and ENOENT restart the attempt.
Connect(c) ==
  /\ cpc[c] = "connect"
  /\ \/ /\ Listening
        /\ conn' = [conn EXCEPT ![c] = "open"]
        /\ cpc' = [cpc EXCEPT ![c] = "send"]
     \/ /\ ~Listening
        /\ cpc' = [cpc EXCEPT ![c] = "restart"]
        /\ UNCHANGED conn
  /\ UNCHANGED <<storeVars, cpath, job, using, file, shared, req, gcVars, histVars>>

\* Writing to a socket whose server is gone (EPIPE) closes it and restarts.
Send(c) ==
  /\ cpc[c] = "send"
  /\ \/ /\ conn[c] = "open"
        /\ req' = [req EXCEPT ![c] = "sent"]
        /\ cpc' = [cpc EXCEPT ![c] = "readAck"]
        /\ UNCHANGED conn
     \/ /\ conn[c] = "broken"
        /\ conn' = [conn EXCEPT ![c] = "closed"]
        /\ cpc' = [cpc EXCEPT ![c] = "restart"]
        /\ UNCHANGED req
  /\ UNCHANGED <<storeVars, cpath, job, using, file, shared, gcVars, histVars>>

\* An acknowledgement that was written before the server went away can
\* still be read; without one the end of file restarts the attempt.
ReadAck(c) ==
  /\ cpc[c] = "readAck"
  /\ \/ /\ req[c] = "acked"
        /\ cpc' = [cpc EXCEPT ![c] = "append"]
        /\ UNCHANGED conn
     \/ /\ req[c] = "none"
        /\ conn[c] = "broken"
        /\ conn' = [conn EXCEPT ![c] = "closed"]
        /\ cpc' = [cpc EXCEPT ![c] = "restart"]
  /\ req' = [req EXCEPT ![c] = "none"]
  /\ UNCHANGED <<storeVars, cpath, job, using, file, shared, gcVars, histVars>>

\* The path is appended to the process's own temproots file and the shared
\* lock, if it was obtained, is dropped on return.  The history variable
\* notes a root that was acknowledged by one collection and is written
\* while another one runs.
AppendRoot(c) ==
  /\ cpc[c] = "append"
  /\ file' = [file EXCEPT ![c] = @ \cup {cpath[c]}]
  /\ shared' = shared \ {c}
  /\ cpc' = [cpc EXCEPT ![c] = IF job[c] = "perm" THEN "symlink" ELSE "isValid"]
  /\ late' = IF gcpc # "off" /\ ackRun[c] # runs THEN late \cup {cpath[c]} ELSE late
  /\ ackRun' = [ackRun EXCEPT ![c] = 0]
  /\ UNCHANGED <<storeVars, cpath, job, using, socketVars, gcVars, runs>>

-----------------------------------------------------------------------------
(***************************************************************************)
(* What the callers of addTempRoot() go on to do.                          *)
(***************************************************************************)

\* The first validity check: a valid path is used as it is; otherwise
\* addToStore() takes the path lock and optimisePath() returns.
IsValid(c) ==
  /\ cpc[c] = "isValid"
  /\ \/ /\ cpath[c] \in valid
        /\ using' = [using EXCEPT ![c] = @ \cup {cpath[c]}]
        /\ cpc' = [cpc EXCEPT ![c] = "idle"]
     \/ /\ cpath[c] \notin valid
        /\ cpc' = [cpc EXCEPT ![c] = IF job[c] = "add" THEN "lockPaths" ELSE "idle"]
        /\ UNCHANGED using
  /\ job' = [job EXCEPT ![c] = "add"]
  /\ UNCHANGED <<storeVars, cpath, file, shared, socketVars, gcVars, histVars>>

\* PathLocks::lockPaths() on one path: creates the lock file, waits for the
\* lock.
LockPath(c) ==
  /\ cpc[c] = "lockPaths"
  /\ \A d \in Client : PathLocked(d) => cpath[d] # cpath[c]
  /\ cpc' = [cpc EXCEPT ![c] = "recheck"]
  /\ disk' = disk \cup {LockOf(cpath[c])}
  /\ UNCHANGED <<valid, gcroots, cpath, job, using, file, shared, socketVars, gcVars, histVars>>

\* Mutant: the validity check is not repeated under the lock.
RestoreUnchecked(c) ==
  /\ cpc[c] = "recheck"
  /\ cpc' = [cpc EXCEPT ![c] = "restore"]
  /\ disk' = disk \ {PathOf(cpath[c])}
  /\ UNCHANGED <<valid, gcroots, cpath, job, using, file, shared, socketVars, gcVars, histVars>>

\* The second check, under the lock; leftovers of the path are deleted.
Recheck(c) ==
  /\ cpc[c] = "recheck"
  /\ \/ /\ cpath[c] \in valid
        /\ cpc' = [cpc EXCEPT ![c] = "unlock"]
        /\ UNCHANGED disk
     \/ /\ cpath[c] \notin valid
        /\ cpc' = [cpc EXCEPT ![c] = "restore"]
        /\ disk' = disk \ {PathOf(cpath[c])}
  /\ UNCHANGED <<valid, gcroots, cpath, job, using, file, shared, socketVars, gcVars, histVars>>

Restore(c) ==
  /\ cpc[c] = "restore"
  /\ cpc' = [cpc EXCEPT ![c] = "register"]
  /\ disk' = disk \cup {PathOf(cpath[c])}
  /\ UNCHANGED <<valid, gcroots, cpath, job, using, file, shared, socketVars, gcVars, histVars>>

\* registerValidPath(): one transaction, which fails unless every reference
\* is valid.
Register(c) ==
  /\ cpc[c] = "register"
  /\ Refs[cpath[c]] \subseteq valid \cup {cpath[c]}
  /\ cpc' = [cpc EXCEPT ![c] = "unlock"]
  /\ valid' = valid \cup {cpath[c]}
  /\ UNCHANGED <<disk, gcroots, cpath, job, using, file, shared, socketVars, gcVars, histVars>>

\* Restoring or registering throws: the path lock is released, its file
\* stays (setDeletion was not reached) and so does what was restored.
AddFails(c) ==
  /\ cpc[c] \in {"restore", "register"}
  /\ cpc' = [cpc EXCEPT ![c] = "idle"]
  /\ UNCHANGED <<storeVars, cpath, job, using, file, shared, socketVars, gcVars, histVars>>

\* setDeletion(true) and the release of the lock, which deletes its file.
Unlock(c) ==
  /\ cpc[c] = "unlock"
  /\ cpc' = [cpc EXCEPT ![c] = "idle"]
  /\ using' = [using EXCEPT ![c] = @ \cup {cpath[c]}]
  /\ disk' = disk \ {LockOf(cpath[c])}
  /\ UNCHANGED <<valid, gcroots, cpath, job, file, shared, socketVars, gcVars, histVars>>

\* addPermRoot() makes the link.  The history variable notes a link that
\* appears after the running collection has read the gcroots directory and
\* whose path that collection does not know as a temporary root.
Symlink(c) ==
  /\ cpc[c] = "symlink"
  /\ cpc' = [cpc EXCEPT ![c] = "idle"]
  /\ gcroots' = gcroots \cup {cpath[c]}
  /\ late' = IF PermRootsRead /\ cpath[c] \notin tempRoots
             THEN late \cup {cpath[c]} ELSE late
  /\ job' = [job EXCEPT ![c] = "add"]
  /\ UNCHANGED <<valid, disk, cpath, using, file, shared, socketVars, gcVars, runs, ackRun>>

\* rm-path unlinks a gcroots link before it starts a collection.
RemoveRoot(o) ==
  /\ o \in gcroots
  /\ gcroots' = gcroots \ {o}
  /\ UNCHANGED <<valid, disk, clientVars, shared, socketVars, gcVars, histVars>>

\* A process exits or is killed: its locks vanish, its temproots file and
\* whatever it left in the store directory stay.  A line it has already
\* sent is still read by the collector.
Die(c) ==
  /\ Alive(c)
  /\ cpc' = [cpc EXCEPT ![c] = "dead"]
  /\ job' = [job EXCEPT ![c] = "add"]
  /\ using' = [using EXCEPT ![c] = {}]
  /\ shared' = shared \ {c}
  /\ conn' = [conn EXCEPT ![c] = IF req[c] = "none" THEN "closed" ELSE @]
  /\ UNCHANGED <<storeVars, cpath, file, req, gcVars, histVars>>

-----------------------------------------------------------------------------
(***************************************************************************)
(* The thread of the collector that serves one connection.                 *)
(***************************************************************************)

\* The root goes into shared->tempRoots under the lock of _shared.
ServerInsert(c) ==
  /\ Listening
  /\ conn[c] = "open"
  /\ req[c] = "sent"
  /\ req' = [req EXCEPT ![c] = "waiting"]
  /\ tempRoots' = tempRoots \cup {cpath[c]}
  /\ UNCHANGED <<storeVars, clientVars, shared, conn, gcpc, opt, scanVars, pending,
                 walkVars, histVars>>

\* Mutant: the acknowledgement does not wait.
ServerAckAtOnce(c) ==
  /\ Listening
  /\ conn[c] = "open"
  /\ req[c] = "waiting"
  /\ req' = [req EXCEPT ![c] = "acked"]
  /\ ackRun' = [ackRun EXCEPT ![c] = runs]
  /\ UNCHANGED <<storeVars, clientVars, shared, conn, gcVars, runs, late>>

\* The acknowledgement waits for the deletion of the path to finish.
ServerAck(c) ==
  /\ Listening
  /\ conn[c] = "open"
  /\ req[c] = "waiting"
  /\ pending # cpath[c]
  /\ req' = [req EXCEPT ![c] = "acked"]
  /\ ackRun' = [ackRun EXCEPT ![c] = runs]
  /\ UNCHANGED <<storeVars, clientVars, shared, conn, gcVars, runs, late>>

-----------------------------------------------------------------------------
(***************************************************************************)
(* collectGarbage()                                                        *)
(***************************************************************************)

\* The locals of collectGarbage() when it is entered, and once it is left.
FreshLocals ==
  /\ roots' = {}
  /\ unscanned' = {}
  /\ tempRoots' = {}
  /\ pending' = NoObject
  /\ dead' = {}
  /\ alive' = {}
  /\ left' = {}
  /\ start' = <<NoObject, "path">>
  /\ visited' = {}
  /\ todo' = {}
  /\ sorted' = {}
  /\ cur' = <<NoObject, "path">>
  /\ cache' = [o \in Object |-> NotCached]

\* The exclusive GC lock, blocking.  An empty set of specific paths returns
\* before that.
AcquireGCLock(options) ==
  /\ gcpc = "off"
  /\ shared = {}
  /\ runs < MaxRuns
  /\ ~(options.specific /\ options.paths = {})
  /\ gcpc' = "locked"
  /\ opt' = options
  /\ runs' = runs + 1
  /\ UNCHANGED <<storeVars, clientVars, shared, socketVars, scanVars, sharedVars, walkVars,
                 ackRun, late>>

StartServer ==
  /\ gcpc = "locked"
  /\ gcpc' = "permRoots"
  /\ UNCHANGED <<storeVars, clientVars, shared, socketVars, opt, scanVars, sharedVars,
                 walkVars, histVars>>

\* Mutant: the gcroots links are not followed.
FindNoRoots ==
  /\ gcpc = "permRoots"
  /\ gcpc' = "tempRoots"
  /\ roots' = {}
  /\ unscanned' = {c \in Client : Alive(c) \/ file[c] # {}}
  /\ UNCHANGED <<storeVars, clientVars, shared, socketVars, opt, sharedVars, walkVars, histVars>>

\* findRootsNoTemp(): links to invalid paths are skipped.
FindPermRoots ==
  /\ gcpc = "permRoots"
  /\ gcpc' = "tempRoots"
  /\ roots' = gcroots \cap valid
  /\ unscanned' = {c \in Client : Alive(c) \/ file[c] # {}}
  /\ UNCHANGED <<storeVars, clientVars, shared, socketVars, opt, sharedVars, walkVars, histVars>>

\* findTempRoots() for one file: the file of a dead process is removed, that
\* of a live one is read.
ScanTempFile(c) ==
  /\ gcpc = "tempRoots"
  /\ c \in unscanned
  /\ unscanned' = unscanned \ {c}
  /\ \/ /\ Alive(c)
        /\ tempRoots' = tempRoots \cup file[c]
        /\ roots' = roots \cup file[c]
        /\ UNCHANGED file
     \/ /\ ~Alive(c)
        /\ file' = [file EXCEPT ![c] = {}]
        /\ UNCHANGED <<tempRoots, roots>>
  /\ UNCHANGED <<storeVars, cpc, cpath, job, using, shared, socketVars, gcpc, opt, pending,
                 walkVars, histVars>>

\* All roots are known: go through the given paths, or through the store
\* directory.
RootsFound ==
  /\ gcpc = "tempRoots"
  /\ unscanned = {}
  /\ gcpc' = "driver"
  /\ left' = IF opt.specific THEN {PathOf(o) : o \in opt.paths} ELSE Name
  /\ UNCHANGED <<storeVars, clientVars, shared, socketVars, opt, scanVars, sharedVars, dead,
                 alive, start, visited, todo, sorted, cur, cache, histVars>>

\* maybeDeleteReferrersClosure(n) is called for the next path; readdir()
\* only returns names that exist.
PickStart(n) ==
  /\ gcpc = "driver"
  /\ n \in left
  /\ ~opt.specific => n \in disk
  /\ left' = left \ {n}
  /\ start' = n
  /\ visited' = {n}
  /\ todo' = {n}
  /\ gcpc' = "visit"
  /\ UNCHANGED <<storeVars, clientVars, shared, socketVars, opt, scanVars, sharedVars, dead,
                 alive, sorted, cur, cache, histVars>>

DriverDone ==
  /\ gcpc = "driver"
  /\ \A n \in left : ~opt.specific /\ n \notin disk
  /\ gcpc' = "stopping"
  /\ UNCHANGED <<storeVars, clientVars, shared, socketVars, opt, scanVars, sharedVars, walkVars,
                 histVars>>

\* Mutant: the path that was visited last stays pending.
ReturnPending ==
  /\ gcpc' = IF opt.action = "gcDeleteSpecific" /\ start \notin dead
             THEN "stopping" ELSE "driver"
  /\ UNCHANGED pending

\* The collector returns from maybeDeleteReferrersClosure(); a specific path
\* that did not turn out dead is an error that ends the collection.
Return ==
  /\ gcpc' = IF opt.action = "gcDeleteSpecific" /\ start \notin dead
             THEN "stopping" ELSE "driver"
  /\ pending' = NoObject

\* Mutants: the closure is taken over referrers; hash parts are recorded.
MarkReferrersAlive(n) ==
  {n} \cup {PathOf(r) : r \in {o \in Object : HashPart(n) \in Closure(o)}}
MarkHashAlive(n) == {HashPart(n)}

\* markAlive(): the closure is thrown away when a path in it is invalid.
MarkAlive(n) ==
  {n} \cup IF n[2] = "path" /\ Closure(HashPart(n)) \subseteq valid
           THEN {PathOf(o) : o \in Closure(HashPart(n))}
           ELSE {}

\* The walk meets a path that must not be deleted, and gives up on start.
VisitKeeps(n) ==
  /\ gcpc = "visit"
  /\ n \in todo
  /\ \/ /\ n \in alive
        /\ alive' = alive \cup {start}
     \/ /\ n \notin alive \cup dead
        /\ n \in {PathOf(o) : o \in roots}
        /\ alive' = alive \cup {start} \cup MarkAlive(n)
     \/ /\ n \notin alive \cup dead \cup {PathOf(o) : o \in roots}
        /\ opt.specific /\ ~opt.deleteReferrers
        /\ n \notin {PathOf(o) : o \in opt.paths}
        /\ UNCHANGED alive
     \/ /\ n \notin alive \cup dead \cup {PathOf(o) : o \in roots}
        /\ opt.specific /\ ~opt.deleteReferrers => n \in {PathOf(o) : o \in opt.paths}
        /\ HashPart(n) \in tempRoots
        /\ alive' = alive \cup {start} \cup MarkAlive(n)
  /\ Return
  /\ todo' = {}
  /\ visited' = {}
  /\ UNCHANGED <<storeVars, clientVars, shared, socketVars, opt, scanVars, tempRoots, dead,
                 left, start, sorted, cur, cache, histVars>>

\* The walk passes a path that is already deleted.
VisitDead(n) ==
  /\ gcpc = "visit"
  /\ n \in todo
  /\ n \in dead \ alive
  /\ todo' = todo \ {n}
  /\ UNCHANGED <<storeVars, clientVars, shared, socketVars, gcpc, opt, scanVars, sharedVars,
                 dead, alive, left, start, visited, sorted, cur, cache, histVars>>

\* No root: the path is marked pending and its referrers are queued, as they
\* are cached if this collection has asked for them before.
VisitExpand(n) ==
  /\ gcpc = "visit"
  /\ n \in todo
  /\ n \notin alive \cup dead \cup {PathOf(o) : o \in roots}
  /\ opt.specific /\ ~opt.deleteReferrers => n \in {PathOf(o) : o \in opt.paths}
  /\ HashPart(n) \notin tempRoots
  /\ pending' = HashPart(n)
  /\ LET o == HashPart(n)
         known == n[2] = "path" /\ o \in valid
         referrers == IF cache[o] = NotCached THEN Referrers(o) ELSE cache[o]
         next == IF known THEN {PathOf(r) : r \in referrers} \ visited ELSE {}
     IN /\ cache' = IF known THEN [cache EXCEPT ![o] = referrers] ELSE cache
        /\ visited' = visited \cup next
        /\ todo' = (todo \ {n}) \cup next
  /\ UNCHANGED <<storeVars, clientVars, shared, socketVars, gcpc, opt, scanVars, tempRoots,
                 dead, alive, left, start, sorted, cur, histVars>>

\* Nothing in the referrers closure is a root.  topoSortPaths() orders it by
\* the references of the paths that are valid now.
VisitDone ==
  /\ gcpc = "visit"
  /\ todo = {}
  /\ gcpc' = "sweep"
  /\ sorted' = valid
  /\ UNCHANGED <<storeVars, clientVars, shared, socketVars, opt, scanVars, sharedVars, dead,
                 alive, left, start, visited, todo, cur, cache, histVars>>

\* Mutant: references are deleted before their referrers.
SweepNextReversed(n) ==
  /\ gcpc = "sweep"
  /\ n \in visited
  /\ \A m \in visited \ {n} :
        ~(m[2] = "path" /\ n[2] = "path" /\ HashPart(n) \in sorted
            /\ HashPart(m) \in Refs[HashPart(n)])

\* The next path in topological order: no path still to come refers to it.
SweepNext(n) ==
  /\ gcpc = "sweep"
  /\ n \in visited
  /\ \A m \in visited \ {n} :
        ~(m[2] = "path" /\ n[2] = "path" /\ HashPart(m) \in sorted
            /\ HashPart(n) \in Refs[HashPart(m)])

\* The path is dead already, or only a report was asked for, or it has
\* become a temporary root since it was visited.
SweepSkips(n) ==
  /\ SweepNext(n)
  /\ \/ n \in dead
     \/ opt.action = "gcReturnDead"
     \/ HashPart(n) \in tempRoots
  /\ alive' = IF n \notin dead /\ opt.action # "gcReturnDead"
              THEN alive \cup MarkAlive(n) ELSE alive
  /\ dead' = dead \cup {n}
  /\ visited' = visited \ {n}
  /\ UNCHANGED <<storeVars, clientVars, shared, socketVars, gcpc, opt, scanVars, sharedVars,
                 left, start, todo, sorted, cur, cache, histVars>>

\* The check of tempRoots and the setting of pending are one critical section.
SweepPath(n) ==
  /\ SweepNext(n)
  /\ n \notin dead
  /\ opt.action # "gcReturnDead"
  /\ HashPart(n) \notin tempRoots
  /\ pending' = HashPart(n)
  /\ dead' = dead \cup {n}
  /\ visited' = visited \ {n}
  /\ cur' = n
  /\ gcpc' = "invalidate"
  /\ UNCHANGED <<storeVars, clientVars, shared, socketVars, opt, scanVars, tempRoots, alive,
                 left, start, todo, sorted, cache, histVars>>

\* Mutant: a path is invalidated whatever refers to it.
NeverInUse(n) == FALSE

\* invalidatePathChecked(): a path that others refer to stays (PathInUse).
InUse(n) == n[2] = "path" /\ HashPart(n) \in valid /\ Referrers(HashPart(n)) \ {HashPart(n)} # {}

Invalidate ==
  /\ gcpc = "invalidate"
  /\ \/ /\ InUse(cur)
        /\ gcpc' = "sweep"
        /\ pending' = NoObject
        /\ cur' = <<NoObject, "path">>
        /\ UNCHANGED valid
     \/ /\ ~InUse(cur)
        /\ valid' = IF cur[2] = "path" THEN valid \ {HashPart(cur)} ELSE valid
        /\ gcpc' = "unlink"
        /\ UNCHANGED <<pending, cur>>
  /\ UNCHANGED <<disk, gcroots, clientVars, shared, socketVars, opt, scanVars, tempRoots,
                 dead, alive, left, start, visited, todo, sorted, cache, histVars>>

\* deleteFromStore(); having freed more than maxFreed bytes ends the
\* collection, and so does an error, which leaves an invalid path on disk.
UnlinkPath ==
  /\ gcpc = "unlink"
  /\ \/ /\ disk' = disk \ {cur}
        /\ gcpc' \in {"sweep", "stopping"}
        /\ cache' = IF cur[2] = "path" THEN [cache EXCEPT ![HashPart(cur)] = NotCached] ELSE cache
        /\ cur' = <<NoObject, "path">>
     \/ /\ gcpc' = "stopping"
        /\ UNCHANGED <<disk, cache, cur>>
  /\ pending' = NoObject
  /\ UNCHANGED <<valid, gcroots, clientVars, shared, socketVars, opt, scanVars, tempRoots,
                 dead, alive, left, start, visited, todo, sorted, histVars>>

SweepDone ==
  /\ gcpc = "sweep"
  /\ visited = {}
  /\ Return
  /\ UNCHANGED <<storeVars, clientVars, shared, socketVars, opt, scanVars, tempRoots, dead,
                 alive, left, start, visited, todo, sorted, cur, cache, histVars>>

\* The end of the connections of a server that goes away.
Disconnect ==
  /\ conn' = [c \in Client |-> IF conn[c] = "open" THEN "broken" ELSE conn[c]]
  /\ req' = [c \in Client |-> IF req[c] = "acked" THEN "acked" ELSE "none"]

\* stopServer runs before the GC lock is released; it joins the threads of
\* all connections, so it waits for those that wait for a deletion.
StopServer ==
  /\ gcpc = "stopping"
  /\ \A c \in Client : req[c] = "waiting" => pending # cpath[c]
  /\ gcpc' = "stopped"
  /\ Disconnect
  /\ UNCHANGED <<storeVars, clientVars, shared, opt, scanVars, sharedVars, walkVars, histVars>>

ReleaseGCLock ==
  /\ gcpc = "stopped"
  /\ gcpc' = "off"
  /\ opt' = NoOptions
  /\ FreshLocals
  /\ UNCHANGED <<storeVars, clientVars, shared, socketVars, histVars>>

\* The collecting process is killed.
CollectorDies ==
  /\ gcpc # "off"
  /\ gcpc' = "off"
  /\ opt' = NoOptions
  /\ Disconnect
  /\ FreshLocals
  /\ UNCHANGED <<storeVars, clientVars, shared, histVars>>

-----------------------------------------------------------------------------
Init ==
  /\ valid \in SUBSET Object
  /\ \A o \in valid : Refs[o] \subseteq valid
  /\ disk = {PathOf(o) : o \in valid}
  /\ gcroots \in SUBSET valid
  /\ cpc = [c \in Client |-> "idle"]
  /\ cpath \in [Client -> Object] /\ \A c, d \in Client : cpath[c] = cpath[d]
  /\ job = [c \in Client |-> "add"]
  /\ using = [c \in Client |-> {}]
  /\ file = [c \in Client |-> {}]
  /\ shared = {}
  /\ conn = [c \in Client |-> "closed"]
  /\ req = [c \in Client |-> "none"]
  /\ gcpc = "off"
  /\ opt = NoOptions
  /\ roots = {} /\ unscanned = {} /\ tempRoots = {} /\ pending = NoObject
  /\ dead = {} /\ alive = {} /\ left = {}
  /\ start = <<NoObject, "path">>
  /\ visited = {} /\ todo = {} /\ sorted = {}
  /\ cur = <<NoObject, "path">>
  /\ cache = [o \in Object |-> NotCached]
  /\ runs = 0
  /\ ackRun = [c \in Client |-> 0]
  /\ late = {}

AddTempRoot(c) ==
  \/ TryGCLock(c) \/ Connect(c) \/ Send(c) \/ ReadAck(c) \/ AppendRoot(c)

AddToStore(c) ==
  \/ IsValid(c) \/ LockPath(c) \/ Recheck(c) \/ Restore(c) \/ Register(c)
  \/ AddFails(c) \/ Unlock(c) \/ Symlink(c)

Serve(c) == ServerInsert(c) \/ ServerAck(c)

Collect ==
  \/ StartServer \/ FindPermRoots \/ RootsFound \/ DriverDone
  \/ VisitDone \/ Invalidate \/ UnlinkPath \/ SweepDone \/ StopServer \/ ReleaseGCLock
  \/ \E c \in Client : ScanTempFile(c)
  \/ \E n \in Name : PickStart(n) \/ VisitKeeps(n) \/ VisitDead(n) \/ VisitExpand(n)
                     \/ SweepSkips(n) \/ SweepPath(n)

Next ==
  \/ \E c \in Client, o \in Object, j \in {"add", "optimise", "perm"} : Begin(c, o, j)
  \/ \E c \in Client : AddTempRoot(c) \/ AddToStore(c) \/ Serve(c) \/ Die(c)
  \/ \E o \in Object : RemoveRoot(o)
  \/ \E options \in Options : AcquireGCLock(options)
  \/ Collect
  \/ CollectorDies

Spec == Init /\ [][Next]_vars

\* Under the assumption that no process and no server thread stops running
\* for good.  Clients may die, collections need not be started.
Fairness ==
  /\ \A c \in Client : WF_vars(AddTempRoot(c)) /\ WF_vars(Serve(c))
  /\ WF_vars(Collect)

FairSpec == Spec /\ Fairness

-----------------------------------------------------------------------------
(***************************************************************************)
(* Properties.                                                             *)
(***************************************************************************)
CPC == {"idle", "restart", "connect", "send", "readAck", "append", "isValid", "lockPaths",
        "recheck", "restore", "register", "unlock", "symlink", "dead"}
GCPC == {"off", "locked", "permRoots", "tempRoots", "driver", "visit", "sweep",
         "invalidate", "unlink", "stopping", "stopped"}
NoName == <<NoObject, "path">>

\* The types of all variables.
TypeOK ==
  /\ valid \in SUBSET Object
  /\ disk \in SUBSET Name
  /\ gcroots \in SUBSET Object
  /\ cpc \in [Client -> CPC]
  /\ cpath \in [Client -> Object]
  /\ job \in [Client -> {"add", "optimise", "perm"}]
  /\ using \in [Client -> SUBSET Object]
  /\ file \in [Client -> SUBSET Object]
  /\ shared \in SUBSET Client
  /\ conn \in [Client -> {"closed", "open", "broken"}]
  /\ req \in [Client -> {"none", "sent", "waiting", "acked"}]
  /\ gcpc \in GCPC
  /\ opt \in Options \cup {NoOptions}
  /\ roots \in SUBSET Object
  /\ unscanned \in SUBSET Client
  /\ tempRoots \in SUBSET Object
  /\ pending \in Object \cup {NoObject}
  /\ dead \in SUBSET Name
  /\ alive \in SUBSET (Name \cup {NoName})
  /\ left \in SUBSET Name
  /\ start \in Name \cup {NoName}
  /\ visited \in SUBSET Name
  /\ todo \in SUBSET Name
  /\ sorted \in SUBSET Object
  /\ cur \in Name \cup {NoName}
  /\ cache \in [Object -> (SUBSET Object) \cup {NotCached}]
  /\ runs \in 0 .. MaxRuns
  /\ ackRun \in [Client -> 0 .. MaxRuns]
  /\ late \in SUBSET Object

\* The objects whose root the collector has to honour: what a live process
\* has written to its temproots file, and what the running collection has
\* acknowledged to it.
Acked(c) == /\ ackRun[c] = runs
            /\ req[c] = "acked" \/ (cpc[c] = "append" /\ c \notin shared)
Secured(c) == IF Alive(c) THEN file[c] \cup (IF Acked(c) THEN {cpath[c]} ELSE {}) ELSE {}

\* While the collector is between marking a path for deletion and having
\* removed it, no live process holds a root with that hash part: so nobody
\* can be re-creating the path, or hold its lock file, under the deletion
\* (the pending handshake of gc.cc:505-516 and 736-761).
DeletionIsExclusive ==
  Deleting => \A c \in Client : HashPart(cur) \notin Secured(c) \ late

\* A path that a live process rooted and then found or made valid stays
\* valid, whatever the collector does (the pattern store-api.hh:582-592
\* tells callers to use).
UsedStaysValid ==
  \A c \in Client : using[c] \ late \subseteq valid

\* A path that has been linked from gcroots stays valid, also after the
\* process that linked it is gone.
RootedStaysValid == gcroots \ late \subseteq valid

\* What the database calls valid is on disk: invalidation comes before
\* deletion, registration after restoring, and the two do not interleave.
ValidIsOnDisk == \A o \in valid \ late : PathOf(o) \in disk

\* Every reference of a valid path is valid, whatever is deleted, added or
\* killed meanwhile.
ReferencesAreValid == \A o \in valid : Refs[o] \subseteq valid

\* The lock file of a path that is being written is not collected: clients
\* that wait for the lock would otherwise lock another file.
LockFileIsKept ==
  \A c \in Client : PathLocked(c) /\ cpath[c] \notin late => LockOf(cpath[c]) \in disk

\* The "BUG:" branch (gc.cc:766-770) is only reached for a path all of whose
\* other valid referrers are kept for a temporary root, or for a root that
\* came too late: never because of the order in which a referrers closure
\* is deleted or because a referrer was overlooked.  The referrers need not
\* be roots themselves: what a root keeps in use is in use in its turn.
InUseOnlyByNewReferrer ==
  gcpc = "invalidate" /\ InUse(cur) =>
    \A q \in Referrers(HashPart(cur)) \ {HashPart(cur)} :
      \E r \in tempRoots \cup late : q \in Closure(r)

\* A collection of the whole store that ran to its end has left nothing
\* behind but what its roots reach and the lock files of temporary roots.
CollectionIsComplete ==
  /\ gcpc = "stopping"
  /\ opt.action = "gcDeleteDead" /\ ~opt.specific
  /\ visited = {} /\ left \cap disk = {} /\ cur = NoName
  => \A n \in disk :
       IF n[2] = "lock" THEN HashPart(n) \in tempRoots \cup late
       ELSE \E r \in roots \cup tempRoots \cup late : HashPart(n) \in Closure(r)

\* addTempRoot() returns: the retries over lock and socket end and the
\* wait for a pending deletion is always woken up.
RootRequestReturns ==
  \A c \in Client : cpc[c] = "restart" ~> cpc[c] \in {"isValid", "symlink", "dead"}

\* What gc.cc:550-551 says of the roots a running collection goes by:
\* "Read the temporary roots created before we acquired the global GC root.
\* Any new roots will be sent to our socket."
RootsReachTheCollector ==
  RootsRead /\ gcpc # "stopped" =>
    \A c \in Client : Alive(c) => file[c] \subseteq tempRoots

=============================================================================
