------------------------------- MODULE TempDir -------------------------------
(***************************************************************************)
(* Temporary directories in the store.  An import restores an archive that *)
(* is too large for a buffer into a directory "tmp-<pid>-<n>" of the store *)
(* (LocalStore::createTempDirInStore()); a collection deletes such         *)
(* directories when it gets a lock on them (deleteFromStore() in gc.cc).   *)
(***************************************************************************)
EXTENDS Integers

CONSTANTS
  Importer,    \* the importing processes
  MaxTempDirs  \* bound: how many directories are created

Collector == "collector"
Nobody == "nobody"
TempDirs == 1 .. MaxTempDirs

VARIABLES
  created,   \* the number of directories created so far; names are unique
  tempDirs,  \* the directories that exist
  flock,     \* flock[d]: who has the exclusive lock on directory d
  ipc,       \* control state of the importers
  dir,       \* dir[p]: the directory of the importer, 0 for none
  lockedByUs,
  gpc,       \* control state of the collector in deleteFromStore()
  victim     \* the name that the collector is looking at

tempVars == <<created, tempDirs, flock, ipc, dir, lockedByUs, gpc, victim>>

TempInit ==
  /\ created = 0
  /\ tempDirs = {}
  /\ flock = [d \in TempDirs |-> Nobody]
  /\ ipc = [p \in Importer |-> "idle"]
  /\ dir = [p \in Importer |-> 0]
  /\ lockedByUs = [p \in Importer |-> FALSE]
  /\ gpc = "idle"
  /\ victim = 0

\* Closing a descriptor drops the lock.
Dropped(who, d) == [flock EXCEPT ![d] = IF @ = who THEN Nobody ELSE @]

\* createTempDir(): mkdir() of a name that was not used before.  The assignment
\* to tmpDirFd in the next round closes the directory of the last one.
CreateTempDir(p) ==
  /\ ipc[p] = "idle"
  /\ created < MaxTempDirs
  /\ created' = created + 1
  /\ tempDirs' = tempDirs \cup {created'}
  /\ dir' = [dir EXCEPT ![p] = created']
  /\ flock' = IF dir[p] = 0 THEN flock ELSE Dropped(p, dir[p])
  /\ ipc' = [ipc EXCEPT ![p] = "open"]
  /\ UNCHANGED <<lockedByUs, gpc, victim>>

\* openDirectory(): fails when the collector has been there.
OpenTempDir(p) ==
  /\ ipc[p] = "open"
  /\ ipc' = [ipc EXCEPT ![p] = IF dir[p] \in tempDirs THEN "lock" ELSE "check"]
  /\ UNCHANGED <<created, tempDirs, flock, dir, lockedByUs, gpc, victim>>

\* lockFile(fd, ltWrite, wait = true).
LockTempDir(p) ==
  /\ ipc[p] = "lock"
  /\ flock[dir[p]] = Nobody
  /\ flock' = [flock EXCEPT ![dir[p]] = p]
  /\ lockedByUs' = [lockedByUs EXCEPT ![p] = TRUE]
  /\ ipc' = [ipc EXCEPT ![p] = "check"]
  /\ UNCHANGED <<created, tempDirs, dir, gpc, victim>>

\* while (!pathExists(tmpDirFn) || !lockedByUs): otherwise it is returned.
CheckTempDir(p) ==
  /\ ipc[p] = "check"
  /\ ipc' = [ipc EXCEPT ![p] =
                IF dir[p] \in tempDirs /\ lockedByUs[p] THEN "held" ELSE "idle"]
  /\ UNCHANGED <<created, tempDirs, flock, dir, lockedByUs, gpc, victim>>

\* addToStoreFromDump() is done with it: tempDirFd, declared last, is closed
\* first.
DropTempDir(p) ==
  /\ ipc[p] = "held"
  /\ flock' = Dropped(p, dir[p])
  /\ lockedByUs' = [lockedByUs EXCEPT ![p] = FALSE]
  /\ ipc' = [ipc EXCEPT ![p] = "drop"]
  /\ UNCHANGED <<created, tempDirs, dir, gpc, victim>>

\* Then the destructor of delTempDir deletes what is left of it.
AutoDeleteTempDir(p) ==
  /\ ipc[p] = "drop"
  /\ tempDirs' = tempDirs \ {dir[p]}
  /\ dir' = [dir EXCEPT ![p] = 0]
  /\ ipc' = [ipc EXCEPT ![p] = "idle"]
  /\ UNCHANGED <<created, flock, lockedByUs, gpc, victim>>

\* deleteFromStore(): openDirectory() and lockFile(fd, ltWrite, wait = false);
\* when either fails, the name is skipped.
TryLock(d) ==
  /\ gpc = "idle"
  /\ d \in tempDirs
  /\ flock[d] = Nobody
  /\ flock' = [flock EXCEPT ![d] = Collector]
  /\ victim' = d
  /\ gpc' = "locked"
  /\ UNCHANGED <<created, tempDirs, ipc, dir, lockedByUs>>

\* The block that declares tmpDirFd ends, which closes it.
CloseTempDir ==
  /\ gpc = "locked"
  /\ flock' = Dropped(Collector, victim)
  /\ gpc' = "delete"
  /\ UNCHANGED <<created, tempDirs, ipc, dir, lockedByUs, victim>>

\* deleteStorePath().
DeleteTempDir ==
  /\ gpc = "delete"
  /\ tempDirs' = tempDirs \ {victim}
  /\ gpc' = "idle"
  /\ victim' = 0
  /\ UNCHANGED <<created, flock, ipc, dir, lockedByUs>>

TempNext ==
  \/ \E p \in Importer :
        CreateTempDir(p) \/ OpenTempDir(p) \/ LockTempDir(p) \/ CheckTempDir(p)
          \/ DropTempDir(p) \/ AutoDeleteTempDir(p)
  \/ \E d \in TempDirs : TryLock(d)
  \/ CloseTempDir
  \/ DeleteTempDir

TempSpec == TempInit /\ [][TempNext]_tempVars

-----------------------------------------------------------------------------
\* The comment on createTempDirInStore(): "Create a temporary directory in the
\* store that won't be garbage-collected until the returned FD is closed."
\* A directory that was returned and not closed is there.
HeldTempDirIsKept == \A p \in Importer : ipc[p] = "held" => dir[p] \in tempDirs
=============================================================================
