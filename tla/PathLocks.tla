------------------------------ MODULE PathLocks ------------------------------
(***************************************************************************)
(* The lock files of store paths (src/src/libstore/unix/pathlocks.cc).     *)
(*                                                                         *)
(* A lock on a path is an flock() on the file "<path>.lock", which is      *)
(* created on demand and deleted on release.  Since a lock is held on an   *)
(* inode and a file is found by its name, a process may end up with a lock *)
(* on a file that is no longer there; the token "d" that the releasing     *)
(* process writes to the deleted file tells it so.                         *)
(***************************************************************************)
EXTENDS Integers

CONSTANTS
  Proc,          \* the processes
  NoProc,        \* nobody holds the lock
  Path,          \* the paths, as numbers in the order of std::set
  Inode,         \* inodes, which the file system recycles
  NoInode,       \* no directory entry, no open file
  CrashPoints,   \* the control states in which a process may be killed
  UnlinkMayFail  \* tryUnlink() ignores errors: may there be one?

PCs == {"idle", "open", "flock", "check", "held", "unlock", "unlinked"}

ASSUME PathAssumption == Path \subseteq Nat
ASSUME NoProcAssumption == NoProc \notin Proc
ASSUME NoInodeAssumption == NoInode \notin Inode
ASSUME CrashPointsAssumption == CrashPoints \subseteq PCs
ASSUME UnlinkMayFailAssumption == UnlinkMayFail \in BOOLEAN

VARIABLES
  link,    \* link[x]: the inode that "<x>.lock" names
  stale,   \* the inodes with a size other than 0
  holder,  \* holder[i]: the process with the exclusive flock on inode i
  pc,      \* control state
  toLock,    \* the paths that lockPaths() still has to lock
  wait,    \* the wait argument of lockPaths()
  fd,      \* the lock file that lockPaths() has just opened
  fds,     \* fds[p][x]: the lock file of x in PathLocks::fds
  deletePaths

lockVars == <<link, stale, holder, pc, toLock, wait, fd, fds, deletePaths>>

\* Mutant: the paths are locked in any order.
IsNext(x, S) == x \in S

\* The first element of a sorted set.
IsFirst(x, S) == x \in S /\ \A y \in S : x <= y

Locked(p) == {x \in Path : fds[p][x] # NoInode}

\* No directory entry and no open file refers to the inode.
Unused(i) ==
  /\ \A x \in Path : link[x] # i
  /\ \A p \in Proc : fd[p] # i /\ \A x \in Path : fds[p][x] # i

\* Mutant: closing a file drops all locks of the process.
HolderAfterAnyClose(p, S) ==
  [i \in Inode |-> IF holder[i] = p THEN NoProc ELSE holder[i]]

\* Closing files drops the locks on them.
HolderAfterClose(p, S) ==
  [i \in Inode |-> IF i \in S /\ holder[i] = p THEN NoProc ELSE holder[i]]

-----------------------------------------------------------------------------
\* lockPaths(S, wait) on a new PathLocks.
Call(p, S, w) ==
  /\ pc[p] = "idle"
  /\ S # {}
  /\ pc' = [pc EXCEPT ![p] = "open"]
  /\ toLock' = [toLock EXCEPT ![p] = S]
  /\ wait' = [wait EXCEPT ![p] = w]
  /\ UNCHANGED <<link, stale, holder, fd, fds, deletePaths>>

\* openLockFile(lockPath, true) for the first path that is left, and the
\* close of the stale file of the previous attempt, if any.
Open(p) ==
  /\ pc[p] = "open"
  /\ \E x \in toLock[p], i \in Inode :
        /\ IsFirst(x, toLock[p])
        /\ \/ link[x] = i /\ UNCHANGED <<link, stale>>
           \/ /\ link[x] = NoInode
              /\ Unused(i)
              /\ link' = [link EXCEPT ![x] = i]
              /\ stale' = stale \ {i}
        /\ fd' = [fd EXCEPT ![p] = i]
  /\ holder' = HolderAfterClose(p, {fd[p]})
  /\ pc' = [pc EXCEPT ![p] = "flock"]
  /\ UNCHANGED <<toLock, wait, fds, deletePaths>>

\* The lock is obtained, at once or after waiting.
Flock(p) ==
  /\ pc[p] = "flock"
  /\ holder[fd[p]] = NoProc
  /\ holder' = [holder EXCEPT ![fd[p]] = p]
  /\ pc' = [pc EXCEPT ![p] = "check"]
  /\ UNCHANGED <<link, stale, toLock, wait, fd, fds, deletePaths>>


\* Without wait, a busy lock makes lockPaths() release what it has locked
\* and return false.
FlockBusy(p) ==
  /\ pc[p] = "flock"
  /\ ~wait[p]
  /\ holder[fd[p]] # NoProc
  /\ toLock' = [toLock EXCEPT ![p] = {}]
  /\ pc' = [pc EXCEPT ![p] = "unlock"]
  /\ UNCHANGED <<link, stale, holder, wait, fd, fds, deletePaths>>

\* checkInterrupt(), open() or flock() throws: the file that was just opened
\* is closed and the destructor releases what had been locked.
Throws(p) ==
  /\ pc[p] \in {"open", "flock"}
  /\ holder' = HolderAfterClose(p, {fd[p]})
  /\ fd' = [fd EXCEPT ![p] = NoInode]
  /\ toLock' = [toLock EXCEPT ![p] = {}]
  /\ pc' = [pc EXCEPT ![p] = "unlock"]
  /\ UNCHANGED <<link, stale, wait, fds, deletePaths>>

\* fstat(): a file that is not empty has been unlinked, so try again.
CheckStale(p) ==
  /\ pc[p] = "check"
  /\ fd[p] \in stale
  /\ pc' = [pc EXCEPT ![p] = "open"]
  /\ UNCHANGED <<link, stale, holder, toLock, wait, fd, fds, deletePaths>>

\* The lock goes to fds; the next path, or lockPaths() returns true.
CheckGood(p) ==
  /\ pc[p] = "check"
  /\ fd[p] \notin stale
  /\ \E x \in toLock[p] :
        /\ IsFirst(x, toLock[p])
        /\ fds' = [fds EXCEPT ![p][x] = fd[p]]
        /\ toLock' = [toLock EXCEPT ![p] = @ \ {x}]
        /\ pc' = [pc EXCEPT ![p] = IF toLock[p] = {x} THEN "held" ELSE "open"]
  /\ fd' = [fd EXCEPT ![p] = NoInode]
  /\ UNCHANGED <<link, stale, holder, wait, deletePaths>>

SetDeletion(p) ==
  /\ pc[p] = "held"
  /\ deletePaths' = [deletePaths EXCEPT ![p] = TRUE]
  /\ UNCHANGED <<link, stale, holder, pc, toLock, wait, fd, fds>>

\* The destructor calls unlock().
UnlockPaths(p) ==
  /\ pc[p] = "held"
  /\ pc' = [pc EXCEPT ![p] = "unlock"]
  /\ UNCHANGED <<link, stale, holder, toLock, wait, fd, fds, deletePaths>>

\* unlock() for the next path, when the lock file is to stay.
Close(p) ==
  /\ pc[p] = "unlock"
  /\ ~deletePaths[p]
  /\ \E x \in Locked(p) :
        /\ IsFirst(x, Locked(p))
        /\ holder' = HolderAfterClose(p, {fds[p][x]})
        /\ fds' = [fds EXCEPT ![p][x] = NoInode]
  /\ UNCHANGED <<link, stale, pc, toLock, wait, fd, deletePaths>>

\* deleteLockFile(): tryUnlink() removes the name ...
Unlink(p) ==
  /\ pc[p] = "unlock"
  /\ deletePaths[p]
  /\ \E x \in Locked(p) :
        /\ IsFirst(x, Locked(p))
        /\ \/ link' = [link EXCEPT ![x] = NoInode]
           \/ UnlinkMayFail /\ UNCHANGED link
  /\ pc' = [pc EXCEPT ![p] = "unlinked"]
  /\ UNCHANGED <<stale, holder, toLock, wait, fd, fds, deletePaths>>

\* Mutant: no token is written.
CloseWithoutToken(p) ==
  /\ pc[p] = "unlinked"
  /\ \E x \in Locked(p) :
        /\ IsFirst(x, Locked(p))
        /\ holder' = HolderAfterClose(p, {fds[p][x]})
        /\ fds' = [fds EXCEPT ![p][x] = NoInode]
  /\ pc' = [pc EXCEPT ![p] = "unlock"]
  /\ UNCHANGED <<link, stale, toLock, wait, fd, deletePaths>>

\* ... the token is written, and the file is closed.
WriteToken(p) ==
  /\ pc[p] = "unlinked"
  /\ \E x \in Locked(p) :
        /\ IsFirst(x, Locked(p))
        /\ stale' = stale \cup {fds[p][x]}
        /\ holder' = HolderAfterClose(p, {fds[p][x]})
        /\ fds' = [fds EXCEPT ![p][x] = NoInode]
  /\ pc' = [pc EXCEPT ![p] = "unlock"]
  /\ UNCHANGED <<link, toLock, wait, fd, deletePaths>>

\* unlock() returns, and so does a lockPaths() that has called it.
UnlockDone(p) ==
  /\ pc[p] = "unlock"
  /\ Locked(p) = {}
  /\ pc' = [pc EXCEPT ![p] = "idle"]
  /\ fd' = [fd EXCEPT ![p] = NoInode]
  /\ wait' = [wait EXCEPT ![p] = TRUE]
  /\ deletePaths' = [deletePaths EXCEPT ![p] = FALSE]
  /\ UNCHANGED <<link, stale, holder, toLock, fds>>

\* The process is killed: its files are closed.  Another one takes its
\* place.
Crash(p) ==
  /\ pc[p] \in CrashPoints
  /\ pc' = [pc EXCEPT ![p] = "idle"]
  /\ holder' = HolderAfterClose(p, Inode)
  /\ fd' = [fd EXCEPT ![p] = NoInode]
  /\ fds' = [fds EXCEPT ![p] = [x \in Path |-> NoInode]]
  /\ toLock' = [toLock EXCEPT ![p] = {}]
  /\ wait' = [wait EXCEPT ![p] = TRUE]
  /\ deletePaths' = [deletePaths EXCEPT ![p] = FALSE]
  /\ UNCHANGED <<link, stale>>

LocksInit ==
  /\ link = [x \in Path |-> NoInode]
  /\ stale = {}
  /\ holder = [i \in Inode |-> NoProc]
  /\ pc = [p \in Proc |-> "idle"]
  /\ toLock = [p \in Proc |-> {}]
  /\ wait = [p \in Proc |-> TRUE]
  /\ fd = [p \in Proc |-> NoInode]
  /\ fds = [p \in Proc |-> [x \in Path |-> NoInode]]
  /\ deletePaths = [p \in Proc |-> FALSE]

\* What a process does once it has called lockPaths().
Step(p) ==
  \/ Open(p) \/ Flock(p) \/ FlockBusy(p) \/ CheckStale(p) \/ CheckGood(p)
  \/ UnlockPaths(p) \/ Close(p) \/ Unlink(p) \/ WriteToken(p) \/ UnlockDone(p)

LocksNext ==
  \E p \in Proc :
    \/ \E S \in SUBSET Path, w \in BOOLEAN : Call(p, S, w)
    \/ Step(p)
    \/ SetDeletion(p)
    \/ Throws(p)
    \/ Crash(p)

LocksSpec == LocksInit /\ [][LocksNext]_lockVars

\* Processes keep running, and give up the locks they hold; nobody has to
\* call lockPaths().
FairLocks == LocksSpec /\ \A p \in Proc : WF_lockVars(Step(p))

-----------------------------------------------------------------------------
(***************************************************************************)
(* Properties.                                                             *)
(***************************************************************************)

\* The types of all variables.
LocksTypeOK ==
  /\ link \in [Path -> Inode \cup {NoInode}]
  /\ stale \in SUBSET Inode
  /\ holder \in [Inode -> Proc \cup {NoProc}]
  /\ pc \in [Proc -> PCs]
  /\ toLock \in [Proc -> SUBSET Path]
  /\ wait \in [Proc -> BOOLEAN]
  /\ fd \in [Proc -> Inode \cup {NoInode}]
  /\ fds \in [Proc -> [Path -> Inode \cup {NoInode}]]
  /\ deletePaths \in [Proc -> BOOLEAN]

\* A process owns the lock on a path from the moment its lock file has
\* passed the staleness check until the file is unlinked or closed.
Releasing(p, x) == pc[p] = "unlinked" /\ IsFirst(x, Locked(p))
Owns(p, x) == fds[p][x] # NoInode /\ ~Releasing(p, x)

\* Two processes never own the lock on the same path, although the lock
\* file is deleted and created again under them (pathlocks.cc:26-36, 90-122).
MutualExclusion ==
  \A p, q \in Proc, x \in Path : Owns(p, x) /\ Owns(q, x) => p = q

\* The owner of a path: the variable of LockTable.
OwnerOf(x) == IF \E p \in Proc : Owns(p, x) THEN CHOOSE p \in Proc : Owns(p, x) ELSE NoProc

Table == INSTANCE LockTable WITH owner <- [x \in Path |-> OwnerOf(x)]

\* The lock files implement the lock table.
ImplementsLockTable == Table!Spec

\* As long as anybody waits for locks, somebody gets all of the locks that
\* it asked for, or gives up: no circular wait (pathlocks.cc:78-80) and no
\* endless retrying on lock files that are stale.  Processes that are
\* killed or interrupted again and again are left out of account.
Wanting(p) == pc[p] \in {"open", "flock", "check"}
SomebodyGetsLocks ==
  <>[][\A p \in Proc : ~Crash(p) /\ ~Throws(p)]_lockVars =>
    ((\E p \in Proc : Wanting(p)) ~>
       ((\E p \in Proc : pc[p] = "held") \/ (\A p \in Proc : ~Wanting(p))))

\* What pathlocks.cc:34-35 says of the unlink() in deleteLockFile(): "We just
\* try to unlink don't care if it fails; removing the lock file is an
\* optimisation, not a necessity."  Then the lock can still be had.
UnlinkIsNotNeeded == SomebodyGetsLocks

\* What pathlocks.cc:111-112 says of the test of the size: "Check that the
\* lock file hasn't become stale (i.e., hasn't been unlinked)."  Then the
\* lock of a process is on the file that others find.
OwnedFileIsLinked ==
  \A p \in Proc, x \in Path : Owns(p, x) => link[x] = fds[p][x]
=============================================================================
