--------------------------- MODULE StoreGC_proofs ---------------------------
(***************************************************************************)
(* The safety of the temporary-root protocol of StoreGC, for any number of *)
(* objects, processes and collections.                                     *)
(***************************************************************************)
EXTENDS StoreGC, TLAPS

(***************************************************************************)
(* The inductive invariant.                                                *)
(***************************************************************************)

\* The GC lock excludes shared holders, who are all about to append a root.
GCLockInv ==
  /\ gcpc # "off" => shared = {}
  /\ \A c \in shared : cpc[c] = "append"

\* An open connection has a live server; what the server has inserted is in
\* tempRoots; only a client that waits for an acknowledgement has a request.
SocketInv ==
  \A c \in Client :
    /\ conn[c] = "open" => Listening
    /\ req[c] \in {"sent", "waiting"} => conn[c] = "open"
    /\ req[c] = "waiting" => cpath[c] \in tempRoots
    /\ Alive(c) /\ cpc[c] # "readAck" => req[c] = "none"

\* The running collection knows the roots that it has acknowledged.
AckInv ==
  \A c \in Client :
    /\ ackRun[c] <= runs
    /\ gcpc # "off" /\ Alive(c) /\ Acked(c) => cpath[c] \in tempRoots

\* A collection that has read the file of a live process knows its roots.
FileInv ==
  \A c \in Client :
    Alive(c) /\ (RootsRead \/ (gcpc = "tempRoots" /\ c \notin unscanned))
      => file[c] \ late \subseteq tempRoots

\* A collection that has read gcroots knows all links.
LinkInv == PermRootsRead => gcroots \ late \subseteq roots \cup tempRoots

\* What a walk has passed, and does not take for deleted, is no root.
IsRoot(n) == n[2] = "path" /\ HashPart(n) \in roots
WalkInv ==
  /\ gcpc = "visit" => \A n \in visited \ todo : n \in dead \/ ~IsRoot(n)
  /\ gcpc \in {"sweep", "invalidate", "unlink"} => \A n \in visited : n \in dead \/ ~IsRoot(n)

\* The path being deleted is announced, is not linked from gcroots, and has
\* been invalidated before it is unlinked.
DeleteInv ==
  /\ Deleting => cur \in Name /\ pending = HashPart(cur)
  /\ Deleting /\ cur[2] = "path" => HashPart(cur) \notin gcroots \ late
  /\ gcpc = "unlink" /\ cur[2] = "path" => HashPart(cur) \notin valid \ late

\* A client works on an object only once it has rooted it, and addPermRoot()
\* is given an object the caller uses.
ClientInv ==
  \A c \in Client :
    /\ cpc[c] \in {"isValid", "lockPaths", "recheck", "restore", "register", "unlock"}
         => cpath[c] \in file[c]
    /\ using[c] \subseteq file[c]
    /\ job[c] = "perm" => cpath[c] \in using[c]
    /\ cpc[c] = "symlink" => job[c] = "perm"
    /\ cpc[c] = "dead" => using[c] = {}

\* The path lock, and what is known under it.
PathLockInv ==
  /\ \A c, d \in Client :
       c # d /\ PathLocked(c) /\ PathLocked(d) => cpath[c] # cpath[d]
  /\ \A c \in Client :
       /\ cpc[c] = "register" /\ cpath[c] \notin late => PathOf(cpath[c]) \in disk
       /\ cpc[c] = "unlock" /\ cpath[c] \notin late => cpath[c] \in valid

IInv ==
  /\ TypeOK
  /\ GCLockInv /\ SocketInv /\ AckInv
  /\ FileInv /\ LinkInv /\ WalkInv /\ DeleteInv /\ DeletionIsExclusive
  /\ ClientInv /\ PathLockInv /\ LockFileIsKept
  /\ UsedStaysValid /\ RootedStaysValid /\ ValidIsOnDisk /\ ReferencesAreValid

-----------------------------------------------------------------------------
(***************************************************************************)
(* Preservation: one lemma per part of the invariant, in it one step per   *)
(* operation.                                                              *)
(***************************************************************************)

\* Types are preserved.
LEMMA TypeStep ==
  ASSUME TypeOK, Next
  PROVE  TypeOK'
<1> USE RefsAssumption, NoObjectAssumption, MaxRunsAssumption, OptionsAssumption DEF
        TypeOK, CPC, GCPC, NoName, NotCached, NoOptions, Actions, Alive, PathOf,
        LockOf, HashPart, Name, storeVars, clientVars, socketVars, scanVars,
        sharedVars, walkVars, gcVars, histVars
<1>1. ASSUME NEW c \in Client, NEW o \in Object, NEW j \in {"add", "optimise", "perm"}, 
             Begin(c, o, j)
      PROVE  TypeOK'
  BY <1>1 DEF Begin
<1>2. ASSUME NEW c \in Client, TryGCLock(c) \/ Connect(c) \/ Send(c)
              \/ ReadAck(c) \/ AppendRoot(c)
      PROVE  TypeOK'
  <2>1. CASE TryGCLock(c) BY <2>1 DEF TryGCLock
  <2>2. CASE Connect(c) BY <2>2 DEF Connect
  <2>3. CASE Send(c) BY <2>3 DEF Send
  <2>4. CASE ReadAck(c) BY SMTT(30), <2>4 DEF ReadAck
  <2>5. CASE AppendRoot(c) BY <2>5 DEF AppendRoot
  <2>. QED BY <1>2, <2>1, <2>2, <2>3, <2>4, <2>5
<1>3. ASSUME NEW c \in Client, IsValid(c) \/ LockPath(c) \/ Recheck(c) \/ Restore(c)
              \/ Register(c) \/ AddFails(c) \/ Unlock(c) \/ Symlink(c)
      PROVE  TypeOK'
  <2>1. CASE IsValid(c) BY SMTT(30), <2>1 DEF IsValid
  <2>2. CASE LockPath(c) BY <2>2 DEF LockPath
  <2>3. CASE Recheck(c) BY SMTT(30), <2>3 DEF Recheck
  <2>4. CASE Restore(c) BY SMTT(30), <2>4 DEF Restore
  <2>5. CASE Register(c) BY <2>5 DEF Register
  <2>6. CASE AddFails(c) BY <2>6 DEF AddFails
  <2>7. CASE Unlock(c) BY <2>7 DEF Unlock
  <2>8. CASE Symlink(c)
    <3>1. late' \in SUBSET Object
      BY <2>8 DEF Symlink
    <3>2. /\ cpc' \in [Client -> CPC] /\ gcroots' \in SUBSET Object
          /\ job' \in [Client -> {"add", "optimise", "perm"}]
      BY <2>8 DEF Symlink
    <3>3. UNCHANGED <<valid, disk, cpath, using, file, shared, socketVars, gcVars, runs, ackRun>>
      BY <2>8 DEF Symlink
    <3> QED  BY <3>1, <3>2, <3>3
  <2>. QED BY <1>3, <2>1, <2>2, <2>3, <2>4, <2>5, <2>6, <2>7, <2>8
<1>4. ASSUME NEW c \in Client, ServerInsert(c) \/ ServerAck(c)
      PROVE  TypeOK'
  <2>1. CASE ServerInsert(c) BY SMTT(30), <2>1 DEF ServerInsert
  <2>2. CASE ServerAck(c) BY <2>2 DEF ServerAck
  <2>. QED BY <1>4, <2>1, <2>2
<1>5. ASSUME NEW c \in Client, Die(c)
      PROVE  TypeOK'
  BY <1>5 DEF Die
<1>6. ASSUME NEW o \in Object, RemoveRoot(o)
      PROVE  TypeOK'
  BY <1>6 DEF RemoveRoot
<1>7. ASSUME NEW options \in Options, AcquireGCLock(options)
      PROVE  TypeOK'
  BY <1>7 DEF AcquireGCLock
<1>8. ASSUME NEW c \in Client, ScanTempFile(c)
      PROVE  TypeOK'
  BY <1>8 DEF ScanTempFile
<1>9. ASSUME StartServer \/ FindPermRoots \/ RootsFound
              \/ DriverDone \/ VisitDone \/ SweepDone
      PROVE  TypeOK'
  <2>1. CASE StartServer BY <2>1 DEF StartServer
  <2>2. CASE FindPermRoots BY <2>2 DEF FindPermRoots
  <2>3. CASE RootsFound BY <2>3 DEF RootsFound
  <2>4. CASE DriverDone BY <2>4 DEF DriverDone
  <2>5. CASE VisitDone BY <2>5 DEF VisitDone
  <2>6. CASE SweepDone BY <2>6 DEF SweepDone, Return
  <2>. QED BY <1>9, <2>1, <2>2, <2>3, <2>4, <2>5, <2>6
<1>10. ASSUME NEW n \in Name, PickStart(n) \/ VisitKeeps(n)
              \/ VisitDead(n) \/ VisitExpand(n)
      PROVE  TypeOK'
  <2>1. CASE PickStart(n) BY <2>1 DEF PickStart
  <2>2. CASE VisitKeeps(n) BY <2>2 DEF VisitKeeps, Return, MarkAlive
  <2>3. CASE VisitDead(n) BY <2>3 DEF VisitDead
  <2>4. CASE VisitExpand(n) BY SMTT(30), <2>4 DEF VisitExpand, Referrers
  <2>. QED BY <1>10, <2>1, <2>2, <2>3, <2>4
<1>11. ASSUME NEW n \in Name, SweepSkips(n) \/ SweepPath(n)
      PROVE  TypeOK'
  <2>1. CASE SweepSkips(n) BY SMTT(30), <2>1 DEF SweepSkips, SweepNext, MarkAlive
  <2>2. CASE SweepPath(n) BY <2>2 DEF SweepPath, SweepNext
  <2>. QED BY <1>11, <2>1, <2>2
<1>12. ASSUME Invalidate \/ UnlinkPath
      PROVE  TypeOK'
  <2>1. CASE Invalidate BY <2>1 DEF Invalidate, InUse, Referrers
  <2>2. CASE UnlinkPath BY <2>2 DEF UnlinkPath
  <2>. QED BY <1>12, <2>1, <2>2
<1>13. ASSUME StopServer \/ ReleaseGCLock \/ CollectorDies
      PROVE  TypeOK'
  <2>1. CASE StopServer BY <2>1 DEF StopServer, Disconnect
  <2>2. CASE ReleaseGCLock BY <2>2 DEF ReleaseGCLock, FreshLocals, NoOptions
  <2>3. CASE CollectorDies BY <2>3 DEF CollectorDies, FreshLocals, NoOptions, Disconnect
  <2>. QED BY <1>13, <2>1, <2>2, <2>3
<1> HIDE DEF TypeOK, CPC, GCPC, NoName, NotCached, NoOptions, Actions, Alive, PathOf,
         LockOf, HashPart, Name, storeVars, clientVars, socketVars, scanVars,
         sharedVars, walkVars, gcVars, histVars
<1>. QED BY <1>1, <1>2, <1>3, <1>4, <1>5, <1>6, <1>7, <1>8, <1>9, <1>10, <1>11, <1>12,
     <1>13
       DEF AddTempRoot, AddToStore, Serve, Collect, Next

\* The GC lock and the socket protocol.
LEMMA HandshakeStep ==
  ASSUME TypeOK, GCLockInv, SocketInv, AckInv, TypeOK', Next
  PROVE  GCLockInv' /\ SocketInv' /\ AckInv'
<1> USE MaxRunsAssumption DEF TypeOK, GCLockInv, SocketInv, AckInv, Alive, Acked,
        Listening, storeVars, clientVars, socketVars, scanVars, sharedVars, walkVars,
        gcVars, histVars
<1>1. ASSUME NEW c \in Client, NEW o \in Object, NEW j \in {"add", "optimise", "perm"}, 
             Begin(c, o, j)
      PROVE  GCLockInv' /\ SocketInv' /\ AckInv'
  BY <1>1 DEF Begin
<1>2. ASSUME NEW c \in Client, TryGCLock(c) \/ Connect(c) \/ Send(c)
              \/ ReadAck(c) \/ AppendRoot(c)
      PROVE  GCLockInv' /\ SocketInv' /\ AckInv'
  <2>1. CASE TryGCLock(c) BY <2>1 DEF TryGCLock
  <2>2. CASE Connect(c) BY <2>2 DEF Connect
  <2>3. CASE Send(c) BY <2>3 DEF Send
  <2>4. CASE ReadAck(c) BY <2>4 DEF ReadAck
  <2>5. CASE AppendRoot(c) BY <2>5 DEF AppendRoot
  <2>. QED BY <1>2, <2>1, <2>2, <2>3, <2>4, <2>5
<1>3. ASSUME NEW c \in Client, IsValid(c) \/ LockPath(c) \/ Recheck(c) \/ Restore(c)
              \/ Register(c) \/ AddFails(c) \/ Unlock(c) \/ Symlink(c)
      PROVE  GCLockInv' /\ SocketInv' /\ AckInv'
  <2>1. CASE IsValid(c) BY <2>1 DEF IsValid
  <2>2. CASE LockPath(c) BY <2>2 DEF LockPath
  <2>3. CASE Recheck(c) BY SMTT(30), <2>3 DEF Recheck
  <2>4. CASE Restore(c) BY <2>4 DEF Restore
  <2>5. CASE Register(c) BY <2>5 DEF Register
  <2>6. CASE AddFails(c) BY <2>6 DEF AddFails
  <2>7. CASE Unlock(c) BY <2>7 DEF Unlock
  <2>8. CASE Symlink(c) BY <2>8 DEF Symlink
  <2>. QED BY <1>3, <2>1, <2>2, <2>3, <2>4, <2>5, <2>6, <2>7, <2>8
<1>4. ASSUME NEW c \in Client, ServerInsert(c) \/ ServerAck(c)
      PROVE  GCLockInv' /\ SocketInv' /\ AckInv'
  <2>1. CASE ServerInsert(c) BY <2>1 DEF ServerInsert
  <2>2. CASE ServerAck(c) BY <2>2 DEF ServerAck
  <2>. QED BY <1>4, <2>1, <2>2
<1>5. ASSUME NEW c \in Client, Die(c)
      PROVE  GCLockInv' /\ SocketInv' /\ AckInv'
  BY <1>5 DEF Die
<1>6. ASSUME NEW o \in Object, RemoveRoot(o)
      PROVE  GCLockInv' /\ SocketInv' /\ AckInv'
  BY <1>6 DEF RemoveRoot
<1>7. ASSUME NEW options \in Options, AcquireGCLock(options)
      PROVE  GCLockInv' /\ SocketInv' /\ AckInv'
  BY <1>7 DEF AcquireGCLock
<1>8. ASSUME NEW c \in Client, ScanTempFile(c)
      PROVE  GCLockInv' /\ SocketInv' /\ AckInv'
  BY <1>8 DEF ScanTempFile
<1>9. ASSUME StartServer \/ FindPermRoots \/ RootsFound
              \/ DriverDone \/ VisitDone \/ SweepDone
      PROVE  GCLockInv' /\ SocketInv' /\ AckInv'
  <2>1. CASE StartServer BY <2>1 DEF StartServer
  <2>2. CASE FindPermRoots BY <2>2 DEF FindPermRoots
  <2>3. CASE RootsFound BY <2>3 DEF RootsFound
  <2>4. CASE DriverDone BY <2>4 DEF DriverDone
  <2>5. CASE VisitDone BY <2>5 DEF VisitDone
  <2>6. CASE SweepDone BY <2>6 DEF SweepDone, Return
  <2>. QED BY <1>9, <2>1, <2>2, <2>3, <2>4, <2>5, <2>6
<1>10. ASSUME NEW n \in Name, PickStart(n) \/ VisitKeeps(n)
              \/ VisitDead(n) \/ VisitExpand(n)
      PROVE  GCLockInv' /\ SocketInv' /\ AckInv'
  <2>1. CASE PickStart(n) BY <2>1 DEF PickStart
  <2>2. CASE VisitKeeps(n) BY <2>2 DEF VisitKeeps, Return, MarkAlive
  <2>3. CASE VisitDead(n) BY <2>3 DEF VisitDead
  <2>4. CASE VisitExpand(n) BY <2>4 DEF VisitExpand, Referrers
  <2>. QED BY <1>10, <2>1, <2>2, <2>3, <2>4
<1>11. ASSUME NEW n \in Name, SweepSkips(n) \/ SweepPath(n)
      PROVE  GCLockInv' /\ SocketInv' /\ AckInv'
  <2>1. CASE SweepSkips(n) BY <2>1 DEF SweepSkips, SweepNext, MarkAlive
  <2>2. CASE SweepPath(n) BY <2>2 DEF SweepPath, SweepNext
  <2>. QED BY <1>11, <2>1, <2>2
<1>12. ASSUME Invalidate \/ UnlinkPath
      PROVE  GCLockInv' /\ SocketInv' /\ AckInv'
  <2>1. CASE Invalidate BY <2>1 DEF Invalidate, InUse, Referrers
  <2>2. CASE UnlinkPath BY <2>2 DEF UnlinkPath
  <2>. QED BY <1>12, <2>1, <2>2
<1>13. ASSUME StopServer \/ ReleaseGCLock \/ CollectorDies
      PROVE  GCLockInv' /\ SocketInv' /\ AckInv'
  <2>1. CASE StopServer BY <2>1 DEF StopServer, Disconnect
  <2>2. CASE ReleaseGCLock BY <2>2 DEF ReleaseGCLock, FreshLocals, NoOptions
  <2>3. CASE CollectorDies BY <2>3 DEF CollectorDies, FreshLocals, NoOptions, Disconnect
  <2>. QED BY <1>13, <2>1, <2>2, <2>3
<1> HIDE DEF TypeOK, GCLockInv, SocketInv, AckInv, Alive, Acked, Listening, storeVars,
         clientVars, socketVars, scanVars, sharedVars, walkVars, gcVars, histVars
<1>. QED BY <1>1, <1>2, <1>3, <1>4, <1>5, <1>6, <1>7, <1>8, <1>9, <1>10, <1>11, <1>12,
     <1>13
       DEF AddTempRoot, AddToStore, Serve, Collect, Next

\* What the collector knows of the roots.
LEMMA RootsStep ==
  ASSUME TypeOK, GCLockInv, SocketInv, AckInv, FileInv, LinkInv, RootedStaysValid, Next
  PROVE  FileInv' /\ LinkInv'
<1> USE DEF TypeOK, GCLockInv, SocketInv, AckInv, FileInv, LinkInv, RootedStaysValid,
        Alive, Acked, PermRootsRead, RootsRead, storeVars, clientVars, socketVars,
        scanVars, sharedVars, walkVars, gcVars, histVars
<1>1. ASSUME NEW c \in Client, NEW o \in Object, NEW j \in {"add", "optimise", "perm"}, 
             Begin(c, o, j)
      PROVE  FileInv' /\ LinkInv'
  BY <1>1 DEF Begin
<1>2. ASSUME NEW c \in Client, TryGCLock(c) \/ Connect(c) \/ Send(c)
              \/ ReadAck(c) \/ AppendRoot(c)
      PROVE  FileInv' /\ LinkInv'
  <2>1. CASE TryGCLock(c) BY <2>1 DEF TryGCLock
  <2>2. CASE Connect(c) BY <2>2 DEF Connect
  <2>3. CASE Send(c) BY <2>3 DEF Send
  <2>4. CASE ReadAck(c) BY <2>4 DEF ReadAck
  <2>5. CASE AppendRoot(c) BY <2>5 DEF AppendRoot
  <2>. QED BY <1>2, <2>1, <2>2, <2>3, <2>4, <2>5
<1>3. ASSUME NEW c \in Client, IsValid(c) \/ LockPath(c) \/ Recheck(c) \/ Restore(c)
              \/ Register(c) \/ AddFails(c) \/ Unlock(c) \/ Symlink(c)
      PROVE  FileInv' /\ LinkInv'
  <2>1. CASE IsValid(c) BY <2>1 DEF IsValid
  <2>2. CASE LockPath(c) BY <2>2 DEF LockPath
  <2>3. CASE Recheck(c) BY <2>3 DEF Recheck
  <2>4. CASE Restore(c) BY <2>4 DEF Restore
  <2>5. CASE Register(c) BY <2>5 DEF Register
  <2>6. CASE AddFails(c) BY <2>6 DEF AddFails
  <2>7. CASE Unlock(c) BY <2>7 DEF Unlock
  <2>8. CASE Symlink(c) BY <2>8 DEF Symlink
  <2>. QED BY <1>3, <2>1, <2>2, <2>3, <2>4, <2>5, <2>6, <2>7, <2>8
<1>4. ASSUME NEW c \in Client, ServerInsert(c) \/ ServerAck(c)
      PROVE  FileInv' /\ LinkInv'
  <2>1. CASE ServerInsert(c) BY <2>1 DEF ServerInsert
  <2>2. CASE ServerAck(c) BY <2>2 DEF ServerAck
  <2>. QED BY <1>4, <2>1, <2>2
<1>5. ASSUME NEW c \in Client, Die(c)
      PROVE  FileInv' /\ LinkInv'
  BY <1>5 DEF Die
<1>6. ASSUME NEW o \in Object, RemoveRoot(o)
      PROVE  FileInv' /\ LinkInv'
  BY <1>6 DEF RemoveRoot
<1>7. ASSUME NEW options \in Options, AcquireGCLock(options)
      PROVE  FileInv' /\ LinkInv'
  BY <1>7 DEF AcquireGCLock
<1>8. ASSUME NEW c \in Client, ScanTempFile(c)
      PROVE  FileInv' /\ LinkInv'
  BY <1>8 DEF ScanTempFile
<1>9. ASSUME StartServer \/ FindPermRoots \/ RootsFound
              \/ DriverDone \/ VisitDone \/ SweepDone
      PROVE  FileInv' /\ LinkInv'
  <2>1. CASE StartServer BY <2>1 DEF StartServer
  <2>2. CASE FindPermRoots BY <2>2 DEF FindPermRoots
  <2>3. CASE RootsFound BY <2>3 DEF RootsFound
  <2>4. CASE DriverDone BY <2>4 DEF DriverDone
  <2>5. CASE VisitDone BY <2>5 DEF VisitDone
  <2>6. CASE SweepDone BY <2>6 DEF SweepDone, Return
  <2>. QED BY <1>9, <2>1, <2>2, <2>3, <2>4, <2>5, <2>6
<1>10. ASSUME NEW n \in Name, PickStart(n) \/ VisitKeeps(n)
              \/ VisitDead(n) \/ VisitExpand(n)
      PROVE  FileInv' /\ LinkInv'
  <2>1. CASE PickStart(n) BY <2>1 DEF PickStart
  <2>2. CASE VisitKeeps(n) BY <2>2 DEF VisitKeeps, Return, MarkAlive
  <2>3. CASE VisitDead(n) BY <2>3 DEF VisitDead
  <2>4. CASE VisitExpand(n) BY <2>4 DEF VisitExpand, Referrers
  <2>. QED BY <1>10, <2>1, <2>2, <2>3, <2>4
<1>11. ASSUME NEW n \in Name, SweepSkips(n) \/ SweepPath(n)
      PROVE  FileInv' /\ LinkInv'
  <2>1. CASE SweepSkips(n) BY <2>1 DEF SweepSkips, SweepNext, MarkAlive
  <2>2. CASE SweepPath(n) BY <2>2 DEF SweepPath, SweepNext
  <2>. QED BY <1>11, <2>1, <2>2
<1>12. ASSUME Invalidate \/ UnlinkPath
      PROVE  FileInv' /\ LinkInv'
  <2>1. CASE Invalidate BY <2>1 DEF Invalidate, InUse, Referrers
  <2>2. CASE UnlinkPath BY <2>2 DEF UnlinkPath
  <2>. QED BY <1>12, <2>1, <2>2
<1>13. ASSUME StopServer \/ ReleaseGCLock \/ CollectorDies
      PROVE  FileInv' /\ LinkInv'
  <2>1. CASE StopServer BY <2>1 DEF StopServer, Disconnect
  <2>2. CASE ReleaseGCLock BY <2>2 DEF ReleaseGCLock, FreshLocals, NoOptions
  <2>3. CASE CollectorDies BY <2>3 DEF CollectorDies, FreshLocals, NoOptions, Disconnect
  <2>. QED BY <1>13, <2>1, <2>2, <2>3
<1> HIDE DEF TypeOK, GCLockInv, SocketInv, AckInv, FileInv, LinkInv, RootedStaysValid,
         Alive, Acked, PermRootsRead, RootsRead, storeVars, clientVars, socketVars,
         scanVars, sharedVars, walkVars, gcVars, histVars
<1>. QED BY <1>1, <1>2, <1>3, <1>4, <1>5, <1>6, <1>7, <1>8, <1>9, <1>10, <1>11, <1>12,
     <1>13
       DEF AddTempRoot, AddToStore, Serve, Collect, Next

\* What the walk over the referrers has passed.
LEMMA WalkStep ==
  ASSUME TypeOK, WalkInv, Next
  PROVE  WalkInv'
<1> USE DEF TypeOK, WalkInv, IsRoot, HashPart, PathOf, Name, storeVars, clientVars,
        socketVars, scanVars, sharedVars, walkVars, gcVars, histVars
<1>1. ASSUME NEW c \in Client, NEW o \in Object, NEW j \in {"add", "optimise", "perm"}, 
             Begin(c, o, j)
      PROVE  WalkInv'
  BY <1>1 DEF Begin
<1>2. ASSUME NEW c \in Client, TryGCLock(c) \/ Connect(c) \/ Send(c)
              \/ ReadAck(c) \/ AppendRoot(c)
      PROVE  WalkInv'
  <2>1. CASE TryGCLock(c) BY <2>1 DEF TryGCLock
  <2>2. CASE Connect(c) BY <2>2 DEF Connect
  <2>3. CASE Send(c) BY <2>3 DEF Send
  <2>4. CASE ReadAck(c) BY <2>4 DEF ReadAck
  <2>5. CASE AppendRoot(c) BY <2>5 DEF AppendRoot
  <2>. QED BY <1>2, <2>1, <2>2, <2>3, <2>4, <2>5
<1>3. ASSUME NEW c \in Client, IsValid(c) \/ LockPath(c) \/ Recheck(c) \/ Restore(c)
              \/ Register(c) \/ AddFails(c) \/ Unlock(c) \/ Symlink(c)
      PROVE  WalkInv'
  <2>1. CASE IsValid(c) BY <2>1 DEF IsValid
  <2>2. CASE LockPath(c) BY <2>2 DEF LockPath
  <2>3. CASE Recheck(c) BY <2>3 DEF Recheck
  <2>4. CASE Restore(c) BY <2>4 DEF Restore
  <2>5. CASE Register(c) BY <2>5 DEF Register
  <2>6. CASE AddFails(c) BY <2>6 DEF AddFails
  <2>7. CASE Unlock(c) BY <2>7 DEF Unlock
  <2>8. CASE Symlink(c) BY <2>8 DEF Symlink
  <2>. QED BY <1>3, <2>1, <2>2, <2>3, <2>4, <2>5, <2>6, <2>7, <2>8
<1>4. ASSUME NEW c \in Client, ServerInsert(c) \/ ServerAck(c)
      PROVE  WalkInv'
  <2>1. CASE ServerInsert(c) BY <2>1 DEF ServerInsert
  <2>2. CASE ServerAck(c) BY <2>2 DEF ServerAck
  <2>. QED BY <1>4, <2>1, <2>2
<1>5. ASSUME NEW c \in Client, Die(c)
      PROVE  WalkInv'
  BY <1>5 DEF Die
<1>6. ASSUME NEW o \in Object, RemoveRoot(o)
      PROVE  WalkInv'
  BY <1>6 DEF RemoveRoot
<1>7. ASSUME NEW options \in Options, AcquireGCLock(options)
      PROVE  WalkInv'
  BY <1>7 DEF AcquireGCLock
<1>8. ASSUME NEW c \in Client, ScanTempFile(c)
      PROVE  WalkInv'
  BY <1>8 DEF ScanTempFile
<1>9. ASSUME StartServer \/ FindPermRoots \/ RootsFound
              \/ DriverDone \/ VisitDone \/ SweepDone
      PROVE  WalkInv'
  <2>1. CASE StartServer BY <2>1 DEF StartServer
  <2>2. CASE FindPermRoots BY <2>2 DEF FindPermRoots
  <2>3. CASE RootsFound BY <2>3 DEF RootsFound
  <2>4. CASE DriverDone BY <2>4 DEF DriverDone
  <2>5. CASE VisitDone BY <2>5 DEF VisitDone
  <2>6. CASE SweepDone BY <2>6 DEF SweepDone, Return
  <2>. QED BY <1>9, <2>1, <2>2, <2>3, <2>4, <2>5, <2>6
<1>10. ASSUME NEW n \in Name, PickStart(n) \/ VisitKeeps(n)
              \/ VisitDead(n) \/ VisitExpand(n)
      PROVE  WalkInv'
  <2>1. CASE PickStart(n) BY <2>1 DEF PickStart
  <2>2. CASE VisitKeeps(n) BY <2>2 DEF VisitKeeps, Return, MarkAlive
  <2>3. CASE VisitDead(n) BY <2>3 DEF VisitDead
  <2>4. CASE VisitExpand(n) BY <2>4 DEF VisitExpand, Referrers
  <2>. QED BY <1>10, <2>1, <2>2, <2>3, <2>4
<1>11. ASSUME NEW n \in Name, SweepSkips(n) \/ SweepPath(n)
      PROVE  WalkInv'
  <2>1. CASE SweepSkips(n) BY <2>1 DEF SweepSkips, SweepNext, MarkAlive
  <2>2. CASE SweepPath(n) BY <2>2 DEF SweepPath, SweepNext
  <2>. QED BY <1>11, <2>1, <2>2
<1>12. ASSUME Invalidate \/ UnlinkPath
      PROVE  WalkInv'
  <2>1. CASE Invalidate BY <2>1 DEF Invalidate, InUse, Referrers
  <2>2. CASE UnlinkPath BY <2>2 DEF UnlinkPath
  <2>. QED BY <1>12, <2>1, <2>2
<1>13. ASSUME StopServer \/ ReleaseGCLock \/ CollectorDies
      PROVE  WalkInv'
  <2>1. CASE StopServer BY <2>1 DEF StopServer, Disconnect
  <2>2. CASE ReleaseGCLock BY <2>2 DEF ReleaseGCLock, FreshLocals, NoOptions
  <2>3. CASE CollectorDies BY <2>3 DEF CollectorDies, FreshLocals, NoOptions, Disconnect
  <2>. QED BY <1>13, <2>1, <2>2, <2>3
<1> HIDE DEF TypeOK, WalkInv, IsRoot, HashPart, PathOf, Name, storeVars, clientVars,
         socketVars, scanVars, sharedVars, walkVars, gcVars, histVars
<1>. QED BY <1>1, <1>2, <1>3, <1>4, <1>5, <1>6, <1>7, <1>8, <1>9, <1>10, <1>11, <1>12,
     <1>13
       DEF AddTempRoot, AddToStore, Serve, Collect, Next

\* The deletion of one path.
LEMMA DeletionStep ==
  ASSUME TypeOK, GCLockInv, SocketInv, AckInv, FileInv, LinkInv, WalkInv, DeleteInv,
         DeletionIsExclusive, ClientInv, Next
  PROVE  DeleteInv' /\ DeletionIsExclusive'
<1> USE NoObjectAssumption DEF TypeOK, GCLockInv, SocketInv, AckInv, FileInv, LinkInv,
        WalkInv, DeleteInv, DeletionIsExclusive, ClientInv, IsRoot, HashPart, Name,
        Alive, Acked, Secured, PermRootsRead, RootsRead, Deleting, storeVars,
        clientVars, socketVars, scanVars, sharedVars, walkVars, gcVars, histVars
<1>1. ASSUME NEW c \in Client, NEW o \in Object, NEW j \in {"add", "optimise", "perm"}, 
             Begin(c, o, j)
      PROVE  DeleteInv' /\ DeletionIsExclusive'
  BY <1>1 DEF Begin
<1>2. ASSUME NEW c \in Client, TryGCLock(c) \/ Connect(c) \/ Send(c)
              \/ ReadAck(c) \/ AppendRoot(c)
      PROVE  DeleteInv' /\ DeletionIsExclusive'
  <2>1. CASE TryGCLock(c) BY <2>1 DEF TryGCLock
  <2>2. CASE Connect(c) BY <2>2 DEF Connect
  <2>3. CASE Send(c) BY <2>3 DEF Send
  <2>4. CASE ReadAck(c) BY <2>4 DEF ReadAck
  <2>5. CASE AppendRoot(c) BY <2>5 DEF AppendRoot
  <2>. QED BY <1>2, <2>1, <2>2, <2>3, <2>4, <2>5
<1>3. ASSUME NEW c \in Client, IsValid(c) \/ LockPath(c) \/ Recheck(c) \/ Restore(c)
              \/ Register(c) \/ AddFails(c) \/ Unlock(c) \/ Symlink(c)
      PROVE  DeleteInv' /\ DeletionIsExclusive'
  <2>1. CASE IsValid(c) BY <2>1 DEF IsValid
  <2>2. CASE LockPath(c) BY <2>2 DEF LockPath
  <2>3. CASE Recheck(c) BY <2>3 DEF Recheck
  <2>4. CASE Restore(c) BY <2>4 DEF Restore
  <2>5. CASE Register(c) BY <2>5 DEF Register
  <2>6. CASE AddFails(c) BY <2>6 DEF AddFails
  <2>7. CASE Unlock(c) BY <2>7 DEF Unlock
  <2>8. CASE Symlink(c) BY <2>8 DEF Symlink
  <2>. QED BY <1>3, <2>1, <2>2, <2>3, <2>4, <2>5, <2>6, <2>7, <2>8
<1>4. ASSUME NEW c \in Client, ServerInsert(c) \/ ServerAck(c)
      PROVE  DeleteInv' /\ DeletionIsExclusive'
  <2>1. CASE ServerInsert(c) BY <2>1 DEF ServerInsert
  <2>2. CASE ServerAck(c) BY <2>2 DEF ServerAck
  <2>. QED BY <1>4, <2>1, <2>2
<1>5. ASSUME NEW c \in Client, Die(c)
      PROVE  DeleteInv' /\ DeletionIsExclusive'
  BY <1>5 DEF Die
<1>6. ASSUME NEW o \in Object, RemoveRoot(o)
      PROVE  DeleteInv' /\ DeletionIsExclusive'
  BY <1>6 DEF RemoveRoot
<1>7. ASSUME NEW options \in Options, AcquireGCLock(options)
      PROVE  DeleteInv' /\ DeletionIsExclusive'
  BY <1>7 DEF AcquireGCLock
<1>8. ASSUME NEW c \in Client, ScanTempFile(c)
      PROVE  DeleteInv' /\ DeletionIsExclusive'
  BY <1>8 DEF ScanTempFile
<1>9. ASSUME StartServer \/ FindPermRoots \/ RootsFound
              \/ DriverDone \/ VisitDone \/ SweepDone
      PROVE  DeleteInv' /\ DeletionIsExclusive'
  <2>1. CASE StartServer BY <2>1 DEF StartServer
  <2>2. CASE FindPermRoots BY <2>2 DEF FindPermRoots
  <2>3. CASE RootsFound BY <2>3 DEF RootsFound
  <2>4. CASE DriverDone BY <2>4 DEF DriverDone
  <2>5. CASE VisitDone BY <2>5 DEF VisitDone
  <2>6. CASE SweepDone BY <2>6 DEF SweepDone, Return
  <2>. QED BY <1>9, <2>1, <2>2, <2>3, <2>4, <2>5, <2>6
<1>10. ASSUME NEW n \in Name, PickStart(n) \/ VisitKeeps(n)
              \/ VisitDead(n) \/ VisitExpand(n)
      PROVE  DeleteInv' /\ DeletionIsExclusive'
  <2>1. CASE PickStart(n) BY <2>1 DEF PickStart
  <2>2. CASE VisitKeeps(n) BY <2>2 DEF VisitKeeps, Return, MarkAlive
  <2>3. CASE VisitDead(n) BY <2>3 DEF VisitDead
  <2>4. CASE VisitExpand(n) BY <2>4 DEF VisitExpand, Referrers
  <2>. QED BY <1>10, <2>1, <2>2, <2>3, <2>4
<1>11. ASSUME NEW n \in Name, SweepSkips(n) \/ SweepPath(n)
      PROVE  DeleteInv' /\ DeletionIsExclusive'
  <2>1. CASE SweepSkips(n) BY <2>1 DEF SweepSkips, SweepNext, MarkAlive
  <2>2. CASE SweepPath(n) BY <2>2 DEF SweepPath, SweepNext
  <2>. QED BY <1>11, <2>1, <2>2
<1>12. ASSUME Invalidate \/ UnlinkPath
      PROVE  DeleteInv' /\ DeletionIsExclusive'
  <2>1. CASE Invalidate BY <2>1 DEF Invalidate, InUse, Referrers
  <2>2. CASE UnlinkPath BY <2>2 DEF UnlinkPath
  <2>. QED BY <1>12, <2>1, <2>2
<1>13. ASSUME StopServer \/ ReleaseGCLock \/ CollectorDies
      PROVE  DeleteInv' /\ DeletionIsExclusive'
  <2>1. CASE StopServer BY <2>1 DEF StopServer, Disconnect
  <2>2. CASE ReleaseGCLock BY <2>2 DEF ReleaseGCLock, FreshLocals, NoOptions
  <2>3. CASE CollectorDies BY <2>3 DEF CollectorDies, FreshLocals, NoOptions, Disconnect
  <2>. QED BY <1>13, <2>1, <2>2, <2>3
<1> HIDE DEF TypeOK, GCLockInv, SocketInv, AckInv, FileInv, LinkInv, WalkInv,
         DeleteInv, DeletionIsExclusive, ClientInv, IsRoot, HashPart, Name, Alive,
         Acked, Secured, PermRootsRead, RootsRead, Deleting, storeVars, clientVars,
         socketVars, scanVars, sharedVars, walkVars, gcVars, histVars
<1>. QED BY <1>1, <1>2, <1>3, <1>4, <1>5, <1>6, <1>7, <1>8, <1>9, <1>10, <1>11, <1>12,
     <1>13
       DEF AddTempRoot, AddToStore, Serve, Collect, Next

\* What the clients rely on.
LEMMA ClientStep ==
  ASSUME TypeOK, DeleteInv, DeletionIsExclusive, ClientInv, PathLockInv,
         UsedStaysValid, RootedStaysValid, Next
  PROVE  ClientInv' /\ UsedStaysValid' /\ RootedStaysValid'
<1> USE DEF TypeOK, DeleteInv, DeletionIsExclusive, ClientInv, PathLockInv,
        UsedStaysValid, RootedStaysValid, HashPart, Name, Alive, Secured, Deleting,
        storeVars, clientVars, socketVars, scanVars, sharedVars, walkVars, gcVars,
        histVars
<1>1. ASSUME NEW c \in Client, NEW o \in Object, NEW j \in {"add", "optimise", "perm"}, 
             Begin(c, o, j)
      PROVE  ClientInv' /\ UsedStaysValid' /\ RootedStaysValid'
  BY <1>1 DEF Begin
<1>2. ASSUME NEW c \in Client, TryGCLock(c) \/ Connect(c) \/ Send(c)
              \/ ReadAck(c) \/ AppendRoot(c)
      PROVE  ClientInv' /\ UsedStaysValid' /\ RootedStaysValid'
  <2>1. CASE TryGCLock(c) BY <2>1 DEF TryGCLock
  <2>2. CASE Connect(c) BY <2>2 DEF Connect
  <2>3. CASE Send(c) BY <2>3 DEF Send
  <2>4. CASE ReadAck(c) BY <2>4 DEF ReadAck
  <2>5. CASE AppendRoot(c) BY <2>5 DEF AppendRoot
  <2>. QED BY <1>2, <2>1, <2>2, <2>3, <2>4, <2>5
<1>3. ASSUME NEW c \in Client, IsValid(c) \/ LockPath(c) \/ Recheck(c) \/ Restore(c)
              \/ Register(c) \/ AddFails(c) \/ Unlock(c) \/ Symlink(c)
      PROVE  ClientInv' /\ UsedStaysValid' /\ RootedStaysValid'
  <2>1. CASE IsValid(c) BY <2>1 DEF IsValid
  <2>2. CASE LockPath(c) BY <2>2 DEF LockPath
  <2>3. CASE Recheck(c) BY <2>3 DEF Recheck
  <2>4. CASE Restore(c) BY <2>4 DEF Restore
  <2>5. CASE Register(c) BY <2>5 DEF Register
  <2>6. CASE AddFails(c) BY <2>6 DEF AddFails
  <2>7. CASE Unlock(c) BY <2>7 DEF Unlock
  <2>8. CASE Symlink(c) BY <2>8 DEF Symlink
  <2>. QED BY <1>3, <2>1, <2>2, <2>3, <2>4, <2>5, <2>6, <2>7, <2>8
<1>4. ASSUME NEW c \in Client, ServerInsert(c) \/ ServerAck(c)
      PROVE  ClientInv' /\ UsedStaysValid' /\ RootedStaysValid'
  <2>1. CASE ServerInsert(c) BY <2>1 DEF ServerInsert
  <2>2. CASE ServerAck(c) BY <2>2 DEF ServerAck
  <2>. QED BY <1>4, <2>1, <2>2
<1>5. ASSUME NEW c \in Client, Die(c)
      PROVE  ClientInv' /\ UsedStaysValid' /\ RootedStaysValid'
  BY <1>5 DEF Die
<1>6. ASSUME NEW o \in Object, RemoveRoot(o)
      PROVE  ClientInv' /\ UsedStaysValid' /\ RootedStaysValid'
  BY <1>6 DEF RemoveRoot
<1>7. ASSUME NEW options \in Options, AcquireGCLock(options)
      PROVE  ClientInv' /\ UsedStaysValid' /\ RootedStaysValid'
  BY <1>7 DEF AcquireGCLock
<1>8. ASSUME NEW c \in Client, ScanTempFile(c)
      PROVE  ClientInv' /\ UsedStaysValid' /\ RootedStaysValid'
  BY <1>8 DEF ScanTempFile
<1>9. ASSUME StartServer \/ FindPermRoots \/ RootsFound
              \/ DriverDone \/ VisitDone \/ SweepDone
      PROVE  ClientInv' /\ UsedStaysValid' /\ RootedStaysValid'
  <2>1. CASE StartServer BY <2>1 DEF StartServer
  <2>2. CASE FindPermRoots BY <2>2 DEF FindPermRoots
  <2>3. CASE RootsFound BY <2>3 DEF RootsFound
  <2>4. CASE DriverDone BY <2>4 DEF DriverDone
  <2>5. CASE VisitDone BY <2>5 DEF VisitDone
  <2>6. CASE SweepDone BY <2>6 DEF SweepDone, Return
  <2>. QED BY <1>9, <2>1, <2>2, <2>3, <2>4, <2>5, <2>6
<1>10. ASSUME NEW n \in Name, PickStart(n) \/ VisitKeeps(n)
              \/ VisitDead(n) \/ VisitExpand(n)
      PROVE  ClientInv' /\ UsedStaysValid' /\ RootedStaysValid'
  <2>1. CASE PickStart(n) BY <2>1 DEF PickStart
  <2>2. CASE VisitKeeps(n) BY <2>2 DEF VisitKeeps, Return, MarkAlive
  <2>3. CASE VisitDead(n) BY <2>3 DEF VisitDead
  <2>4. CASE VisitExpand(n) BY <2>4 DEF VisitExpand, Referrers
  <2>. QED BY <1>10, <2>1, <2>2, <2>3, <2>4
<1>11. ASSUME NEW n \in Name, SweepSkips(n) \/ SweepPath(n)
      PROVE  ClientInv' /\ UsedStaysValid' /\ RootedStaysValid'
  <2>1. CASE SweepSkips(n) BY <2>1 DEF SweepSkips, SweepNext, MarkAlive
  <2>2. CASE SweepPath(n) BY <2>2 DEF SweepPath, SweepNext
  <2>. QED BY <1>11, <2>1, <2>2
<1>12. ASSUME Invalidate \/ UnlinkPath
      PROVE  ClientInv' /\ UsedStaysValid' /\ RootedStaysValid'
  <2>1. CASE Invalidate BY <2>1 DEF Invalidate, InUse, Referrers
  <2>2. CASE UnlinkPath BY <2>2 DEF UnlinkPath
  <2>. QED BY <1>12, <2>1, <2>2
<1>13. ASSUME StopServer \/ ReleaseGCLock \/ CollectorDies
      PROVE  ClientInv' /\ UsedStaysValid' /\ RootedStaysValid'
  <2>1. CASE StopServer BY <2>1 DEF StopServer, Disconnect
  <2>2. CASE ReleaseGCLock BY <2>2 DEF ReleaseGCLock, FreshLocals, NoOptions
  <2>3. CASE CollectorDies BY <2>3 DEF CollectorDies, FreshLocals, NoOptions, Disconnect
  <2>. QED BY <1>13, <2>1, <2>2, <2>3
<1> HIDE DEF TypeOK, DeleteInv, DeletionIsExclusive, ClientInv, PathLockInv,
         UsedStaysValid, RootedStaysValid, HashPart, Name, Alive, Secured, Deleting,
         storeVars, clientVars, socketVars, scanVars, sharedVars, walkVars, gcVars,
         histVars
<1>. QED BY <1>1, <1>2, <1>3, <1>4, <1>5, <1>6, <1>7, <1>8, <1>9, <1>10, <1>11, <1>12,
     <1>13
       DEF AddTempRoot, AddToStore, Serve, Collect, Next

\* Database and store directory.
LEMMA StoreStep ==
  ASSUME TypeOK, DeleteInv, DeletionIsExclusive, ClientInv, PathLockInv,
         LockFileIsKept, ValidIsOnDisk, ReferencesAreValid, Next
  PROVE  PathLockInv' /\ LockFileIsKept' /\ ValidIsOnDisk' /\ ReferencesAreValid'
<1> USE RefsAssumption DEF TypeOK, DeleteInv, DeletionIsExclusive, ClientInv,
        PathLockInv, LockFileIsKept, ValidIsOnDisk, ReferencesAreValid, PathOf, LockOf,
        HashPart, Name, Alive, PathLocked, Secured, Deleting, storeVars, clientVars,
        socketVars, scanVars, sharedVars, walkVars, gcVars, histVars
<1>1. ASSUME NEW c \in Client, NEW o \in Object, NEW j \in {"add", "optimise", "perm"}, 
             Begin(c, o, j)
      PROVE  PathLockInv' /\ LockFileIsKept' /\ ValidIsOnDisk' /\ ReferencesAreValid'
  BY <1>1 DEF Begin
<1>2. ASSUME NEW c \in Client, TryGCLock(c) \/ Connect(c) \/ Send(c)
              \/ ReadAck(c) \/ AppendRoot(c)
      PROVE  PathLockInv' /\ LockFileIsKept' /\ ValidIsOnDisk' /\ ReferencesAreValid'
  <2>1. CASE TryGCLock(c) BY <2>1 DEF TryGCLock
  <2>2. CASE Connect(c) BY <2>2 DEF Connect
  <2>3. CASE Send(c) BY <2>3 DEF Send
  <2>4. CASE ReadAck(c) BY <2>4 DEF ReadAck
  <2>5. CASE AppendRoot(c) BY <2>5 DEF AppendRoot
  <2>. QED BY <1>2, <2>1, <2>2, <2>3, <2>4, <2>5
<1>3. ASSUME NEW c \in Client, IsValid(c) \/ LockPath(c) \/ Recheck(c) \/ Restore(c)
              \/ Register(c) \/ AddFails(c) \/ Unlock(c) \/ Symlink(c)
      PROVE  PathLockInv' /\ LockFileIsKept' /\ ValidIsOnDisk' /\ ReferencesAreValid'
  <2>1. CASE IsValid(c) BY <2>1 DEF IsValid
  <2>2. CASE LockPath(c) BY <2>2 DEF LockPath
  <2>3. CASE Recheck(c) BY <2>3 DEF Recheck
  <2>4. CASE Restore(c) BY <2>4 DEF Restore
  <2>5. CASE Register(c) BY <2>5 DEF Register
  <2>6. CASE AddFails(c) BY <2>6 DEF AddFails
  <2>7. CASE Unlock(c) BY <2>7 DEF Unlock
  <2>8. CASE Symlink(c) BY <2>8 DEF Symlink
  <2>. QED BY <1>3, <2>1, <2>2, <2>3, <2>4, <2>5, <2>6, <2>7, <2>8
<1>4. ASSUME NEW c \in Client, ServerInsert(c) \/ ServerAck(c)
      PROVE  PathLockInv' /\ LockFileIsKept' /\ ValidIsOnDisk' /\ ReferencesAreValid'
  <2>1. CASE ServerInsert(c) BY <2>1 DEF ServerInsert
  <2>2. CASE ServerAck(c) BY <2>2 DEF ServerAck
  <2>. QED BY <1>4, <2>1, <2>2
<1>5. ASSUME NEW c \in Client, Die(c)
      PROVE  PathLockInv' /\ LockFileIsKept' /\ ValidIsOnDisk' /\ ReferencesAreValid'
  BY <1>5 DEF Die
<1>6. ASSUME NEW o \in Object, RemoveRoot(o)
      PROVE  PathLockInv' /\ LockFileIsKept' /\ ValidIsOnDisk' /\ ReferencesAreValid'
  BY <1>6 DEF RemoveRoot
<1>7. ASSUME NEW options \in Options, AcquireGCLock(options)
      PROVE  PathLockInv' /\ LockFileIsKept' /\ ValidIsOnDisk' /\ ReferencesAreValid'
  BY <1>7 DEF AcquireGCLock
<1>8. ASSUME NEW c \in Client, ScanTempFile(c)
      PROVE  PathLockInv' /\ LockFileIsKept' /\ ValidIsOnDisk' /\ ReferencesAreValid'
  BY <1>8 DEF ScanTempFile
<1>9. ASSUME StartServer \/ FindPermRoots \/ RootsFound
              \/ DriverDone \/ VisitDone \/ SweepDone
      PROVE  PathLockInv' /\ LockFileIsKept' /\ ValidIsOnDisk' /\ ReferencesAreValid'
  <2>1. CASE StartServer BY <2>1 DEF StartServer
  <2>2. CASE FindPermRoots BY <2>2 DEF FindPermRoots
  <2>3. CASE RootsFound BY <2>3 DEF RootsFound
  <2>4. CASE DriverDone BY <2>4 DEF DriverDone
  <2>5. CASE VisitDone BY <2>5 DEF VisitDone
  <2>6. CASE SweepDone BY <2>6 DEF SweepDone, Return
  <2>. QED BY <1>9, <2>1, <2>2, <2>3, <2>4, <2>5, <2>6
<1>10. ASSUME NEW n \in Name, PickStart(n) \/ VisitKeeps(n)
              \/ VisitDead(n) \/ VisitExpand(n)
      PROVE  PathLockInv' /\ LockFileIsKept' /\ ValidIsOnDisk' /\ ReferencesAreValid'
  <2>1. CASE PickStart(n) BY <2>1 DEF PickStart
  <2>2. CASE VisitKeeps(n) BY <2>2 DEF VisitKeeps, Return, MarkAlive
  <2>3. CASE VisitDead(n) BY <2>3 DEF VisitDead
  <2>4. CASE VisitExpand(n) BY <2>4 DEF VisitExpand, Referrers
  <2>. QED BY <1>10, <2>1, <2>2, <2>3, <2>4
<1>11. ASSUME NEW n \in Name, SweepSkips(n) \/ SweepPath(n)
      PROVE  PathLockInv' /\ LockFileIsKept' /\ ValidIsOnDisk' /\ ReferencesAreValid'
  <2>1. CASE SweepSkips(n) BY <2>1 DEF SweepSkips, SweepNext, MarkAlive
  <2>2. CASE SweepPath(n) BY <2>2 DEF SweepPath, SweepNext
  <2>. QED BY <1>11, <2>1, <2>2
<1>12. ASSUME Invalidate \/ UnlinkPath
      PROVE  PathLockInv' /\ LockFileIsKept' /\ ValidIsOnDisk' /\ ReferencesAreValid'
  <2>1. CASE Invalidate BY <2>1 DEF Invalidate, InUse, Referrers
  <2>2. CASE UnlinkPath BY <2>2 DEF UnlinkPath
  <2>. QED BY <1>12, <2>1, <2>2
<1>13. ASSUME StopServer \/ ReleaseGCLock \/ CollectorDies
      PROVE  PathLockInv' /\ LockFileIsKept' /\ ValidIsOnDisk' /\ ReferencesAreValid'
  <2>1. CASE StopServer BY <2>1 DEF StopServer, Disconnect
  <2>2. CASE ReleaseGCLock BY <2>2 DEF ReleaseGCLock, FreshLocals, NoOptions
  <2>3. CASE CollectorDies BY <2>3 DEF CollectorDies, FreshLocals, NoOptions, Disconnect
  <2>. QED BY <1>13, <2>1, <2>2, <2>3
<1> HIDE DEF TypeOK, DeleteInv, DeletionIsExclusive, ClientInv, PathLockInv,
         LockFileIsKept, ValidIsOnDisk, ReferencesAreValid, PathOf, LockOf, HashPart,
         Name, Alive, PathLocked, Secured, Deleting, storeVars, clientVars, socketVars,
         scanVars, sharedVars, walkVars, gcVars, histVars
<1>. QED BY <1>1, <1>2, <1>3, <1>4, <1>5, <1>6, <1>7, <1>8, <1>9, <1>10, <1>11, <1>12,
     <1>13
       DEF AddTempRoot, AddToStore, Serve, Collect, Next

-----------------------------------------------------------------------------
(***************************************************************************)
(* The theorems.                                                           *)
(***************************************************************************)

LEMMA IInvInit == Init => IInv
<1> SUFFICES ASSUME Init PROVE IInv
  OBVIOUS
<1> USE RefsAssumption, NoObjectAssumption, MaxRunsAssumption
<1>1. TypeOK
  BY DEF Init, TypeOK, CPC, GCPC, NoName, NotCached, NoOptions, Name, PathOf
<1>2. GCLockInv /\ SocketInv /\ AckInv
  BY DEF Init, GCLockInv, SocketInv, AckInv, Alive, Acked, Listening
<1>3. FileInv /\ LinkInv /\ WalkInv
  BY DEF Init, FileInv, LinkInv, WalkInv, PermRootsRead, RootsRead
<1>4. DeleteInv /\ DeletionIsExclusive
  BY DEF Init, DeleteInv, DeletionIsExclusive, Deleting
<1>5. ClientInv /\ PathLockInv /\ LockFileIsKept
  BY DEF Init, ClientInv, PathLockInv, LockFileIsKept, PathLocked
<1>6. UsedStaysValid /\ RootedStaysValid
  BY DEF Init, UsedStaysValid, RootedStaysValid
<1>7. ValidIsOnDisk /\ ReferencesAreValid
  BY DEF Init, ValidIsOnDisk, ReferencesAreValid
<1>. QED BY <1>1, <1>2, <1>3, <1>4, <1>5, <1>6, <1>7 DEF IInv

LEMMA IInvStep == IInv /\ [Next]_vars => IInv'
<1> SUFFICES ASSUME IInv, [Next]_vars PROVE IInv'
  OBVIOUS
<1>1. CASE Next
  <2>1. TypeOK'
    BY <1>1, TypeStep DEF IInv
  <2>2. GCLockInv' /\ SocketInv' /\ AckInv'
    BY <1>1, <2>1, HandshakeStep DEF IInv
  <2>3. FileInv' /\ LinkInv'
    BY <1>1, RootsStep DEF IInv
  <2>4. WalkInv'
    BY <1>1, WalkStep DEF IInv
  <2>5. DeleteInv' /\ DeletionIsExclusive'
    BY <1>1, DeletionStep DEF IInv
  <2>6. ClientInv' /\ UsedStaysValid' /\ RootedStaysValid'
    BY <1>1, ClientStep DEF IInv
  <2>7. PathLockInv' /\ LockFileIsKept' /\ ValidIsOnDisk' /\ ReferencesAreValid'
    BY <1>1, StoreStep DEF IInv
  <2>. QED BY <2>1, <2>2, <2>3, <2>4, <2>5, <2>6, <2>7 DEF IInv
<1>2. CASE UNCHANGED vars
  <2> USE <1>2 DEF vars, storeVars, clientVars, socketVars, scanVars, sharedVars, walkVars,
                   gcVars, histVars, Alive, Acked, Secured, Listening, PermRootsRead,
                   RootsRead, Deleting, PathLocked, IsRoot
  <2>1. TypeOK'
    BY DEF IInv, TypeOK
  <2>2. GCLockInv' /\ SocketInv' /\ AckInv'
    BY DEF IInv, GCLockInv, SocketInv, AckInv
  <2>3. FileInv' /\ LinkInv' /\ WalkInv'
    BY DEF IInv, FileInv, LinkInv, WalkInv
  <2>4. DeleteInv' /\ DeletionIsExclusive'
    BY DEF IInv, DeleteInv, DeletionIsExclusive
  <2>5. ClientInv' /\ PathLockInv' /\ LockFileIsKept'
    BY DEF IInv, ClientInv, PathLockInv, LockFileIsKept
  <2>6. UsedStaysValid' /\ RootedStaysValid' /\ ValidIsOnDisk' /\ ReferencesAreValid'
    BY DEF IInv, UsedStaysValid, RootedStaysValid, ValidIsOnDisk, ReferencesAreValid
  <2>. QED BY <2>1, <2>2, <2>3, <2>4, <2>5, <2>6 DEF IInv
<1>. QED BY <1>1, <1>2

\* The invariant holds in every reachable state.
THEOREM Invariance == Spec => []IInv
  BY IInvInit, IInvStep, PTL DEF Spec

\* All variables keep their types.
THEOREM TypeCorrect == Spec => []TypeOK
<1>1. IInv => TypeOK BY DEF IInv
<1>. QED BY Invariance, <1>1, PTL

\* The collector never deletes a path, or its lock file, while a live
\* process holds a root with its hash part, roots noted in `late' aside.
THEOREM DeletionSafe == Spec => []DeletionIsExclusive
<1>1. IInv => DeletionIsExclusive BY DEF IInv
<1>. QED BY Invariance, <1>1, PTL

\* What a process rooted before it found or made it valid stays valid.
THEOREM UseSafe == Spec => []UsedStaysValid
<1>1. IInv => UsedStaysValid BY DEF IInv
<1>. QED BY Invariance, <1>1, PTL

\* What is linked from gcroots stays valid.
THEOREM RootSafe == Spec => []RootedStaysValid
<1>1. IInv => RootedStaysValid BY DEF IInv
<1>. QED BY Invariance, <1>1, PTL

\* The database does not outlive the files, whoever is killed and when.
THEOREM DiskSafe == Spec => []ValidIsOnDisk
<1>1. IInv => ValidIsOnDisk BY DEF IInv
<1>. QED BY Invariance, <1>1, PTL

\* The valid paths are closed under references at all times.
THEOREM ReferencesSafe == Spec => []ReferencesAreValid
<1>1. IInv => ReferencesAreValid BY DEF IInv
<1>. QED BY Invariance, <1>1, PTL

\* The lock file of a path that is being written stays in place.
THEOREM LockFileSafe == Spec => []LockFileIsKept
<1>1. IInv => LockFileIsKept BY DEF IInv
<1>. QED BY Invariance, <1>1, PTL

-----------------------------------------------------------------------------
(***************************************************************************)
(* What a collection keeps and what it removes.                            *)
(***************************************************************************)

\* The roots that the running collection may come to know after it has
\* looked at a path, and what they reach.
Newcomers == tempRoots \cup late
Reached(o) == \E r \in Newcomers : o \in Closure(r)

\* What a complete collection may leave in the store directory.
Covered(n) ==
  IF n[2] = "lock" THEN HashPart(n) \in Newcomers
  ELSE \E r \in roots \cup Newcomers : HashPart(n) \in Closure(r)

\* The referrers of o but for o itself.
OtherReferrers(o) == Referrers(o) \ {o}

Sweeping == gcpc \in {"sweep", "invalidate", "unlink"}

\* A collection starts with fresh locals, and works on one path at a time.
FreshInv ==
  /\ ~RootsRead => /\ alive = {} /\ dead = {}
                   /\ \A o \in Object : cache[o] = NotCached
  /\ gcpc \notin {"invalidate", "unlink", "stopping", "stopped"} => cur = NoName

\* A cached set of referrers may lack newcomers only, and has referrers only.
CacheInv ==
  RootsRead => \A o \in Object : cache[o] # NotCached =>
    /\ Referrers(o) \subseteq cache[o] \cup Newcomers
    /\ \A q \in cache[o] : o \in Refs[q]

\* The walk has gone on to the referrers of what it has passed.
VisitInv ==
  gcpc = "visit" => \A o \in Object :
    PathOf(o) \in visited \ (todo \cup dead) =>
      \A q \in OtherReferrers(o) : PathOf(q) \in visited \/ q \in Newcomers

\* A path still to be deleted has referrers that are to be deleted, too, or
\* have been dealt with; the sorting has seen all but newcomers.
SweepInv ==
  Sweeping =>
    /\ valid \subseteq sorted \cup Newcomers
    /\ \A o \in Object : PathOf(o) \in visited \ dead =>
         \A q \in OtherReferrers(o) : PathOf(q) \in visited \cup dead \/ q \in Newcomers

\* A path that is counted as deleted and is still valid is kept by a newcomer.
KeptInv ==
  opt.action # "gcReturnDead" =>
    \A o \in valid : PathOf(o) \in dead /\ ~(gcpc = "invalidate" /\ cur = PathOf(o))
                       => Reached(o)

\* The path about to be invalidated is in use by what newcomers keep, only.
UseInv ==
  gcpc = "invalidate" => \A o \in Object :
    cur = PathOf(o) => \A q \in OtherReferrers(o) : Reached(q)

\* All that a walk has visited refers to where it started.
StartInv ==
  gcpc = "visit" =>
    /\ start \in visited /\ todo \subseteq visited
    /\ start[2] = "lock" => visited = {start}
    /\ start[2] = "path" => \A n \in visited : n[2] = "path" /\ HashPart(start) \in Closure(HashPart(n))

\* What is known to be alive is kept by a root.
AliveInv == \A n \in alive : Covered(n)

\* A full collection removes what it counts as deleted, or a root keeps it;
\* and it leaves out no name that is in the directory.
WholeStoreRun == opt.action = "gcDeleteDead" /\ ~opt.specific
DeadInv == WholeStoreRun => \A n \in dead \cap disk : n = cur \/ Covered(n)
DiskInv ==
  WholeStoreRun /\ RootsRead => \A n \in disk :
    \/ n \in left \cup alive \cup dead
    \/ gcpc = "visit" /\ n = start
    \/ (Sweeping \/ gcpc \in {"stopping", "stopped"}) /\ n \in visited
    \/ Covered(n)

GInv ==
  /\ FreshInv /\ CacheInv /\ VisitInv /\ SweepInv /\ KeptInv /\ UseInv
  /\ StartInv /\ AliveInv /\ DeadInv /\ DiskInv

-----------------------------------------------------------------------------
(***************************************************************************)
(* The closure of an object under references.                              *)
(***************************************************************************)

\* An object is in its own closure.
LEMMA ClosureRefl ==
  ASSUME NEW o \in Object
  PROVE  o \in Closure(o)
BY DEF Closure

\* A closure is closed under references.
LEMMA ClosureRefs ==
  ASSUME NEW r, NEW q \in Closure(r), NEW o \in Refs[q]
  PROVE  o \in Closure(r)
<1>1. q \in Object /\ o \in Object
  BY RefsAssumption DEF Closure
<1>2. ASSUME NEW S \in SUBSET Object, r \in S, \A y \in S : Refs[y] \subseteq S
      PROVE  o \in S
  <2>1. q \in S
    BY <1>2 DEF Closure
  <2> QED  BY <1>2, <2>1
<1> QED  BY <1>1, <1>2 DEF Closure

\* The closure of what is in a closure is in it.
LEMMA ClosureTrans ==
  ASSUME NEW r, NEW q \in Closure(r), NEW o \in Closure(q)
  PROVE  o \in Closure(r)
<1>1. o \in Object
  BY DEF Closure
<1>2. ASSUME NEW S \in SUBSET Object, r \in S, \A y \in S : Refs[y] \subseteq S
      PROVE  o \in S
  <2>1. q \in S
    BY <1>2 DEF Closure
  <2> QED  BY <1>2, <2>1 DEF Closure
<1> QED  BY <1>1, <1>2 DEF Closure

-----------------------------------------------------------------------------
(***************************************************************************)
(* The steps that do not belong to the collector.                          *)
(***************************************************************************)

\* What may happen around a collection: more roots come to be known, and once
\* all roots are read only objects of these appear.
QuietStep ==
  /\ UNCHANGED <<gcpc, opt, roots, walkVars>>
  /\ Newcomers \subseteq Newcomers'
  /\ RootsRead => /\ valid' \subseteq valid \cup Newcomers'
                  /\ \A n \in disk' : n \in disk \/ HashPart(n) \in Newcomers'

\* The object a client works on is known to a collection that has read all
\* roots.
LEMMA RootedIsKnown ==
  ASSUME IInv, RootsRead, NEW c \in Client,
         cpc[c] \in {"isValid", "lockPaths", "recheck", "restore", "register", "unlock"}
  PROVE  cpath[c] \in Newcomers
BY DEF IInv, ClientInv, FileInv, Alive, Newcomers

\* The steps of clients and of the collector's server are quiet.
LEMMA ClientsAreQuiet ==
  ASSUME IInv, NEW c \in Client,
         AddTempRoot(c) \/ AddToStore(c) \/ Serve(c) \/ Die(c)
  PROVE  QuietStep
<1> USE DEF QuietStep, Newcomers, storeVars, clientVars, socketVars, scanVars, sharedVars,
            walkVars, gcVars, histVars
<1>1. CASE AddTempRoot(c)
  BY <1>1 DEF AddTempRoot, TryGCLock, Connect, Send, ReadAck, AppendRoot
<1>2. CASE IsValid(c) \/ Recheck(c) \/ AddFails(c) \/ Unlock(c) \/ Symlink(c)
  BY <1>2 DEF IsValid, Recheck, AddFails, Unlock, Symlink
<1>3. CASE LockPath(c) \/ Restore(c)
  <2>1. RootsRead => cpath[c] \in Newcomers
    BY <1>3, RootedIsKnown DEF LockPath, Restore
  <2> QED  BY <1>3, <2>1 DEF LockPath, Restore, LockOf, PathOf, HashPart
<1>4. CASE Register(c)
  <2>1. RootsRead => cpath[c] \in Newcomers
    BY <1>4, RootedIsKnown DEF Register
  <2> QED  BY <1>4, <2>1 DEF Register
<1>5. CASE Serve(c)
  BY <1>5 DEF Serve, ServerInsert, ServerAck
<1>6. CASE Die(c)
  BY <1>6 DEF Die
<1> QED  BY <1>1, <1>2, <1>3, <1>4, <1>5, <1>6 DEF AddToStore

\* A name that appears with the hash part of a newcomer is covered.
LEMMA NewcomersAreCovered ==
  ASSUME NEW n \in Name, TypeOK, HashPart(n) \in Newcomers
  PROVE  Covered(n) /\ Reached(HashPart(n))
<1>1. HashPart(n) \in Object
  BY DEF HashPart, Name
<1> QED  BY <1>1, ClosureRefl DEF Covered, Reached

\* What is covered or reached stays so as newcomers come.
LEMMA CoverGrows ==
  ASSUME roots' = roots, Newcomers \subseteq Newcomers'
  PROVE  /\ \A n : Covered(n) => Covered(n)'
         /\ \A o : Reached(o) => Reached(o)'
BY DEF Covered, Reached

\* Quiet steps disturb no part of the invariant.
LEMMA QuietKeeps ==
  ASSUME IInv, GInv, TypeOK', QuietStep
  PROVE  GInv'
<1>1. CASE ~RootsRead
  <2>1. ~RootsRead' /\ gcpc' = gcpc /\ opt' = opt
    BY <1>1 DEF QuietStep, RootsRead, PermRootsRead
  <2>2. UNCHANGED <<alive, dead, cache, cur>>
    BY DEF QuietStep, walkVars
  <2>3. FreshInv'
    BY <1>1, <2>1, <2>2 DEF GInv, FreshInv
  <2>4. alive' = {} /\ dead' = {}
    BY <1>1, <2>2 DEF GInv, FreshInv
  <2> QED
    BY <1>1, <2>1, <2>3, <2>4 DEF GInv, CacheInv, VisitInv, SweepInv, KeptInv, UseInv,
       StartInv, AliveInv, DeadInv, DiskInv, Sweeping, RootsRead, PermRootsRead
<1>2. CASE RootsRead
  <2>1. /\ UNCHANGED <<gcpc, opt, roots, walkVars>>
        /\ Newcomers \subseteq Newcomers' /\ valid' \subseteq valid \cup Newcomers'
        /\ \A n \in disk' : n \in disk \/ HashPart(n) \in Newcomers'
        /\ RootsRead' /\ Sweeping' = Sweeping /\ WholeStoreRun' = WholeStoreRun
    BY <1>2 DEF QuietStep, RootsRead, PermRootsRead, Sweeping, WholeStoreRun
  <2>2. UNCHANGED <<dead, alive, left, start, visited, todo, sorted, cur, cache>>
    BY <2>1 DEF walkVars
  <2>3. /\ \A n : Covered(n) => Covered(n)'
        /\ \A o : Reached(o) => Reached(o)'
    BY <2>1, CoverGrows
  <2>4. \A o \in Object : /\ Referrers(o)' \subseteq Referrers(o) \cup Newcomers'
                          /\ OtherReferrers(o)' \subseteq OtherReferrers(o) \cup Newcomers'
    BY <2>1 DEF Referrers, OtherReferrers
  <2>5. /\ \A o \in Object : o \in Newcomers' => Reached(o)'
        /\ \A n \in Name : HashPart(n) \in Newcomers' => Covered(n)'
    <3>1. \A n \in Name : HashPart(n) \in Object
      BY DEF Name, HashPart
    <3> QED  BY <3>1, ClosureRefl DEF Covered, Reached
  <2>6. disk' \subseteq Name /\ valid' \subseteq Object
    BY DEF TypeOK
  <2>7. FreshInv' /\ CacheInv'
    BY <2>1, <2>2, <2>4 DEF GInv, FreshInv, CacheInv
  <2>8. VisitInv'
    BY <2>1, <2>2, <2>4 DEF GInv, VisitInv
  <2>9. SweepInv'
    BY <2>1, <2>2, <2>4 DEF GInv, SweepInv
  <2>10. KeptInv'
    BY <2>1, <2>2, <2>3, <2>5, <2>6 DEF GInv, KeptInv
  <2>11. UseInv'
    <3>1. \A o \in Object : OtherReferrers(o)' \subseteq Object
      BY <2>6 DEF OtherReferrers, Referrers
    <3> QED  BY <2>1, <2>2, <2>3, <2>4, <2>5, <3>1 DEF GInv, UseInv
  <2>12. StartInv'
    BY <2>1, <2>2 DEF GInv, StartInv
  <2>13. AliveInv'
    BY <2>2, <2>3 DEF GInv, AliveInv
  <2>14. DeadInv' /\ DiskInv'
    BY <1>2, <2>1, <2>2, <2>3, <2>5, <2>6 DEF GInv, DeadInv, DiskInv
  <2> QED
    BY <2>7, <2>8, <2>9, <2>10, <2>11, <2>12, <2>13, <2>14 DEF GInv
<1> QED  BY <1>1, <1>2

-----------------------------------------------------------------------------
(***************************************************************************)
(* The collector, before its walks and after them.                         *)
(***************************************************************************)

\* As long as the roots are not read nothing else is known.
LEMMA FreshIsEnough ==
  ASSUME ~RootsRead, FreshInv
  PROVE  GInv
BY DEF GInv, FreshInv, CacheInv, VisitInv, SweepInv, KeptInv, UseInv, StartInv, AliveInv,
       DeadInv, DiskInv, Sweeping, RootsRead, PermRootsRead

\* The collection starts, reads its roots, is over, or is killed.
LEMMA FreshStep ==
  ASSUME IInv, GInv,
         \/ \E options \in Options : AcquireGCLock(options)
         \/ StartServer \/ FindPermRoots \/ ReleaseGCLock \/ CollectorDies
         \/ \E c \in Client : ScanTempFile(c)
  PROVE  GInv'
<1>1. ~RootsRead'
  BY DEF AcquireGCLock, StartServer, FindPermRoots, ReleaseGCLock, CollectorDies,
         ScanTempFile, RootsRead, PermRootsRead
<1>2. FreshInv'
  <2>1. CASE ReleaseGCLock \/ CollectorDies
    BY <2>1 DEF ReleaseGCLock, CollectorDies, FreshLocals, FreshInv, NoName
  <2>2. CASE ~(ReleaseGCLock \/ CollectorDies)
    <3>1. /\ UNCHANGED <<alive, dead, cache, cur>> /\ ~RootsRead
          /\ gcpc' \notin {"invalidate", "unlink", "stopping", "stopped"}
      BY <2>2 DEF AcquireGCLock, StartServer, FindPermRoots, ScanTempFile, RootsRead,
                  PermRootsRead, walkVars
    <3>2. gcpc \notin {"invalidate", "unlink", "stopping", "stopped"}
      BY <3>1 DEF RootsRead, PermRootsRead
    <3> QED  BY <1>1, <3>1, <3>2 DEF GInv, FreshInv
  <2> QED  BY <2>1, <2>2
<1>3. ~RootsRead' /\ FreshInv' => GInv'
  BY FreshIsEnough, PTL
<1> QED  BY <1>1, <1>2, <1>3

\* The driver starts with the whole directory.
LEMMA RootsFoundStep ==
  ASSUME IInv, GInv, TypeOK', RootsFound
  PROVE  GInv'
<1>1. /\ gcpc' = "driver" /\ UNCHANGED <<opt, roots, alive, dead, cache, cur>>
      /\ ~opt.specific => left' = Name
  BY DEF RootsFound, scanVars
<1>2. /\ alive = {} /\ dead = {} /\ cur = NoName
      /\ \A o \in Object : cache[o] = NotCached
  BY DEF GInv, FreshInv, RootsFound, RootsRead, PermRootsRead
<1>3. disk' \subseteq Name
  BY DEF TypeOK
<1> QED
  BY <1>1, <1>2, <1>3 DEF GInv, FreshInv, CacheInv, VisitInv, SweepInv, KeptInv, UseInv,
     StartInv, AliveInv, DeadInv, DiskInv, WholeStoreRun, Sweeping, RootsRead, PermRootsRead

\* The collection stops.
LEMMA StoppingStep ==
  ASSUME IInv, GInv, DriverDone \/ StopServer
  PROVE  GInv'
<1>1. /\ UNCHANGED <<opt, roots, tempRoots, late, valid, disk, walkVars>>
      /\ \/ gcpc = "driver" /\ gcpc' = "stopping"
         \/ gcpc = "stopping" /\ gcpc' = "stopped"
  BY DEF DriverDone, StopServer, scanVars, sharedVars, histVars, storeVars
<1>2. UNCHANGED <<dead, alive, left, start, visited, todo, sorted, cur, cache, Newcomers>>
  BY <1>1 DEF walkVars, Newcomers
<1>3. /\ \A n : Covered(n)' <=> Covered(n)
      /\ \A o : Reached(o)' <=> Reached(o)
  BY <1>1, <1>2 DEF Covered, Reached
<1>4. RootsRead /\ RootsRead' /\ ~Sweeping /\ ~Sweeping' /\ WholeStoreRun' = WholeStoreRun
  BY <1>1 DEF RootsRead, PermRootsRead, Sweeping, WholeStoreRun
<1>5. FreshInv' /\ CacheInv'
  BY <1>1, <1>2, <1>4 DEF GInv, FreshInv, CacheInv, Referrers
<1>6. VisitInv' /\ SweepInv' /\ UseInv' /\ StartInv'
  BY <1>1, <1>4 DEF VisitInv, SweepInv, UseInv, StartInv
<1>7. KeptInv' /\ AliveInv' /\ DeadInv'
  BY <1>1, <1>2, <1>3, <1>4 DEF GInv, KeptInv, AliveInv, DeadInv
<1>8. DiskInv'
  BY <1>1, <1>2, <1>3, <1>4 DEF GInv, DiskInv
<1> QED  BY <1>5, <1>6, <1>7, <1>8 DEF GInv

-----------------------------------------------------------------------------
(***************************************************************************)
(* The walk.                                                               *)
(***************************************************************************)

\* A walk starts.
LEMMA PickStartStep ==
  ASSUME IInv, GInv, NEW n \in Name, PickStart(n)
  PROVE  GInv'
<1>1. /\ UNCHANGED <<opt, roots, tempRoots, late, valid, disk, dead, alive, cur, cache>>
      /\ gcpc = "driver" /\ gcpc' = "visit"
      /\ start' = n /\ visited' = {n} /\ todo' = {n} /\ left' = left \ {n}
  BY DEF PickStart, scanVars, sharedVars, histVars, storeVars
<1>2. Newcomers' = Newcomers
  BY <1>1 DEF Newcomers
<1>3. /\ \A m : Covered(m)' <=> Covered(m)
      /\ \A o : Reached(o)' <=> Reached(o)
  BY <1>1, <1>2 DEF Covered, Reached
<1>4. RootsRead /\ RootsRead' /\ ~Sweeping /\ ~Sweeping' /\ WholeStoreRun' = WholeStoreRun
  BY <1>1 DEF RootsRead, PermRootsRead, Sweeping, WholeStoreRun
<1>5. FreshInv' /\ CacheInv'
  BY <1>1, <1>2, <1>4 DEF GInv, FreshInv, CacheInv, Referrers
<1>6. VisitInv' /\ SweepInv' /\ UseInv'
  BY <1>1, <1>4 DEF VisitInv, SweepInv, UseInv
<1>7. KeptInv' /\ AliveInv' /\ DeadInv'
  BY <1>1, <1>2, <1>3, <1>4 DEF GInv, KeptInv, AliveInv, DeadInv
<1>8. StartInv'
  <2>1. HashPart(n) \in Closure(HashPart(n))
    BY ClosureRefl DEF Name, HashPart
  <2> QED  BY <1>1, <2>1 DEF StartInv
<1>9. DiskInv'
  BY <1>1, <1>3, <1>4 DEF GInv, DiskInv
<1> QED  BY <1>5, <1>6, <1>7, <1>8, <1>9 DEF GInv

\* markAlive() marks what its argument keeps.
LEMMA MarkedIsCovered ==
  ASSUME NEW n \in Name, Covered(n)
  PROVE  \A m \in MarkAlive(n) : Covered(m)
<1> SUFFICES ASSUME NEW m \in MarkAlive(n), m # n
             PROVE  Covered(m)
  OBVIOUS
<1>1. PICK o \in Closure(HashPart(n)) : m = PathOf(o) /\ n[2] = "path"
  BY DEF MarkAlive
<1>2. PICK r \in roots \cup Newcomers : HashPart(n) \in Closure(r)
  BY <1>1 DEF Covered
<1>3. o \in Closure(r)
  BY <1>1, <1>2, ClosureTrans
<1> QED  BY <1>1, <1>3 DEF Covered, PathOf, HashPart

\* The walk meets something that a root keeps: so the root keeps its start.
LEMMA StartIsCovered ==
  ASSUME IInv, GInv, gcpc = "visit", NEW n \in visited, Covered(n)
  PROVE  Covered(start)
<1>1. /\ start \in visited /\ start \in Name /\ n \in Name
      /\ start[2] = "lock" => visited = {start}
      /\ start[2] = "path" => n[2] = "path" /\ HashPart(start) \in Closure(HashPart(n))
  BY DEF IInv, TypeOK, GInv, StartInv
<1>2. CASE start[2] = "lock"
  BY <1>1, <1>2
<1>3. CASE start[2] = "path"
  <2>1. PICK r \in roots \cup Newcomers : HashPart(n) \in Closure(r)
    BY <1>1, <1>3 DEF Covered
  <2>2. HashPart(start) \in Closure(r)
    BY <1>1, <1>3, <2>1, ClosureTrans
  <2> QED  BY <1>3, <2>2 DEF Covered
<1> QED  BY <1>1, <1>2, <1>3 DEF Name

\* The walk gives up on its start.
LEMMA VisitKeepsStep ==
  ASSUME IInv, GInv, NEW n \in Name, VisitKeeps(n)
  PROVE  GInv'
<1>1. /\ UNCHANGED <<opt, roots, tempRoots, late, valid, disk, dead, left, cur, cache>>
      /\ gcpc = "visit" /\ gcpc' \in {"stopping", "driver"} /\ n \in visited
  BY DEF VisitKeeps, Return, scanVars, histVars, storeVars, GInv, StartInv
<1>2. Newcomers' = Newcomers
  BY <1>1 DEF Newcomers
<1>3. /\ \A m : Covered(m)' <=> Covered(m)
      /\ \A o : Reached(o)' <=> Reached(o)
  BY <1>1, <1>2 DEF Covered, Reached
<1>4. RootsRead /\ RootsRead' /\ ~Sweeping /\ ~Sweeping' /\ WholeStoreRun' = WholeStoreRun
  BY <1>1 DEF RootsRead, PermRootsRead, Sweeping, WholeStoreRun
<1>5. FreshInv' /\ CacheInv'
  BY <1>1, <1>2, <1>4 DEF GInv, FreshInv, CacheInv, Referrers
<1>6. VisitInv' /\ SweepInv' /\ UseInv' /\ StartInv'
  BY <1>1, <1>4 DEF VisitInv, SweepInv, UseInv, StartInv
<1>7. KeptInv' /\ DeadInv'
  BY <1>1, <1>2, <1>3, <1>4 DEF GInv, KeptInv, DeadInv
<1>8. /\ alive' \subseteq alive \cup {start} \cup MarkAlive(n)
      /\ alive' # alive => Covered(n)
      /\ alive \subseteq alive'
      /\ ~opt.specific => start \in alive'
  <2>1. CASE n \in alive /\ alive' = alive \cup {start}
    BY <2>1 DEF VisitKeeps, GInv, AliveInv
  <2>2. CASE /\ n \in {PathOf(o) : o \in roots}
             /\ alive' = alive \cup {start} \cup MarkAlive(n)
    <3>1. PICK o \in roots : n = PathOf(o)
      BY <2>2
    <3>2. o \in Closure(o)
      BY ClosureRefl DEF IInv, TypeOK
    <3> QED  BY <2>2, <3>1, <3>2 DEF Covered, PathOf, HashPart
  <2>3. CASE alive' = alive /\ opt.specific
    BY <2>3
  <2>4. CASE /\ HashPart(n) \in tempRoots
             /\ alive' = alive \cup {start} \cup MarkAlive(n)
    <3>1. Covered(n)
      BY <2>4, NewcomersAreCovered DEF IInv, Newcomers
    <3> QED  BY <2>4, <3>1
  <2> QED  BY <2>1, <2>2, <2>3, <2>4 DEF VisitKeeps
<1>9. AliveInv'
  BY <1>1, <1>3, <1>8, StartIsCovered, MarkedIsCovered DEF GInv, AliveInv
<1>10. DiskInv'
  BY <1>1, <1>3, <1>4, <1>8 DEF GInv, DiskInv, WholeStoreRun
<1> QED  BY <1>5, <1>6, <1>7, <1>9, <1>10 DEF GInv

\* The walk passes what is counted as deleted.
LEMMA VisitDeadStep ==
  ASSUME IInv, GInv, NEW n \in Name, VisitDead(n)
  PROVE  GInv'
<1>1. /\ UNCHANGED <<gcpc, opt, roots, tempRoots, late, valid, disk, dead, alive, left,
                     start, visited, sorted, cur, cache>>
      /\ gcpc = "visit" /\ n \in dead /\ todo' = todo \ {n}
  BY DEF VisitDead, scanVars, sharedVars, histVars, storeVars
<1>2. Newcomers' = Newcomers
  BY <1>1 DEF Newcomers
<1>3. /\ \A m : Covered(m)' <=> Covered(m)
      /\ \A o : Reached(o)' <=> Reached(o)
  BY <1>1, <1>2 DEF Covered, Reached
<1>4. RootsRead /\ RootsRead' /\ ~Sweeping /\ ~Sweeping' /\ WholeStoreRun' = WholeStoreRun
  BY <1>1 DEF RootsRead, PermRootsRead, Sweeping, WholeStoreRun
<1>5. FreshInv' /\ CacheInv'
  BY <1>1, <1>2, <1>4 DEF GInv, FreshInv, CacheInv, Referrers
<1>6. SweepInv' /\ UseInv' /\ StartInv'
  BY <1>1, <1>4 DEF GInv, SweepInv, UseInv, StartInv
<1>7. VisitInv'
  BY <1>1, <1>2 DEF GInv, VisitInv, OtherReferrers, Referrers
<1>8. KeptInv' /\ AliveInv' /\ DeadInv'
  BY <1>1, <1>2, <1>3, <1>4 DEF GInv, KeptInv, AliveInv, DeadInv
<1>9. DiskInv'
  BY <1>1, <1>3, <1>4 DEF GInv, DiskInv
<1> QED  BY <1>5, <1>6, <1>7, <1>8, <1>9 DEF GInv

\* What a walk queues for a path: referrers of it, and all but newcomers.
LEMMA QueuedReferrers ==
  ASSUME IInv, GInv, gcpc = "visit", NEW o \in Object,
         NEW referrers, referrers = (IF cache[o] = NotCached THEN Referrers(o) ELSE cache[o])
  PROVE  /\ referrers \subseteq Object
         /\ Referrers(o) \subseteq referrers \cup Newcomers
         /\ \A q \in referrers : o \in Refs[q]
<1>1. RootsRead
  BY DEF RootsRead, PermRootsRead
<1>2. cache[o] # NotCached => cache[o] \subseteq Object
  BY DEF IInv, TypeOK
<1> QED  BY <1>1, <1>2 DEF GInv, CacheInv, Referrers, IInv, TypeOK

\* The walk goes on to the referrers.
LEMMA VisitExpandStep ==
  ASSUME IInv, GInv, NEW n \in Name, VisitExpand(n)
  PROVE  GInv'
<1> DEFINE o == HashPart(n)
           known == n[2] = "path" /\ o \in valid
           referrers == IF cache[o] = NotCached THEN Referrers(o) ELSE cache[o]
           next == IF known THEN {PathOf(r) : r \in referrers} \ visited ELSE {}
<1>1. /\ UNCHANGED <<gcpc, opt, roots, tempRoots, late, valid, disk, dead, alive, left,
                     start, sorted, cur>>
      /\ gcpc = "visit" /\ n \in todo
  BY DEF VisitExpand, scanVars, histVars, storeVars
<1>2. /\ cache' = IF known THEN [cache EXCEPT ![o] = referrers] ELSE cache
      /\ visited' = visited \cup next
      /\ todo' = (todo \ {n}) \cup next
  BY DEF VisitExpand
<1>3. Newcomers' = Newcomers /\ \A p : Referrers(p)' = Referrers(p)
  BY <1>1 DEF Newcomers, Referrers
<1>4. /\ \A m : Covered(m)' <=> Covered(m)
      /\ \A p : Reached(p)' <=> Reached(p)
  BY <1>1, <1>3 DEF Covered, Reached
<1>5. RootsRead /\ RootsRead' /\ ~Sweeping /\ ~Sweeping' /\ WholeStoreRun' = WholeStoreRun
  BY <1>1 DEF RootsRead, PermRootsRead, Sweeping, WholeStoreRun
<1>6. o \in Object /\ (n[2] = "path" => n = PathOf(o))
  BY DEF Name, HashPart, PathOf
<1>7. /\ referrers \subseteq Object
      /\ Referrers(o) \subseteq referrers \cup Newcomers
      /\ \A q \in referrers : o \in Refs[q]
  BY <1>1, <1>6, QueuedReferrers
<1> HIDE DEF o, referrers
<1>8. FreshInv'
  BY <1>1, <1>5 DEF GInv, FreshInv
<1>9. CacheInv'
  <2> SUFFICES ASSUME NEW p \in Object, cache'[p] # NotCached
               PROVE  /\ Referrers(p) \subseteq cache'[p] \cup Newcomers
                      /\ \A q \in cache'[p] : p \in Refs[q]
    BY <1>3 DEF CacheInv
  <2>1. cache \in [Object -> (SUBSET Object) \cup {NotCached}]
    BY DEF IInv, TypeOK
  <2>2. CASE p = o /\ known
    <3>1. cache'[p] = referrers
      BY <1>2, <1>6, <2>1, <2>2
    <3> QED  BY <1>7, <2>2, <3>1
  <2>3. CASE ~(p = o /\ known)
    <3>1. cache'[p] = cache[p]
      BY <1>2, <1>6, <2>1, <2>3
    <3> QED  BY <1>5, <3>1 DEF GInv, CacheInv
  <2> QED  BY <2>2, <2>3
<1>10. VisitInv'
  <2> SUFFICES ASSUME NEW p \in Object, PathOf(p) \in visited' \ (todo' \cup dead),
                      NEW q \in OtherReferrers(p)
               PROVE  PathOf(q) \in visited' \/ q \in Newcomers
    BY <1>1, <1>3 DEF VisitInv, OtherReferrers
  <2>1. CASE PathOf(p) = n
    <3>1. p = o /\ n[2] = "path"
      BY <2>1 DEF PathOf, HashPart, o
    <3>2. p \in valid
      BY DEF OtherReferrers, Referrers, IInv, ReferencesAreValid
    <3>3. q \in referrers \/ q \in Newcomers
      BY <1>7, <3>1 DEF OtherReferrers
    <3> QED  BY <1>2, <3>1, <3>2, <3>3
  <2>2. CASE PathOf(p) # n
    <3>1. PathOf(p) \in visited \ (todo \cup dead)
      BY <1>2, <2>2
    <3> QED  BY <1>1, <1>2, <3>1 DEF GInv, VisitInv
  <2> QED  BY <2>1, <2>2
<1>11. SweepInv' /\ UseInv'
  BY <1>1, <1>5 DEF SweepInv, UseInv
<1>12. KeptInv' /\ AliveInv' /\ DeadInv'
  BY <1>1, <1>3, <1>4, <1>5 DEF GInv, KeptInv, AliveInv, DeadInv
<1>13. StartInv'
  <2>1. /\ start \in visited /\ todo \subseteq visited /\ n \in visited
        /\ start[2] = "lock" => visited = {start}
        /\ start[2] = "path" =>
             \A m \in visited : m[2] = "path" /\ HashPart(start) \in Closure(HashPart(m))
    BY <1>1 DEF GInv, StartInv
  <2>2. start[2] = "lock" => next = {}
    BY <2>1
  <2>3. ASSUME start[2] = "path", NEW m \in next
        PROVE  m[2] = "path" /\ HashPart(start) \in Closure(HashPart(m))
    <3>1. PICK r \in referrers : m = PathOf(r)
      BY <2>3
    <3>2. o \in Closure(r)
      BY <1>7, <3>1, ClosureRefl, ClosureRefs
    <3>3. HashPart(start) \in Closure(o)
      BY <2>1, <2>3 DEF o
    <3> QED  BY <3>1, <3>2, <3>3, ClosureTrans DEF PathOf, HashPart
  <2>4. start' = start /\ gcpc' = "visit" /\ visited' = visited \cup next
        /\ todo' \subseteq visited'
    BY <1>1, <1>2, <2>1
  <2> HIDE DEF next
  <2> QED  BY <2>1, <2>2, <2>3, <2>4 DEF StartInv
<1>14. DiskInv'
  BY <1>1, <1>4, <1>5 DEF GInv, DiskInv
<1> QED  BY <1>8, <1>9, <1>10, <1>11, <1>12, <1>13, <1>14 DEF GInv

\* The walk is over and nothing it has visited is kept by a root.
LEMMA VisitDoneStep ==
  ASSUME IInv, GInv, VisitDone
  PROVE  GInv'
<1>1. /\ UNCHANGED <<opt, roots, tempRoots, late, valid, disk, dead, alive, left, start,
                     visited, todo, cur, cache>>
      /\ gcpc = "visit" /\ todo = {} /\ gcpc' = "sweep" /\ sorted' = valid
  BY DEF VisitDone, scanVars, sharedVars, histVars, storeVars
<1>2. Newcomers' = Newcomers /\ \A p : OtherReferrers(p)' = OtherReferrers(p)
  BY <1>1 DEF Newcomers, OtherReferrers, Referrers
<1>3. /\ \A m : Covered(m)' <=> Covered(m)
      /\ \A o : Reached(o)' <=> Reached(o)
  BY <1>1, <1>2 DEF Covered, Reached
<1>4. RootsRead /\ RootsRead' /\ ~Sweeping /\ Sweeping' /\ WholeStoreRun' = WholeStoreRun
  BY <1>1 DEF RootsRead, PermRootsRead, Sweeping, WholeStoreRun
<1>5. FreshInv' /\ CacheInv'
  BY <1>1, <1>2, <1>4 DEF GInv, FreshInv, CacheInv, Referrers
<1>6. VisitInv' /\ UseInv' /\ StartInv'
  BY <1>1 DEF VisitInv, UseInv, StartInv
<1>7. SweepInv'
  BY <1>1, <1>2 DEF GInv, VisitInv, SweepInv
<1>8. KeptInv' /\ AliveInv' /\ DeadInv'
  BY <1>1, <1>2, <1>3, <1>4 DEF GInv, KeptInv, AliveInv, DeadInv
<1>9. DiskInv'
  BY <1>1, <1>3, <1>4 DEF GInv, DiskInv, StartInv
<1> QED  BY <1>5, <1>6, <1>7, <1>8, <1>9 DEF GInv

-----------------------------------------------------------------------------
(***************************************************************************)
(* The sweep.                                                              *)
(***************************************************************************)

\* A path is passed over.
LEMMA SweepSkipsStep ==
  ASSUME IInv, GInv, NEW n \in Name, SweepSkips(n)
  PROVE  GInv'
<1>1. /\ UNCHANGED <<gcpc, opt, roots, tempRoots, late, valid, disk, left, start, todo,
                     sorted, cur, cache>>
      /\ gcpc = "sweep" /\ n \in visited
      /\ dead' = dead \cup {n} /\ visited' = visited \ {n}
  BY DEF SweepSkips, SweepNext, scanVars, sharedVars, histVars, storeVars
<1>2. Newcomers' = Newcomers /\ \A p : OtherReferrers(p)' = OtherReferrers(p)
  BY <1>1 DEF Newcomers, OtherReferrers, Referrers
<1>3. /\ \A m : Covered(m)' <=> Covered(m)
      /\ \A o : Reached(o)' <=> Reached(o)
  BY <1>1, <1>2 DEF Covered, Reached
<1>4. RootsRead /\ RootsRead' /\ Sweeping /\ Sweeping' /\ WholeStoreRun' = WholeStoreRun
  BY <1>1 DEF RootsRead, PermRootsRead, Sweeping, WholeStoreRun
<1>5. n \in dead \/ opt.action = "gcReturnDead" \/ (Covered(n) /\ Reached(HashPart(n)))
  BY NewcomersAreCovered DEF SweepSkips, IInv, Newcomers
<1>6. FreshInv' /\ CacheInv'
  BY <1>1, <1>2, <1>4 DEF GInv, FreshInv, CacheInv, Referrers
<1>7. VisitInv' /\ UseInv' /\ StartInv'
  BY <1>1 DEF VisitInv, UseInv, StartInv
<1>8. SweepInv'
  BY <1>1, <1>2, <1>4 DEF GInv, SweepInv
<1>9. KeptInv'
  BY <1>1, <1>3, <1>5 DEF GInv, KeptInv, PathOf, HashPart
<1>10. alive \subseteq alive' /\ AliveInv'
  <2>1. CASE alive' = alive
    BY <1>3, <2>1 DEF GInv, AliveInv
  <2>2. CASE n \notin dead /\ opt.action # "gcReturnDead" /\ alive' = alive \cup MarkAlive(n)
    BY <1>3, <1>5, <2>2, MarkedIsCovered DEF GInv, AliveInv
  <2> QED  BY <2>1, <2>2 DEF SweepSkips
<1>11. DeadInv' /\ DiskInv'
  BY <1>1, <1>3, <1>4, <1>5, <1>10 DEF GInv, DeadInv, DiskInv, WholeStoreRun
<1> QED  BY <1>6, <1>7, <1>8, <1>9, <1>10, <1>11 DEF GInv

\* The deletion of a path starts.  Its referrers have been dealt with, as they
\* come before it in topological order.
LEMMA SweepPathStep ==
  ASSUME IInv, GInv, NEW n \in Name, SweepPath(n)
  PROVE  GInv'
<1>1. /\ UNCHANGED <<opt, roots, tempRoots, late, valid, disk, alive, left, start, todo,
                     sorted, cache>>
      /\ gcpc = "sweep" /\ gcpc' = "invalidate" /\ n \in visited \ dead /\ cur' = n
      /\ dead' = dead \cup {n} /\ visited' = visited \ {n} /\ opt.action # "gcReturnDead"
  BY DEF SweepPath, SweepNext, scanVars, histVars, storeVars
<1>2. Newcomers' = Newcomers /\ \A p : OtherReferrers(p)' = OtherReferrers(p)
  BY <1>1 DEF Newcomers, OtherReferrers, Referrers
<1>3. /\ \A m : Covered(m)' <=> Covered(m)
      /\ \A o : Reached(o)' <=> Reached(o)
  BY <1>1, <1>2 DEF Covered, Reached
<1>4. RootsRead /\ RootsRead' /\ Sweeping /\ Sweeping' /\ WholeStoreRun' = WholeStoreRun
  BY <1>1 DEF RootsRead, PermRootsRead, Sweeping, WholeStoreRun
<1>5. cur = NoName /\ NoName \notin Name
  BY <1>1, NoObjectAssumption DEF GInv, FreshInv, NoName, Name
<1>6. FreshInv' /\ CacheInv'
  BY <1>1, <1>2, <1>4 DEF GInv, FreshInv, CacheInv, Referrers
<1>7. VisitInv' /\ StartInv'
  BY <1>1 DEF VisitInv, StartInv
<1>8. SweepInv'
  BY <1>1, <1>2, <1>4 DEF GInv, SweepInv
<1>9. KeptInv'
  BY <1>1, <1>3 DEF GInv, KeptInv
<1>10. UseInv'
  <2> SUFFICES ASSUME NEW o \in Object, n = PathOf(o), NEW q \in OtherReferrers(o)
               PROVE  Reached(q)
    BY <1>1, <1>2, <1>3 DEF UseInv
  <2>1. q \in valid /\ q \in Object /\ q # o /\ o \in Refs[q]
    BY DEF OtherReferrers, Referrers, IInv, TypeOK
  <2>2. PathOf(q) \in visited \cup dead \/ q \in Newcomers
    BY <1>1, <1>4 DEF GInv, SweepInv
  <2>3. CASE q \in Newcomers
    BY <2>1, <2>3, ClosureRefl DEF Reached
  <2>4. CASE PathOf(q) \in dead
    BY <1>1, <2>1, <2>4 DEF GInv, KeptInv
  <2>5. CASE PathOf(q) \in visited
    <3>1. PathOf(q) \in visited \ {n} /\ PathOf(q)[2] = "path" /\ HashPart(PathOf(q)) = q
      BY <2>1, <2>5 DEF PathOf, HashPart
    <3>2. n[2] = "path" /\ HashPart(n) = o
      BY DEF PathOf, HashPart
    <3>3. q \notin sorted
      BY <2>1, <3>1, <3>2 DEF SweepPath, SweepNext
    <3>4. q \in Newcomers
      BY <1>4, <2>1, <3>3 DEF GInv, SweepInv
    <3> QED  BY <2>1, <3>4, ClosureRefl DEF Reached
  <2> QED  BY <2>2, <2>3, <2>4, <2>5
<1>11. AliveInv'
  BY <1>1, <1>3 DEF GInv, AliveInv
<1>12. DeadInv' /\ DiskInv'
  <2>1. disk \subseteq Name
    BY DEF IInv, TypeOK
  <2> QED  BY <1>1, <1>3, <1>4, <1>5, <2>1 DEF GInv, DeadInv, DiskInv
<1> QED  BY <1>6, <1>7, <1>8, <1>9, <1>10, <1>11, <1>12 DEF GInv

\* The path is invalidated, or it is in use and stays: then a newcomer that
\* keeps one of its referrers keeps it, too.
LEMMA InvalidateStep ==
  ASSUME IInv, GInv, Invalidate
  PROVE  GInv'
<1>1. /\ UNCHANGED <<opt, roots, tempRoots, late, disk, dead, alive, left, start, visited,
                     todo, sorted, cache>>
      /\ gcpc = "invalidate" /\ gcpc' \in {"sweep", "unlink"} /\ valid' \subseteq valid
  BY DEF Invalidate, scanVars, histVars
<1>2. Newcomers' = Newcomers /\ \A p : OtherReferrers(p)' \subseteq OtherReferrers(p)
  BY <1>1 DEF Newcomers, OtherReferrers, Referrers
<1>3. /\ \A m : Covered(m)' <=> Covered(m)
      /\ \A o : Reached(o)' <=> Reached(o)
  BY <1>1, <1>2 DEF Covered, Reached
<1>4. RootsRead /\ RootsRead' /\ Sweeping /\ Sweeping' /\ WholeStoreRun' = WholeStoreRun
  BY <1>1 DEF RootsRead, PermRootsRead, Sweeping, WholeStoreRun
<1>5. ASSUME InUse(cur)
      PROVE  Reached(HashPart(cur)) /\ Covered(cur)
  <2>1. cur \in Name
    BY <1>1 DEF IInv, DeleteInv, Deleting
  <2>2. /\ cur = PathOf(HashPart(cur)) /\ cur[2] = "path" /\ HashPart(cur) \in Object
    BY <1>5, <2>1 DEF InUse, Name, PathOf, HashPart
  <2>3. PICK q \in OtherReferrers(HashPart(cur)) : TRUE
    BY <1>5 DEF InUse, OtherReferrers
  <2>4. PICK r \in Newcomers : q \in Closure(r)
    BY <1>1, <2>2, <2>3 DEF GInv, UseInv, Reached
  <2>5. HashPart(cur) \in Closure(r)
    BY <2>3, <2>4, ClosureRefs DEF OtherReferrers, Referrers
  <2> QED  BY <2>2, <2>4, <2>5 DEF Reached, Covered
<1>6. \/ InUse(cur) /\ gcpc' = "sweep" /\ cur' = NoName /\ valid' = valid
      \/ /\ ~InUse(cur) /\ gcpc' = "unlink" /\ cur' = cur
         /\ valid' = IF cur[2] = "path" THEN valid \ {HashPart(cur)} ELSE valid
  BY DEF Invalidate, NoName
<1>7. FreshInv' /\ CacheInv'
  BY <1>1, <1>2, <1>4, <1>6 DEF GInv, FreshInv, CacheInv, Referrers
<1>8. VisitInv' /\ StartInv' /\ UseInv'
  BY <1>1 DEF VisitInv, StartInv, UseInv
<1>9. SweepInv'
  BY <1>1, <1>2, <1>4 DEF GInv, SweepInv
<1>10. KeptInv'
  <2> SUFFICES ASSUME NEW o \in valid', PathOf(o) \in dead, opt.action # "gcReturnDead"
               PROVE  Reached(o)
    BY <1>1, <1>3 DEF KeptInv
  <2>1. CASE cur = PathOf(o)
    <3>1. cur[2] = "path" /\ HashPart(cur) = o
      BY <2>1 DEF PathOf, HashPart
    <3> QED  BY <1>5, <1>6, <3>1
  <2>2. CASE cur # PathOf(o)
    BY <1>1, <2>2 DEF GInv, KeptInv
  <2> QED  BY <2>1, <2>2
<1>11. AliveInv'
  BY <1>1, <1>3 DEF GInv, AliveInv
<1>12. DeadInv' /\ DiskInv'
  BY <1>1, <1>3, <1>4, <1>5, <1>6 DEF GInv, DeadInv, DiskInv
<1> QED  BY <1>7, <1>8, <1>9, <1>10, <1>11, <1>12 DEF GInv

\* The files of the path are removed, or that fails and the collection ends.
LEMMA UnlinkPathStep ==
  ASSUME IInv, GInv, UnlinkPath
  PROVE  GInv'
<1>1. /\ UNCHANGED <<opt, roots, tempRoots, late, valid, dead, alive, left, start, visited,
                     todo, sorted>>
      /\ gcpc = "unlink" /\ gcpc' \in {"sweep", "stopping"}
      /\ \/ disk' = disk \ {cur} /\ cur' = NoName
         \/ disk' = disk /\ cur' = cur /\ gcpc' = "stopping"
  BY DEF UnlinkPath, scanVars, histVars, NoName
<1>2. Newcomers' = Newcomers /\ \A p : /\ OtherReferrers(p)' = OtherReferrers(p)
                                       /\ Referrers(p)' = Referrers(p)
  BY <1>1 DEF Newcomers, OtherReferrers, Referrers
<1>3. /\ \A m : Covered(m)' <=> Covered(m)
      /\ \A o : Reached(o)' <=> Reached(o)
  BY <1>1, <1>2 DEF Covered, Reached
<1>4. RootsRead /\ RootsRead' /\ Sweeping /\ WholeStoreRun' = WholeStoreRun
  BY <1>1 DEF RootsRead, PermRootsRead, Sweeping, WholeStoreRun
<1>5. \A o \in Object : cache'[o] = cache[o] \/ cache'[o] = NotCached
  BY DEF UnlinkPath, IInv, TypeOK
<1>6. FreshInv' /\ CacheInv'
  BY <1>1, <1>2, <1>4, <1>5 DEF GInv, FreshInv, CacheInv
<1>7. VisitInv' /\ StartInv' /\ UseInv'
  BY <1>1 DEF VisitInv, StartInv, UseInv
<1>8. SweepInv'
  BY <1>1, <1>2, <1>4 DEF GInv, SweepInv
<1>9. KeptInv' /\ AliveInv'
  BY <1>1, <1>3 DEF GInv, KeptInv, AliveInv
<1>10. DeadInv' /\ DiskInv'
  BY <1>1, <1>3, <1>4 DEF GInv, DeadInv, DiskInv, Sweeping
<1> QED  BY <1>6, <1>7, <1>8, <1>9, <1>10 DEF GInv

\* All that the walk has visited is dealt with.
LEMMA SweepDoneStep ==
  ASSUME IInv, GInv, SweepDone
  PROVE  GInv'
<1>1. /\ UNCHANGED <<opt, roots, tempRoots, late, valid, disk, dead, alive, left, start,
                     visited, todo, sorted, cur, cache>>
      /\ gcpc = "sweep" /\ gcpc' \in {"stopping", "driver"} /\ visited = {}
  BY DEF SweepDone, Return, scanVars, histVars, storeVars
<1>2. Newcomers' = Newcomers /\ \A p : Referrers(p)' = Referrers(p)
  BY <1>1 DEF Newcomers, Referrers
<1>3. /\ \A m : Covered(m)' <=> Covered(m)
      /\ \A o : Reached(o)' <=> Reached(o)
  BY <1>1, <1>2 DEF Covered, Reached
<1>4. RootsRead /\ RootsRead' /\ Sweeping /\ ~Sweeping' /\ WholeStoreRun' = WholeStoreRun
  BY <1>1 DEF RootsRead, PermRootsRead, Sweeping, WholeStoreRun
<1>5. FreshInv' /\ CacheInv'
  BY <1>1, <1>2, <1>4 DEF GInv, FreshInv, CacheInv
<1>6. VisitInv' /\ SweepInv' /\ StartInv' /\ UseInv'
  BY <1>1, <1>4 DEF VisitInv, SweepInv, StartInv, UseInv
<1>7. KeptInv' /\ AliveInv' /\ DeadInv'
  BY <1>1, <1>3, <1>4 DEF GInv, KeptInv, AliveInv, DeadInv
<1>8. DiskInv'
  BY <1>1, <1>3, <1>4 DEF GInv, DiskInv
<1> QED  BY <1>5, <1>6, <1>7, <1>8 DEF GInv

-----------------------------------------------------------------------------
(***************************************************************************)
(* The invariant of the collection, and what follows.                      *)
(***************************************************************************)

\* No collection runs in the beginning.
LEMMA GInvInit == Init => GInv
<1> SUFFICES ASSUME Init PROVE GInv
  OBVIOUS
<1>1. ~RootsRead /\ FreshInv
  BY DEF Init, RootsRead, PermRootsRead, FreshInv, NoName
<1> QED  BY <1>1, FreshIsEnough

\* Every step keeps it.
LEMMA GInvStep == IInv /\ IInv' /\ GInv /\ [Next]_vars => GInv'
<1> SUFFICES ASSUME IInv, IInv', GInv, [Next]_vars PROVE GInv'
  OBVIOUS
<1>1. TypeOK'
  BY DEF IInv
<1>2. CASE UNCHANGED vars
  <2>1. QuietStep
    BY <1>2 DEF QuietStep, Newcomers, vars, storeVars, histVars, gcVars, scanVars,
                sharedVars
  <2> QED  BY <1>1, <2>1, QuietKeeps
<1>3. ASSUME NEW c \in Client, NEW o \in Object, NEW j \in {"add", "optimise", "perm"},
             Begin(c, o, j)
      PROVE  GInv'
  <2>1. QuietStep
    BY <1>3 DEF Begin, QuietStep, Newcomers, storeVars, histVars, gcVars, scanVars,
                sharedVars
  <2> QED  BY <1>1, <2>1, QuietKeeps
<1>4. ASSUME NEW c \in Client, AddTempRoot(c) \/ AddToStore(c) \/ Serve(c) \/ Die(c)
      PROVE  GInv'
  BY <1>1, <1>4, ClientsAreQuiet, QuietKeeps
<1>5. ASSUME NEW o \in Object, RemoveRoot(o)
      PROVE  GInv'
  <2>1. QuietStep
    BY <1>5 DEF RemoveRoot, QuietStep, Newcomers, histVars, gcVars, scanVars, sharedVars
  <2> QED  BY <1>1, <2>1, QuietKeeps
<1>6. CASE \/ \E options \in Options : AcquireGCLock(options)
           \/ StartServer \/ FindPermRoots \/ ReleaseGCLock \/ CollectorDies
           \/ \E c \in Client : ScanTempFile(c)
  BY <1>6, FreshStep
<1>7. CASE RootsFound \/ DriverDone \/ StopServer
  BY <1>1, <1>7, RootsFoundStep, StoppingStep
<1>8. CASE VisitDone \/ Invalidate \/ UnlinkPath \/ SweepDone
  BY <1>8, VisitDoneStep, InvalidateStep, UnlinkPathStep, SweepDoneStep
<1>9. ASSUME NEW n \in Name,
             PickStart(n) \/ VisitKeeps(n) \/ VisitDead(n) \/ VisitExpand(n)
      PROVE  GInv'
  BY <1>9, PickStartStep, VisitKeepsStep, VisitDeadStep, VisitExpandStep
<1>10. ASSUME NEW n \in Name, SweepSkips(n) \/ SweepPath(n)
      PROVE  GInv'
  BY <1>10, SweepSkipsStep, SweepPathStep
<1> QED
  BY <1>2, <1>3, <1>4, <1>5, <1>6, <1>7, <1>8, <1>9, <1>10 DEF Next, Collect

\* What a collection knows of what it keeps and removes, in every state.
THEOREM CollectionInvariance == Spec => []GInv
  BY IInvStep, IInvInit, Invariance, GInvInit, GInvStep, PTL DEF Spec

\* The deletion of a path meets a referrer only where a root that came during
\* the collection keeps that referrer: for every reference graph, cyclic ones
\* included.
THEOREM InUseSafe == Spec => []InUseOnlyByNewReferrer
<1>1. ASSUME IInv, GInv, gcpc = "invalidate", InUse(cur),
             NEW q \in Referrers(HashPart(cur)) \ {HashPart(cur)}
      PROVE  \E r \in tempRoots \cup late : q \in Closure(r)
  <2>1. cur \in Name
    BY <1>1 DEF IInv, DeleteInv, Deleting
  <2>2. cur = PathOf(HashPart(cur)) /\ HashPart(cur) \in Object
    BY <1>1, <2>1 DEF InUse, Name, PathOf, HashPart
  <2>3. q \in OtherReferrers(HashPart(cur))
    BY <1>1 DEF OtherReferrers
  <2> QED  BY <1>1, <2>2, <2>3 DEF GInv, UseInv, Reached, Newcomers
<1>2. IInv /\ GInv => InUseOnlyByNewReferrer
  BY <1>1 DEF InUseOnlyByNewReferrer
<1> QED  BY <1>2, Invariance, CollectionInvariance, PTL

\* A full collection that comes to its end has removed all garbage, however
\* many objects there are, whatever refers to what and whatever was added
\* meanwhile.
THEOREM CollectionComplete == Spec => []CollectionIsComplete
<1>1. ASSUME IInv, GInv, gcpc = "stopping", opt.action = "gcDeleteDead", ~opt.specific,
             visited = {}, left \cap disk = {}, cur = NoName, NEW n \in disk
      PROVE  Covered(n)
  <2>1. n # NoName
    BY <1>1, NoObjectAssumption DEF IInv, TypeOK, Name, NoName
  <2>2. n \in alive \cup dead \/ Covered(n)
    BY <1>1 DEF GInv, DiskInv, WholeStoreRun, RootsRead, PermRootsRead, Sweeping
  <2>3. n \in dead => Covered(n)
    BY <1>1, <2>1 DEF GInv, DeadInv, WholeStoreRun
  <2>4. n \in alive => Covered(n)
    BY <1>1 DEF GInv, AliveInv
  <2> QED  BY <2>2, <2>3, <2>4
<1>2. IInv /\ GInv => CollectionIsComplete
  BY <1>1 DEF CollectionIsComplete, Covered, Newcomers
<1> QED  BY <1>2, Invariance, CollectionInvariance, PTL

===========================================================================
