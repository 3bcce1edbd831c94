-------------------------- MODULE PathLocks_proofs --------------------------
(***************************************************************************)
(* Proofs about PathLocks: mutual exclusion for any number of processes    *)
(* and paths, whether or not unlink() fails, provided that no process is   *)
(* killed between the unlink() and the write() of deleteLockFile(); and    *)
(* that every step of the lock files is a step of the lock table.          *)
(***************************************************************************)
EXTENDS PathLocks, TLAPS

\* Every file in fds is locked by its process, and is the file of one path.
HolderInv ==
  \A p \in Proc : \A x \in Path :
    fds[p][x] # NoInode =>
      /\ holder[fds[p][x]] = p
      /\ \A y \in Path : fds[p][y] = fds[p][x] => y = x

\* The lock file of a path that is owned is the linked one, and has no token.
OwnerInv ==
  \A p \in Proc : \A x \in Path :
    Owns(p, x) => link[x] = fds[p][x] /\ fds[p][x] \notin stale

\* A lock file is linked under one name.
LinkInv == \A x, y \in Path : link[x] = link[y] /\ link[x] # NoInode => x = y

\* What lockPaths() still has to lock is not locked.
TodoInv ==
  \A p \in Proc :
    /\ \A x \in toLock[p] : fds[p][x] = NoInode
    /\ pc[p] = "idle" => \A x \in Path : fds[p][x] = NoInode
    /\ pc[p] \in {"open", "flock", "check"} <=> toLock[p] # {}

\* The file that lockPaths() has opened.
FdInv ==
  \A p \in Proc :
    /\ pc[p] = "idle" => fd[p] = NoInode
    /\ pc[p] = "open" => fd[p] = NoInode \/ fd[p] \in stale
    /\ pc[p] \in {"flock", "check"} =>
         fd[p] \in Inode /\ \A x \in Path : fds[p][x] # fd[p]
    /\ pc[p] = "check" => holder[fd[p]] = p

\* A file that has been opened and carries no token is the linked one, unless
\* the process that has unlinked it has yet to write the token.
OpenedInv ==
  \A p \in Proc : \A x \in Path :
    /\ pc[p] \in {"flock", "check"}
    /\ fd[p] \notin stale
    /\ IsFirst(x, toLock[p])
    => \/ link[x] = fd[p]
       \/ \E q \in Proc : Releasing(q, x) /\ fds[q][x] = fd[p]

IInv == /\ LocksTypeOK
        /\ HolderInv
        /\ OwnerInv
        /\ LinkInv
        /\ TodoInv
        /\ FdInv
        /\ OpenedInv

-----------------------------------------------------------------------------
\* The loops over sorted paths have one next path.
LEMMA FirstIsUnique ==
  ASSUME NEW S \in SUBSET Path, NEW x, NEW y, IsFirst(x, S), IsFirst(y, S)
  PROVE  x = y
BY PathAssumption DEF IsFirst

\* The inductive invariant holds initially.
LEMMA IInvInit == LocksInit => IInv
BY NoProcAssumption, NoInodeAssumption
   DEF LocksInit, IInv, LocksTypeOK, PCs, HolderInv, OwnerInv, LinkInv, TodoInv, FdInv, OpenedInv,
       Owns, Releasing, Locked, IsFirst

\* Two owners of a path have the lock on the same file.
LEMMA Exclusion == IInv => MutualExclusion
BY DEF IInv, LocksTypeOK, HolderInv, OwnerInv, MutualExclusion, Owns
-----------------------------------------------------------------------------
(***************************************************************************)
(* Every step preserves the inductive invariant.                           *)
(***************************************************************************)
LEMMA IInvStep ==
  ASSUME "unlinked" \notin CrashPoints, IInv, [LocksNext]_lockVars
  PROVE  IInv'
<1> USE NoProcAssumption, NoInodeAssumption, CrashPointsAssumption DEF IInv, LocksTypeOK, PCs
<1>1. ASSUME NEW p \in Proc, NEW S \in SUBSET Path, NEW w \in BOOLEAN, Call(p, S, w)
      PROVE  IInv'
  <2>1. LocksTypeOK'
    BY <1>1 DEF Call
  <2>2. HolderInv'
    BY <1>1 DEF Call, HolderInv
  <2>3. OwnerInv'
    BY <1>1 DEF Call, OwnerInv, Owns, Releasing, Locked
  <2>4. LinkInv'
    BY <1>1 DEF Call, LinkInv
  <2>5. TodoInv'
    BY <1>1 DEF Call, TodoInv
  <2>6. FdInv'
    BY <1>1 DEF Call, FdInv
  <2>7. OpenedInv'
    <3> SUFFICES ASSUME NEW q \in Proc, NEW x \in Path,
                        pc'[q] \in {"flock", "check"}, fd'[q] \notin stale',
                        IsFirst(x, toLock'[q])
                 PROVE  \/ link'[x] = fd'[q]
                        \/ \E r \in Proc : Releasing(r, x)' /\ fds'[r][x] = fd'[q]
      BY DEF OpenedInv
    <3>1. q # p /\ fd'[q] = fd[q] /\ toLock'[q] = toLock[q] /\ pc'[q] = pc[q] /\ link' = link
      BY <1>1 DEF Call
    <3>2. fd[q] \notin stale
      BY <3>1, <1>1 DEF Call
    <3>3. ASSUME NEW r \in Proc, Releasing(r, x)
          PROVE  Releasing(r, x)' /\ fds'[r][x] = fds[r][x]
      <4>1. r # p /\ pc'[r] = pc[r] /\ fds'[r] = fds[r]
        BY <3>3, <1>1 DEF Call, Releasing
      <4> QED  BY <4>1, <3>3 DEF Releasing, Locked
    <3>4. link[x] = fd[q] \/ \E r \in Proc : Releasing(r, x) /\ fds[r][x] = fd[q]
      BY <3>1, <3>2 DEF OpenedInv
    <3> QED  BY <3>1, <3>3, <3>4
  <2> QED  BY <2>1, <2>2, <2>3, <2>4, <2>5, <2>6, <2>7
<1>2. ASSUME NEW p \in Proc, Open(p)
      PROVE  IInv'
  <2>1. LocksTypeOK'
    BY <1>2, SMTT(30) DEF Open, HolderAfterClose, Unused
  <2>2. HolderInv'
    BY <1>2 DEF Open, HolderInv, OwnerInv, LinkInv, TodoInv, FdInv, OpenedInv, Owns,
       Releasing, Locked, IsFirst, HolderAfterClose, Unused
  <2>3. OwnerInv'
    BY <1>2 DEF Open, OwnerInv, HolderInv, LinkInv, TodoInv, FdInv, OpenedInv, Owns,
       Releasing, Locked, IsFirst, HolderAfterClose, Unused
  <2>4. LinkInv'
    <3>1. PICK x \in toLock[p], i \in Inode :
            \/ link' = link
            \/ Unused(i) /\ link' = [link EXCEPT ![x] = i]
      BY <1>2 DEF Open
    <3> QED  BY <3>1 DEF LinkInv, Unused
  <2>5. TodoInv'
    BY <1>2 DEF Open, TodoInv, IsFirst, Locked, HolderAfterClose, Unused
  <2>6. FdInv'
    <3>1. PICK x \in toLock[p], i \in Inode :
            /\ \/ link[x] = i /\ stale' = stale
               \/ Unused(i) /\ stale' = stale \ {i}
            /\ fd' = [fd EXCEPT ![p] = i]
      BY <1>2 DEF Open
    <3>2. \A y \in Path : fds'[p][y] # fd'[p]
      <4>1. \A y \in Path : fds[p][y] # NoInode => link[y] = fds[p][y]
        BY <1>2 DEF Open, OwnerInv, Owns, Releasing
      <4>2. \A y \in Path : fds[p][y] # NoInode => y # x
        BY <1>2 DEF TodoInv
      <4> QED  BY <3>1, <4>1, <4>2, <1>2 DEF Open, LinkInv, Unused
    <3> SUFFICES ASSUME NEW q \in Proc, q # p
                 PROVE  /\ pc[q] = "idle" => fd[q] = NoInode
                        /\ pc[q] = "open" => fd[q] = NoInode \/ fd[q] \in stale'
                        /\ pc[q] \in {"flock", "check"} =>
                             fd[q] \in Inode /\ \A y \in Path : fds[q][y] # fd[q]
                        /\ pc[q] = "check" => holder'[fd[q]] = q
      <4>1. /\ pc' = [pc EXCEPT ![p] = "flock"] /\ fds' = fds
            /\ fd'[p] = i /\ \A q \in Proc : q # p => fd'[q] = fd[q]
        BY <3>1, <1>2 DEF Open
      <4>2. pc'[p] = "flock" /\ \A q \in Proc : q # p => pc'[q] = pc[q]
        BY <4>1
      <4> QED  BY <3>2, <4>1, <4>2 DEF FdInv
    <3> QED  BY <3>1, <1>2 DEF Open, FdInv, Unused, HolderAfterClose
  <2>7. OpenedInv'
    <3> SUFFICES ASSUME NEW q \in Proc, NEW x \in Path,
                        pc'[q] \in {"flock", "check"}, fd'[q] \notin stale',
                        IsFirst(x, toLock'[q])
                 PROVE  \/ link'[x] = fd'[q]
                        \/ \E r \in Proc : Releasing(r, x)' /\ fds'[r][x] = fd'[q]
      BY DEF OpenedInv
    <3>1. CASE q = p
      BY <3>1, <1>2, FirstIsUnique DEF Open
    <3>2. CASE q # p
      <4>1. fd'[q] = fd[q] /\ toLock'[q] = toLock[q] /\ pc'[q] = pc[q] /\ fds' = fds
        BY <3>2, <1>2 DEF Open
      <4>2. fd[q] \notin stale /\ (link[x] = fd[q] => link'[x] = fd[q])
        BY <4>1, <1>2 DEF Open, Unused, FdInv
      <4>3. ASSUME NEW r \in Proc, Releasing(r, x)
            PROVE  Releasing(r, x)'
        BY <4>3, <1>2 DEF Open, Releasing, Locked
      <4> QED  BY <4>1, <4>2, <4>3 DEF OpenedInv
    <3> QED  BY <3>1, <3>2
  <2> QED  BY <2>1, <2>2, <2>3, <2>4, <2>5, <2>6, <2>7
<1>3. ASSUME NEW p \in Proc, Flock(p)
      PROVE  IInv'
  <2>1. LocksTypeOK'
    BY <1>3 DEF Flock
  <2>2. HolderInv'
    BY <1>3 DEF Flock, HolderInv, OwnerInv, LinkInv, TodoInv, FdInv, OpenedInv, Owns,
       Releasing, Locked, IsFirst
  <2>3. OwnerInv'
    BY <1>3 DEF Flock, OwnerInv, HolderInv, LinkInv, TodoInv, FdInv, OpenedInv, Owns,
       Releasing, Locked, IsFirst
  <2>4. LinkInv'
    BY <1>3 DEF Flock, LinkInv
  <2>5. TodoInv'
    BY <1>3 DEF Flock, TodoInv, IsFirst, Locked
  <2>6. FdInv'
    BY <1>3 DEF Flock, FdInv, OwnerInv, HolderInv
  <2>7. OpenedInv'
    <3> SUFFICES ASSUME NEW q \in Proc, NEW x \in Path,
                        pc'[q] \in {"flock", "check"}, fd'[q] \notin stale',
                        IsFirst(x, toLock'[q])
                 PROVE  \/ link'[x] = fd'[q]
                        \/ \E r \in Proc : Releasing(r, x)' /\ fds'[r][x] = fd'[q]
      BY DEF OpenedInv
    <3>1. fd'[q] = fd[q] /\ toLock'[q] = toLock[q] /\ pc[q] \in {"flock", "check"} /\ link' = link
      BY <1>3 DEF Flock
    <3>2. fd[q] \notin stale
      BY <3>1, <1>3 DEF Flock
    <3>3. ASSUME NEW r \in Proc, Releasing(r, x)
          PROVE  Releasing(r, x)' /\ fds'[r][x] = fds[r][x]
      <4>1. r # p /\ pc'[r] = pc[r] /\ fds'[r] = fds[r]
        BY <3>3, <1>3 DEF Flock, Releasing
      <4> QED  BY <4>1, <3>3 DEF Releasing, Locked
    <3>4. link[x] = fd[q] \/ \E r \in Proc : Releasing(r, x) /\ fds[r][x] = fd[q]
      BY <3>1, <3>2 DEF OpenedInv
    <3> QED  BY <3>1, <3>3, <3>4
  <2> QED  BY <2>1, <2>2, <2>3, <2>4, <2>5, <2>6, <2>7
<1>4. ASSUME NEW p \in Proc, FlockBusy(p)
      PROVE  IInv'
  <2>1. LocksTypeOK'
    BY <1>4 DEF FlockBusy
  <2>2. HolderInv'
    BY <1>4 DEF FlockBusy, HolderInv
  <2>3. OwnerInv'
    BY <1>4 DEF FlockBusy, OwnerInv, Owns, Releasing, Locked
  <2>4. LinkInv'
    BY <1>4 DEF FlockBusy, LinkInv
  <2>5. TodoInv'
    BY <1>4 DEF FlockBusy, TodoInv
  <2>6. FdInv'
    BY <1>4 DEF FlockBusy, FdInv
  <2>7. OpenedInv'
    <3> SUFFICES ASSUME NEW q \in Proc, NEW x \in Path,
                        pc'[q] \in {"flock", "check"}, fd'[q] \notin stale',
                        IsFirst(x, toLock'[q])
                 PROVE  \/ link'[x] = fd'[q]
                        \/ \E r \in Proc : Releasing(r, x)' /\ fds'[r][x] = fd'[q]
      BY DEF OpenedInv
    <3>1. q # p /\ fd'[q] = fd[q] /\ toLock'[q] = toLock[q] /\ pc'[q] = pc[q] /\ link' = link
      BY <1>4 DEF FlockBusy
    <3>2. fd[q] \notin stale
      BY <3>1, <1>4 DEF FlockBusy
    <3>3. ASSUME NEW r \in Proc, Releasing(r, x)
          PROVE  Releasing(r, x)' /\ fds'[r][x] = fds[r][x]
      <4>1. r # p /\ pc'[r] = pc[r] /\ fds'[r] = fds[r]
        BY <3>3, <1>4 DEF FlockBusy, Releasing
      <4> QED  BY <4>1, <3>3 DEF Releasing, Locked
    <3>4. link[x] = fd[q] \/ \E r \in Proc : Releasing(r, x) /\ fds[r][x] = fd[q]
      BY <3>1, <3>2 DEF OpenedInv
    <3> QED  BY <3>1, <3>3, <3>4
  <2> QED  BY <2>1, <2>2, <2>3, <2>4, <2>5, <2>6, <2>7
<1>5. ASSUME NEW p \in Proc, Throws(p)
      PROVE  IInv'
  <2>1. LocksTypeOK'
    BY <1>5 DEF Throws, HolderAfterClose
  <2>2. HolderInv'
    <3>0. fds' = fds
      BY <1>5 DEF Throws
    <3> SUFFICES ASSUME NEW q \in Proc, NEW x \in Path, fds[q][x] # NoInode
                 PROVE  holder'[fds[q][x]] = q
      BY <3>0 DEF HolderInv
    <3>1. holder[fds[q][x]] = q /\ fds[q][x] \in Inode
      BY DEF HolderInv
    <3>2. CASE q # p
      BY <3>1, <3>2, <1>5 DEF Throws, HolderAfterClose
    <3>3. CASE q = p
      <4>1. Owns(p, x)
        BY <3>3, <1>5 DEF Throws, Owns, Releasing
      <4>2. link[x] = fds[p][x] /\ fds[p][x] \notin stale
        BY <4>1 DEF OwnerInv
      <4>3. fd[p] # fds[p][x]
        <5>1. CASE pc[p] = "open"
          BY <5>1, <4>2, <3>1, <3>3 DEF FdInv
        <5>2. CASE pc[p] = "flock"
          BY <5>2 DEF FdInv
        <5> QED  BY <5>1, <5>2, <1>5 DEF Throws
      <4> QED  BY <4>3, <3>1, <3>3, <1>5 DEF Throws, HolderAfterClose
    <3> QED  BY <3>2, <3>3
  <2>3. OwnerInv'
    BY <1>5, FirstIsUnique DEF Throws, OwnerInv, HolderInv, LinkInv, TodoInv, FdInv,
       OpenedInv, Owns, Releasing, Locked, IsFirst, HolderAfterClose
  <2>4. LinkInv'
    BY <1>5 DEF Throws, LinkInv, HolderAfterClose
  <2>5. TodoInv'
    BY <1>5 DEF Throws, TodoInv, IsFirst, Locked, HolderAfterClose
  <2>6. FdInv'
    BY <1>5 DEF Throws, FdInv, OwnerInv, HolderInv, HolderAfterClose
  <2>7. OpenedInv'
    <3> SUFFICES ASSUME NEW q \in Proc, NEW x \in Path,
                        pc'[q] \in {"flock", "check"}, fd'[q] \notin stale',
                        IsFirst(x, toLock'[q])
                 PROVE  \/ link'[x] = fd'[q]
                        \/ \E r \in Proc : Releasing(r, x)' /\ fds'[r][x] = fd'[q]
      BY DEF OpenedInv
    <3>1. q # p /\ fd'[q] = fd[q] /\ toLock'[q] = toLock[q] /\ pc'[q] = pc[q] /\ link' = link
      BY <1>5 DEF Throws
    <3>2. fd[q] \notin stale
      BY <3>1, <1>5 DEF Throws
    <3>3. ASSUME NEW r \in Proc, Releasing(r, x)
          PROVE  Releasing(r, x)' /\ fds'[r][x] = fds[r][x]
      <4>1. r # p /\ pc'[r] = pc[r] /\ fds'[r] = fds[r]
        BY <3>3, <1>5 DEF Throws, Releasing
      <4> QED  BY <4>1, <3>3 DEF Releasing, Locked
    <3>4. link[x] = fd[q] \/ \E r \in Proc : Releasing(r, x) /\ fds[r][x] = fd[q]
      BY <3>1, <3>2 DEF OpenedInv
    <3> QED  BY <3>1, <3>3, <3>4
  <2> QED  BY <2>1, <2>2, <2>3, <2>4, <2>5, <2>6, <2>7
<1>6. ASSUME NEW p \in Proc, CheckStale(p)
      PROVE  IInv'
  <2>1. LocksTypeOK'
    BY <1>6 DEF CheckStale
  <2>2. HolderInv'
    BY <1>6 DEF CheckStale, HolderInv
  <2>3. OwnerInv'
    BY <1>6 DEF CheckStale, OwnerInv, Owns, Releasing, Locked
  <2>4. LinkInv'
    BY <1>6 DEF CheckStale, LinkInv
  <2>5. TodoInv'
    BY <1>6 DEF CheckStale, TodoInv
  <2>6. FdInv'
    BY <1>6 DEF CheckStale, FdInv
  <2>7. OpenedInv'
    <3> SUFFICES ASSUME NEW q \in Proc, NEW x \in Path,
                        pc'[q] \in {"flock", "check"}, fd'[q] \notin stale',
                        IsFirst(x, toLock'[q])
                 PROVE  \/ link'[x] = fd'[q]
                        \/ \E r \in Proc : Releasing(r, x)' /\ fds'[r][x] = fd'[q]
      BY DEF OpenedInv
    <3>1. q # p /\ fd'[q] = fd[q] /\ toLock'[q] = toLock[q] /\ pc'[q] = pc[q] /\ link' = link
      BY <1>6 DEF CheckStale
    <3>2. fd[q] \notin stale
      BY <3>1, <1>6 DEF CheckStale
    <3>3. ASSUME NEW r \in Proc, Releasing(r, x)
          PROVE  Releasing(r, x)' /\ fds'[r][x] = fds[r][x]
      <4>1. r # p /\ pc'[r] = pc[r] /\ fds'[r] = fds[r]
        BY <3>3, <1>6 DEF CheckStale, Releasing
      <4> QED  BY <4>1, <3>3 DEF Releasing, Locked
    <3>4. link[x] = fd[q] \/ \E r \in Proc : Releasing(r, x) /\ fds[r][x] = fd[q]
      BY <3>1, <3>2 DEF OpenedInv
    <3> QED  BY <3>1, <3>3, <3>4
  <2> QED  BY <2>1, <2>2, <2>3, <2>4, <2>5, <2>6, <2>7
<1>7. ASSUME NEW p \in Proc, CheckGood(p)
      PROVE  IInv'
  <2>1. LocksTypeOK'
    BY <1>7 DEF CheckGood
  <2>2. HolderInv'
    BY <1>7, FirstIsUnique DEF CheckGood, HolderInv, OwnerInv, LinkInv, TodoInv,
       FdInv, OpenedInv, Owns, Releasing, Locked, IsFirst
  <2>3. OwnerInv'
    BY <1>7, FirstIsUnique DEF CheckGood, OwnerInv, HolderInv, LinkInv, TodoInv,
       FdInv, OpenedInv, Owns, Releasing, Locked, IsFirst
  <2>4. LinkInv'
    BY <1>7 DEF CheckGood, LinkInv
  <2>5. TodoInv'
    BY <1>7 DEF CheckGood, TodoInv, IsFirst, Locked
  <2>6. FdInv'
    BY <1>7 DEF CheckGood, FdInv, OwnerInv, HolderInv
  <2>7. OpenedInv'
    <3> SUFFICES ASSUME NEW q \in Proc, NEW x \in Path,
                        pc'[q] \in {"flock", "check"}, fd'[q] \notin stale',
                        IsFirst(x, toLock'[q])
                 PROVE  \/ link'[x] = fd'[q]
                        \/ \E r \in Proc : Releasing(r, x)' /\ fds'[r][x] = fd'[q]
      BY DEF OpenedInv
    <3>1. q # p /\ fd'[q] = fd[q] /\ toLock'[q] = toLock[q] /\ pc'[q] = pc[q] /\ link' = link
      BY <1>7 DEF CheckGood
    <3>2. fd[q] \notin stale
      BY <3>1, <1>7 DEF CheckGood
    <3>3. ASSUME NEW r \in Proc, Releasing(r, x)
          PROVE  Releasing(r, x)' /\ fds'[r][x] = fds[r][x]
      <4>1. r # p /\ pc'[r] = pc[r] /\ fds'[r] = fds[r]
        BY <3>3, <1>7 DEF CheckGood, Releasing
      <4> QED  BY <4>1, <3>3 DEF Releasing, Locked
    <3>4. link[x] = fd[q] \/ \E r \in Proc : Releasing(r, x) /\ fds[r][x] = fd[q]
      BY <3>1, <3>2 DEF OpenedInv
    <3> QED  BY <3>1, <3>3, <3>4
  <2> QED  BY <2>1, <2>2, <2>3, <2>4, <2>5, <2>6, <2>7
<1>8. ASSUME NEW p \in Proc, SetDeletion(p)
      PROVE  IInv'
  <2>1. LocksTypeOK'
    BY <1>8 DEF SetDeletion
  <2>2. HolderInv'
    BY <1>8 DEF SetDeletion, HolderInv
  <2>3. OwnerInv'
    BY <1>8 DEF SetDeletion, OwnerInv, Owns, Releasing, Locked
  <2>4. LinkInv'
    BY <1>8 DEF SetDeletion, LinkInv
  <2>5. TodoInv'
    BY <1>8 DEF SetDeletion, TodoInv
  <2>6. FdInv'
    BY <1>8 DEF SetDeletion, FdInv
  <2>7. OpenedInv'
    <3> SUFFICES ASSUME NEW q \in Proc, NEW x \in Path,
                        pc'[q] \in {"flock", "check"}, fd'[q] \notin stale',
                        IsFirst(x, toLock'[q])
                 PROVE  \/ link'[x] = fd'[q]
                        \/ \E r \in Proc : Releasing(r, x)' /\ fds'[r][x] = fd'[q]
      BY DEF OpenedInv
    <3>1. q # p /\ fd'[q] = fd[q] /\ toLock'[q] = toLock[q] /\ pc'[q] = pc[q] /\ link' = link
      BY <1>8 DEF SetDeletion
    <3>2. fd[q] \notin stale
      BY <3>1, <1>8 DEF SetDeletion
    <3>3. ASSUME NEW r \in Proc, Releasing(r, x)
          PROVE  Releasing(r, x)' /\ fds'[r][x] = fds[r][x]
      <4>1. r # p /\ pc'[r] = pc[r] /\ fds'[r] = fds[r]
        BY <3>3, <1>8 DEF SetDeletion, Releasing
      <4> QED  BY <4>1, <3>3 DEF Releasing, Locked
    <3>4. link[x] = fd[q] \/ \E r \in Proc : Releasing(r, x) /\ fds[r][x] = fd[q]
      BY <3>1, <3>2 DEF OpenedInv
    <3> QED  BY <3>1, <3>3, <3>4
  <2> QED  BY <2>1, <2>2, <2>3, <2>4, <2>5, <2>6, <2>7
<1>9. ASSUME NEW p \in Proc, UnlockPaths(p)
      PROVE  IInv'
  <2>1. LocksTypeOK'
    BY <1>9 DEF UnlockPaths
  <2>2. HolderInv'
    BY <1>9 DEF UnlockPaths, HolderInv
  <2>3. OwnerInv'
    BY <1>9 DEF UnlockPaths, OwnerInv, Owns, Releasing, Locked
  <2>4. LinkInv'
    BY <1>9 DEF UnlockPaths, LinkInv
  <2>5. TodoInv'
    BY <1>9 DEF UnlockPaths, TodoInv
  <2>6. FdInv'
    BY <1>9 DEF UnlockPaths, FdInv
  <2>7. OpenedInv'
    <3> SUFFICES ASSUME NEW q \in Proc, NEW x \in Path,
                        pc'[q] \in {"flock", "check"}, fd'[q] \notin stale',
                        IsFirst(x, toLock'[q])
                 PROVE  \/ link'[x] = fd'[q]
                        \/ \E r \in Proc : Releasing(r, x)' /\ fds'[r][x] = fd'[q]
      BY DEF OpenedInv
    <3>1. q # p /\ fd'[q] = fd[q] /\ toLock'[q] = toLock[q] /\ pc'[q] = pc[q] /\ link' = link
      BY <1>9 DEF UnlockPaths
    <3>2. fd[q] \notin stale
      BY <3>1, <1>9 DEF UnlockPaths
    <3>3. ASSUME NEW r \in Proc, Releasing(r, x)
          PROVE  Releasing(r, x)' /\ fds'[r][x] = fds[r][x]
      <4>1. r # p /\ pc'[r] = pc[r] /\ fds'[r] = fds[r]
        BY <3>3, <1>9 DEF UnlockPaths, Releasing
      <4> QED  BY <4>1, <3>3 DEF Releasing, Locked
    <3>4. link[x] = fd[q] \/ \E r \in Proc : Releasing(r, x) /\ fds[r][x] = fd[q]
      BY <3>1, <3>2 DEF OpenedInv
    <3> QED  BY <3>1, <3>3, <3>4
  <2> QED  BY <2>1, <2>2, <2>3, <2>4, <2>5, <2>6, <2>7
<1>10. ASSUME NEW p \in Proc, Close(p)
      PROVE  IInv'
  <2>1. LocksTypeOK'
    BY <1>10 DEF Close, Locked, HolderAfterClose
  <2>2. HolderInv'
    BY <1>10, FirstIsUnique DEF Close, HolderInv, OwnerInv, LinkInv, TodoInv, FdInv,
       OpenedInv, Owns, Releasing, Locked, IsFirst, HolderAfterClose
  <2>3. OwnerInv'
    BY <1>10, FirstIsUnique DEF Close, OwnerInv, HolderInv, LinkInv, TodoInv, FdInv,
       OpenedInv, Owns, Releasing, Locked, IsFirst, HolderAfterClose
  <2>4. LinkInv'
    BY <1>10 DEF Close, LinkInv, HolderAfterClose
  <2>5. TodoInv'
    BY <1>10 DEF Close, TodoInv, IsFirst, Locked, HolderAfterClose
  <2>6. FdInv'
    BY <1>10 DEF Close, FdInv, OwnerInv, HolderInv, HolderAfterClose
  <2>7. OpenedInv'
    <3> SUFFICES ASSUME NEW q \in Proc, NEW x \in Path,
                        pc'[q] \in {"flock", "check"}, fd'[q] \notin stale',
                        IsFirst(x, toLock'[q])
                 PROVE  \/ link'[x] = fd'[q]
                        \/ \E r \in Proc : Releasing(r, x)' /\ fds'[r][x] = fd'[q]
      BY DEF OpenedInv
    <3>1. q # p /\ fd'[q] = fd[q] /\ toLock'[q] = toLock[q] /\ pc'[q] = pc[q] /\ link' = link
      BY <1>10 DEF Close
    <3>2. fd[q] \notin stale
      BY <3>1, <1>10 DEF Close
    <3>3. ASSUME NEW r \in Proc, Releasing(r, x)
          PROVE  Releasing(r, x)' /\ fds'[r][x] = fds[r][x]
      <4>1. r # p /\ pc'[r] = pc[r] /\ fds'[r] = fds[r]
        BY <3>3, <1>10 DEF Close, Releasing, Locked
      <4> QED  BY <4>1, <3>3 DEF Releasing, Locked
    <3>4. link[x] = fd[q] \/ \E r \in Proc : Releasing(r, x) /\ fds[r][x] = fd[q]
      BY <3>1, <3>2 DEF OpenedInv
    <3> QED  BY <3>1, <3>3, <3>4
  <2> QED  BY <2>1, <2>2, <2>3, <2>4, <2>5, <2>6, <2>7
<1>11. ASSUME NEW p \in Proc, Unlink(p)
      PROVE  IInv'
  <2>1. LocksTypeOK'
    BY <1>11 DEF Unlink, Locked
  <2>2. HolderInv'
    BY <1>11, FirstIsUnique DEF Unlink, HolderInv, OwnerInv, LinkInv, TodoInv, FdInv,
       OpenedInv, Owns, Releasing, Locked, IsFirst
  <2>3. OwnerInv'
    BY <1>11, FirstIsUnique DEF Unlink, OwnerInv, HolderInv, LinkInv, TodoInv, FdInv,
       OpenedInv, Owns, Releasing, Locked, IsFirst
  <2>4. LinkInv'
    BY <1>11 DEF Unlink, LinkInv
  <2>5. TodoInv'
    BY <1>11 DEF Unlink, TodoInv, IsFirst, Locked
  <2>6. FdInv'
    BY <1>11 DEF Unlink, FdInv, OwnerInv, HolderInv
  <2>7. OpenedInv'
    <3> SUFFICES ASSUME NEW q \in Proc, NEW x \in Path,
                        pc'[q] \in {"flock", "check"}, fd'[q] \notin stale',
                        IsFirst(x, toLock'[q])
                 PROVE  \/ link'[x] = fd'[q]
                        \/ \E r \in Proc : Releasing(r, x)' /\ fds'[r][x] = fd'[q]
      BY DEF OpenedInv
    <3>1. q # p /\ fd'[q] = fd[q] /\ toLock'[q] = toLock[q] /\ pc'[q] = pc[q] /\ fds' = fds
      BY <1>11 DEF Unlink
    <3>2. PICK y \in Locked(p) : /\ IsFirst(y, Locked(p))
                                /\ \/ link' = [link EXCEPT ![y] = NoInode]
                                   \/ link' = link
      BY <1>11 DEF Unlink
    <3>3. link[y] = fds[p][y] /\ Releasing(p, y)'
      <4>1. ~Releasing(p, y) /\ fds[p][y] # NoInode /\ y \in Path
        BY <3>2, <1>11 DEF Unlink, Releasing, Locked
      <4>2. pc'[p] = "unlinked" /\ Locked(p)' = Locked(p)
        BY <1>11 DEF Unlink, Locked
      <4>3. Releasing(p, y)'
        BY <3>2, <4>2 DEF Releasing
      <4> QED  BY <4>1, <4>3 DEF OwnerInv, Owns
    <3>4. link[x] = fd[q] => link'[x] = fd[q] \/ x = y
      BY <3>2 DEF Locked
    <3>5. ASSUME NEW r \in Proc, Releasing(r, x)
          PROVE  Releasing(r, x)'
      BY <3>5, <1>11 DEF Unlink, Releasing, Locked
    <3> QED  BY <3>1, <3>3, <3>4, <3>5, <1>11 DEF OpenedInv, Unlink
  <2> QED  BY <2>1, <2>2, <2>3, <2>4, <2>5, <2>6, <2>7
<1>12. ASSUME NEW p \in Proc, WriteToken(p)
      PROVE  IInv'
  <2>1. LocksTypeOK'
    BY <1>12 DEF WriteToken, Locked, HolderAfterClose
  <2>2. HolderInv'
    BY <1>12, FirstIsUnique DEF WriteToken, HolderInv, OwnerInv, LinkInv, TodoInv,
       FdInv, OpenedInv, Owns, Releasing, Locked, IsFirst, HolderAfterClose
  <2>3. OwnerInv'
    <3>1. PICK y \in Locked(p) :
            /\ IsFirst(y, Locked(p))
            /\ stale' = stale \cup {fds[p][y]}
            /\ fds' = [fds EXCEPT ![p][y] = NoInode]
      BY <1>12 DEF WriteToken
    <3> SUFFICES ASSUME NEW q \in Proc, NEW x \in Path, Owns(q, x)'
                 PROVE  link'[x] = fds'[q][x] /\ fds'[q][x] \notin stale'
      BY DEF OwnerInv
    <3>2. fds'[q][x] = fds[q][x] /\ fds[q][x] # NoInode /\ (q = p => x # y)
      BY <3>1 DEF Owns, Locked
    <3>3. Owns(q, x)
      <4>1. CASE q = p
        BY <4>1, <3>1, <3>2, FirstIsUnique DEF Owns, Releasing, Locked
      <4>2. CASE q # p
        <5>1. pc'[q] = pc[q] /\ fds'[q] = fds[q]
          BY <4>2, <1>12, <3>1 DEF WriteToken, Locked
        <5> QED  BY <5>1 DEF Owns, Releasing, Locked
      <4> QED  BY <4>1, <4>2
    <3>4. fds[q][x] # fds[p][y]
      BY <3>1, <3>2 DEF HolderInv, Locked
    <3> QED  BY <3>1, <3>2, <3>3, <3>4, <1>12 DEF OwnerInv, WriteToken
  <2>4. LinkInv'
    BY <1>12 DEF WriteToken, LinkInv, HolderAfterClose
  <2>5. TodoInv'
    BY <1>12 DEF WriteToken, TodoInv, IsFirst, Locked, HolderAfterClose
  <2>6. FdInv'
    BY <1>12 DEF WriteToken, FdInv, OwnerInv, HolderInv, HolderAfterClose
  <2>7. OpenedInv'
    <3> SUFFICES ASSUME NEW q \in Proc, NEW x \in Path,
                        pc'[q] \in {"flock", "check"}, fd'[q] \notin stale',
                        IsFirst(x, toLock'[q])
                 PROVE  \/ link'[x] = fd'[q]
                        \/ \E r \in Proc : Releasing(r, x)' /\ fds'[r][x] = fd'[q]
      BY DEF OpenedInv
    <3>1. q # p /\ fd'[q] = fd[q] /\ toLock'[q] = toLock[q] /\ pc'[q] = pc[q] /\ link' = link
      BY <1>12 DEF WriteToken
    <3>2. fd[q] \notin stale
      BY <3>1, <1>12 DEF WriteToken
    <3>3. ASSUME NEW r \in Proc, Releasing(r, x), fds[r][x] = fd[q]
          PROVE  Releasing(r, x)' /\ fds'[r][x] = fds[r][x]
      <4>1. r # p
        <5>1. PICK y \in Locked(p) : IsFirst(y, Locked(p)) /\ stale' = stale \cup {fds[p][y]}
          BY <1>12 DEF WriteToken
        <5>2. fd[q] # fds[p][y]
          BY <3>1, <5>1
        <5>3. r = p => x = y
          BY <3>3, <5>1, FirstIsUnique DEF Releasing, Locked
        <5> QED  BY <3>3, <5>2, <5>3
      <4>2. pc'[r] = pc[r] /\ fds'[r] = fds[r]
        BY <4>1, <1>12 DEF WriteToken, Locked
      <4> QED  BY <4>2, <3>3 DEF Releasing, Locked
    <3>4. link[x] = fd[q] \/ \E r \in Proc : Releasing(r, x) /\ fds[r][x] = fd[q]
      BY <3>1, <3>2 DEF OpenedInv
    <3> QED  BY <3>1, <3>3, <3>4
  <2> QED  BY <2>1, <2>2, <2>3, <2>4, <2>5, <2>6, <2>7
<1>13. ASSUME NEW p \in Proc, UnlockDone(p)
      PROVE  IInv'
  <2>1. LocksTypeOK'
    BY <1>13 DEF UnlockDone
  <2>2. HolderInv'
    BY <1>13 DEF UnlockDone, HolderInv
  <2>3. OwnerInv'
    BY <1>13 DEF UnlockDone, OwnerInv, Owns, Releasing, Locked
  <2>4. LinkInv'
    BY <1>13 DEF UnlockDone, LinkInv
  <2>5. TodoInv'
    BY <1>13 DEF UnlockDone, TodoInv, Locked
  <2>6. FdInv'
    BY <1>13 DEF UnlockDone, FdInv
  <2>7. OpenedInv'
    <3> SUFFICES ASSUME NEW q \in Proc, NEW x \in Path,
                        pc'[q] \in {"flock", "check"}, fd'[q] \notin stale',
                        IsFirst(x, toLock'[q])
                 PROVE  \/ link'[x] = fd'[q]
                        \/ \E r \in Proc : Releasing(r, x)' /\ fds'[r][x] = fd'[q]
      BY DEF OpenedInv
    <3>1. q # p /\ fd'[q] = fd[q] /\ toLock'[q] = toLock[q] /\ pc'[q] = pc[q] /\ link' = link
      BY <1>13 DEF UnlockDone
    <3>2. fd[q] \notin stale
      BY <3>1, <1>13 DEF UnlockDone
    <3>3. ASSUME NEW r \in Proc, Releasing(r, x)
          PROVE  Releasing(r, x)' /\ fds'[r][x] = fds[r][x]
      <4>1. r # p /\ pc'[r] = pc[r] /\ fds'[r] = fds[r]
        BY <3>3, <1>13 DEF UnlockDone, Releasing
      <4> QED  BY <4>1, <3>3 DEF Releasing, Locked
    <3>4. link[x] = fd[q] \/ \E r \in Proc : Releasing(r, x) /\ fds[r][x] = fd[q]
      BY <3>1, <3>2 DEF OpenedInv
    <3> QED  BY <3>1, <3>3, <3>4
  <2> QED  BY <2>1, <2>2, <2>3, <2>4, <2>5, <2>6, <2>7
<1>14. ASSUME NEW p \in Proc, Crash(p)
      PROVE  IInv'
  <2>1. LocksTypeOK'
    BY <1>14 DEF Crash, HolderAfterClose
  <2>2. HolderInv'
    BY <1>14 DEF Crash, HolderInv, OwnerInv, LinkInv, TodoInv, FdInv, OpenedInv, Owns,
       Releasing, Locked, IsFirst, HolderAfterClose
  <2>3. OwnerInv'
    BY <1>14 DEF Crash, OwnerInv, HolderInv, LinkInv, TodoInv, FdInv, OpenedInv, Owns,
       Releasing, Locked, IsFirst, HolderAfterClose
  <2>4. LinkInv'
    BY <1>14 DEF Crash, LinkInv, HolderAfterClose
  <2>5. TodoInv'
    BY <1>14 DEF Crash, TodoInv, IsFirst, Locked, HolderAfterClose
  <2>6. FdInv'
    BY <1>14 DEF Crash, FdInv, OwnerInv, HolderInv, HolderAfterClose
  <2>7. OpenedInv'
    <3> SUFFICES ASSUME NEW q \in Proc, NEW x \in Path,
                        pc'[q] \in {"flock", "check"}, fd'[q] \notin stale',
                        IsFirst(x, toLock'[q])
                 PROVE  \/ link'[x] = fd'[q]
                        \/ \E r \in Proc : Releasing(r, x)' /\ fds'[r][x] = fd'[q]
      BY DEF OpenedInv
    <3>1. q # p /\ fd'[q] = fd[q] /\ toLock'[q] = toLock[q] /\ pc'[q] = pc[q] /\ link' = link
      BY <1>14 DEF Crash
    <3>2. fd[q] \notin stale
      BY <3>1, <1>14 DEF Crash
    <3>3. ASSUME NEW r \in Proc, Releasing(r, x)
          PROVE  Releasing(r, x)' /\ fds'[r][x] = fds[r][x]
      <4>1. r # p /\ pc'[r] = pc[r] /\ fds'[r] = fds[r]
        BY <3>3, <1>14 DEF Crash, Releasing
      <4> QED  BY <4>1, <3>3 DEF Releasing, Locked
    <3>4. link[x] = fd[q] \/ \E r \in Proc : Releasing(r, x) /\ fds[r][x] = fd[q]
      BY <3>1, <3>2 DEF OpenedInv
    <3> QED  BY <3>1, <3>3, <3>4
  <2> QED  BY <2>1, <2>2, <2>3, <2>4, <2>5, <2>6, <2>7
<1>15. CASE UNCHANGED lockVars
  <2>1. \A r \in Proc, x \in Path : Releasing(r, x)' = Releasing(r, x)
    BY <1>15 DEF lockVars, Releasing, Locked
  <2>2. \A r \in Proc, x \in Path : Owns(r, x)' = Owns(r, x)
    BY <1>15, <2>1 DEF lockVars, Owns
  <2>3. OwnerInv' /\ OpenedInv'
    BY <1>15, <2>1, <2>2 DEF lockVars, OwnerInv, OpenedInv
  <2> QED
    BY <1>15, <2>3 DEF lockVars, HolderInv, LinkInv, TodoInv, FdInv
<1> HIDE DEF IInv, LocksTypeOK, PCs
<1> QED
  BY <1>1, <1>2, <1>3, <1>4, <1>5, <1>6, <1>7, <1>8, <1>9, <1>10, <1>11,
     <1>12, <1>13, <1>14, <1>15
     DEF LocksNext, Step

\* The inductive invariant of the lock files (pathlocks.cc:71-144).
THEOREM Invariance ==
  ASSUME "unlinked" \notin CrashPoints
  PROVE  LocksSpec => []IInv
BY IInvInit, IInvStep, PTL DEF LocksSpec

\* The variables keep their types.
THEOREM TypeCorrect ==
  ASSUME "unlinked" \notin CrashPoints
  PROVE  LocksSpec => []LocksTypeOK
BY Invariance, PTL DEF IInv

\* Two processes never own the lock of one path, for any number of processes
\* and paths, although lock files are deleted and re-created under them.
THEOREM MutuallyExclusive ==
  ASSUME "unlinked" \notin CrashPoints
  PROVE  LocksSpec => []MutualExclusion
BY Invariance, Exclusion, PTL

-----------------------------------------------------------------------------
(***************************************************************************)
(* Every step of the lock files is a step of the lock table.               *)
(***************************************************************************)

\* The owner of a path is the one process that owns it, before a step ...
LEMMA OwnerBefore ==
  ASSUME IInv, NEW x \in Path
  PROVE  /\ \A p \in Proc : Owns(p, x) => OwnerOf(x) = p
         /\ (\A p \in Proc : ~Owns(p, x)) => OwnerOf(x) = NoProc
<1>1. \A p, q \in Proc : Owns(p, x) /\ Owns(q, x) => p = q
  BY Exclusion DEF MutualExclusion
<1> QED  BY <1>1 DEF OwnerOf

\* ... and after it.
LEMMA OwnerAfter ==
  ASSUME IInv', NEW x \in Path
  PROVE  /\ \A p \in Proc : Owns(p, x)' => OwnerOf(x)' = p
         /\ (\A p \in Proc : ~Owns(p, x)') => OwnerOf(x)' = NoProc
<1>1. MutualExclusion'
  BY Exclusion, PTL
<1>2. \A p, q \in Proc : Owns(p, x)' /\ Owns(q, x)' => p = q
  BY <1>1 DEF MutualExclusion, Owns, Releasing, Locked
<1> QED  BY <1>2 DEF OwnerOf

\* What is owned by the same process before and after has the same owner.
LEMMA SameOwner ==
  ASSUME IInv, IInv', NEW x \in Path, \A p \in Proc : Owns(p, x)' <=> Owns(p, x)
  PROVE  OwnerOf(x)' = OwnerOf(x)
BY OwnerBefore, OwnerAfter

Owners == [x \in Path |-> OwnerOf(x)]

\* A step after which everybody owns what they owned.
LEMMA OwnersKept ==
  ASSUME IInv, IInv', \A p \in Proc, x \in Path : Owns(p, x)' <=> Owns(p, x)
  PROVE  UNCHANGED Owners
BY SameOwner DEF Owners

\* A step after which p owns x, which nobody owned.
LEMMA OwnersAcquire ==
  ASSUME IInv, IInv', NEW p \in Proc, NEW x \in Path,
         Owns(p, x)', \A q \in Proc : ~Owns(q, x),
         \A q \in Proc, y \in Path : y # x => (Owns(q, y)' <=> Owns(q, y))
  PROVE  Table!Acquire(p, x)
<1>1. OwnerOf(x) = NoProc /\ OwnerOf(x)' = p
  BY OwnerBefore, OwnerAfter
<1>2. \A y \in Path : y # x => OwnerOf(y)' = OwnerOf(y)
  BY SameOwner
<1> QED  BY <1>1, <1>2 DEF Table!Acquire

\* A step after which p no longer owns the paths of S, which it owned.
LEMMA OwnersRelease ==
  ASSUME IInv, IInv', NEW p \in Proc, NEW S \in SUBSET Path,
         \A x \in S : Owns(p, x) /\ ~Owns(p, x)',
         \A q \in Proc, y \in Path :
           q # p \/ y \notin S => (Owns(q, y)' <=> Owns(q, y))
  PROVE  Table!Release(p, S)
<1>1. ASSUME NEW x \in S
      PROVE  OwnerOf(x) = p /\ OwnerOf(x)' = NoProc
  <2>1. x \in Path /\ OwnerOf(x) = p
    BY OwnerBefore
  <2>2. \A q \in Proc : ~Owns(q, x)'
    BY <2>1, OwnerBefore
  <2> QED  BY <2>1, <2>2, OwnerAfter
<1>2. \A y \in Path \ S : OwnerOf(y)' = OwnerOf(y)
  BY SameOwner
<1> QED  BY <1>1, <1>2 DEF Table!Release

\* The lock files start as a lock table without owners.
LEMMA TableInit == LocksInit => Table!Init
<1> SUFFICES ASSUME LocksInit PROVE Table!Init
  OBVIOUS
<1>1. \A p \in Proc, x \in Path : ~Owns(p, x)
  BY DEF LocksInit, Owns
<1>2. \A x \in Path : OwnerOf(x) = NoProc
  BY <1>1 DEF OwnerOf
<1> QED  BY <1>2 DEF Table!Init

\* Every step of the lock files is a step, or a stutter, of the lock table.
LEMMA TableStep ==
  ASSUME "unlinked" \notin CrashPoints, IInv, IInv', [LocksNext]_lockVars
  PROVE  [Table!Next]_Owners
<1> USE NoProcAssumption, NoInodeAssumption
<1>1. ASSUME NEW p \in Proc,
             pc[p] # "unlinked" /\ pc'[p] # "unlinked",
             \A q \in Proc \ {p} : pc'[q] = pc[q],
             fds' = fds
      PROVE  UNCHANGED Owners
  <2>1. \A q \in Proc, x \in Path : Owns(q, x)' <=> Owns(q, x)
    BY <1>1 DEF Owns, Releasing, Locked
  <2> QED  BY <2>1, OwnersKept
<1>2. ASSUME NEW p \in Proc, NEW S \in SUBSET Path, NEW w \in BOOLEAN, Call(p, S, w)
      PROVE  UNCHANGED Owners
  BY <1>1, <1>2 DEF Call, IInv, LocksTypeOK
<1>3. ASSUME NEW p \in Proc,
             \/ Open(p) \/ Flock(p) \/ FlockBusy(p) \/ Throws(p) \/ CheckStale(p)
             \/ SetDeletion(p) \/ UnlockPaths(p) \/ UnlockDone(p)
      PROVE  UNCHANGED Owners
  BY <1>1, <1>3 DEF IInv, LocksTypeOK, Open, Flock, FlockBusy, Throws, CheckStale, SetDeletion,
                    UnlockPaths, UnlockDone
<1>4. ASSUME NEW p \in Proc, CheckGood(p)
      PROVE  \E x \in Path : Table!Acquire(p, x)
  <2>1. PICK x \in Path : /\ x \in toLock[p]
                         /\ fds' = [fds EXCEPT ![p][x] = fd[p]]
    BY <1>4 DEF CheckGood, IInv, LocksTypeOK
  <2>2. pc[p] = "check" /\ pc'[p] # "unlinked" /\ \A q \in Proc \ {p} : pc'[q] = pc[q]
    BY <1>4 DEF CheckGood, IInv, LocksTypeOK
  <2>3. fd[p] \in Inode
    BY <2>2 DEF IInv, FdInv
  <2>4. Owns(p, x)'
    BY <2>1, <2>2, <2>3 DEF Owns, Releasing, IInv, LocksTypeOK
  <2>5. \A q \in Proc, y \in Path : q # p \/ y # x => (Owns(q, y)' <=> Owns(q, y))
    <3> SUFFICES ASSUME NEW q \in Proc, NEW y \in Path, q # p \/ y # x
                 PROVE  Owns(q, y)' <=> Owns(q, y)
      OBVIOUS
    <3>1. CASE q = p
      BY <3>1, <2>1, <2>2 DEF Owns, Releasing, IInv, LocksTypeOK
    <3>2. CASE q # p
      <4>1. fds'[q] = fds[q] /\ pc'[q] = pc[q]
        BY <3>2, <2>1, <2>2 DEF IInv, LocksTypeOK
      <4> QED  BY <4>1 DEF Owns, Releasing, Locked
    <3> QED  BY <3>1, <3>2
  <2>6. ~Owns(p, x)
    BY <2>1 DEF IInv, TodoInv, Owns
  <2>7. \A q \in Proc : ~Owns(q, x)
    BY <2>4, <2>5, <2>6, OwnerAfter
  <2> QED  BY <2>4, <2>5, <2>7, OwnersAcquire
<1>5. ASSUME NEW p \in Proc, Close(p)
      PROVE  \E S \in SUBSET Path : Table!Release(p, S)
  <2>1. PICK x \in Path : /\ fds[p][x] # NoInode
                         /\ fds' = [fds EXCEPT ![p][x] = NoInode]
    BY <1>5 DEF Close, Locked
  <2>2. pc[p] = "unlock" /\ pc' = pc
    BY <1>5 DEF Close
  <2>3. Owns(p, x) /\ ~Owns(p, x)'
    BY <2>1, <2>2 DEF Owns, Releasing, IInv, LocksTypeOK
  <2>4. \A q \in Proc, y \in Path : q # p \/ y \notin {x} => (Owns(q, y)' <=> Owns(q, y))
    <3> SUFFICES ASSUME NEW q \in Proc, NEW y \in Path, q # p \/ y # x
                 PROVE  Owns(q, y)' <=> Owns(q, y)
      OBVIOUS
    <3>1. CASE q = p
      BY <3>1, <2>1, <2>2 DEF Owns, Releasing, IInv, LocksTypeOK
    <3>2. CASE q # p
      <4>1. fds'[q] = fds[q] /\ pc'[q] = pc[q]
        BY <3>2, <2>1, <2>2 DEF IInv, LocksTypeOK
      <4> QED  BY <4>1 DEF Owns, Releasing, Locked
    <3> QED  BY <3>1, <3>2
  <2> DEFINE S == {x}
  <2>5. S \in SUBSET Path /\ \A y \in S : Owns(p, y) /\ ~Owns(p, y)'
    BY <2>3
  <2>6. \A q \in Proc, y \in Path : q # p \/ y \notin S => (Owns(q, y)' <=> Owns(q, y))
    BY <2>4
  <2> HIDE DEF S
  <2> QED  BY <2>5, <2>6, OwnersRelease
<1>6. ASSUME NEW p \in Proc, Unlink(p)
      PROVE  \E S \in SUBSET Path : Table!Release(p, S)
  <2>1. PICK x \in Path : x \in Locked(p) /\ IsFirst(x, Locked(p))
    BY <1>6 DEF Unlink, Locked
  <2>2. /\ pc[p] = "unlock" /\ pc'[p] = "unlinked"
        /\ \A q \in Proc \ {p} : pc'[q] = pc[q]
        /\ fds' = fds
    BY <1>6 DEF Unlink, IInv, LocksTypeOK
  <2>3. \A q \in Proc : Locked(q)' = Locked(q)
    BY <2>2 DEF Locked
  <2>4. \A y \in Path : Releasing(p, y)' <=> y = x
    BY <2>1, <2>2, <2>3, FirstIsUnique DEF Releasing, Locked
  <2> DEFINE S == {x}
  <2>5. S \in SUBSET Path /\ \A y \in S : Owns(p, y) /\ ~Owns(p, y)'
    BY <2>1, <2>2, <2>4 DEF Owns, Releasing, Locked
  <2>6. \A q \in Proc, y \in Path : q # p \/ y \notin S => (Owns(q, y)' <=> Owns(q, y))
    <3> SUFFICES ASSUME NEW q \in Proc, NEW y \in Path, q # p \/ y # x
                 PROVE  Owns(q, y)' <=> Owns(q, y)
      OBVIOUS
    <3>1. CASE q = p
      BY <3>1, <2>2, <2>4 DEF Owns, Releasing
    <3>2. CASE q # p
      BY <3>2, <2>2, <2>3 DEF Owns, Releasing
    <3> QED  BY <3>1, <3>2
  <2> HIDE DEF S
  <2> QED  BY <2>5, <2>6, OwnersRelease
<1>7. ASSUME NEW p \in Proc, WriteToken(p)
      PROVE  UNCHANGED Owners
  <2>1. PICK x \in Path : /\ x \in Locked(p) /\ IsFirst(x, Locked(p))
                         /\ fds' = [fds EXCEPT ![p][x] = NoInode]
    BY <1>7 DEF WriteToken, Locked
  <2>2. /\ pc[p] = "unlinked" /\ pc'[p] = "unlock"
        /\ \A q \in Proc \ {p} : pc'[q] = pc[q]
    BY <1>7 DEF WriteToken, IInv, LocksTypeOK
  <2>3. \A y \in Path : Releasing(p, y) <=> y = x
    BY <2>1, <2>2, FirstIsUnique DEF Releasing, Locked
  <2>4. \A y \in Path : Owns(p, y)' <=> Owns(p, y)
    BY <2>1, <2>2, <2>3 DEF Owns, Releasing, IInv, LocksTypeOK
  <2>5. ASSUME NEW q \in Proc, q # p, NEW y \in Path
        PROVE  Owns(q, y)' <=> Owns(q, y)
    <3>1. fds'[q] = fds[q] /\ pc'[q] = pc[q]
      BY <2>1, <2>2, <2>5 DEF IInv, LocksTypeOK
    <3> QED  BY <3>1 DEF Owns, Releasing, Locked
  <2> QED  BY <2>4, <2>5, OwnersKept
<1>8. ASSUME NEW p \in Proc, Crash(p)
      PROVE  \E S \in SUBSET Path : Table!Release(p, S)
  <2>1. /\ pc[p] # "unlinked" /\ pc'[p] = "idle"
        /\ \A q \in Proc \ {p} : pc'[q] = pc[q] /\ fds'[q] = fds[q]
        /\ \A x \in Path : fds'[p][x] = NoInode
    BY <1>8 DEF Crash, IInv, LocksTypeOK
  <2>2. \A x \in Path : (Owns(p, x) <=> x \in Locked(p)) /\ ~Owns(p, x)'
    BY <2>1 DEF Owns, Releasing, Locked
  <2>3. ASSUME NEW q \in Proc, q # p, NEW y \in Path
        PROVE  Owns(q, y)' <=> Owns(q, y)
    BY <2>1, <2>3 DEF Owns, Releasing, Locked
  <2>4. Locked(p) \in SUBSET Path
    BY DEF Locked
  <2> QED  BY <2>2, <2>3, <2>4, OwnersRelease
<1>9. CASE UNCHANGED lockVars
  <2>1. \A q \in Proc, x \in Path : Owns(q, x)' <=> Owns(q, x)
    BY <1>9 DEF lockVars, Owns, Releasing, Locked
  <2> QED  BY <2>1, OwnersKept
<1> QED
  BY <1>2, <1>3, <1>4, <1>5, <1>6, <1>7, <1>8, <1>9 DEF LocksNext, Step, Table!Next

\* The lock files of pathlocks.cc implement the lock table.
THEOREM Refinement ==
  ASSUME "unlinked" \notin CrashPoints
  PROVE  LocksSpec => ImplementsLockTable
<1>1. LocksSpec => []IInv
  BY Invariance
<1>2. IInv /\ IInv' /\ [LocksNext]_lockVars => [Table!Next]_Owners
  BY TableStep
<1> QED
  BY <1>1, <1>2, TableInit, PTL DEF LocksSpec, ImplementsLockTable, Table!Spec, Owners
=============================================================================
