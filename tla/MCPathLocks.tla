---------------------------- MODULE MCPathLocks ----------------------------
(***************************************************************************)
(* Small instances of PathLocks.                                           *)
(***************************************************************************)
EXTENDS PathLocks

\* A process may be killed at any point but one: between the two system
\* calls of deleteLockFile().
AllButUnlinked == PCs \ {"idle", "unlinked"}

\* A new lock file gets the lowest inode that is not in use.  Nothing depends on
\* which one it is, and the states that differ in that only are left out.
LowestInode ==
  \A x \in Path : link'[x] \notin {link[x], NoInode}
                    => \A i \in Inode : Unused(i) => link'[x] <= i
=============================================================================
