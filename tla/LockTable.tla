------------------------------ MODULE LockTable ------------------------------
(***************************************************************************)
(* What PathLocks promises: every path has at most one owner, who is given *)
(* a free path and gives up what it owns.  StoreGC uses the path locks as  *)
(* this module describes them.                                             *)
(***************************************************************************)
CONSTANTS Proc, Path, NoProc

VARIABLE owner   \* owner[x]: the process that holds the lock on x, or NoProc

Init == owner = [x \in Path |-> NoProc]

Acquire(p, x) ==
  /\ owner[x] = NoProc
  /\ owner' = [owner EXCEPT ![x] = p]

\* A process gives up some of its locks: one by one, or all at once when it
\* dies.
Release(p, S) ==
  /\ \A x \in S : owner[x] = p
  /\ owner' = [x \in Path |-> IF x \in S THEN NoProc ELSE owner[x]]

Next ==
  \/ \E p \in Proc, x \in Path : Acquire(p, x)
  \/ \E p \in Proc, S \in SUBSET Path : Release(p, S)

Spec == Init /\ [][Next]_owner
=============================================================================
