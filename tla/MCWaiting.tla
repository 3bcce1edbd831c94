------------------------------ MODULE MCWaiting ------------------------------
(***************************************************************************)
(* One run for the two places where processes wait for each other: on lock *)
(* files (PathLocks), and on the collector for a root to be recorded       *)
(* (StoreGC).  `component' says which of them a behaviour is about; the    *)
(* other stays in its initial state.                                       *)
(***************************************************************************)
EXTENDS MCStoreGC, MCPathLocks

VARIABLE component

waitingVars == <<vars, lockVars, component>>

WaitingInit ==
  /\ component \in {"gc", "locks"}
  /\ Init /\ (component # "gc" => valid = {})
  /\ LocksInit

GcOnly == component = "gc" /\ UNCHANGED <<lockVars, component>>
LocksOnly == component = "locks" /\ UNCHANGED <<vars, component>>

WaitingNext ==
  \/ GcOnly /\ Next
  \/ LocksOnly /\ LocksNext /\ LowestInode

\* The fairness of StoreGC and PathLocks.
WaitingFairness ==
  /\ \A c \in Client : WF_waitingVars(GcOnly /\ AddTempRoot(c))
                       /\ WF_waitingVars(GcOnly /\ Serve(c))
  /\ WF_waitingVars(GcOnly /\ Collect)
  /\ \A p \in Proc : WF_waitingVars(LocksOnly /\ Step(p) /\ LowestInode)

WaitingSpec == WaitingInit /\ [][WaitingNext]_waitingVars /\ WaitingFairness
=============================================================================
