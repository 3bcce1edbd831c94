------------------------------ MODULE MCStoreGC ------------------------------
(***************************************************************************)
(* Small instances of StoreGC.                                             *)
(***************************************************************************)
EXTENDS StoreGC, TLC

CONSTANTS a, b, c1, c2

WholeStore == [action |-> "gcDeleteDead", specific |-> FALSE, paths |-> {},
               deleteReferrers |-> FALSE]

\* One object, two processes.
OneObjectRefs == (a :> {})

\* b refers to a.
ChainRefs == (a :> {}) @@ (b :> {a})

WholeStoreOnly == {WholeStore}

\* rm-path's call, the same with referrers, and a report.
AllOptions ==
  {WholeStore, [WholeStore EXCEPT !.action = "gcReturnDead"]}
  \cup [action : {"gcDeleteSpecific"}, specific : {TRUE}, paths : {{a}, {a, b}},
        deleteReferrers : {FALSE}]
  \cup {[action |-> "gcDeleteDead", specific |-> TRUE, paths |-> {a},
         deleteReferrers |-> TRUE]}

ClientSymmetry == Permutations(Client)
=============================================================================
