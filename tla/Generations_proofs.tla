------------------------- MODULE Generations_proofs -------------------------
(***************************************************************************)
(* Proofs about Generations, for any set of generations, any way in which  *)
(* names match as patterns, and tools that are killed anywhere.            *)
(***************************************************************************)
EXTENDS Generations, TLAPS

\* The marker or else the command line names the running generation, but for
\* the moment in which nixgen-switch has changed the marker and can still
\* restore it, and unless it was killed in that moment.
MarkerInv ==
  /\ pc = "softReboot" => gen \in Gen \cup {Iso} /\ marker = gen
  /\ ~misled /\ pc # "softReboot" => RunningGen = live
  /\ ~misled /\ pc = "softReboot" => (IF old # NoGen THEN old ELSE cmdline) = live

\* nixgen-remove knows the running generation and is not at work on it.
RemoveInv ==
  /\ ~misled /\ pc \in {"remove", "delete", "unlink", "prune", "pruned"} => running = live
  /\ pc \in {"delete", "unlink", "prune", "pruned"} => gen \in Gen /\ gen # running

\* What has a root, or is about to get one, is registered, or was adopted
\* although it is not.
RootInv ==
  /\ RootsAreValid
  /\ pc \in {"import", "restore", "register", "root", "entry", "append", "move", "link"}
       => gen \in Gen
  /\ pc = "root" => gen \in valid
  /\ pc \in {"entry", "append", "move", "link"} => gen \in valid \cup strays
  /\ pc \in {"delete", "unlink", "prune", "pruned"} => gen \notin gcroots

\* What is in entries.cfg.new when it is about to be completed or moved: a
\* copy of the menu with one entry more, or without those that matched; or,
\* when there is no menu, what has been left there by tools that were cut
\* short.
NewInv ==
  /\ pc = "append" /\ cfg # NoMenu => new = cfg
  /\ pc = "move" /\ cfg # NoMenu =>
       new # NoMenu /\ new.torn = cfg.torn /\ new.gens \ {gen} = cfg.gens \ {gen}
  /\ pc = "move" => new # NoMenu
  /\ pc = "link" => cfg # NoMenu
  /\ pc = "pruned" /\ cfg # NoMenu =>
       new # NoMenu /\ new.torn = cfg.torn /\ new.gens = cfg.gens \ Matched[gen]
  /\ cfg = NoMenu =>
       /\ Entries(new) \subseteq cut \cup (IF pc = "move" THEN {gen} ELSE {})
       /\ new # NoMenu /\ new.torn => cutFirst

\* Which entries may lack a root.
EntryInv ==
  Entries(cfg) \ gcroots \subseteq
    cut \cup Unmatched
        \cup (IF pc \in {"link", "delete", "unlink", "prune", "pruned"} THEN {gen} ELSE {})

IInv == /\ GenTypeOK
        /\ MarkerInv
        /\ RemoveInv
        /\ RootInv
        /\ NewInv
        /\ EntryInv
        /\ MenuIsWhole
-----------------------------------------------------------------------------
\* The inductive invariant holds initially.
LEMMA IInvInit == GenInit => IInv
<1> SUFFICES ASSUME GenInit PROVE IInv
  OBVIOUS
<1>1. GenTypeOK
  <2>1. cfg \in Menu \cup {NoMenu} /\ Entries(cfg) \subseteq Gen
    <3>1. CASE cfg = NoMenu
      BY <3>1 DEF Entries
    <3>2. CASE cfg # NoMenu
      <4>1. PICK S \in SUBSET gcroots : cfg = [gens |-> S, torn |-> FALSE]
        BY <3>2 DEF GenInit
      <4>2. S \in SUBSET Gen
        BY DEF GenInit
      <4> QED  BY <4>1, <4>2, <3>2 DEF Menu, Entries
    <3> QED  BY <3>1, <3>2
  <2> QED  BY <2>1 DEF GenInit, GenTypeOK, PCs
<1>2. MarkerInv /\ RemoveInv /\ RootInv
  BY NoGenAssumption, IsoAssumption
     DEF GenInit, MarkerInv, RunningGen, RemoveInv, RootInv, RootsAreValid, Entries
<1>3. NewInv /\ EntryInv /\ MenuIsWhole
  BY NoMenuAssumption DEF GenInit, NewInv, EntryInv, MenuIsWhole, Entries
<1> QED  BY <1>1, <1>2, <1>3 DEF IInv

\* Every step preserves the inductive invariant.
LEMMA IInvStep == IInv /\ [GenNext]_genVars => IInv'
<1> SUFFICES ASSUME IInv, [GenNext]_genVars
             PROVE  IInv'
  OBVIOUS
<1> USE IsoAssumption, NoGenAssumption, NoMenuAssumption, MatchedAssumption
    DEF IInv, GenTypeOK, PCs, diskVars, bootVars, toolVars, histVars, Exit
<1>1. ASSUME NEW g \in Gen, StartImport(g)
      PROVE  IInv'
  <2>1. GenTypeOK'
    BY <1>1 DEF StartImport, RootInv, RemoveInv, MarkerInv, Menu, EmptyMenu,
       Entries, RunningGen
  <2>2. MarkerInv' /\ RemoveInv' /\ RootInv'
    BY <1>1 DEF StartImport, MarkerInv, RunningGen, RemoveInv, RootInv,
       RootsAreValid, Entries
  <2>3. NewInv'
    BY <1>1 DEF StartImport, NewInv, RootInv, RemoveInv, MenuIsWhole, Entries,
       Menu
  <2>4. EntryInv' /\ MenuIsWhole'
    BY <1>1 DEF StartImport, EntryInv, MenuIsWhole, NewInv, RootInv, Entries, Menu
  <2> QED  BY <2>1, <2>2, <2>3, <2>4
<1>2. ASSUME NEW g \in Gen, Adopt(g)
      PROVE  IInv'
  <2>1. GenTypeOK'
    BY <1>2 DEF Adopt, AdoptedAs, RootInv, RemoveInv, MarkerInv, Menu, EmptyMenu,
       Entries, RunningGen
  <2>2. MarkerInv' /\ RemoveInv' /\ RootInv'
    BY <1>2 DEF Adopt, AdoptedAs, MarkerInv, RunningGen, RemoveInv, RootInv,
       RootsAreValid, Entries
  <2>3. NewInv'
    BY <1>2 DEF Adopt, AdoptedAs, NewInv, RootInv, RemoveInv, MenuIsWhole,
       Entries, Menu
  <2>4. EntryInv' /\ MenuIsWhole'
    BY <1>2 DEF Adopt, AdoptedAs, EntryInv, MenuIsWhole, NewInv, RootInv, Entries,
       Menu
  <2> QED  BY <2>1, <2>2, <2>3, <2>4
<1>3. ASSUME NEW g \in Gen, RemoveRefuses(g)
      PROVE  IInv'
  <2>1. GenTypeOK'
    BY <1>3 DEF RemoveRefuses, RootInv, RemoveInv, MarkerInv, Menu, EmptyMenu,
       Entries, RunningGen
  <2>2. MarkerInv' /\ RemoveInv' /\ RootInv'
    BY <1>3 DEF RemoveRefuses, MarkerInv, RunningGen, RemoveInv, RootInv,
       RootsAreValid, Entries
  <2>3. NewInv'
    BY <1>3 DEF RemoveRefuses, NewInv, RootInv, RemoveInv, MenuIsWhole, Entries,
       Menu
  <2>4. EntryInv' /\ MenuIsWhole'
    BY <1>3 DEF RemoveRefuses, EntryInv, MenuIsWhole, NewInv, RootInv, Entries,
       Menu
  <2> QED  BY <2>1, <2>2, <2>3, <2>4
<1>4. ASSUME NEW g \in Gen, Unroot(g)
      PROVE  IInv'
  <2>1. GenTypeOK'
    BY <1>4 DEF Unroot, RootInv, RemoveInv, MarkerInv, Menu, EmptyMenu, Entries,
       RunningGen
  <2>2. MarkerInv' /\ RemoveInv' /\ RootInv'
    BY <1>4 DEF Unroot, MarkerInv, RunningGen, RemoveInv, RootInv, RootsAreValid,
       Entries
  <2>3. NewInv'
    BY <1>4 DEF Unroot, NewInv, RootInv, RemoveInv, MenuIsWhole, Entries, Menu
  <2>4. EntryInv' /\ MenuIsWhole'
    BY <1>4 DEF Unroot, EntryInv, MenuIsWhole, NewInv, RootInv, Entries, Menu
  <2> QED  BY <2>1, <2>2, <2>3, <2>4
<1>5. CASE Deduplicate
  <2>1. GenTypeOK'
    BY <1>5 DEF Deduplicate, RootInv, RemoveInv, MarkerInv, Menu, EmptyMenu,
       Entries, RunningGen
  <2>2. MarkerInv' /\ RemoveInv' /\ RootInv'
    BY <1>5 DEF Deduplicate, MarkerInv, RunningGen, RemoveInv, RootInv,
       RootsAreValid, Entries
  <2>3. NewInv'
    BY <1>5 DEF Deduplicate, NewInv, RootInv, RemoveInv, MenuIsWhole, Entries,
       Menu
  <2>4. EntryInv' /\ MenuIsWhole'
    BY <1>5 DEF Deduplicate, EntryInv, MenuIsWhole, NewInv, RootInv, Entries, Menu
  <2> QED  BY <2>1, <2>2, <2>3, <2>4
<1>6. CASE RestorePath
  <2>1. GenTypeOK'
    BY <1>6 DEF RestorePath, RootInv, RemoveInv, MarkerInv, Menu, EmptyMenu, Entries,
       RunningGen
  <2>2. MarkerInv' /\ RemoveInv' /\ RootInv'
    BY <1>6 DEF RestorePath, MarkerInv, RunningGen, RemoveInv, RootInv, RootsAreValid,
       Entries
  <2>3. NewInv'
    BY <1>6 DEF RestorePath, NewInv, RootInv, RemoveInv, MenuIsWhole, Entries, Menu
  <2>4. EntryInv' /\ MenuIsWhole'
    BY <1>6 DEF RestorePath, EntryInv, MenuIsWhole, NewInv, RootInv, Entries, Menu
  <2> QED  BY <2>1, <2>2, <2>3, <2>4
<1>7. CASE RegisterPath
  <2>1. GenTypeOK'
    BY <1>7 DEF RegisterPath, RootInv, RemoveInv, MarkerInv, Menu, EmptyMenu,
       Entries, RunningGen
  <2>2. MarkerInv' /\ RemoveInv' /\ RootInv'
    BY <1>7 DEF RegisterPath, MarkerInv, RunningGen, RemoveInv, RootInv,
       RootsAreValid, Entries
  <2>3. NewInv'
    BY <1>7 DEF RegisterPath, NewInv, RootInv, RemoveInv, MenuIsWhole, Entries,
       Menu
  <2>4. EntryInv' /\ MenuIsWhole'
    BY <1>7 DEF RegisterPath, EntryInv, MenuIsWhole, NewInv, RootInv, Entries,
       Menu
  <2> QED  BY <2>1, <2>2, <2>3, <2>4
<1>8. CASE AddRoot
  <2>1. GenTypeOK'
    BY <1>8 DEF AddRoot, RootInv, RemoveInv, MarkerInv, Menu, EmptyMenu, Entries,
       RunningGen
  <2>2. MarkerInv' /\ RemoveInv' /\ RootInv'
    BY <1>8 DEF AddRoot, MarkerInv, RunningGen, RemoveInv, RootInv, RootsAreValid,
       Entries
  <2>3. NewInv'
    BY <1>8 DEF AddRoot, NewInv, RootInv, RemoveInv, MenuIsWhole, Entries, Menu
  <2>4. EntryInv' /\ MenuIsWhole'
    BY <1>8 DEF AddRoot, EntryInv, MenuIsWhole, NewInv, RootInv, Entries, Menu
  <2> QED  BY <2>1, <2>2, <2>3, <2>4
<1>9. CASE ImportPathDone
  <2>1. GenTypeOK'
    BY <1>9 DEF ImportPathDone, RootInv, RemoveInv, MarkerInv, Menu, EmptyMenu,
       Entries, RunningGen
  <2>2. MarkerInv' /\ RemoveInv' /\ RootInv'
    BY <1>9 DEF ImportPathDone, MarkerInv, RunningGen, RemoveInv, RootInv,
       RootsAreValid, Entries
  <2>3. NewInv'
    BY <1>9 DEF ImportPathDone, NewInv, RootInv, RemoveInv, MenuIsWhole, Entries,
       Menu
  <2>4. EntryInv' /\ MenuIsWhole'
    BY <1>9 DEF ImportPathDone, EntryInv, MenuIsWhole, NewInv, RootInv, Entries,
       Menu
  <2> QED  BY <2>1, <2>2, <2>3, <2>4
<1>10. CASE ImportFails
  <2>1. GenTypeOK'
    BY <1>10 DEF ImportFails, RootInv, RemoveInv, MarkerInv, Menu, EmptyMenu,
       Entries, RunningGen
  <2>2. MarkerInv' /\ RemoveInv' /\ RootInv'
    BY <1>10 DEF ImportFails, MarkerInv, RunningGen, RemoveInv, RootInv,
       RootsAreValid, Entries
  <2>3. NewInv'
    BY <1>10 DEF ImportFails, NewInv, RootInv, RemoveInv, MenuIsWhole, Entries,
       Menu
  <2>4. EntryInv' /\ MenuIsWhole'
    BY <1>10 DEF ImportFails, EntryInv, MenuIsWhole, NewInv, RootInv, Entries,
       Menu
  <2> QED  BY <2>1, <2>2, <2>3, <2>4
<1>11. CASE EntryExists
  <2>1. GenTypeOK'
    BY <1>11 DEF EntryExists, RootInv, RemoveInv, MarkerInv, Menu, EmptyMenu,
       Entries, RunningGen
  <2>2. MarkerInv' /\ RemoveInv' /\ RootInv'
    BY <1>11 DEF EntryExists, MarkerInv, RunningGen, RemoveInv, RootInv,
       RootsAreValid, Entries
  <2>3. NewInv'
    BY <1>11 DEF EntryExists, NewInv, RootInv, RemoveInv, MenuIsWhole, Entries,
       Menu
  <2>4. EntryInv' /\ MenuIsWhole'
    BY <1>11 DEF EntryExists, EntryInv, MenuIsWhole, NewInv, RootInv, Entries,
       Menu
  <2> QED  BY <2>1, <2>2, <2>3, <2>4
<1>12. CASE EntryCopy
  <2>1. GenTypeOK'
    BY <1>12 DEF EntryCopy, RootInv, RemoveInv, MarkerInv, Menu, EmptyMenu,
       Entries, RunningGen
  <2>2. MarkerInv' /\ RemoveInv' /\ RootInv'
    BY <1>12 DEF EntryCopy, MarkerInv, RunningGen, RemoveInv, RootInv, RootsAreValid,
       Entries
  <2>3. NewInv'
    BY <1>12 DEF EntryCopy, NewInv, RootInv, RemoveInv, MenuIsWhole, Entries, Menu
  <2>4. EntryInv' /\ MenuIsWhole'
    BY <1>12 DEF EntryCopy, EntryInv, MenuIsWhole, NewInv, RootInv, Entries, Menu
  <2> QED  BY <2>1, <2>2, <2>3, <2>4
<1>13. CASE EntryAppend
  <2> DEFINE menu == IF new = NoMenu THEN EmptyMenu ELSE new
  <2>0. /\ menu \in Menu /\ gen \in Gen
        /\ new' \in Menu /\ new'.gens = menu.gens \cup {gen} /\ new'.torn = menu.torn
    BY <1>13 DEF EntryAppend, RootInv, Menu, EmptyMenu
  <2>1. GenTypeOK'
    BY <1>13, <2>0 DEF EntryAppend, Menu
  <2>2. MarkerInv' /\ RemoveInv' /\ RootInv'
    BY <1>13 DEF EntryAppend, MarkerInv, RunningGen, RemoveInv, RootInv,
       RootsAreValid, Entries
  <2>3. NewInv'
    BY <1>13, <2>0 DEF EntryAppend, NewInv, Entries, Menu, EmptyMenu
  <2>4. EntryInv' /\ MenuIsWhole'
    BY <1>13 DEF EntryAppend, EntryInv, MenuIsWhole, NewInv, RootInv, Entries,
       Menu
  <2> QED  BY <2>1, <2>2, <2>3, <2>4
<1>14. CASE EntryMove
  <2>1. GenTypeOK'
    BY <1>14 DEF EntryMove, RootInv, RemoveInv, MarkerInv, Menu, EmptyMenu,
       Entries, RunningGen
  <2>2. MarkerInv' /\ RemoveInv' /\ RootInv'
    BY <1>14 DEF EntryMove, MarkerInv, RunningGen, RemoveInv, RootInv, RootsAreValid,
       Entries
  <2>3. NewInv'
    BY <1>14 DEF EntryMove, NewInv, RootInv, RemoveInv, MenuIsWhole, Entries, Menu
  <2>4. EntryInv' /\ MenuIsWhole'
    BY <1>14 DEF EntryMove, EntryInv, MenuIsWhole, NewInv, RootInv, Entries, Menu
  <2> QED  BY <2>1, <2>2, <2>3, <2>4
<1>15. CASE EntryLink
  <2>1. GenTypeOK'
    BY <1>15 DEF EntryLink, RootInv, RemoveInv, MarkerInv, Menu, EmptyMenu,
       Entries, RunningGen
  <2>2. MarkerInv' /\ RemoveInv' /\ RootInv'
    BY <1>15 DEF EntryLink, MarkerInv, RunningGen, RemoveInv, RootInv, RootsAreValid,
       Entries
  <2>3. NewInv'
    BY <1>15 DEF EntryLink, NewInv, RootInv, RemoveInv, MenuIsWhole, Entries, Menu
  <2>4. EntryInv' /\ MenuIsWhole'
    BY <1>15 DEF EntryLink, EntryInv, MenuIsWhole, NewInv, RootInv, Entries, Menu
  <2> QED  BY <2>1, <2>2, <2>3, <2>4
<1>16. ASSUME NEW S \in SUBSET Gen, RemoveGens(S)
      PROVE  IInv'
  <2>1. GenTypeOK'
    BY <1>16 DEF RemoveGens, RootInv, RemoveInv, MarkerInv, Menu, EmptyMenu, Entries,
       RunningGen
  <2>2. MarkerInv' /\ RemoveInv' /\ RootInv'
    BY <1>16 DEF RemoveGens, MarkerInv, RunningGen, RemoveInv, RootInv, RootsAreValid,
       Entries
  <2>3. NewInv'
    BY <1>16 DEF RemoveGens, NewInv, RootInv, RemoveInv, MenuIsWhole, Entries, Menu
  <2>4. EntryInv' /\ MenuIsWhole'
    BY <1>16 DEF RemoveGens, EntryInv, MenuIsWhole, NewInv, RootInv, Entries, Menu
  <2> QED  BY <2>1, <2>2, <2>3, <2>4
<1>17. CASE Invalidate
  <2>1. GenTypeOK'
    BY <1>17 DEF Invalidate, RootInv, RemoveInv, MarkerInv, Menu, EmptyMenu,
       Entries, RunningGen
  <2>2. MarkerInv' /\ RemoveInv' /\ RootInv'
    BY <1>17 DEF Invalidate, MarkerInv, RunningGen, RemoveInv, RootInv,
       RootsAreValid, Entries
  <2>3. NewInv'
    BY <1>17 DEF Invalidate, NewInv, RootInv, RemoveInv, MenuIsWhole, Entries,
       Menu
  <2>4. EntryInv' /\ MenuIsWhole'
    BY <1>17 DEF Invalidate, EntryInv, MenuIsWhole, NewInv, RootInv, Entries, Menu
  <2> QED  BY <2>1, <2>2, <2>3, <2>4
<1>18. CASE Unlink
  <2>1. GenTypeOK'
    BY <1>18 DEF Unlink, RootInv, RemoveInv, MarkerInv, Menu, EmptyMenu, Entries,
       RunningGen
  <2>2. MarkerInv' /\ RemoveInv' /\ RootInv'
    BY <1>18 DEF Unlink, MarkerInv, RunningGen, RemoveInv, RootInv, RootsAreValid,
       Entries
  <2>3. NewInv'
    BY <1>18 DEF Unlink, NewInv, RootInv, RemoveInv, MenuIsWhole, Entries, Menu
  <2>4. EntryInv' /\ MenuIsWhole'
    BY <1>18 DEF Unlink, EntryInv, MenuIsWhole, NewInv, RootInv, Entries, Menu
  <2> QED  BY <2>1, <2>2, <2>3, <2>4
<1>19. CASE DeleteFails
  <2>1. GenTypeOK'
    BY <1>19 DEF DeleteFails, RootInv, RemoveInv, MarkerInv, Menu, EmptyMenu,
       Entries, RunningGen
  <2>2. MarkerInv' /\ RemoveInv' /\ RootInv'
    BY <1>19 DEF DeleteFails, MarkerInv, RunningGen, RemoveInv, RootInv,
       RootsAreValid, Entries
  <2>3. NewInv'
    BY <1>19 DEF DeleteFails, NewInv, RootInv, RemoveInv, MenuIsWhole, Entries,
       Menu
  <2>4. EntryInv' /\ MenuIsWhole'
    BY <1>19 DEF DeleteFails, EntryInv, MenuIsWhole, NewInv, RootInv, Entries,
       Menu
  <2> QED  BY <2>1, <2>2, <2>3, <2>4
<1>20. CASE Prune
  <2>0. cfg # NoMenu => /\ new' \in Menu
                        /\ new'.gens = cfg.gens \ Matched[gen] /\ new'.torn = cfg.torn
    BY <1>20 DEF Prune, RemoveInv, Menu
  <2>1. GenTypeOK'
    BY <1>20, <2>0 DEF Prune
  <2>2. MarkerInv' /\ RemoveInv' /\ RootInv'
    BY <1>20 DEF Prune, MarkerInv, RunningGen, RemoveInv, RootInv, RootsAreValid,
       Entries
  <2>3. NewInv'
    BY <1>20, <2>0 DEF Prune, NewInv, Entries, Menu
  <2>4. EntryInv' /\ MenuIsWhole'
    BY <1>20 DEF Prune, EntryInv, MenuIsWhole, NewInv, RootInv, Entries, Menu
  <2> QED  BY <2>1, <2>2, <2>3, <2>4
<1>21. CASE PruneMove
  <2>1. GenTypeOK'
    BY <1>21 DEF PruneMove, RootInv, RemoveInv, MarkerInv, Menu, EmptyMenu,
       Entries, RunningGen
  <2>2. MarkerInv' /\ RemoveInv' /\ RootInv'
    BY <1>21 DEF PruneMove, MarkerInv, RunningGen, RemoveInv, RootInv, RootsAreValid,
       Entries
  <2>3. NewInv'
    BY <1>21 DEF PruneMove, NewInv, RootInv, RemoveInv, MenuIsWhole, Entries, Menu
  <2>4. EntryInv' /\ MenuIsWhole'
    BY <1>21 DEF PruneMove, EntryInv, Unmatched, RemoveInv, MenuIsWhole, NewInv,
       RootInv, Entries, Menu
  <2> QED  BY <2>1, <2>2, <2>3, <2>4
<1>22. CASE RemoveDone
  <2>1. GenTypeOK'
    BY <1>22 DEF RemoveDone, RootInv, RemoveInv, MarkerInv, Menu, EmptyMenu,
       Entries, RunningGen
  <2>2. MarkerInv' /\ RemoveInv' /\ RootInv'
    BY <1>22 DEF RemoveDone, MarkerInv, RunningGen, RemoveInv, RootInv,
       RootsAreValid, Entries
  <2>3. NewInv'
    BY <1>22 DEF RemoveDone, NewInv, RootInv, RemoveInv, MenuIsWhole, Entries,
       Menu
  <2>4. EntryInv' /\ MenuIsWhole'
    BY <1>22 DEF RemoveDone, EntryInv, MenuIsWhole, NewInv, RootInv, Entries, Menu
  <2> QED  BY <2>1, <2>2, <2>3, <2>4
<1>23. CASE SoftReboot
  <2>1. GenTypeOK'
    BY <1>23 DEF SoftReboot, RootInv, RemoveInv, MarkerInv, Menu, EmptyMenu,
       Entries, RunningGen
  <2>2. MarkerInv' /\ RemoveInv' /\ RootInv'
    BY <1>23 DEF SoftReboot, MarkerInv, RunningGen, RemoveInv, RootInv,
       RootsAreValid, Entries
  <2>3. NewInv'
    BY <1>23 DEF SoftReboot, NewInv, RootInv, RemoveInv, MenuIsWhole, Entries,
       Menu
  <2>4. EntryInv' /\ MenuIsWhole'
    BY <1>23 DEF SoftReboot, EntryInv, MenuIsWhole, NewInv, RootInv, Entries, Menu
  <2> QED  BY <2>1, <2>2, <2>3, <2>4
<1>24. CASE SoftRebootFails
  <2>1. GenTypeOK'
    BY <1>24 DEF SoftRebootFails, RootInv, RemoveInv, MarkerInv, Menu, EmptyMenu,
       Entries, RunningGen
  <2>2. MarkerInv' /\ RemoveInv' /\ RootInv'
    BY <1>24 DEF SoftRebootFails, MarkerInv, RunningGen, RemoveInv, RootInv,
       RootsAreValid, Entries
  <2>3. NewInv'
    BY <1>24 DEF SoftRebootFails, NewInv, RootInv, RemoveInv, MenuIsWhole,
       Entries, Menu
  <2>4. EntryInv' /\ MenuIsWhole'
    BY <1>24 DEF SoftRebootFails, EntryInv, MenuIsWhole, NewInv, RootInv, Entries,
       Menu
  <2> QED  BY <2>1, <2>2, <2>3, <2>4
<1>25. ASSUME NEW g \in Gen \cup {Iso}, Switch(g)
      PROVE  IInv'
  <2>1. GenTypeOK'
    BY <1>25 DEF Switch, RootInv, RemoveInv, MarkerInv, Menu, EmptyMenu, Entries,
       RunningGen
  <2>2. MarkerInv' /\ RemoveInv' /\ RootInv'
    BY <1>25 DEF Switch, MarkerInv, RunningGen, RemoveInv, RootInv, RootsAreValid,
       Entries
  <2>3. NewInv'
    BY <1>25 DEF Switch, NewInv, RootInv, RemoveInv, MenuIsWhole, Entries, Menu
  <2>4. EntryInv' /\ MenuIsWhole'
    BY <1>25 DEF Switch, EntryInv, MenuIsWhole, NewInv, RootInv, Entries, Menu
  <2> QED  BY <2>1, <2>2, <2>3, <2>4
<1>26. CASE Killed
  <2>0. PICK torn \in BOOLEAN :
          /\ torn => Writing
          /\ new' = IF torn THEN [gens |-> Entries(new), torn |-> TRUE] ELSE new
          /\ cutFirst' = (cutFirst \/ (torn /\ cfg = NoMenu))
    BY <1>26 DEF Killed, ToolEnds
  <2>1. GenTypeOK'
    <3>1. Entries(new) \subseteq Gen
      BY DEF Entries, Menu
    <3>2. new' \in Menu \cup {NoMenu} /\ cutFirst' \in BOOLEAN
      BY <2>0, <3>1 DEF Menu
    <3>3. cut' \in SUBSET Gen
      BY <1>26 DEF Killed, ToolEnds, Halfway, RootInv, RemoveInv
    <3>4. marker' \in Gen \cup {Iso, NoGen} /\ misled' \in BOOLEAN
      BY <1>26 DEF Killed
    <3> QED  BY <1>26, <3>2, <3>3, <3>4 DEF Killed, ToolEnds, Entries
  <2>2. MarkerInv' /\ RemoveInv' /\ RootInv'
    BY <1>26 DEF Killed, ToolEnds, MarkerInv, RunningGen, RemoveInv, RootInv,
       RootsAreValid, Entries
  <2>3. NewInv'
    <3>1. pc' = "idle" /\ cfg' = cfg
      BY <1>26 DEF Killed, ToolEnds
    <3>2. ASSUME cfg = NoMenu
          PROVE  Entries(new)' \subseteq cut' /\ (new' # NoMenu /\ new'.torn => cutFirst')
      <4>1. Entries(new)' = Entries(new)
        <5>1. CASE torn
          <6>1. new' # NoMenu /\ new'.gens = Entries(new)
            <7>1. Entries(new) \in SUBSET Gen
              BY DEF Entries, Menu
            <7>2. [gens |-> Entries(new), torn |-> TRUE] \in Menu
              BY <7>1 DEF Menu
            <7> QED  BY <2>0, <5>1, <7>2 DEF Menu
          <6> QED  BY <6>1 DEF Entries
        <5>2. CASE ~torn
          BY <2>0, <5>2 DEF Entries
        <5> QED  BY <5>1, <5>2
      <4>2. Entries(new) \subseteq cut'
        BY <3>2, <1>26 DEF Killed, ToolEnds, Halfway, NewInv
      <4> QED  BY <2>0, <3>2, <4>1, <4>2 DEF NewInv
    <3> QED  BY <3>1, <3>2 DEF NewInv, Entries
  <2>4. EntryInv' /\ MenuIsWhole'
    BY <1>26 DEF Killed, ToolEnds, Halfway, EntryInv, MenuIsWhole, NewInv,
       RootInv, Entries, Menu
  <2> QED  BY <2>1, <2>2, <2>3, <2>4
<1>27. ASSUME NEW g \in Gen \cup {Iso}, PowerCycle(g)
      PROVE  IInv'
  <2>0. PICK torn \in BOOLEAN :
          /\ torn => Writing
          /\ new' = IF torn THEN [gens |-> Entries(new), torn |-> TRUE] ELSE new
          /\ cutFirst' = (cutFirst \/ (torn /\ cfg = NoMenu))
    BY <1>27 DEF PowerCycle, ToolEnds
  <2>1. GenTypeOK'
    <3>1. Entries(new) \subseteq Gen
      BY DEF Entries, Menu
    <3>2. new' \in Menu \cup {NoMenu} /\ cutFirst' \in BOOLEAN
      BY <2>0, <3>1 DEF Menu
    <3>3. cut' \in SUBSET Gen
      BY <1>27 DEF PowerCycle, ToolEnds, Halfway, RootInv, RemoveInv
    <3>4. marker' \in Gen \cup {Iso, NoGen} /\ misled' \in BOOLEAN
      BY <1>27 DEF PowerCycle
    <3> QED  BY <1>27, <3>2, <3>3, <3>4 DEF PowerCycle, ToolEnds, Entries
  <2>2. MarkerInv' /\ RemoveInv' /\ RootInv'
    BY <1>27 DEF PowerCycle, ToolEnds, MarkerInv, RunningGen, RemoveInv, RootInv,
       RootsAreValid, Entries
  <2>3. NewInv'
    <3>1. pc' = "idle" /\ cfg' = cfg
      BY <1>27 DEF PowerCycle, ToolEnds
    <3>2. ASSUME cfg = NoMenu
          PROVE  Entries(new)' \subseteq cut' /\ (new' # NoMenu /\ new'.torn => cutFirst')
      <4>1. Entries(new)' = Entries(new)
        <5>1. CASE torn
          <6>1. new' # NoMenu /\ new'.gens = Entries(new)
            <7>1. Entries(new) \in SUBSET Gen
              BY DEF Entries, Menu
            <7>2. [gens |-> Entries(new), torn |-> TRUE] \in Menu
              BY <7>1 DEF Menu
            <7> QED  BY <2>0, <5>1, <7>2 DEF Menu
          <6> QED  BY <6>1 DEF Entries
        <5>2. CASE ~torn
          BY <2>0, <5>2 DEF Entries
        <5> QED  BY <5>1, <5>2
      <4>2. Entries(new) \subseteq cut'
        BY <3>2, <1>27 DEF PowerCycle, ToolEnds, Halfway, NewInv
      <4> QED  BY <2>0, <3>2, <4>1, <4>2 DEF NewInv
    <3> QED  BY <3>1, <3>2 DEF NewInv, Entries
  <2>4. EntryInv' /\ MenuIsWhole'
    BY <1>27 DEF PowerCycle, ToolEnds, Halfway, EntryInv, MenuIsWhole, NewInv,
       RootInv, Entries, Menu
  <2> QED  BY <2>1, <2>2, <2>3, <2>4
<1>28. CASE UNCHANGED genVars
  BY <1>28 DEF genVars, MarkerInv, RunningGen, RemoveInv, RootInv, RootsAreValid,
             NewInv, EntryInv, MenuIsWhole, Entries
<1> HIDE DEF IInv, GenTypeOK, PCs, Exit
<1> QED
  BY <1>1, <1>2, <1>3, <1>4, <1>5, <1>6, <1>7, <1>8, <1>9, <1>10, <1>11, <1>12,
     <1>13, <1>14, <1>15, <1>16, <1>17, <1>18, <1>19, <1>20, <1>21, <1>22,
     <1>23, <1>24, <1>25, <1>26, <1>27, <1>28 DEF GenNext

\* The inductive invariant of the tools.
THEOREM Invariance == GenSpec => []IInv
BY IInvInit, IInvStep, PTL DEF GenSpec

\* The variables of the tools keep their types, whatever is killed where.
THEOREM TypeCorrect == GenSpec => []GenTypeOK
<1>1. IInv => GenTypeOK
  BY DEF IInv
<1> QED  BY Invariance, <1>1, PTL

\* The directory of the running generation is not deleted, unless nixgen-switch
\* was killed with the marker changed, or that directory is not registered and
\* its tree is imported again.
THEOREM LiveSafe == GenSpec => LiveIsKept
<1>1. ASSUME IInv, [GenNext]_genVars
      PROVE  [(live \in dirs /\ ~misled /\ ~(pc = "import" /\ live \notin valid))
                => live \in dirs']_genVars
  <2> SUFFICES ASSUME live \in dirs, ~misled, ~(pc = "import" /\ live \notin valid)
               PROVE  live \in dirs' \/ UNCHANGED genVars
    OBVIOUS
  <2>1. CASE Unlink
    BY <1>1, <2>1 DEF Unlink, IInv, RemoveInv
  <2>2. CASE Deduplicate
    BY <2>2 DEF Deduplicate
  <2>3. CASE RestorePath
    BY <2>3 DEF RestorePath
  <2>4. CASE ~Unlink /\ ~Deduplicate /\ ~RestorePath /\ ~UNCHANGED genVars
    <3>1. dirs' = dirs
      BY <1>1, <2>4 DEF GenNext, diskVars, StartImport, Adopt, RemoveRefuses,
         Unroot, RegisterPath, AddRoot, ImportPathDone, ImportFails, EntryExists,
         EntryCopy, EntryAppend, EntryMove, EntryLink, RemoveGens, Invalidate,
         DeleteFails, Prune, PruneMove, RemoveDone, SoftReboot, SoftRebootFails,
         Switch, Killed, PowerCycle, ToolEnds
    <3> QED  BY <3>1
  <2> QED  BY <2>1, <2>2, <2>3, <2>4
<1> QED  BY Invariance, <1>1, PTL DEF GenSpec, LiveIsKept

\* A gcroots link is that of a registered path, or of a directory that was
\* adopted although it is not registered.
THEOREM RootsSafe == GenSpec => []RootsAreValid
<1>1. IInv => RootsAreValid
  BY DEF IInv, RootInv
<1> QED  BY Invariance, <1>1, PTL

\* GRUB never reads a menu that ends in mid-entry.
THEOREM MenuSafe == GenSpec => []MenuIsWhole
<1>1. IInv => MenuIsWhole
  BY DEF IInv
<1> QED  BY Invariance, <1>1, PTL

\* An entry keeps its root unless a tool was killed or failed half way, or the
\* name does not match itself as a pattern.
THEOREM EntrySafe == GenSpec => []EntryKeepsRoot
<1>1. IInv => EntryKeepsRoot
  BY DEF IInv, EntryInv, EntryKeepsRoot
<1> QED  BY Invariance, <1>1, PTL

\* A step of a tool changes its own entry only, and nixgen-remove those that
\* its pattern matches.
THEOREM EntriesSafe == GenSpec => OneEntryAtATime
<1>1. ASSUME IInv, [GenNext]_genVars
      PROVE  [cfg # NoMenu =>
                \A g \in Gen \ {gen} :
                   \/ g \in Entries(cfg) <=> g \in Entries(cfg')
                   \/ pc = "pruned" /\ g \in Matched[gen] /\ g \notin Entries(cfg')]_genVars
  <2>1. CASE EntryMove
    BY <1>1, <2>1 DEF EntryMove, IInv, NewInv, Entries
  <2>2. CASE PruneMove
    BY <1>1, <2>2 DEF PruneMove, IInv, NewInv, Entries
  <2>3. CASE ~EntryMove /\ ~PruneMove /\ ~UNCHANGED genVars
    <3>1. cfg' = cfg
      BY <1>1, <2>3 DEF GenNext, diskVars, StartImport, Adopt, RemoveRefuses,
         Unroot, Deduplicate, RestorePath, RegisterPath, AddRoot, ImportPathDone,
         ImportFails, EntryExists, EntryCopy, EntryAppend, EntryLink, RemoveGens,
         Invalidate, Unlink, DeleteFails, Prune, RemoveDone, SoftReboot,
         SoftRebootFails, Switch, Killed, PowerCycle, ToolEnds
    <3> QED  BY <3>1
  <2> QED  BY <2>1, <2>2, <2>3
<1> QED  BY Invariance, <1>1, PTL DEF GenSpec, OneEntryAtATime
=============================================================================
