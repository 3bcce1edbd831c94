----------------------------- MODULE Generations -----------------------------
(***************************************************************************)
(* The tools that keep bootable generations on the store disk              *)
(* (src/arch/nixgen, src/arch/*.cc): commit and update, import-path and    *)
(* adopt, remove, switch.  A generation is a store path; it is rooted by a *)
(* link in gcroots and offered at boot by a stanza of entries.cfg.         *)
(*                                                                         *)
(* One tool runs at a time, started by the administrator.  It can be       *)
(* killed, and power can be lost, between any two steps.  Of the store     *)
(* itself, which is StoreGC's, this module keeps what the tools see: the   *)
(* directory of a path, which scripts test with [ -d ], and its row in the *)
(* database, without which the collector ignores a link in gcroots.        *)
(***************************************************************************)
CONSTANTS
  Gen,        \* generations, by their store path basename
  Iso,        \* the generation of the ISO image, not on the store disk
  NoGen,      \* no generation, an empty marker file
  NoMenu,     \* a menu file that does not exist
  Matched     \* Matched[g]: the generations whose menuentry line matches the
              \* name g as a regular expression: usually g alone; a name with
              \* "+" or "?" in it may not match itself, and a name may occur in
              \* another one

PCs == {"idle", "import", "restore", "register", "root", "entry", "append", "move",
        "link", "remove", "delete", "unlink", "prune", "pruned", "softReboot"}

ASSUME IsoAssumption == Iso \notin Gen
ASSUME NoGenAssumption == NoGen \notin Gen \cup {Iso}
ASSUME NoMenuAssumption == NoMenu \notin [gens : SUBSET Gen, torn : BOOLEAN]
ASSUME MatchedAssumption == Matched \in [Gen -> SUBSET Gen]

VARIABLES
  \* The store disk: directories in nix/store, the rows of the database,
  \* gcroots links, entries.cfg and entries.cfg.new.
  dirs, valid, gcroots, cfg, new,
  \* The running system: the generation of its root file system, that of
  \* /proc/cmdline and /run/nixgen-active.
  live, cmdline, marker,
  \* The running tool: control state, its generation, what nixgen-remove
  \* has still to remove, its RUNNING and nixgen-switch's OLD.
  pc, gen, args, running, old,
  \* History: the generations whose entry was left without a root by a tool
  \* that was killed or failed, until one of them is made good; whether power
  \* was lost while the very first entry was written; the generations that
  \* were adopted although they are not registered; and whether the marker
  \* lies since nixgen-switch was killed.
  cut, cutFirst, strays, misled

diskVars == <<dirs, valid, gcroots, cfg, new>>
bootVars == <<live, cmdline, marker>>
toolVars == <<pc, gen, args, running, old>>
histVars == <<cut, cutFirst, strays, misled>>
genVars == <<diskVars, bootVars, toolVars, histVars>>

\* A menu file: the generations it has entries for, and whether it ends in
\* the middle of one.
Menu == [gens : SUBSET Gen, torn : BOOLEAN]
EmptyMenu == [gens |-> {}, torn |-> FALSE]
Entries(f) == IF f = NoMenu THEN {} ELSE f.gens

\* Mutant: the marker of nixgen-switch is not consulted.
RunningAtBoot == cmdline

\* The running generation as nixgen-remove determines it.
RunningGen == IF marker # NoGen THEN marker ELSE cmdline

Exit == pc' = "idle" /\ gen' = NoGen

-----------------------------------------------------------------------------
(***************************************************************************)
(* nixgen-commit and nixgen-update (import-dir, then nixgen-entry), and    *)
(* import-path.                                                            *)
(***************************************************************************)

\* The tree that is imported may be one the store has already.
StartImport(g) ==
  /\ pc = "idle"
  /\ pc' = "import"
  /\ gen' = g
  /\ UNCHANGED <<diskVars, bootVars, args, running, old, histVars>>

\* addToStoreFromDump() and addToStore(): a path that is valid is left alone;
\* what is found in its place otherwise is deleted ...
Deduplicate ==
  /\ pc = "import"
  /\ IF gen \in valid THEN pc' = "root" /\ UNCHANGED dirs
     ELSE pc' = "restore" /\ dirs' = dirs \ {gen}
  /\ UNCHANGED <<valid, gcroots, cfg, new, bootVars, gen, args, running, old, histVars>>

\* ... the path is moved or restored into its place ...
RestorePath ==
  /\ pc = "restore"
  /\ dirs' = dirs \cup {gen}
  /\ pc' = "register"
  /\ UNCHANGED <<valid, gcroots, cfg, new, bootVars, gen, args, running, old, histVars>>

\* ... and entered into the database.
RegisterPath ==
  /\ pc = "register"
  /\ valid' = valid \cup {gen}
  /\ strays' = strays \ {gen}
  /\ pc' = "root"
  /\ UNCHANGED <<dirs, gcroots, cfg, new, bootVars, gen, args, running, old, cut,
                 cutFirst, misled>>

\* import-dir goes on with addPermRoot() ...
AddRoot ==
  /\ pc = "root"
  /\ gcroots' = gcroots \cup {gen}
  /\ cut' = IF cfg = NoMenu THEN cut ELSE cut \ {gen}
  /\ pc' = "entry"
  /\ UNCHANGED <<dirs, valid, cfg, new, bootVars, gen, args, running, old, cutFirst,
                 strays, misled>>

\* ... import-path makes no root.
ImportPathDone ==
  /\ pc = "root"
  /\ Exit
  /\ UNCHANGED <<diskVars, bootVars, args, running, old, histVars>>

\* The import throws (a full disk, for one): the tool ends.
ImportFails ==
  /\ pc \in {"import", "restore", "register", "root"}
  /\ Exit
  /\ UNCHANGED <<diskVars, bootVars, args, running, old, histVars>>

\* A generation that is adopted unregistered has a root the collector ignores.
AdoptedAs(g) == strays' = IF g \in dirs \ valid THEN strays \cup {g} ELSE strays

\* Mutant: there need not be a directory.
AdoptUnchecked(g) ==
  /\ pc = "idle"
  /\ pc' = "entry"
  /\ gen' = g
  /\ AdoptedAs(g)
  /\ UNCHANGED <<diskVars, bootVars, args, running, old, cut, cutFirst, misled>>

\* nixgen-adopt of a directory that has a kernel, registered or not.
Adopt(g) ==
  /\ pc = "idle"
  /\ g \in dirs
  /\ pc' = "entry"
  /\ gen' = g
  /\ AdoptedAs(g)
  /\ UNCHANGED <<diskVars, bootVars, args, running, old, cut, cutFirst, misled>>

-----------------------------------------------------------------------------
(***************************************************************************)
(* nixgen-entry                                                            *)
(***************************************************************************)

EntryExists ==
  /\ pc = "entry"
  /\ gen \in Entries(cfg)
  /\ strays' = strays \cap gcroots
  /\ Exit
  /\ UNCHANGED <<diskVars, bootVars, args, running, old, cut, cutFirst, misled>>

\* Mutant: a copy that is there already is used.
EntryCopyOnce ==
  /\ pc = "entry"
  /\ gen \notin Entries(cfg)
  /\ new' = IF cfg # NoMenu /\ new = NoMenu THEN cfg ELSE new
  /\ pc' = "append"
  /\ UNCHANGED <<dirs, valid, gcroots, cfg, bootVars, gen, args, running, old, histVars>>

\* cp entries.cfg entries.cfg.new, if there is one.
EntryCopy ==
  /\ pc = "entry"
  /\ gen \notin Entries(cfg)
  /\ new' = IF cfg # NoMenu THEN cfg ELSE new
  /\ pc' = "append"
  /\ UNCHANGED <<dirs, valid, gcroots, cfg, bootVars, gen, args, running, old, histVars>>

\* cat >> entries.cfg.new
EntryAppend ==
  /\ pc = "append"
  /\ new' = LET menu == IF new = NoMenu THEN EmptyMenu ELSE new
            IN [menu EXCEPT !.gens = @ \cup {gen}]
  /\ pc' = "move"
  /\ UNCHANGED <<dirs, valid, gcroots, cfg, bootVars, gen, args, running, old, histVars>>

\* mv entries.cfg.new entries.cfg
EntryMove ==
  /\ pc = "move"
  /\ cfg' = new
  /\ new' = NoMenu
  /\ pc' = "link"
  /\ UNCHANGED <<dirs, valid, gcroots, bootVars, gen, args, running, old, histVars>>

\* Mutant: the root is left to import-dir.
EntryNoLink ==
  /\ pc = "link"
  /\ Exit
  /\ UNCHANGED <<diskVars, bootVars, args, running, old, histVars>>

\* The root comes last.
EntryLink ==
  /\ pc = "link"
  /\ gcroots' = gcroots \cup {gen}
  /\ cut' = cut \ {gen}
  /\ Exit
  /\ UNCHANGED <<dirs, valid, cfg, new, bootVars, args, running, old, cutFirst, strays,
                 misled>>

-----------------------------------------------------------------------------
(***************************************************************************)
(* nixgen-remove                                                           *)
(***************************************************************************)

RemoveGens(S) ==
  /\ pc = "idle"
  /\ S # {}
  /\ pc' = "remove"
  /\ args' = S
  /\ running' = RunningGen
  /\ UNCHANGED <<diskVars, bootVars, gen, old, histVars>>

\* No such directory, or running.
RemoveRefuses(g) ==
  /\ pc = "remove"
  /\ g \in args
  /\ g \notin dirs \/ g = running
  /\ args' = args \ {g}
  /\ UNCHANGED <<diskVars, bootVars, pc, gen, running, old, histVars>>

\* rm-path: the link is removed first; that there is none is fine ...
Unroot(g) ==
  /\ pc = "remove"
  /\ g \in args
  /\ g \in dirs /\ g # running
  /\ gcroots' = gcroots \ {g}
  /\ strays' = strays \ {g}
  /\ gen' = g
  /\ pc' = "delete"
  /\ UNCHANGED <<dirs, valid, cfg, new, bootVars, args, running, old, cut, cutFirst,
                 misled>>

\* ... then the path is collected: its row goes, if it has one ...
Invalidate ==
  /\ pc = "delete"
  /\ valid' = valid \ {gen}
  /\ pc' = "unlink"
  /\ UNCHANGED <<dirs, gcroots, cfg, new, bootVars, gen, args, running, old, histVars>>

\* ... and its directory ...
Unlink ==
  /\ pc = "unlink"
  /\ dirs' = dirs \ {gen}
  /\ pc' = "prune"
  /\ UNCHANGED <<valid, gcroots, cfg, new, bootVars, gen, args, running, old, histVars>>

\* ... unless the path is in use or something fails, before or after it is
\* invalidated: on to the next argument.
DeleteFails ==
  /\ pc \in {"delete", "unlink"}
  /\ pc' = "remove"
  /\ gen' = NoGen
  /\ args' = args \ {gen}
  /\ cut' = IF gen \in Entries(cfg) THEN cut \cup {gen} ELSE cut
  /\ UNCHANGED <<diskVars, bootVars, running, old, cutFirst, strays, misled>>

\* Mutant: awk goes on skipping after the entry.
PruneRest ==
  /\ pc = "prune"
  /\ new' = IF cfg = NoMenu THEN new ELSE [cfg EXCEPT !.gens = {}]
  /\ pc' = "pruned"
  /\ UNCHANGED <<dirs, valid, gcroots, cfg, bootVars, gen, args, running, old, histVars>>

\* awk copies the entries whose first line does not match the name.
Prune ==
  /\ pc = "prune"
  /\ new' = IF cfg = NoMenu THEN new
            ELSE [cfg EXCEPT !.gens = @ \ Matched[gen]]
  /\ pc' = "pruned"
  /\ UNCHANGED <<dirs, valid, gcroots, cfg, bootVars, gen, args, running, old, histVars>>

PruneMove ==
  /\ pc = "pruned"
  /\ IF cfg = NoMenu THEN UNCHANGED <<cfg, new>> ELSE cfg' = new /\ new' = NoMenu
  /\ pc' = "remove"
  /\ gen' = NoGen
  /\ args' = args \ {gen}
  /\ cut' = IF cfg = NoMenu THEN cut ELSE cut \cap Entries(new)
  /\ UNCHANGED <<dirs, valid, gcroots, bootVars, running, old, cutFirst, strays, misled>>

RemoveDone ==
  /\ pc = "remove"
  /\ args = {}
  /\ running' = NoGen
  /\ Exit
  /\ UNCHANGED <<diskVars, bootVars, args, old, histVars>>

-----------------------------------------------------------------------------
(***************************************************************************)
(* nixgen-switch and the power button.                                     *)
(***************************************************************************)

\* The target is staged and the marker names it ...
Switch(g) ==
  /\ pc = "idle"
  /\ g \in dirs \cup {Iso}
  /\ old' = marker
  /\ marker' = g
  /\ gen' = g
  /\ pc' = "softReboot"
  /\ UNCHANGED <<diskVars, live, cmdline, args, running, histVars>>

\* ... and the new root takes over; /run and the command line survive ...
SoftReboot ==
  /\ pc = "softReboot"
  /\ live' = gen
  /\ misled' = FALSE
  /\ old' = NoGen
  /\ Exit
  /\ UNCHANGED <<diskVars, cmdline, marker, args, running, cut, cutFirst, strays>>

\* ... or the request is refused and the marker restored.
SoftRebootFails ==
  /\ pc = "softReboot"
  /\ marker' = old
  /\ old' = NoGen
  /\ Exit
  /\ UNCHANGED <<diskVars, live, cmdline, args, running, histVars>>

\* The tool that is running writes entries.cfg.new.
Writing ==
  \/ pc = "append"
  \/ cfg # NoMenu /\ (pc = "prune" \/ (pc = "entry" /\ gen \notin cfg.gens))

\* The entry of the tool's generation, in the menu or in the file that will be
\* taken for a copy of it, is without a root.
Halfway ==
  \/ pc = "link" /\ gen \notin gcroots
  \/ pc = "move" /\ cfg = NoMenu
  \/ pc \in {"delete", "unlink", "prune", "pruned"} /\ gen \in Entries(cfg)

\* The tool ends where it is; a file that it is writing may be cut off.
ToolEnds ==
  /\ \E torn \in IF Writing THEN BOOLEAN ELSE {FALSE} :
        /\ new' = IF torn THEN [gens |-> Entries(new), torn |-> TRUE] ELSE new
        /\ cutFirst' = (cutFirst \/ (torn /\ cfg = NoMenu))
  /\ cut' = IF Halfway THEN cut \cup {gen} ELSE cut
  /\ strays' = strays \cap gcroots
  /\ args' = {}
  /\ running' = NoGen
  /\ old' = NoGen
  /\ Exit
  /\ UNCHANGED <<dirs, valid, gcroots, cfg>>

\* The shell truncates the marker before it writes the name.
Killed ==
  /\ pc # "idle"
  /\ ToolEnds
  /\ marker' \in IF pc = "softReboot" THEN {marker, NoGen} ELSE {marker}
  /\ UNCHANGED <<live, cmdline>>
  /\ misled' = ((misled \/ pc = "softReboot") /\ RunningGen' # live)

\* The next boot takes the ISO or an entry of the menu whose generation is
\* there; /run is fresh.
PowerCycle(g) ==
  /\ g = Iso \/ (g \in Entries(cfg) \cap dirs /\ ~cfg.torn)
  /\ ToolEnds
  /\ live' = g
  /\ cmdline' = g
  /\ marker' = NoGen
  /\ misled' = FALSE

-----------------------------------------------------------------------------
\* A store that has been in use, or a blank disk.
GenInit ==
  /\ valid \in SUBSET Gen
  /\ dirs = valid
  /\ gcroots \in SUBSET valid
  /\ cfg \in {[gens |-> S, torn |-> FALSE] : S \in SUBSET gcroots}
             \cup (IF valid = {} THEN {NoMenu} ELSE {})
  /\ new = NoMenu
  /\ live \in (Entries(cfg) \cup {Iso})
  /\ cmdline = live
  /\ marker = NoGen
  /\ pc = "idle"
  /\ gen = NoGen
  /\ args = {}
  /\ running = NoGen
  /\ old = NoGen
  /\ cut = {}
  /\ cutFirst = FALSE
  /\ strays = {}
  /\ misled = FALSE

GenNext ==
  \/ \E g \in Gen : StartImport(g) \/ Adopt(g) \/ RemoveRefuses(g) \/ Unroot(g)
  \/ Deduplicate \/ RestorePath \/ RegisterPath \/ AddRoot \/ ImportPathDone \/ ImportFails
  \/ EntryExists \/ EntryCopy \/ EntryAppend \/ EntryMove \/ EntryLink
  \/ \E S \in SUBSET Gen : RemoveGens(S)
  \/ Invalidate \/ Unlink \/ DeleteFails \/ Prune \/ PruneMove \/ RemoveDone
  \/ SoftReboot \/ SoftRebootFails \/ Killed
  \/ \E g \in Gen \cup {Iso} : Switch(g) \/ PowerCycle(g)

GenSpec == GenInit /\ [][GenNext]_genVars

-----------------------------------------------------------------------------
(***************************************************************************)
(* Properties.                                                             *)
(***************************************************************************)
\* The types of all variables.
GenTypeOK ==
  /\ dirs \in SUBSET Gen
  /\ valid \in SUBSET Gen
  /\ gcroots \in SUBSET Gen
  /\ cfg \in Menu \cup {NoMenu}
  /\ new \in Menu \cup {NoMenu}
  /\ live \in Gen \cup {Iso}
  /\ cmdline \in Gen \cup {Iso}
  /\ marker \in Gen \cup {Iso, NoGen}
  /\ pc \in PCs
  /\ gen \in Gen \cup {Iso, NoGen}
  /\ args \in SUBSET Gen
  /\ running \in Gen \cup {Iso, NoGen}
  /\ old \in Gen \cup {Iso, NoGen}
  /\ cut \in SUBSET Gen
  /\ cutFirst \in BOOLEAN
  /\ strays \in SUBSET Gen
  /\ misled \in BOOLEAN

\* No tool deletes the directory that the system runs from, whatever was
\* switched to, refused, killed or power-cycled before (nixgen-remove:5, the
\* marker of nixgen-switch:12-14), with two exceptions: after nixgen-switch
\* was killed with the marker changed, until the next boot (this is what
\* MarkerTellsTruth is about), and when the tree is imported anew while the
\* running directory is not registered (local-store.cc:1555).
LiveIsKept ==
  [][(live \in dirs /\ ~misled /\ ~(pc = "import" /\ live \notin valid))
       => live \in dirs']_genVars

\* What nixgen-switch:103 says: the "marker must not lie about a switch that
\* didn't happen".  With no tool at work, nixgen-remove's idea of the
\* running generation is the running generation.
MarkerTellsTruth == pc = "idle" => RunningGen = live

\* The generation of a gcroots link is in the database, so that the collector
\* heeds the link (gc.cc:250-253): links are made after the row and removed
\* before it, whatever is killed in between.  The exception is a directory
\* that nixgen-adopt took although it is not registered, until it is
\* imported or removed.
RootsAreValid == gcroots \subseteq valid \cup strays

\* The menu that GRUB reads is never one that ends in mid-entry, although
\* power may be lost while the copy is written and the remains of the copy
\* are still there when the next tool starts (nixgen-entry:3-4).  The first
\* entry ever written is the exception.
MenuIsWhole == cfg # NoMenu /\ cfg.torn => cutFirst

\* In an existing menu a tool touches no entry but its own, and nixgen-remove
\* also those that its pattern matches (nixgen-remove:67); no entry is
\* revived or dropped by what an earlier tool has left in entries.cfg.new.
OneEntryAtATime ==
  [][cfg # NoMenu =>
       \A g \in Gen \ {gen} :
          \/ g \in Entries(cfg) <=> g \in Entries(cfg')
          \/ pc = "pruned" /\ g \in Matched[gen] /\ g \notin Entries(cfg')]_genVars

\* The generations whose entry nixgen-remove does not find: the name is used
\* as a regular expression that does not match the name itself.
Unmatched == {g \in Gen : g \notin Matched[g]}

\* An entry whose generation has no root belongs to the tool at work, to an
\* adoption or a removal that was killed or failed, or to a name that
\* nixgen-remove's pattern does not find (nixgen-remove:67): a tool that has
\* run to its end leaves no other.
EntryKeepsRoot == Entries(cfg) \ (gcroots \cup {gen}) \subseteq cut \cup Unmatched

\* What nixgen-entry:5-6 says: "an entry implies a GC root, so a menu line
\* can never point at a collectable path".
EntryImpliesRoot == pc = "idle" => Entries(cfg) \subseteq gcroots
=============================================================================
