------------------------------ MODULE LinkFarm ------------------------------
(***************************************************************************)
(* Deduplication (src/src/libstore/optimise-store.cc): the directory       *)
(* .links holds one hard link per file content, named after the hash of    *)
(* the content, and optimisePath_() replaces the files of the store by     *)
(* hard links to it.  Optimising threads, which may belong to different    *)
(* processes, an import with streaming deduplication (AsyncFileHasher::    *)
(* tryDedup() in local-store.cc) and the cleanup of a garbage collection   *)
(* (gc.cc) work on the same inodes.                                        *)
(*                                                                         *)
(* A content stands for its own hash, which covers the execute bit.        *)
(***************************************************************************)
EXTENDS Integers, FiniteSets, Sequences

CONSTANTS
  File,        \* the files of the store
  NewFile,     \* the files that the import creates, a subset of File
  DirOf,       \* DirOf[f]: the directory, a store path, that f is in
  Optimiser,   \* the threads in optimisePath_()
  Process,     \* their processes; threads of a process share an InodeHash
  Jobs,        \* the ways to give each thread a process and a directory
  Content,     \* what regular files and symlinks contain
  Size,        \* Size[c]: st_size
  FInode,      \* inodes, which the file system recycles
  MaxLinks,    \* the largest link count of the file system
  FarmStarts       \* the states that the store may be in at first

ASSUME NewFileAssumption == NewFile \subseteq File
ASSUME FiniteAssumption ==
  IsFiniteSet(File) /\ IsFiniteSet(Content) /\ IsFiniteSet(Optimiser)
ASSUME SizeAssumption == Size \in [Content -> Nat]
ASSUME MaxLinksAssumption == MaxLinks \in Nat

None == 0      \* no inode

ASSUME NamesAssumption == None \notin FInode /\ "none" \notin File \cup Content

\* Files have what was put into them.  A link may have been corrupted, in which
\* case it has another size: without repair, optimisePath_() sees no more.  A
\* file that has the inode of a link has that of the link for its content.
ASSUME StartsAssumption == \A s \in FarmStarts :
  /\ s.want \in [File -> Content]
  /\ s.store \in [File -> FInode \cup {None}]
  /\ s.content \in [FInode -> Content]
  /\ s.links \in [Content -> FInode \cup {None}]
  /\ \A f \in File : IF f \in NewFile THEN s.store[f] = None
                      ELSE s.store[f] # None /\ s.content[s.store[f]] = s.want[f]
  /\ \A c \in Content : s.links[c] # None =>
        /\ Size[c] > 0
        /\ s.content[s.links[c]] = c \/ Size[s.content[s.links[c]]] # Size[c]
        /\ \A f \in File : s.store[f] = s.links[c] => s.store[f] = s.links[s.want[f]]

Dir == {DirOf[f] : f \in File}

ASSUME JobsAssumption == Jobs \subseteq [Optimiser -> [process : Process, dir : Dir]]

VARIABLES
  job,        \* job[t]: the process and the directory of thread t
  want,       \* want[f]: the content that was put into f
  content,    \* content[i]: the content of the inode
  store,      \* store[f]: the inode of a file of the store
  links,      \* links[c]: the inode of .links/<hash of c>
  temp,       \* temp[t]: the inode of .tmp-link-<pid>-<n>, for the import
              \*   that of <file>.dedup~
  canonical,  \* the directories with canonical permissions and mtime
  inodeHash,  \* inodeHash[p]: the inodes that process p knows to be linked
  fpc,        \* control state of the optimisers and the import
  names,      \* names[t]: the files that are left in the directory
  cur,        \* cur[t]: the file at hand, as lstat() saw it, and .links/<hash>
  toggled,    \* the threads that made their directory writable
  cleanup,    \* the .links cleanup: control state, names left, name at hand
  disturbed   \* history: something else than one undisturbed pass happened

farmVars == <<job, want, content, store, links, temp, canonical, inodeHash, fpc,
              names, cur, toggled, cleanup, disturbed>>

Import == "import"  \* the importing thread
Actor == Optimiser \cup {Import}

ASSUME ImportAssumption == Import \notin Optimiser

NoFile == [file |-> "none", ino |-> None, hash |-> "none", link |-> None]

\* st_nlink of an inode in the given directories.
NLinks(i, s, l, t) ==
  Cardinality({f \in File : s[f] = i}) + Cardinality({c \in Content : l[c] = i})
    + Cardinality({a \in Actor : t[a] = i})
nlink(i) == NLinks(i, store, links, temp)

Linked == {links[c] : c \in Content} \ {None}
FreeInode(i) == nlink(i) = 0
Existing(d) == {f \in File : DirOf[f] = d /\ store[f] # None}

\* The hash of the current file of t.
HashAtHand(t) == cur[t].hash

FPCs == {"idle", "dir", "file", "lstat", "corrupt", "create", "exists",
         "replace", "temp", "rename", "done", "failed"}

FarmInit ==
  /\ job \in Jobs
  /\ \E s \in FarmStarts :
        want = s.want /\ store = s.store /\ links = s.links /\ content = s.content
  /\ temp = [a \in Actor |-> None]
  /\ canonical = Dir
  /\ inodeHash = [p \in Process |-> {}]
  /\ fpc = [a \in Actor |-> "idle"]
  /\ names = [t \in Optimiser |-> {}]
  /\ cur = [a \in Actor |-> NoFile]
  /\ toggled = {}
  /\ cleanup = [pc |-> "idle", left |-> {}, name |-> "none"]
  /\ disturbed = FALSE

Goto(a, label) == fpc' = [fpc EXCEPT ![a] = label]

-----------------------------------------------------------------------------
(* optimiseStore(), optimisePath(): one thread per store path.             *)

\* loadInodeHash(): the inodes that .links has at this time.
LoadInodeHash(p) == inodeHash[p] \cup Linked

\* addTempRoot() and isValidPath(): a path that is gone is left alone.
Start(t) ==
  /\ fpc[t] = "idle"
  /\ inodeHash' = [inodeHash EXCEPT ![job[t].process] = LoadInodeHash(job[t].process)]
  /\ Goto(t, IF Existing(job[t].dir) = {} THEN "done" ELSE "dir")
  /\ UNCHANGED <<job, want, content, store, links, temp, canonical, names, cur,
                 toggled, cleanup, disturbed>>

\* readDirectoryIgnoringInodes().
ReadDirectory(t) ==
  /\ fpc[t] = "dir"
  /\ names' = [names EXCEPT ![t] =
        {f \in Existing(job[t].dir) : store[f] \notin inodeHash[job[t].process]}]
  /\ Goto(t, "file")
  /\ UNCHANGED <<job, want, content, store, links, temp, canonical, inodeHash, cur,
                 toggled, cleanup, disturbed>>

\* The early returns for a regular file: empty, or linked already.
Skipped(t, f) ==
  \/ Size[content[store[f]]] = 0
  \/ nlink(store[f]) > 1 /\ store[f] \in inodeHash[job[t].process]

\* optimisePath_() of the next file: lstat() and hashPath(), or the hash that
\* the import captured.
Lstat(t) ==
  /\ fpc[t] = "file"
  /\ \E f \in names[t] :
        /\ names' = [names EXCEPT ![t] = @ \ {f}]
        /\ IF Skipped(t, f)
           THEN UNCHANGED <<cur, fpc>>
           ELSE /\ cur' = [cur EXCEPT ![t] =
                              [file |-> f, ino |-> store[f],
                               hash |-> content[store[f]], link |-> None]]
                /\ Goto(t, "lstat")
  /\ UNCHANGED <<job, want, content, store, links, temp, canonical, inodeHash,
                 toggled, cleanup, disturbed>>

\* The next file of the directory.
NextFile(t) ==
  /\ cur' = [cur EXCEPT ![t] = NoFile]
  /\ Goto(t, "file")

\* Mutant: whatever has the name of the hash is good.
LooksGood(t, i) == TRUE

\* The test for a corrupted link, without the repair flag.
SizeMatches(t, i) == Size[HashAtHand(t)] = Size[content[i]]

\* maybeLstat(linkPath).
LstatLink(t) ==
  /\ fpc[t] = "lstat"
  /\ LET i == links[HashAtHand(t)]
     IN  /\ cur' = [cur EXCEPT ![t].link = i]
         /\ Goto(t, IF i = None THEN "create"
                    ELSE IF SizeMatches(t, i) THEN "replace" ELSE "corrupt")
  /\ UNCHANGED <<job, want, content, store, links, temp, canonical, inodeHash,
                 names, toggled, cleanup, disturbed>>

\* unlinkIfExists() of a corrupted link.
RemoveCorrupted(t) ==
  /\ fpc[t] = "corrupt"
  /\ links' = [links EXCEPT ![HashAtHand(t)] = None]
  /\ cur' = [cur EXCEPT ![t].link = None]
  /\ Goto(t, "create")
  /\ disturbed' = TRUE
  /\ UNCHANGED <<job, want, content, store, temp, canonical, inodeHash, names,
                 toggled, cleanup>>

\* create_hard_link(path, linkPath) succeeds, and the file is the copy of the
\* farm; or there is no room in the directory, or no link left, and the error
\* ends the pass unless it is ENOSPC.
CreateLink(t) ==
  /\ fpc[t] = "create"
  /\ links[HashAtHand(t)] = None
  /\ \/ /\ nlink(store[cur[t].file]) < MaxLinks
        /\ links' = [links EXCEPT ![HashAtHand(t)] = store[cur[t].file]]
        /\ inodeHash' = [inodeHash EXCEPT ![job[t].process] = @ \cup {cur[t].ino}]
        /\ NextFile(t)
        /\ UNCHANGED disturbed
     \/ /\ NextFile(t)
        /\ disturbed' = TRUE
        /\ UNCHANGED <<links, inodeHash>>
     \/ /\ nlink(store[cur[t].file]) >= MaxLinks
        /\ Goto(t, "failed")
        /\ disturbed' = TRUE
        /\ UNCHANGED <<links, inodeHash, cur>>
  /\ UNCHANGED <<job, want, content, store, temp, canonical, names, toggled, cleanup>>

\* create_hard_link() finds that somebody else made the link.
LinkExists(t) ==
  /\ fpc[t] = "create"
  /\ links[HashAtHand(t)] # None
  /\ Goto(t, "exists")
  /\ UNCHANGED <<job, want, content, store, links, temp, canonical, inodeHash,
                 names, cur, toggled, cleanup, disturbed>>

\* The second maybeLstat(linkPath): the collector may have removed the link.
LstatAgain(t) ==
  /\ fpc[t] = "exists"
  /\ LET i == links[HashAtHand(t)]
     IN  IF i = None
         THEN NextFile(t)
         ELSE /\ cur' = [cur EXCEPT ![t].link = i]
              /\ Goto(t, "replace")
  /\ UNCHANGED <<job, want, content, store, links, temp, canonical, inodeHash,
                 names, toggled, cleanup, disturbed>>

\* Is it the same inode?  Otherwise the directory is made writable, once.
Compare(t) ==
  /\ fpc[t] = "replace"
  /\ IF cur[t].ino = cur[t].link
     THEN NextFile(t) /\ UNCHANGED <<canonical, toggled>>
     ELSE /\ Goto(t, "temp")
          /\ toggled' = toggled \cup {t}
          /\ canonical' = IF t \in toggled THEN canonical
                          ELSE canonical \ {job[t].dir}
          /\ UNCHANGED cur
  /\ UNCHANGED <<job, want, content, store, links, temp, inodeHash, names, cleanup,
                 disturbed>>

\* create_hard_link(linkPath, tempLink): skipped when the collector removed
\* the link (ENOENT) and when it has too many links (EMLINK).
TempLink(t) ==
  /\ fpc[t] = "temp"
  /\ LET i == links[HashAtHand(t)]
     IN  IF i = None \/ nlink(i) >= MaxLinks
         THEN NextFile(t) /\ disturbed' = TRUE /\ UNCHANGED temp
         ELSE /\ temp' = [temp EXCEPT ![t] = i]
              /\ Goto(t, "rename")
              /\ UNCHANGED <<cur, disturbed>>
  /\ UNCHANGED <<job, want, content, store, links, canonical, inodeHash, names,
                 toggled, cleanup>>

\* rename(tempLink, path).  Renaming a name to another name of the same inode
\* does nothing, and the temporary name stays.  When the collector has removed
\* the temporary name, the error ends the pass; when the file system finds too
\* many links, the temporary name is removed and the file is left.
Rename(t) ==
  /\ fpc[t] = "rename"
  /\ \/ /\ temp[t] # None
        /\ IF store[cur[t].file] = temp[t]
           THEN UNCHANGED <<store, temp, canonical>>
           ELSE /\ store' = [store EXCEPT ![cur[t].file] = temp[t]]
                /\ temp' = [temp EXCEPT ![t] = None]
                /\ canonical' = canonical \ {DirOf[cur[t].file]}
        /\ NextFile(t)
        /\ UNCHANGED disturbed
     \/ /\ temp[t] = None
        /\ Goto(t, "failed")
        /\ disturbed' = TRUE
        /\ UNCHANGED <<store, temp, canonical, cur>>
     \/ /\ temp[t] # None
        /\ nlink(temp[t]) >= MaxLinks
        /\ temp' = [temp EXCEPT ![t] = None]
        /\ NextFile(t)
        /\ disturbed' = TRUE
        /\ UNCHANGED <<store, canonical>>
  /\ UNCHANGED <<job, want, content, links, inodeHash, names, toggled, cleanup>>

\* The end of the directory, or an exception on the way: the destructor of
\* `restore' canonicalises a directory that was made writable.
Finish(t) ==
  /\ \/ fpc[t] = "file" /\ names[t] = {} /\ Goto(t, "done")
     \/ fpc[t] = "failed" /\ Goto(t, "done")
  /\ canonical' = IF t \in toggled THEN canonical \cup {job[t].dir} ELSE canonical
  /\ toggled' = toggled \ {t}
  /\ UNCHANGED <<job, want, content, store, links, temp, inodeHash, names, cur,
                 cleanup, disturbed>>

Optimise(t) ==
  \/ Start(t) \/ ReadDirectory(t) \/ Lstat(t) \/ LstatLink(t)
  \/ RemoveCorrupted(t) \/ CreateLink(t) \/ LinkExists(t) \/ LstatAgain(t)
  \/ Compare(t) \/ TempLink(t) \/ Rename(t) \/ Finish(t)

-----------------------------------------------------------------------------
(* AsyncFileHasher: an import restores a file, then looks for its content  *)
(* in the farm.                                                            *)

\* The file is restored into a new inode.
Restore ==
  /\ fpc[Import] = "idle"
  /\ \E f \in NewFile, i \in FInode :
        /\ store[f] = None
        /\ FreeInode(i)
        /\ store' = [store EXCEPT ![f] = i]
        /\ content' = [content EXCEPT ![i] = want[f]]
        /\ cur' = [cur EXCEPT ![Import] =
                      [file |-> f, ino |-> i, hash |-> want[f], link |-> None]]
  /\ Goto(Import, "lstat")
  /\ disturbed' = TRUE
  /\ UNCHANGED <<job, want, links, temp, canonical, inodeHash, names, toggled, cleanup>>

\* tryDedup() ends, whatever happened.
DedupDone ==
  /\ Goto(Import, "idle")
  /\ cur' = [cur EXCEPT ![Import] = NoFile]

\* tryDedup(): lstat() of the link; the size must match.
DedupLstat ==
  /\ fpc[Import] = "lstat"
  /\ LET i == links[HashAtHand(Import)]
     IN  IF i = None \/ Size[HashAtHand(Import)] = 0 \/ ~SizeMatches(Import, i)
         THEN DedupDone
         ELSE Goto(Import, "temp") /\ UNCHANGED cur
  /\ UNCHANGED <<job, want, content, store, links, temp, canonical, inodeHash,
                 names, toggled, cleanup, disturbed>>

\* link() to <file>.dedup~.
DedupLink ==
  /\ fpc[Import] = "temp"
  /\ LET i == links[HashAtHand(Import)]
     IN  IF i = None \/ nlink(i) >= MaxLinks
         THEN DedupDone /\ UNCHANGED temp
         ELSE /\ temp' = [temp EXCEPT ![Import] = i]
              /\ Goto(Import, "rename")
              /\ UNCHANGED cur
  /\ UNCHANGED <<job, want, content, store, links, canonical, inodeHash, names,
                 toggled, cleanup, disturbed>>

\* rename() over the file, or, when it fails, unlink().
DedupRename ==
  /\ fpc[Import] = "rename"
  /\ \/ store' = [store EXCEPT ![cur[Import].file] = temp[Import]]
     \/ UNCHANGED store
  /\ temp' = [temp EXCEPT ![Import] = None]
  /\ DedupDone
  /\ UNCHANGED <<job, want, content, links, canonical, inodeHash, names, toggled,
                 cleanup, disturbed>>

-----------------------------------------------------------------------------
(* The garbage collector.                                                  *)

\* A dead path is deleted; a path that is being optimised has a temporary root.
DeleteDead(d) ==
  /\ cleanup.pc = "idle"
  /\ Existing(d) # {}
  /\ \A t \in Optimiser : job[t].dir = d => fpc[t] = "idle"
  /\ \A f \in NewFile : DirOf[f] # d
  /\ store' = [f \in File |-> IF DirOf[f] = d THEN None ELSE store[f]]
  /\ disturbed' = TRUE
  /\ UNCHANGED <<job, want, content, links, temp, canonical, inodeHash, fpc, names,
                 cur, toggled, cleanup>>

\* A name in the store that is no store path is garbage: a temporary link.
DeleteTemp(t) ==
  /\ cleanup.pc = "idle"
  /\ temp[t] # None
  /\ temp' = [temp EXCEPT ![t] = None]
  /\ disturbed' = TRUE
  /\ UNCHANGED <<job, want, content, store, links, canonical, inodeHash, fpc, names,
                 cur, toggled, cleanup>>

\* opendir(linksDir).
CleanupStart ==
  /\ cleanup.pc = "idle"
  /\ cleanup' = [pc |-> "scan", left |-> {c \in Content : links[c] # None},
                 name |-> "none"]
  /\ disturbed' = TRUE
  /\ UNCHANGED <<job, want, content, store, links, temp, canonical, inodeHash, fpc,
                 names, cur, toggled>>

\* lstat() of the next link throws when an optimiser has just removed it;
\* a link with a link count of 1 is unlinked in a second step.
CleanupLstat ==
  /\ cleanup.pc = "scan"
  /\ \E c \in cleanup.left :
       cleanup' =
         [pc |-> IF links[c] = None THEN "failed"
                 ELSE IF nlink(links[c]) = 1 THEN "unlink" ELSE "scan",
          left |-> cleanup.left \ {c}, name |-> c]
  /\ UNCHANGED <<job, want, content, store, links, temp, canonical, inodeHash, fpc,
                 names, cur, toggled, disturbed>>

\* unlink() throws when the link is gone.
CleanupUnlink ==
  /\ cleanup.pc = "unlink"
  /\ cleanup' = [cleanup EXCEPT
        !.pc = IF links[cleanup.name] = None THEN "failed" ELSE "scan"]
  /\ links' = [links EXCEPT ![cleanup.name] = None]
  /\ UNCHANGED <<job, want, content, store, temp, canonical, inodeHash, fpc, names,
                 cur, toggled, disturbed>>

\* The last link has been looked at.
CleanupDone ==
  /\ cleanup.pc = "scan"
  /\ cleanup.left = {}
  /\ cleanup' = [cleanup EXCEPT !.pc = "done"]
  /\ UNCHANGED <<job, want, content, store, links, temp, canonical, inodeHash, fpc,
                 names, cur, toggled, disturbed>>

FarmNext ==
  \/ \E t \in Optimiser : Optimise(t)
  \/ Restore \/ DedupLstat \/ DedupLink \/ DedupRename
  \/ \E d \in Dir : DeleteDead(d)
  \/ \E t \in Optimiser : DeleteTemp(t)
  \/ CleanupStart \/ CleanupLstat \/ CleanupUnlink \/ CleanupDone

FarmSpec == FarmInit /\ [][FarmNext]_farmVars

-----------------------------------------------------------------------------
Names == File \cup {"none"}

\* Every name refers to an inode, and control states are those of the code.
FarmTypeOK ==
  /\ job \in Jobs
  /\ want \in [File -> Content]
  /\ content \in [FInode -> Content]
  /\ store \in [File -> FInode \cup {None}]
  /\ links \in [Content -> FInode \cup {None}]
  /\ temp \in [Actor -> FInode \cup {None}]
  /\ canonical \subseteq Dir
  /\ inodeHash \in [Process -> SUBSET FInode]
  /\ fpc \in [Actor -> FPCs]
  /\ names \in [Optimiser -> SUBSET File]
  /\ cur \in [Actor -> [file : Names, ino : FInode \cup {None},
                        hash : Content \cup {"none"}, link : FInode \cup {None}]]
  /\ toggled \subseteq Optimiser
  /\ cleanup \in [pc : {"idle", "scan", "unlink", "done", "failed"},
                  left : SUBSET Content, name : Content \cup {"none"}]
  /\ disturbed \in BOOLEAN

\* Whatever optimisers, the import and the collector do in between, a file of
\* the store has the content that was put into it, and a file that is being
\* optimised does not vanish: links are replaced by rename(), corrupted links
\* are recognised, and the hash covers the whole content.
ContentPreserved ==
  /\ \A f \in File : store[f] # None => content[store[f]] = want[f]
  /\ \A t \in Optimiser : fpc[t] \notin {"idle", "done"} =>
        \A f \in (names[t] \cup {cur[t].file}) \ {"none"} : store[f] # None

\* Dedup converges: when a pass over every directory was not disturbed by an
\* import, a collection, a corrupted link or a limit of the file system, files
\* with the same content share the inode of the farm.
PassConverges ==
  (~disturbed /\ \A t \in Optimiser : fpc[t] = "done") =>
    \A f \in File :
      (store[f] # None /\ Size[want[f]] > 0 /\ \E t \in Optimiser : job[t].dir = DirOf[f])
        => store[f] = links[want[f]]

\* Directories that were made writable for relinking are canonical again when
\* nobody is at work in them, whether the pass ended or threw.
DirsRestored ==
  \A d \in Dir :
    (\A t \in Optimiser : job[t].dir = d => fpc[t] \in {"idle", "done"}) => d \in canonical

\* optimisePath_(), tryDedup() and the collector on one farm: no content is lost
\* or exchanged, an undisturbed pass deduplicates everything, and directories are
\* canonical when nobody works in them.
FarmIsSound == FarmTypeOK /\ ContentPreserved /\ PassConverges /\ DirsRestored
=============================================================================
