--------------------------- MODULE LinkFarm_proofs ---------------------------
(***************************************************************************)
(* Proofs about deduplication: whatever number of optimising threads, in   *)
(* whatever processes and directories, an import and a collection share    *)
(* the farm, for any finite store.                                         *)
(***************************************************************************)
EXTENDS LinkFarm, FiniteSetTheorems, TLAPS

\* A thread is in the middle of optimisePath_() of a file.
BusyPCs == {"lstat", "corrupt", "create", "exists", "replace", "temp", "rename"}

\* What .links/<hash> refers to, if anything, has that content.
GoodLink(c) == links[c] # None => content[links[c]] = c

\* The file shares the inode of the farm, or is empty.
Converged(f) == Size[want[f]] > 0 => store[f] = links[want[f]]

-----------------------------------------------------------------------------
(* The inductive invariant.                                                *)

\* The file that a thread has at hand, and those that are left, are in its
\* directory and do not vanish; the hash is that of the content.
Hand(t) ==
  /\ fpc[t] = "idle" => names[t] = {}
  /\ fpc[t] \in {"idle", "dir", "file"} => cur[t].file = "none"
  /\ fpc[t] \in BusyPCs =>
       /\ cur[t].file \in File /\ cur[t].ino # None
       /\ cur[t].hash = want[cur[t].file] /\ Size[cur[t].hash] > 0
  /\ \A f \in names[t] : store[f] # None /\ DirOf[f] = job[t].dir
  /\ cur[t].file # "none" =>
       store[cur[t].file] # None /\ DirOf[cur[t].file] = job[t].dir

ImportHand ==
  /\ fpc[Import] \in {"idle", "lstat", "temp", "rename"}
  /\ fpc[Import] # "idle" =>
       /\ cur[Import].file \in NewFile /\ cur[Import].hash = want[cur[Import].file]
       /\ store[cur[Import].file] # None

HandInv == ImportHand /\ \A t \in Optimiser : Hand(t)

\* The contents of files and links.  A link that is not good can be told by
\* its size.
FilesInv == \A f \in File : store[f] # None => content[store[f]] = want[f]
LinksInv ==
  \A c \in Content : links[c] # None =>
    /\ Size[c] > 0
    /\ content[links[c]] = c \/ Size[content[links[c]]] # Size[c]

\* Once a thread has seen a good link or none, whatever gets the name of the
\* hash is good, and so is what it takes as its temporary link.
SeenGood(a, pcs) ==
  /\ fpc[a] \in pcs => GoodLink(cur[a].hash)
  /\ fpc[a] = "rename" /\ temp[a] # None => content[temp[a]] = cur[a].hash

ContentInv ==
  /\ FilesInv /\ LinksInv
  /\ \A t \in Optimiser : SeenGood(t, {"create", "exists", "replace", "temp"})
  /\ SeenGood(Import, {"temp"})
  /\ fpc[Import] = "rename" => temp[Import] # None

\* A directory that is not canonical has a thread that will restore it.
DirInv ==
  /\ \A t \in toggled : fpc[t] \notin {"idle", "done"}
  /\ \A t \in Optimiser : fpc[t] \in {"temp", "rename"} => t \in toggled
  /\ \A d \in Dir : d \in canonical \/ \E t \in toggled : job[t].dir = d

\* As long as nothing disturbs the pass, links stay, the file at hand keeps
\* its inode unless it gets that of the farm, and a file of a directory that a
\* thread is through with, or has left out, is a link to the farm.
Pass(t) ==
  /\ fpc[t] # "failed"
  /\ fpc[t] \in BusyPCs =>
       \/ cur[t].ino = store[cur[t].file]
       \/ store[cur[t].file] = links[cur[t].hash]
  /\ fpc[t] \in {"exists", "replace", "temp", "rename"} => links[cur[t].hash] # None
  /\ fpc[t] = "replace" => cur[t].link = links[cur[t].hash]
  /\ fpc[t] = "rename" => temp[t] = links[cur[t].hash]
  /\ fpc[t] \notin {"idle", "dir"} =>
       \A f \in File : DirOf[f] = job[t].dir /\ store[f] # None =>
         Converged(f) \/ (fpc[t] # "done" /\ f \in names[t] \cup {cur[t].file})

\* What is in .links, or was when a process looked, is linked by its content.
FarmKnown ==
  /\ \A f \in File : store[f] \in Linked => store[f] = links[want[f]]
  /\ \A p \in Process : \A f \in File :
       store[f] \in inodeHash[p] => store[f] = links[want[f]]

PassInv ==
  ~disturbed =>
    /\ cleanup.pc = "idle" /\ fpc[Import] = "idle"
    /\ FarmKnown
    /\ \A t \in Optimiser : Pass(t)

IInv == FarmTypeOK /\ HandInv /\ ContentInv /\ DirInv /\ PassInv
-----------------------------------------------------------------------------
(* Steps of an optimising thread.                                          *)

CurType == [file : Names, ino : FInode \cup {None},
            hash : Content \cup {"none"}, link : FInode \cup {None}]

\* Only thread t moves, and it keeps every file and its content.
StepOf(t) ==
  /\ UNCHANGED <<job, want, content, cleanup>>
  /\ \A u \in Actor \ {t} : cur'[u] = cur[u] /\ fpc'[u] = fpc[u] /\ temp'[u] = temp[u]
  /\ \A u \in Optimiser \ {t} : names'[u] = names[u]
  /\ \A f \in File : \/ store'[f] = store[f]
                     \/ store'[f] # None /\ content[store'[f]] = want[f]
  /\ \A c \in Content : \/ links'[c] = links[c] \/ links'[c] = None
                        \/ Size[c] > 0 /\ content[links'[c]] = c

\* The links stay, and a file that is linked anew is linked to the farm.
UndisturbedStep ==
  /\ \A c \in Content : links[c] # None => links'[c] = links[c]
  /\ \A f \in File : store'[f] = store[f] \/ store'[f] = links'[want[f]]

\* The step of one thread disturbs nothing that the others rely on.
LEMMA OthersKeep ==
  ASSUME IInv, FarmTypeOK', NEW t \in Optimiser, StepOf(t)
  PROVE  /\ FilesInv' /\ LinksInv' /\ ImportHand' /\ SeenGood(Import, {"temp"})'
         /\ (fpc[Import] = "rename" => temp[Import] # None)'
         /\ \A u \in Optimiser \ {t} :
              Hand(u)' /\ SeenGood(u, {"create", "exists", "replace", "temp"})'
<1> USE DEF IInv
<1>0. t # Import /\ Import \in Actor /\ \A u \in Optimiser : u \in Actor
  BY ImportAssumption DEF Actor
<1>1. FilesInv'
  BY DEF FilesInv, ContentInv, StepOf
<1>2. LinksInv'
  BY DEF LinksInv, ContentInv, StepOf
<1>3. \A c \in Content : GoodLink(c) => GoodLink(c)'
  BY DEF GoodLink, StepOf
<1>4. \A f \in File : store[f] # None => store'[f] # None
  BY DEF StepOf
<1>5. ImportHand'
  BY <1>0, <1>4, NewFileAssumption DEF ImportHand, HandInv, StepOf
<1>6. fpc[Import] = "temp" => cur[Import].hash \in Content
  BY NewFileAssumption DEF HandInv, ImportHand, FarmTypeOK
<1>7. SeenGood(Import, {"temp"})' /\ (fpc[Import] = "rename" => temp[Import] # None)'
  BY <1>0, <1>3, <1>6 DEF ContentInv, SeenGood, StepOf
<1>8. ASSUME NEW u \in Optimiser \ {t}
      PROVE  Hand(u)'
  BY <1>0, <1>4, NamesAssumption DEF Hand, HandInv, StepOf, FarmTypeOK, Names
<1>9. ASSUME NEW u \in Optimiser \ {t}
      PROVE  SeenGood(u, {"create", "exists", "replace", "temp"})'
  <2>1. fpc[u] \in {"create", "exists", "replace", "temp"} => cur[u].hash \in Content
    BY <1>0 DEF HandInv, Hand, BusyPCs, FarmTypeOK
  <2> QED  BY <1>0, <1>3, <2>1 DEF ContentInv, SeenGood, StepOf
<1> QED  BY <1>1, <1>2, <1>5, <1>7, <1>8, <1>9

\* And it does not stop them from converging.
LEMMA OthersConverge ==
  ASSUME IInv, FarmTypeOK', NEW t \in Optimiser, StepOf(t), ~disturbed, UndisturbedStep
  PROVE  /\ (cleanup.pc = "idle" /\ fpc[Import] = "idle")'
         /\ \A f \in File : Converged(f) /\ store[f] # None => Converged(f)'
         /\ \A u \in Optimiser \ {t} : Pass(u)'
<1> USE DEF IInv
<1>0. t # Import /\ Import \in Actor /\ \A u \in Optimiser : u \in Actor
  BY ImportAssumption DEF Actor
<1>1. (cleanup.pc = "idle" /\ fpc[Import] = "idle")'
  BY <1>0 DEF PassInv, StepOf
<1>2. \A f \in File : want[f] \in Content /\ want'[f] = want[f]
  BY DEF FarmTypeOK, StepOf
<1>3. \A f \in File : Converged(f) /\ store[f] # None => Converged(f)'
  BY <1>2 DEF Converged, UndisturbedStep
<1>4. \A f \in File : store'[f] # store[f] => Converged(f)' /\ store'[f] = links'[want[f]]
  BY <1>2 DEF Converged, UndisturbedStep
<1>5. \A f \in File : store'[f] # None => store[f] # None \/ Converged(f)'
  BY <1>4
<1>6. ASSUME NEW u \in Optimiser \ {t}
      PROVE  Pass(u)'
  <2>1. Pass(u) /\ Hand(u)
    BY DEF PassInv, HandInv
  <2>2. /\ fpc'[u] = fpc[u] /\ cur'[u] = cur[u] /\ temp'[u] = temp[u]
        /\ names'[u] = names[u] /\ job' = job
    BY <1>0 DEF StepOf
  <2>3. fpc[u] \in BusyPCs => cur[u].file \in File /\ cur[u].hash = want[cur[u].file]
                             /\ cur[u].hash \in Content
    BY <2>1, <1>2 DEF Hand
  <2>4. fpc'[u] # "failed"
    BY <2>1, <2>2 DEF Pass
  <2>5. fpc'[u] \in BusyPCs => \/ cur'[u].ino = store'[cur'[u].file]
                              \/ store'[cur'[u].file] = links'[cur'[u].hash]
    <3> SUFFICES ASSUME fpc[u] \in BusyPCs, store'[cur[u].file] = store[cur[u].file]
                 PROVE  \/ cur[u].ino = store'[cur[u].file]
                        \/ store'[cur[u].file] = links'[cur[u].hash]
      BY <1>4, <2>2, <2>3
    <3>1. CASE cur[u].ino = store[cur[u].file]
      BY <3>1
    <3>2. CASE store[cur[u].file] = links[cur[u].hash]
      <4>1. store[cur[u].file] # None
        BY <2>1, <2>3, NamesAssumption DEF Hand
      <4> QED  BY <2>3, <3>2, <4>1 DEF UndisturbedStep
    <3> QED  BY <2>1, <3>1, <3>2 DEF Pass
  <2>6. /\ fpc'[u] \in {"exists", "replace", "temp", "rename"} => links'[cur'[u].hash] # None
        /\ fpc'[u] = "replace" => cur'[u].link = links'[cur'[u].hash]
        /\ fpc'[u] = "rename" => temp'[u] = links'[cur'[u].hash]
    BY <2>1, <2>2, <2>3 DEF Pass, BusyPCs, UndisturbedStep
  <2>7. fpc'[u] \notin {"idle", "dir"} =>
          \A f \in File : DirOf[f] = job'[u].dir /\ store'[f] # None =>
            Converged(f)' \/ (fpc'[u] # "done" /\ f \in names'[u] \cup {cur'[u].file})
    BY <1>3, <1>5, <2>1, <2>2 DEF Pass
  <2> QED  BY <2>4, <2>5, <2>6, <2>7 DEF Pass
<1> QED  BY <1>1, <1>3, <1>6

\* What remains to be shown of a step of a thread: its own part.
LEMMA OwnPart ==
  ASSUME IInv, FarmTypeOK', NEW t \in Optimiser, StepOf(t),
         Hand(t)', SeenGood(t, {"create", "exists", "replace", "temp"})', DirInv',
         ~disturbed' => ~disturbed /\ UndisturbedStep /\ FarmKnown' /\ Pass(t)'
  PROVE  IInv'
<1>1. HandInv'
  BY OthersKeep DEF HandInv
<1>2. ContentInv'
  BY OthersKeep DEF ContentInv
<1>3. PassInv'
  BY OthersConverge DEF PassInv
<1> QED  BY <1>1, <1>2, <1>3 DEF IInv

\* Where no name changes, what is known of the farm does not, either.
LEMMA KnownStill ==
  ASSUME IInv, ~disturbed, UNCHANGED <<want, store, links, inodeHash>>
  PROVE  FarmKnown' /\ UndisturbedStep
BY DEF IInv, PassInv, FarmKnown, Linked, UndisturbedStep

\* The end of a directory that t works in: canonical if t restored it.
LEMMA SameDirs ==
  ASSUME IInv, NEW t \in Optimiser, UNCHANGED <<canonical, toggled, job>>,
         \A u \in Actor \ {t} : fpc'[u] = fpc[u],
         fpc[t] \in {"temp", "rename"} => fpc'[t] \notin {"idle", "done"},
         t \notin toggled => fpc'[t] \notin {"temp", "rename"},
         t \in toggled => fpc'[t] \notin {"idle", "done"}
  PROVE  DirInv'
<1>1. \A u \in Optimiser : u \in Actor
  BY DEF Actor
<1>2. toggled \subseteq Optimiser
  BY DEF IInv, FarmTypeOK
<1> QED  BY <1>1, <1>2 DEF IInv, DirInv

\* The path is looked up, and the process learns what is in .links.
LEMMA StartStep ==
  ASSUME IInv, NEW t \in Optimiser, Start(t)
  PROVE  IInv'
<1> USE DEF Start, Goto
<1> DEFINE p == job[t].process
<1>0. t \in Actor /\ t # Import /\ p \in Process
  BY ImportAssumption, JobsAssumption DEF Actor, IInv, FarmTypeOK
<1>1. Linked \subseteq FInode
  BY DEF Linked, IInv, FarmTypeOK
<1>2. FarmTypeOK'
  BY <1>0, <1>1 DEF IInv, FarmTypeOK, FPCs, LoadInodeHash
<1>3. /\ fpc[t] = "idle" /\ fpc'[t] \in {"done", "dir"}
      /\ fpc'[t] = "done" => Existing(job[t].dir) = {}
      /\ \A u \in Actor \ {t} : fpc'[u] = fpc[u]
  BY <1>0 DEF IInv, FarmTypeOK
<1>4. StepOf(t)
  BY <1>3 DEF StepOf
<1>5. Hand(t)' /\ SeenGood(t, {"create", "exists", "replace", "temp"})'
  BY <1>3 DEF IInv, HandInv, Hand, SeenGood, BusyPCs
<1>6. DirInv'
  BY <1>3, SameDirs DEF IInv, DirInv
<1>7. ASSUME ~disturbed
      PROVE  UndisturbedStep /\ FarmKnown' /\ Pass(t)'
  <2>1. UndisturbedStep
    BY DEF UndisturbedStep
  <2>2. FarmKnown
    BY <1>7 DEF IInv, PassInv
  <2>3. FarmKnown'
    <3>1. \A q \in Process : inodeHash'[q] \subseteq inodeHash[q] \cup Linked
      BY <1>0 DEF IInv, FarmTypeOK, LoadInodeHash
    <3>2. Linked' = Linked
      BY DEF Linked
    <3> QED  BY <2>2, <3>1, <3>2 DEF FarmKnown
  <2>4. Pass(t)'
    BY <1>3 DEF Pass, BusyPCs, Existing
  <2> QED  BY <2>1, <2>3, <2>4
<1> QED  BY <1>2, <1>4, <1>5, <1>6, <1>7, OwnPart

\* The files that the process does not know to be linked.
LEMMA ReadDirectoryStep ==
  ASSUME IInv, NEW t \in Optimiser, ReadDirectory(t)
  PROVE  IInv'
<1> USE DEF ReadDirectory, Goto
<1> DEFINE p == job[t].process
           N == {f \in Existing(job[t].dir) : store[f] \notin inodeHash[p]}
<1>0. t \in Actor /\ t # Import /\ p \in Process /\ N \subseteq File
  BY ImportAssumption, JobsAssumption DEF Actor, IInv, FarmTypeOK, Existing
<1>1. FarmTypeOK'
  BY <1>0 DEF IInv, FarmTypeOK, FPCs
<1>2. /\ fpc[t] = "dir" /\ fpc'[t] = "file" /\ names'[t] = N
      /\ \A u \in Actor \ {t} : fpc'[u] = fpc[u]
      /\ \A u \in Optimiser \ {t} : names'[u] = names[u]
  BY <1>0 DEF IInv, FarmTypeOK
<1>3. StepOf(t)
  BY <1>2 DEF StepOf
<1>4. Hand(t)' /\ SeenGood(t, {"create", "exists", "replace", "temp"})'
  BY <1>2 DEF IInv, HandInv, Hand, SeenGood, BusyPCs, Existing
<1>5. DirInv'
  BY <1>2, SameDirs
<1>6. ASSUME ~disturbed
      PROVE  UndisturbedStep /\ FarmKnown' /\ Pass(t)'
  <2>1. UndisturbedStep /\ FarmKnown'
    BY <1>6, KnownStill
  <2>2. ASSUME NEW f \in File, DirOf[f] = job[t].dir, store[f] # None, f \notin N
        PROVE  Converged(f)'
    <3>1. store[f] \in inodeHash[p]
      BY <2>2 DEF Existing
    <3> QED  BY <1>0, <1>6, <3>1 DEF IInv, PassInv, FarmKnown, Converged
  <2>3. Pass(t)'
    BY <1>2, <2>2 DEF Pass, BusyPCs
  <2> QED  BY <2>1, <2>3
<1> QED  BY <1>1, <1>3, <1>4, <1>5, <1>6, OwnPart

\* The next file is skipped, or t has it at hand.
LEMMA LstatStep ==
  ASSUME IInv, NEW t \in Optimiser, Lstat(t)
  PROVE  IInv'
<1> USE DEF Lstat, Goto
<1> DEFINE p == job[t].process
<1>0. t \in Actor /\ t # Import /\ p \in Process
  BY ImportAssumption, JobsAssumption DEF Actor, IInv, FarmTypeOK
<1>1. PICK f \in names[t] :
        /\ names' = [names EXCEPT ![t] = @ \ {f}]
        /\ IF Skipped(t, f)
           THEN UNCHANGED <<cur, fpc>>
           ELSE /\ cur' = [cur EXCEPT ![t] =
                              [file |-> f, ino |-> store[f],
                               hash |-> content[store[f]], link |-> None]]
                /\ Goto(t, "lstat")
  OBVIOUS
<1>2. /\ f \in File /\ f # "none" /\ store[f] # None /\ store[f] \in FInode
      /\ DirOf[f] = job[t].dir
      /\ content[store[f]] = want[f] /\ want[f] \in Content
  BY NamesAssumption DEF IInv, FarmTypeOK, HandInv, Hand, ContentInv, FilesInv
<1>3. fpc[t] = "file" /\ cur[t].file = "none"
  BY DEF IInv, HandInv, Hand
<1>4. /\ names'[t] = names[t] \ {f}
      /\ \A u \in Optimiser \ {t} : names'[u] = names[u]
      /\ names' \in [Optimiser -> SUBSET File]
  BY <1>1 DEF IInv, FarmTypeOK
<1>5. CASE Skipped(t, f)
  <2>1. UNCHANGED <<cur, fpc>>
    BY <1>1, <1>5
  <2>2. FarmTypeOK'
    BY <1>4, <2>1 DEF IInv, FarmTypeOK
  <2>3. StepOf(t)
    BY <1>4, <2>1 DEF StepOf
  <2>4. Hand(t)' /\ SeenGood(t, {"create", "exists", "replace", "temp"})'
    BY <1>3, <1>4, <2>1 DEF IInv, HandInv, Hand, SeenGood, BusyPCs
  <2>5. DirInv'
    BY <2>1 DEF IInv, DirInv
  <2>6. ASSUME ~disturbed
        PROVE  UndisturbedStep /\ FarmKnown' /\ Pass(t)'
    <3>1. UndisturbedStep /\ FarmKnown'
      BY <2>6, KnownStill
    <3>2. Converged(f)
      <4>1. CASE Size[content[store[f]]] = 0
        BY <1>2, <4>1, SizeAssumption DEF Converged
      <4>2. CASE store[f] \in inodeHash[p]
        BY <1>0, <1>2, <2>6, <4>2 DEF IInv, PassInv, FarmKnown, Converged
      <4> QED  BY <1>5, <4>1, <4>2 DEF Skipped
    <3>3. Pass(t)
      BY <2>6 DEF IInv, PassInv
    <3>4. Pass(t)'
      BY <1>3, <1>4, <2>1, <3>2, <3>3 DEF Pass, BusyPCs, Converged
    <3> QED  BY <3>1, <3>4
  <2> QED  BY <2>2, <2>3, <2>4, <2>5, <2>6, OwnPart
<1>6. CASE ~Skipped(t, f)
  <2>1. /\ fpc'[t] = "lstat" /\ cur'[t].file = f /\ cur'[t].ino = store[f]
        /\ cur'[t].hash = want[f] /\ fpc' \in [Actor -> FPCs]
        /\ cur' \in [Actor -> CurType]
        /\ \A u \in Actor \ {t} : fpc'[u] = fpc[u] /\ cur'[u] = cur[u]
    <3> DEFINE k == [file |-> f, ino |-> store[f], hash |-> content[store[f]],
                     link |-> None]
    <3>1. k \in CurType /\ k.file = f /\ k.ino = store[f] /\ k.hash = want[f]
      BY <1>2 DEF CurType, Names
    <3>2. cur' = [cur EXCEPT ![t] = k] /\ fpc' = [fpc EXCEPT ![t] = "lstat"]
      BY <1>1, <1>6
    <3>3. cur \in [Actor -> CurType] /\ fpc \in [Actor -> FPCs] /\ "lstat" \in FPCs
      BY DEF IInv, FarmTypeOK, CurType, FPCs
    <3> HIDE DEF k
    <3> QED  BY <1>0, <3>1, <3>2, <3>3
  <2>2. FarmTypeOK'
    BY <1>4, <2>1 DEF IInv, FarmTypeOK, CurType
  <2>3. StepOf(t)
    BY <1>4, <2>1 DEF StepOf
  <2>4. Size[want[f]] > 0
    BY <1>2, <1>6, SizeAssumption DEF Skipped
  <2>5. Hand(t)' /\ SeenGood(t, {"create", "exists", "replace", "temp"})'
    BY <1>2, <1>4, <2>1, <2>4 DEF IInv, HandInv, Hand, SeenGood
  <2>6. DirInv'
    BY <1>3, <2>1, SameDirs
  <2>7. ASSUME ~disturbed
        PROVE  UndisturbedStep /\ FarmKnown' /\ Pass(t)'
    <3>1. UndisturbedStep /\ FarmKnown'
      BY <2>7, KnownStill
    <3>2. Pass(t)
      BY <2>7 DEF IInv, PassInv
    <3>3. Pass(t)'
      <4>1. \A g \in File : DirOf[g] = job[t].dir /\ store[g] # None =>
              Converged(g) \/ g \in names[t]
        BY <1>3, <3>2, NamesAssumption DEF Pass
      <4>2. \A g \in File : Converged(g) => Converged(g)'
        BY DEF Converged
      <4> QED  BY <1>4, <2>1, <4>1, <4>2 DEF Pass
    <3> QED  BY <3>1, <3>3
  <2> QED  BY <2>2, <2>3, <2>5, <2>6, <2>7, OwnPart
<1> QED  BY <1>5, <1>6

\* t goes on with the next file.
LEMMA NextFileEffect ==
  ASSUME IInv, NEW t \in Optimiser, NextFile(t)
  PROVE  /\ fpc' \in [Actor -> FPCs] /\ fpc'[t] = "file"
         /\ cur' \in [Actor -> CurType] /\ cur'[t].file = "none"
         /\ \A u \in Actor \ {t} : fpc'[u] = fpc[u] /\ cur'[u] = cur[u]
<1>1. t \in Actor
  BY DEF Actor
<1>2. NoFile \in CurType
  BY DEF NoFile, CurType, Names
<1>3. cur \in [Actor -> CurType] /\ fpc \in [Actor -> FPCs]
  BY DEF IInv, FarmTypeOK, CurType
<1> QED  BY <1>1, <1>2, <1>3 DEF NextFile, Goto, FPCs, NoFile

\* The same file, in another state, with another link seen.
LEMMA SameFileEffect ==
  ASSUME IInv, NEW t \in Optimiser, NEW l \in FPCs, NEW i \in FInode \cup {None},
         cur' = [cur EXCEPT ![t].link = i], Goto(t, l)
  PROVE  /\ fpc' \in [Actor -> FPCs] /\ fpc'[t] = l
         /\ cur' \in [Actor -> CurType] /\ cur'[t].link = i
         /\ cur'[t].file = cur[t].file /\ cur'[t].ino = cur[t].ino
         /\ cur'[t].hash = cur[t].hash
         /\ \A u \in Actor \ {t} : fpc'[u] = fpc[u] /\ cur'[u] = cur[u]
<1>1. t \in Actor
  BY DEF Actor
<1>2. cur \in [Actor -> CurType] /\ fpc \in [Actor -> FPCs]
  BY DEF IInv, FarmTypeOK, CurType
<1> QED  BY <1>1, <1>2 DEF Goto, CurType

\* What a thread that is at a file knows of it.
LEMMA FileAtHand ==
  ASSUME IInv, NEW t \in Optimiser, fpc[t] \in BusyPCs
  PROVE  /\ t \in Actor /\ t # Import
         /\ cur[t].file \in File /\ cur[t].file # "none" /\ cur[t].ino \in FInode
         /\ cur[t].hash \in Content /\ cur[t].hash = want[cur[t].file]
         /\ Size[cur[t].hash] > 0 /\ store[cur[t].file] \in FInode
         /\ store[cur[t].file] # None /\ content[store[cur[t].file]] = cur[t].hash
         /\ DirOf[cur[t].file] = job[t].dir
         /\ links[cur[t].hash] \in FInode \cup {None}
<1>1. t \in Actor /\ t # Import
  BY ImportAssumption DEF Actor
<1>2. /\ cur[t].file \in File /\ cur[t].file # "none"
      /\ cur[t].hash = want[cur[t].file] /\ Size[cur[t].hash] > 0
  BY NamesAssumption DEF IInv, HandInv, Hand
<1>3. /\ cur[t].hash \in Content /\ links[cur[t].hash] \in FInode \cup {None}
      /\ cur[t].ino \in FInode
  BY <1>1, <1>2 DEF IInv, FarmTypeOK, HandInv, Hand
<1>4. /\ store[cur[t].file] # None /\ store[cur[t].file] \in FInode
      /\ DirOf[cur[t].file] = job[t].dir
  BY <1>2 DEF IInv, HandInv, Hand, FarmTypeOK
<1>5. content[store[cur[t].file]] = cur[t].hash
  BY <1>2, <1>4 DEF IInv, ContentInv, FilesInv
<1> QED  BY <1>1, <1>2, <1>3, <1>4, <1>5

\* A file that t is done with has converged, or the pass is disturbed.
LEMMA NextFilePart ==
  ASSUME IInv, FarmTypeOK', NEW t \in Optimiser, fpc[t] \in BusyPCs, NextFile(t),
         StepOf(t), UNCHANGED <<names, canonical, toggled>>,
         NEW g \in File, g = cur[t].file,
         ~disturbed' => ~disturbed /\ UndisturbedStep /\ FarmKnown' /\ Converged(g)'
  PROVE  IInv'
<1>1. /\ fpc'[t] = "file" /\ cur'[t].file = "none"
      /\ \A u \in Actor \ {t} : fpc'[u] = fpc[u] /\ cur'[u] = cur[u]
  BY NextFileEffect
<1>2. fpc[t] \notin {"idle", "dir", "done"}
  BY DEF BusyPCs
<1>3. \A f \in File : store[f] # None => store'[f] # None
  BY DEF StepOf
<1>4. job' = job
  BY DEF StepOf
<1>5. Hand(t)' /\ SeenGood(t, {"create", "exists", "replace", "temp"})'
  BY <1>1, <1>3, <1>4 DEF IInv, HandInv, Hand, SeenGood, BusyPCs, FarmTypeOK
<1>6. DirInv'
  BY <1>1, <1>4, SameDirs
<1>7. ASSUME ~disturbed'
      PROVE  Pass(t)'
  <2>1. \A f \in File : Converged(f) /\ store[f] # None => Converged(f)'
    BY <1>7, OthersConverge
  <2>2. Pass(t)
    BY <1>7 DEF IInv, PassInv
  <2>3. \A f \in File : store'[f] # None => store[f] # None \/ Converged(f)'
    BY <1>7 DEF UndisturbedStep, Converged, StepOf
  <2>4. \A f \in File : DirOf[f] = job[t].dir /\ store'[f] # None =>
          Converged(f)' \/ f \in names[t]
    BY <1>2, <1>7, <2>1, <2>2, <2>3 DEF Pass
  <2> QED  BY <1>1, <1>4, <2>4 DEF Pass, BusyPCs
<1> QED  BY <1>5, <1>6, <1>7, OwnPart

\* .links/<hash> is looked up.
LEMMA LstatLinkStep ==
  ASSUME IInv, NEW t \in Optimiser, LstatLink(t)
  PROVE  IInv'
<1> DEFINE c == cur[t].hash
           i == links[c]
           l == IF i = None THEN "create" ELSE IF SizeMatches(t, i) THEN "replace"
                ELSE "corrupt"
<1>0. /\ fpc[t] = "lstat" /\ cur' = [cur EXCEPT ![t].link = i] /\ Goto(t, l)
      /\ UNCHANGED <<job, want, content, store, links, temp, canonical, inodeHash,
                     names, toggled, cleanup, disturbed>>
  BY DEF LstatLink, HashAtHand
<1>1. /\ t \in Actor /\ cur[t].file \in File /\ c \in Content /\ c = want[cur[t].file]
      /\ i \in FInode \cup {None} /\ l \in FPCs
  BY <1>0, FileAtHand DEF BusyPCs, FPCs
<1>2. /\ fpc' \in [Actor -> FPCs] /\ fpc'[t] = l
      /\ cur' \in [Actor -> CurType] /\ cur'[t].link = i
      /\ cur'[t].file = cur[t].file /\ cur'[t].ino = cur[t].ino
      /\ cur'[t].hash = cur[t].hash
      /\ \A u \in Actor \ {t} : fpc'[u] = fpc[u] /\ cur'[u] = cur[u]
  <2>1. cur \in [Actor -> CurType] /\ fpc \in [Actor -> FPCs]
    BY DEF IInv, FarmTypeOK, CurType
  <2> HIDE DEF i, l
  <2> QED  BY <1>0, <1>1, <2>1 DEF Goto, CurType
<1>3. FarmTypeOK'
  BY <1>0, <1>2 DEF IInv, FarmTypeOK, CurType
<1>4. StepOf(t)
  BY <1>0, <1>2 DEF StepOf
<1>5. l = "replace" => content[i] = c
  BY <1>1 DEF SizeMatches, HashAtHand, IInv, ContentInv, LinksInv
<1>6. Hand(t)' /\ SeenGood(t, {"create", "exists", "replace", "temp"})'
  BY <1>0, <1>2, <1>5 DEF IInv, HandInv, Hand, SeenGood, BusyPCs, GoodLink
<1>7. DirInv'
  BY <1>0, <1>2, SameDirs
<1>8. ASSUME ~disturbed
      PROVE  UndisturbedStep /\ FarmKnown' /\ Pass(t)'
  <2>1. UndisturbedStep /\ FarmKnown'
    BY <1>0, <1>8, KnownStill
  <2>2. Pass(t)
    BY <1>8 DEF IInv, PassInv
  <2>3. Pass(t)'
    BY <1>0, <1>2, <2>2 DEF Pass, BusyPCs, Converged
  <2> QED  BY <2>1, <2>3
<1> QED  BY <1>0, <1>3, <1>4, <1>6, <1>7, <1>8, OwnPart

\* A corrupted link is removed.
LEMMA RemoveCorruptedStep ==
  ASSUME IInv, NEW t \in Optimiser, RemoveCorrupted(t)
  PROVE  IInv'
<1> DEFINE c == cur[t].hash
<1>0. /\ fpc[t] = "corrupt" /\ cur' = [cur EXCEPT ![t].link = None] /\ Goto(t, "create")
      /\ links' = [links EXCEPT ![c] = None] /\ disturbed' = TRUE
      /\ UNCHANGED <<job, want, content, store, temp, canonical, inodeHash,
                     names, toggled, cleanup>>
  BY DEF RemoveCorrupted, HashAtHand
<1>1. t \in Actor /\ c \in Content
  BY <1>0, FileAtHand DEF BusyPCs
<1>2. /\ fpc' \in [Actor -> FPCs] /\ fpc'[t] = "create"
      /\ cur' \in [Actor -> CurType] /\ cur'[t].ino = cur[t].ino
      /\ cur'[t].file = cur[t].file /\ cur'[t].hash = cur[t].hash
      /\ \A u \in Actor \ {t} : fpc'[u] = fpc[u] /\ cur'[u] = cur[u]
  BY <1>0, SameFileEffect DEF FPCs
<1>3. disturbed' /\ disturbed' \in BOOLEAN
  BY <1>0, Zenon
<1>4. /\ links' \in [Content -> FInode \cup {None}] /\ links'[c] = None
      /\ \A d \in Content : links'[d] = links[d] \/ links'[d] = None
  BY <1>0, <1>1 DEF IInv, FarmTypeOK
<1>5. FarmTypeOK'
  BY <1>0, <1>2, <1>3, <1>4 DEF IInv, FarmTypeOK, CurType
<1>6. StepOf(t)
  BY <1>0, <1>2, <1>4 DEF StepOf
<1>7. Hand(t)' /\ SeenGood(t, {"create", "exists", "replace", "temp"})'
  BY <1>0, <1>2, <1>4 DEF IInv, HandInv, Hand, SeenGood, BusyPCs, GoodLink
<1>8. DirInv'
  BY <1>0, <1>2, SameDirs
<1> QED  BY <1>3, <1>5, <1>6, <1>7, <1>8, OwnPart

\* Somebody else made the link in the meantime: from a file with that content.
LEMMA LinkExistsStep ==
  ASSUME IInv, NEW t \in Optimiser, LinkExists(t)
  PROVE  IInv'
<1>0. /\ fpc[t] = "create" /\ links[cur[t].hash] # None
      /\ fpc' = [fpc EXCEPT ![t] = "exists"]
      /\ UNCHANGED <<job, want, content, store, links, temp, canonical, inodeHash,
                     names, cur, toggled, cleanup, disturbed>>
  BY DEF LinkExists, HashAtHand, Goto
<1>1. t \in Actor
  BY <1>0, FileAtHand DEF BusyPCs
<1>2. /\ fpc' \in [Actor -> FPCs] /\ fpc'[t] = "exists"
      /\ \A u \in Actor \ {t} : fpc'[u] = fpc[u]
  BY <1>0, <1>1 DEF IInv, FarmTypeOK, FPCs
<1>3. FarmTypeOK'
  BY <1>0, <1>2 DEF IInv, FarmTypeOK
<1>4. StepOf(t)
  BY <1>0, <1>2 DEF StepOf
<1>5. Hand(t)' /\ SeenGood(t, {"create", "exists", "replace", "temp"})'
  BY <1>0, <1>2 DEF IInv, HandInv, Hand, ContentInv, SeenGood, BusyPCs, GoodLink
<1>6. DirInv'
  BY <1>0, <1>2, SameDirs
<1>7. ASSUME ~disturbed
      PROVE  UndisturbedStep /\ FarmKnown' /\ Pass(t)'
  <2>1. UndisturbedStep /\ FarmKnown'
    BY <1>0, <1>7, KnownStill
  <2>2. Pass(t)
    BY <1>7 DEF IInv, PassInv
  <2>3. Pass(t)'
    BY <1>0, <1>2, <2>2 DEF Pass, BusyPCs, Converged
  <2> QED  BY <2>1, <2>3
<1> QED  BY <1>0, <1>3, <1>4, <1>5, <1>6, <1>7, OwnPart

\* The link is looked up again; if it is gone, somebody has disturbed the pass.
LEMMA LstatAgainStep ==
  ASSUME IInv, NEW t \in Optimiser, LstatAgain(t)
  PROVE  IInv'
<1> DEFINE c == cur[t].hash
           i == links[c]
<1>0. /\ fpc[t] = "exists"
      /\ i = None => NextFile(t)
      /\ i # None => cur' = [cur EXCEPT ![t].link = i] /\ Goto(t, "replace")
      /\ UNCHANGED <<job, want, content, store, links, temp, canonical, inodeHash,
                     names, toggled, cleanup, disturbed>>
  BY DEF LstatAgain, HashAtHand
<1>1. t \in Actor /\ cur[t].file \in File /\ i \in FInode \cup {None}
  BY <1>0, FileAtHand DEF BusyPCs
<1>2. ~disturbed => UndisturbedStep /\ FarmKnown' /\ Pass(t)
  BY <1>0, KnownStill DEF IInv, PassInv
<1>3. CASE i = None
  <2>1. NextFile(t) /\ fpc[t] \in BusyPCs /\ disturbed
    BY <1>0, <1>2, <1>3 DEF BusyPCs, Pass
  <2>2. /\ fpc' \in [Actor -> FPCs] /\ cur' \in [Actor -> CurType]
        /\ \A u \in Actor \ {t} : fpc'[u] = fpc[u] /\ cur'[u] = cur[u]
    BY <2>1, NextFileEffect
  <2>3. FarmTypeOK' /\ StepOf(t)
    BY <1>0, <2>2 DEF IInv, FarmTypeOK, CurType, StepOf
  <2> QED  BY <1>0, <1>1, <2>1, <2>3, NextFilePart
<1>4. CASE i # None
  <2>1. /\ fpc' \in [Actor -> FPCs] /\ fpc'[t] = "replace"
        /\ cur' \in [Actor -> CurType] /\ cur'[t].link = i
        /\ cur'[t].file = cur[t].file /\ cur'[t].ino = cur[t].ino
        /\ cur'[t].hash = cur[t].hash
        /\ \A u \in Actor \ {t} : fpc'[u] = fpc[u] /\ cur'[u] = cur[u]
    BY <1>0, <1>1, <1>4, SameFileEffect DEF FPCs
  <2>2. FarmTypeOK'
    BY <1>0, <2>1 DEF IInv, FarmTypeOK, CurType
  <2>3. StepOf(t)
    BY <1>0, <2>1 DEF StepOf
  <2>4. Hand(t)' /\ SeenGood(t, {"create", "exists", "replace", "temp"})'
    BY <1>0, <2>1 DEF IInv, HandInv, Hand, ContentInv, SeenGood, BusyPCs, GoodLink
  <2>5. DirInv'
    BY <1>0, <2>1, SameDirs
  <2>6. ~disturbed => Pass(t)'
    BY <1>0, <1>2, <2>1 DEF Pass, BusyPCs, Converged
  <2> QED  BY <1>0, <1>2, <2>2, <2>3, <2>4, <2>5, <2>6, OwnPart
<1> QED  BY <1>3, <1>4

\* The file at hand becomes the copy of the farm, or is left as it is.
LEMMA CreateLinkStep ==
  ASSUME IInv, NEW t \in Optimiser, CreateLink(t)
  PROVE  IInv'
<1> DEFINE c == cur[t].hash
           p == job[t].process
<1>0. /\ fpc[t] = "create" /\ links[c] = None
      /\ UNCHANGED <<job, want, content, store, temp, canonical, names, toggled, cleanup>>
  BY DEF CreateLink, HashAtHand
<1>g. PICK g \in File : g = cur[t].file
  BY <1>0, FileAtHand DEF BusyPCs
<1>1. /\ t \in Actor /\ g \in File /\ c \in Content /\ c = want[g] /\ Size[c] > 0
      /\ store[g] \in FInode /\ store[g] # None /\ content[store[g]] = c
      /\ fpc[t] \in BusyPCs /\ p \in Process /\ cur[t].ino \in FInode
  BY <1>0, <1>g, FileAtHand, JobsAssumption DEF BusyPCs, IInv, FarmTypeOK
<1>2. CASE /\ links' = [links EXCEPT ![c] = store[g]]
           /\ inodeHash' = [inodeHash EXCEPT ![p] = @ \cup {cur[t].ino}]
           /\ NextFile(t)
           /\ UNCHANGED disturbed
  <2>1. /\ fpc' \in [Actor -> FPCs] /\ cur' \in [Actor -> CurType]
        /\ \A u \in Actor \ {t} : fpc'[u] = fpc[u] /\ cur'[u] = cur[u]
    BY <1>2, NextFileEffect
  <2>2. /\ links' \in [Content -> FInode \cup {None}] /\ links'[c] = store[g]
        /\ \A d \in Content \ {c} : links'[d] = links[d]
    BY <1>1, <1>2 DEF IInv, FarmTypeOK
  <2>3. /\ inodeHash' \in [Process -> SUBSET FInode]
        /\ \A q \in Process : inodeHash'[q] \subseteq inodeHash[q] \cup {cur[t].ino}
    BY <1>1, <1>2 DEF IInv, FarmTypeOK
  <2>4. FarmTypeOK'
    BY <1>0, <1>2, <2>1, <2>2, <2>3 DEF IInv, FarmTypeOK, CurType
  <2>5. StepOf(t)
    BY <1>0, <1>1, <2>1, <2>2 DEF StepOf
  <2>6. ASSUME ~disturbed
        PROVE  UndisturbedStep /\ FarmKnown' /\ Converged(g)'
    <3>1. UndisturbedStep
      BY <1>0, <2>2 DEF UndisturbedStep
    <3>2. FarmKnown /\ Pass(t)
      BY <2>6 DEF IInv, PassInv
    <3>3. cur[t].ino = store[g]
      BY <1>0, <1>1, <1>g, <3>2 DEF Pass
    <3>4. \A f \in File : store[f] = store[g] => store[f] = links'[want[f]]
      BY <1>1, <2>2 DEF IInv, ContentInv, FilesInv
    <3>5. \A f \in File : store[f] # None /\ store[f] = links[want[f]] =>
            store[f] = links'[want[f]]
      BY <1>0, <2>2 DEF IInv, FarmTypeOK
    <3>6. Linked' \subseteq Linked \cup {store[g]} /\ None \notin Linked'
      BY <2>2 DEF Linked
    <3>7. FarmKnown'
      <4>1. \A f \in File : store[f] \in Linked' => store[f] = links'[want[f]]
        BY <3>2, <3>4, <3>5, <3>6 DEF FarmKnown
      <4>2. \A q \in Process : \A f \in File :
              store[f] \in inodeHash'[q] => store[f] = links'[want[f]]
        <5> SUFFICES ASSUME NEW q \in Process, NEW f \in File,
                            store[f] \in inodeHash'[q], store[f] # store[g]
                     PROVE  store[f] = links'[want[f]]
          BY <3>4
        <5>1. store[f] \in inodeHash[q] /\ store[f] # None
          BY <2>3, <3>3, NamesAssumption
        <5> QED  BY <3>2, <3>5, <5>1 DEF FarmKnown
      <4> QED  BY <1>0, <4>1, <4>2 DEF FarmKnown
    <3>8. Converged(g)'
      BY <1>0, <1>1, <2>2 DEF Converged
    <3> QED  BY <3>1, <3>7, <3>8
  <2> QED  BY <1>0, <1>1, <1>2, <1>g, <2>4, <2>5, <2>6, NextFilePart
<1>3. CASE NextFile(t) /\ disturbed' = TRUE /\ UNCHANGED <<links, inodeHash>>
  <2>1. /\ fpc' \in [Actor -> FPCs] /\ cur' \in [Actor -> CurType]
        /\ \A u \in Actor \ {t} : fpc'[u] = fpc[u] /\ cur'[u] = cur[u]
    BY <1>3, NextFileEffect
  <2>2. disturbed' /\ disturbed' \in BOOLEAN
    BY <1>3, Zenon
  <2>3. FarmTypeOK' /\ StepOf(t)
    BY <1>0, <1>3, <2>1, <2>2 DEF IInv, FarmTypeOK, CurType, StepOf
  <2> QED  BY <1>0, <1>1, <1>3, <1>g, <2>2, <2>3, NextFilePart
<1>4. CASE Goto(t, "failed") /\ disturbed' = TRUE /\ UNCHANGED <<links, inodeHash, cur>>
  <2>1. /\ fpc' \in [Actor -> FPCs] /\ fpc'[t] = "failed"
        /\ \A u \in Actor \ {t} : fpc'[u] = fpc[u]
    BY <1>1, <1>4 DEF IInv, FarmTypeOK, FPCs, Goto
  <2>2. disturbed' /\ disturbed' \in BOOLEAN
    BY <1>4, Zenon
  <2>3. FarmTypeOK' /\ StepOf(t)
    BY <1>0, <1>4, <2>1, <2>2 DEF IInv, FarmTypeOK, StepOf
  <2>4. Hand(t)' /\ SeenGood(t, {"create", "exists", "replace", "temp"})'
    BY <1>0, <1>4, <2>1 DEF IInv, HandInv, Hand, SeenGood, BusyPCs
  <2>5. DirInv'
    BY <1>0, <2>1, SameDirs
  <2> QED  BY <2>2, <2>3, <2>4, <2>5, OwnPart
<1> QED  BY <1>2, <1>3, <1>4, <1>g DEF CreateLink, HashAtHand

\* The file is a link already, or its directory is made writable.
LEMMA CompareStep ==
  ASSUME IInv, NEW t \in Optimiser, Compare(t)
  PROVE  IInv'
<1> DEFINE g == cur[t].file
           c == cur[t].hash
<1>0. /\ fpc[t] = "replace" /\ fpc[t] \in BusyPCs
      /\ UNCHANGED <<job, want, content, store, links, temp, inodeHash, names, cleanup,
                     disturbed>>
  BY DEF Compare, BusyPCs
<1>1. /\ t \in Actor /\ g \in File /\ c = want[g] /\ Size[c] > 0
  BY <1>0, FileAtHand
<1>2. ~disturbed => UndisturbedStep /\ FarmKnown' /\ Pass(t)
  BY <1>0, KnownStill DEF IInv, PassInv
<1>3. CASE cur[t].ino = cur[t].link
  <2>1. NextFile(t) /\ UNCHANGED <<canonical, toggled>>
    BY <1>3 DEF Compare
  <2>2. /\ fpc' \in [Actor -> FPCs] /\ cur' \in [Actor -> CurType]
        /\ \A u \in Actor \ {t} : fpc'[u] = fpc[u] /\ cur'[u] = cur[u]
    BY <2>1, NextFileEffect
  <2>3. FarmTypeOK' /\ StepOf(t)
    BY <1>0, <2>1, <2>2 DEF IInv, FarmTypeOK, CurType, StepOf
  <2>4. ~disturbed => Converged(g)
    BY <1>0, <1>1, <1>2, <1>3 DEF Pass, Converged
  <2>5. \A f \in File : Converged(f) => Converged(f)'
    BY <1>0 DEF Converged
  <2> QED  BY <1>0, <1>1, <1>2, <2>1, <2>3, <2>4, <2>5, NextFilePart
<1>4. CASE cur[t].ino # cur[t].link
  <2>1. /\ fpc' = [fpc EXCEPT ![t] = "temp"] /\ toggled' = toggled \cup {t} /\ UNCHANGED cur
        /\ canonical' = IF t \in toggled THEN canonical ELSE canonical \ {job[t].dir}
    BY <1>4 DEF Compare, Goto
  <2>2. /\ fpc' \in [Actor -> FPCs] /\ fpc'[t] = "temp"
        /\ \A u \in Actor \ {t} : fpc'[u] = fpc[u]
    BY <1>1, <2>1 DEF IInv, FarmTypeOK, FPCs
  <2>3. FarmTypeOK' /\ StepOf(t)
    BY <1>0, <2>1, <2>2 DEF IInv, FarmTypeOK, StepOf
  <2>4. Hand(t)' /\ SeenGood(t, {"create", "exists", "replace", "temp"})'
    BY <1>0, <2>1, <2>2 DEF IInv, HandInv, Hand, ContentInv, SeenGood, BusyPCs, GoodLink
  <2>5. DirInv'
    <3>1. \A u \in Optimiser : u \in Actor
      BY DEF Actor
    <3>2. \A u \in toggled' : fpc'[u] \notin {"idle", "done"}
      BY <2>1, <2>2, <3>1 DEF IInv, DirInv, FarmTypeOK
    <3>3. \A u \in Optimiser : fpc'[u] \in {"temp", "rename"} => u \in toggled'
      BY <2>1, <2>2, <3>1 DEF IInv, DirInv
    <3>4. \A d \in Dir : d \in canonical' \/ \E u \in toggled' : job'[u].dir = d
      BY <1>0, <2>1 DEF IInv, DirInv
    <3> QED  BY <3>2, <3>3, <3>4 DEF DirInv
  <2>6. ~disturbed => Pass(t)'
    BY <1>0, <1>2, <2>1, <2>2 DEF Pass, BusyPCs, Converged
  <2> QED  BY <1>0, <1>2, <2>3, <2>4, <2>5, <2>6, OwnPart
<1> QED  BY <1>3, <1>4

\* A temporary link to what the farm has now.
LEMMA TempLinkStep ==
  ASSUME IInv, NEW t \in Optimiser, TempLink(t)
  PROVE  IInv'
<1> DEFINE c == cur[t].hash
           i == links[c]
<1>0. /\ fpc[t] = "temp" /\ fpc[t] \in BusyPCs
      /\ UNCHANGED <<job, want, content, store, links, canonical, inodeHash, names,
                     toggled, cleanup>>
  BY DEF TempLink, BusyPCs
<1>1. t \in Actor /\ cur[t].file \in File /\ i \in FInode \cup {None}
  BY <1>0, FileAtHand
<1>2. CASE i = None \/ nlink(i) >= MaxLinks
  <2>1. NextFile(t) /\ disturbed' = TRUE /\ UNCHANGED temp
    BY <1>2 DEF TempLink, HashAtHand
  <2>2. /\ fpc' \in [Actor -> FPCs] /\ cur' \in [Actor -> CurType]
        /\ \A u \in Actor \ {t} : fpc'[u] = fpc[u] /\ cur'[u] = cur[u]
    BY <2>1, NextFileEffect
  <2>3. disturbed' /\ disturbed' \in BOOLEAN
    BY <2>1, Zenon
  <2>4. FarmTypeOK' /\ StepOf(t)
    BY <1>0, <2>1, <2>2, <2>3 DEF IInv, FarmTypeOK, CurType, StepOf
  <2> QED  BY <1>0, <1>1, <2>1, <2>3, <2>4, NextFilePart
<1>3. CASE ~(i = None \/ nlink(i) >= MaxLinks)
  <2>1. /\ temp' = [temp EXCEPT ![t] = i] /\ fpc' = [fpc EXCEPT ![t] = "rename"]
        /\ UNCHANGED <<cur, disturbed>>
    BY <1>3 DEF TempLink, HashAtHand, Goto
  <2>2. /\ fpc' \in [Actor -> FPCs] /\ fpc'[t] = "rename"
        /\ temp' \in [Actor -> FInode \cup {None}] /\ temp'[t] = i
        /\ \A u \in Actor \ {t} : fpc'[u] = fpc[u] /\ temp'[u] = temp[u]
    BY <1>1, <2>1 DEF IInv, FarmTypeOK, FPCs
  <2>3. FarmTypeOK' /\ StepOf(t)
    BY <1>0, <2>1, <2>2 DEF IInv, FarmTypeOK, StepOf
  <2>4. Hand(t)'
    BY <1>0, <2>1, <2>2 DEF IInv, HandInv, Hand
  <2>5. SeenGood(t, {"create", "exists", "replace", "temp"})'
    BY <1>0, <2>1, <2>2 DEF IInv, ContentInv, SeenGood, GoodLink
  <2>6. DirInv'
    BY <1>0, <2>2, SameDirs DEF IInv, DirInv
  <2>7. ~disturbed => UndisturbedStep /\ FarmKnown' /\ Pass(t)
    BY <1>0, KnownStill DEF IInv, PassInv
  <2>8. ~disturbed => Pass(t)'
    BY <1>0, <2>1, <2>2, <2>7 DEF Pass, BusyPCs, Converged
  <2> QED  BY <2>1, <2>3, <2>4, <2>5, <2>6, <2>7, <2>8, OwnPart
<1> QED  BY <1>2, <1>3

\* The file is replaced by the link, or left as it is.
LEMMA RenameStep ==
  ASSUME IInv, NEW t \in Optimiser, Rename(t)
  PROVE  IInv'
<1> DEFINE c == cur[t].hash
<1>0. /\ fpc[t] = "rename" /\ fpc[t] \in BusyPCs
      /\ UNCHANGED <<job, want, content, links, inodeHash, names, toggled, cleanup>>
  BY DEF Rename, BusyPCs
<1>g. PICK g \in File : g = cur[t].file
  BY <1>0, FileAtHand
<1>1. /\ t \in Actor /\ c = want[g] /\ store[g] # None /\ DirOf[g] = job[t].dir
      /\ t \in toggled /\ temp[t] \in FInode \cup {None}
      /\ temp[t] # None => content[temp[t]] = want[g]
  BY <1>0, <1>g, FileAtHand DEF IInv, DirInv, ContentInv, SeenGood, FarmTypeOK
<1>2. ~disturbed => temp[t] = links[want[g]]
  BY <1>0, <1>1 DEF IInv, PassInv, Pass
<1>3. ASSUME NextFile(t)
      PROVE  /\ fpc' \in [Actor -> FPCs] /\ cur' \in [Actor -> CurType]
             /\ fpc'[t] = "file" /\ cur'[t].file = "none"
             /\ \A u \in Actor \ {t} : fpc'[u] = fpc[u] /\ cur'[u] = cur[u]
  BY <1>3, NextFileEffect
<1>4. CASE /\ temp[t] # None /\ store[g] = temp[t]
           /\ UNCHANGED <<store, temp, canonical, disturbed>> /\ NextFile(t)
  <2>1. FarmTypeOK' /\ StepOf(t)
    BY <1>0, <1>3, <1>4 DEF IInv, FarmTypeOK, CurType, StepOf
  <2>2. ~disturbed => UndisturbedStep /\ FarmKnown'
    BY <1>0, <1>4, KnownStill
  <2>3. ~disturbed => Converged(g)'
    BY <1>0, <1>2, <1>4 DEF Converged
  <2> QED  BY <1>0, <1>4, <1>g, <2>1, <2>2, <2>3, NextFilePart
<1>5. CASE /\ temp[t] # None
           /\ store' = [store EXCEPT ![g] = temp[t]]
           /\ temp' = [temp EXCEPT ![t] = None]
           /\ canonical' = canonical \ {DirOf[g]}
           /\ UNCHANGED disturbed /\ NextFile(t)
  <2>1. /\ store' \in [File -> FInode \cup {None}] /\ store'[g] = temp[t]
        /\ \A f \in File \ {g} : store'[f] = store[f]
        /\ temp' \in [Actor -> FInode \cup {None}]
        /\ \A u \in Actor \ {t} : temp'[u] = temp[u]
    BY <1>1, <1>5 DEF IInv, FarmTypeOK
  <2>2. FarmTypeOK'
    BY <1>0, <1>3, <1>5, <2>1 DEF IInv, FarmTypeOK, CurType
  <2>3. StepOf(t)
    BY <1>0, <1>1, <1>3, <1>5, <2>1 DEF StepOf
  <2>4. Hand(t)' /\ SeenGood(t, {"create", "exists", "replace", "temp"})'
    <3>1. \A f \in File : store[f] # None => store'[f] # None
      BY <1>5, <2>1
    <3> QED  BY <1>0, <1>3, <1>5, <3>1
             DEF IInv, HandInv, Hand, SeenGood, BusyPCs, FarmTypeOK
  <2>5. DirInv'
    <3>1. \A u \in Optimiser : u \in Actor
      BY DEF Actor
    <3> QED  BY <1>0, <1>1, <1>3, <1>5, <3>1 DEF IInv, DirInv, FarmTypeOK
  <2>6. ASSUME ~disturbed
        PROVE  UndisturbedStep /\ FarmKnown' /\ Pass(t)'
    <3>1. store'[g] = links'[want'[g]]
      BY <1>0, <1>2, <2>1, <2>6
    <3>2. UndisturbedStep
      BY <1>0, <2>1, <3>1 DEF UndisturbedStep
    <3>3. FarmKnown'
      <4>1. Linked' = Linked
        BY <1>0 DEF Linked
      <4>2. FarmKnown
        BY <2>6 DEF IInv, PassInv
      <4> QED  BY <1>0, <2>1, <3>1, <4>1, <4>2 DEF FarmKnown
    <3>4. \A f \in File : Converged(f) /\ store[f] # None => Converged(f)'
      BY <2>2, <2>3, <2>6, <3>2, OthersConverge
    <3>5. Converged(g)'
      BY <3>1 DEF Converged
    <3>6. \A f \in File : DirOf[f] = job[t].dir /\ store[f] # None =>
            Converged(f) \/ f \in names[t] \cup {g}
      BY <1>0, <1>g, <2>6 DEF IInv, PassInv, Pass
    <3>7. \A f \in File : DirOf[f] = job[t].dir /\ store'[f] # None =>
            Converged(f)' \/ f \in names[t]
      BY <2>1, <3>4, <3>5, <3>6
    <3>8. Pass(t)'
      BY <1>0, <1>3, <1>5, <3>7 DEF Pass, BusyPCs
    <3> QED  BY <3>2, <3>3, <3>8
  <2> QED  BY <1>5, <2>2, <2>3, <2>4, <2>5, <2>6, OwnPart
<1>6. CASE Goto(t, "failed") /\ disturbed' = TRUE /\ UNCHANGED <<store, temp, canonical, cur>>
  <2>1. /\ fpc' \in [Actor -> FPCs] /\ fpc'[t] = "failed"
        /\ \A u \in Actor \ {t} : fpc'[u] = fpc[u]
    BY <1>1, <1>6 DEF IInv, FarmTypeOK, FPCs, Goto
  <2>2. disturbed' /\ disturbed' \in BOOLEAN
    BY <1>6, Zenon
  <2>3. FarmTypeOK' /\ StepOf(t)
    BY <1>0, <1>6, <2>1, <2>2 DEF IInv, FarmTypeOK, StepOf
  <2>4. Hand(t)' /\ SeenGood(t, {"create", "exists", "replace", "temp"})'
    BY <1>0, <1>6, <2>1 DEF IInv, HandInv, Hand, SeenGood, BusyPCs
  <2>5. DirInv'
    BY <1>0, <1>6, <2>1, SameDirs
  <2> QED  BY <2>2, <2>3, <2>4, <2>5, OwnPart
<1>7. CASE /\ temp' = [temp EXCEPT ![t] = None]
           /\ NextFile(t) /\ disturbed' = TRUE /\ UNCHANGED <<store, canonical>>
  <2>1. /\ temp' \in [Actor -> FInode \cup {None}]
        /\ \A u \in Actor \ {t} : temp'[u] = temp[u]
    BY <1>1, <1>7 DEF IInv, FarmTypeOK
  <2>2. disturbed' /\ disturbed' \in BOOLEAN
    BY <1>7, Zenon
  <2>3. FarmTypeOK' /\ StepOf(t)
    BY <1>0, <1>3, <1>7, <2>1, <2>2 DEF IInv, FarmTypeOK, CurType, StepOf
  <2> QED  BY <1>0, <1>7, <1>g, <2>2, <2>3, NextFilePart
<1> QED  BY <1>4, <1>5, <1>6, <1>7, <1>g DEF Rename

\* The end of the directory, or of a pass that failed.
LEMMA FinishStep ==
  ASSUME IInv, NEW t \in Optimiser, Finish(t)
  PROVE  IInv'
<1>0. /\ \/ fpc[t] = "file" /\ names[t] = {}
         \/ fpc[t] = "failed"
      /\ fpc' = [fpc EXCEPT ![t] = "done"]
      /\ canonical' = IF t \in toggled THEN canonical \cup {job[t].dir} ELSE canonical
      /\ toggled' = toggled \ {t}
      /\ UNCHANGED <<job, want, content, store, links, temp, inodeHash, names, cur,
                     cleanup, disturbed>>
  BY DEF Finish, Goto
<1>1. t \in Actor /\ job[t].dir \in Dir
  BY JobsAssumption DEF Actor, IInv, FarmTypeOK
<1>2. /\ fpc' \in [Actor -> FPCs] /\ fpc'[t] = "done"
      /\ \A u \in Actor \ {t} : fpc'[u] = fpc[u]
  BY <1>0, <1>1 DEF IInv, FarmTypeOK, FPCs
<1>3. FarmTypeOK' /\ StepOf(t)
  BY <1>0, <1>1, <1>2 DEF IInv, FarmTypeOK, StepOf
<1>4. Hand(t)' /\ SeenGood(t, {"create", "exists", "replace", "temp"})'
  BY <1>0, <1>2 DEF IInv, HandInv, Hand, SeenGood, BusyPCs
<1>5. DirInv'
  <2>1. \A u \in Optimiser : u \in Actor
    BY DEF Actor
  <2>2. \A u \in toggled' : fpc'[u] \notin {"idle", "done"}
    BY <1>0, <1>2, <2>1 DEF IInv, DirInv, FarmTypeOK
  <2>3. \A u \in Optimiser : fpc'[u] \in {"temp", "rename"} => u \in toggled'
    BY <1>0, <1>2, <2>1 DEF IInv, DirInv
  <2>4. \A d \in Dir : d \in canonical' \/ \E u \in toggled' : job'[u].dir = d
    BY <1>0 DEF IInv, DirInv
  <2> QED  BY <2>2, <2>3, <2>4 DEF DirInv
<1>6. ASSUME ~disturbed
      PROVE  UndisturbedStep /\ FarmKnown' /\ Pass(t)'
  <2>1. UndisturbedStep /\ FarmKnown'
    BY <1>0, <1>6, KnownStill
  <2>2. Pass(t)
    BY <1>6 DEF IInv, PassInv
  <2>3. fpc[t] = "file" /\ names[t] = {} /\ cur[t].file = "none"
    BY <1>0, <2>2 DEF Pass, IInv, HandInv, Hand
  <2>4. \A f \in File : DirOf[f] = job[t].dir /\ store[f] # None => Converged(f)
    BY <2>2, <2>3, NamesAssumption DEF Pass
  <2>5. Pass(t)'
    BY <1>0, <1>2, <2>4 DEF Pass, BusyPCs, Converged
  <2> QED  BY <2>1, <2>5
<1> QED  BY <1>0, <1>3, <1>4, <1>5, <1>6, OwnPart

-----------------------------------------------------------------------------
(* Steps of the import and of the collector, which disturb a pass.         *)

\* They leave the optimising threads where they are, and take neither the
\* content of a name nor a file that a thread has at hand.
LEMMA OptimisersKept ==
  ASSUME IInv, FarmTypeOK', disturbed', UNCHANGED <<job, want, names, canonical, toggled>>,
         \A t \in Optimiser : /\ cur'[t] = cur[t] /\ fpc'[t] = fpc[t]
                              /\ temp'[t] = temp[t] \/ temp'[t] = None
                              /\ temp[t] # None => content'[temp[t]] = content[temp[t]],
         \A c \in Content : /\ links'[c] = links[c] \/ links'[c] = None
                            /\ links[c] # None => content'[links[c]] = content[links[c]],
         \A t \in Optimiser : \A f \in (names[t] \cup {cur[t].file}) \ {"none"} :
           store'[f] # None
  PROVE  /\ \A t \in Optimiser : Hand(t)'
         /\ \A t \in Optimiser : SeenGood(t, {"create", "exists", "replace", "temp"})'
         /\ LinksInv' /\ DirInv' /\ PassInv'
<1> USE DEF IInv
<1>1. ASSUME NEW t \in Optimiser
      PROVE  Hand(t)'
  BY NamesAssumption DEF HandInv, Hand, FarmTypeOK
<1>2. \A c \in Content : GoodLink(c) => GoodLink(c)'
  BY DEF GoodLink
<1>3. ASSUME NEW t \in Optimiser
      PROVE  SeenGood(t, {"create", "exists", "replace", "temp"})'
  <2>1. fpc[t] \in {"create", "exists", "replace", "temp"} => cur[t].hash \in Content
    BY FileAtHand DEF BusyPCs
  <2>2. fpc[t] \in {"create", "exists", "replace", "temp"} => GoodLink(cur[t].hash)'
    BY <1>2, <2>1 DEF ContentInv, SeenGood, GoodLink
  <2>3. (fpc[t] = "rename" /\ temp[t] # None => content[temp[t]] = cur[t].hash)'
    BY DEF ContentInv, SeenGood
  <2> QED  BY <2>2, <2>3 DEF SeenGood
<1>4. LinksInv'
  BY DEF ContentInv, LinksInv
<1>5. DirInv'
  BY DEF DirInv, FarmTypeOK
<1>6. PassInv'
  BY DEF PassInv
<1> QED  BY <1>1, <1>3, <1>4, <1>5, <1>6

\* Nothing refers to a free inode.
LEMMA FreeInodeUnused ==
  ASSUME NEW i \in FInode, FreeInode(i)
  PROVE  /\ \A f \in File : store[f] # i
         /\ \A c \in Content : links[c] # i
         /\ \A a \in Actor : temp[a] # i
<1> DEFINE A == {f \in File : store[f] = i}
           B == {c \in Content : links[c] = i}
           C == {a \in Actor : temp[a] = i}
<1>1. Cardinality(A) + Cardinality(B) + Cardinality(C) = 0
  BY DEF FreeInode, nlink, NLinks
<1>2. IsFiniteSet(Actor)
  BY FiniteAssumption, FS_AddElement DEF Actor
<1>3. A \subseteq File /\ B \subseteq Content /\ C \subseteq Actor
  OBVIOUS
<1> HIDE DEF A, B, C
<1>4. IsFiniteSet(A) /\ IsFiniteSet(B) /\ IsFiniteSet(C)
  BY <1>2, <1>3, FiniteAssumption, FS_Subset
<1>5. Cardinality(A) \in Nat /\ Cardinality(B) \in Nat /\ Cardinality(C) \in Nat
  BY <1>4, FS_CardinalityType
<1>6. Cardinality(A) = 0 /\ Cardinality(B) = 0 /\ Cardinality(C) = 0
  BY <1>1, <1>5
<1>7. A = {} /\ B = {} /\ C = {}
  BY <1>4, <1>6, FS_EmptySet
<1> QED  BY <1>7 DEF A, B, C

\* A file is restored into an inode that nothing refers to.
LEMMA RestoreStep ==
  ASSUME IInv, Restore
  PROVE  IInv'
<1>0. /\ fpc[Import] = "idle" /\ Goto(Import, "lstat") /\ disturbed' = TRUE
      /\ UNCHANGED <<job, want, links, temp, canonical, inodeHash, names, toggled, cleanup>>
  BY DEF Restore
<1>1. PICK f \in NewFile, i \in FInode :
        /\ store[f] = None
        /\ FreeInode(i)
        /\ store' = [store EXCEPT ![f] = i]
        /\ content' = [content EXCEPT ![i] = want[f]]
        /\ cur' = [cur EXCEPT ![Import] =
                      [file |-> f, ino |-> i, hash |-> want[f], link |-> None]]
  BY DEF Restore
<1>2. /\ f \in File /\ want[f] \in Content /\ Import \in Actor /\ i # None
      /\ \A t \in Optimiser : t \in Actor /\ t # Import
  BY NewFileAssumption, ImportAssumption, NamesAssumption DEF Actor, IInv, FarmTypeOK
<1>3. /\ \A g \in File : store[g] # i
      /\ \A c \in Content : links[c] # i
      /\ \A a \in Actor : temp[a] # i
  BY <1>1, FreeInodeUnused
<1>4. /\ store' \in [File -> FInode \cup {None}] /\ store'[f] = i
      /\ \A g \in File \ {f} : store'[g] = store[g]
      /\ content' \in [FInode -> Content] /\ content'[i] = want[f]
      /\ \A k \in FInode \ {i} : content'[k] = content[k]
  BY <1>1, <1>2 DEF IInv, FarmTypeOK
<1>5. /\ cur' \in [Actor -> CurType] /\ cur'[Import].file = f /\ cur'[Import].hash = want[f]
      /\ \A a \in Actor \ {Import} : cur'[a] = cur[a] /\ fpc'[a] = fpc[a]
      /\ fpc' \in [Actor -> FPCs] /\ fpc'[Import] = "lstat"
  <2> DEFINE k == [file |-> f, ino |-> i, hash |-> want[f], link |-> None]
  <2>1. k \in CurType /\ k.file = f /\ k.hash = want[f]
    BY <1>2 DEF CurType, Names
  <2>2. cur \in [Actor -> CurType] /\ fpc \in [Actor -> FPCs] /\ "lstat" \in FPCs
    BY DEF IInv, FarmTypeOK, CurType, FPCs
  <2>3. cur' = [cur EXCEPT ![Import] = k] /\ fpc' = [fpc EXCEPT ![Import] = "lstat"]
    BY <1>0, <1>1 DEF Goto
  <2> HIDE DEF k
  <2> QED  BY <1>2, <2>1, <2>2, <2>3
<1>6. disturbed' /\ disturbed' \in BOOLEAN
  BY <1>0, Zenon
<1>7. FarmTypeOK'
  BY <1>0, <1>4, <1>5, <1>6 DEF IInv, FarmTypeOK, CurType
<1>8. FilesInv'
  BY <1>0, <1>3, <1>4 DEF IInv, ContentInv, FilesInv, FarmTypeOK
<1>9. /\ \A t \in Optimiser : temp[t] # None => content'[temp[t]] = content[temp[t]]
      /\ \A c \in Content : links[c] # None => content'[links[c]] = content[links[c]]
  BY <1>2, <1>3, <1>4 DEF IInv, FarmTypeOK
<1>10. \A t \in Optimiser : \A g \in (names[t] \cup {cur[t].file}) \ {"none"} :
         store'[g] # None
  <2>1. \A t \in Optimiser : \A g \in (names[t] \cup {cur[t].file}) \ {"none"} :
          g \in File /\ store[g] # None
    BY <1>2 DEF IInv, HandInv, Hand, FarmTypeOK, Names
  <2> QED  BY <1>2, <1>4, <2>1
<1>11. /\ \A t \in Optimiser : Hand(t)'
       /\ \A t \in Optimiser : SeenGood(t, {"create", "exists", "replace", "temp"})'
       /\ LinksInv' /\ DirInv' /\ PassInv'
  BY <1>0, <1>2, <1>5, <1>6, <1>7, <1>9, <1>10, OptimisersKept
<1>12. ImportHand' /\ SeenGood(Import, {"temp"})'
       /\ (fpc[Import] = "rename" => temp[Import] # None)'
  BY <1>0, <1>2, <1>4, <1>5 DEF ImportHand, SeenGood
<1> QED  BY <1>7, <1>8, <1>11, <1>12 DEF IInv, HandInv, ContentInv

\* A step of the import on a file that it has restored.
LEMMA ImportFrame ==
  ASSUME IInv, fpc[Import] # "idle", FarmTypeOK',
         UNCHANGED <<job, want, names, canonical, toggled, content, links, disturbed>>,
         \A a \in Actor \ {Import} : cur'[a] = cur[a] /\ fpc'[a] = fpc[a] /\ temp'[a] = temp[a],
         \A f \in File : store[f] # None => store'[f] # None,
         FilesInv', ImportHand', SeenGood(Import, {"temp"})',
         (fpc[Import] = "rename" => temp[Import] # None)'
  PROVE  IInv'
<1>1. disturbed
  BY DEF IInv, PassInv
<1>2. \A t \in Optimiser : t \in Actor /\ t # Import
  BY ImportAssumption DEF Actor
<1>3. \A t \in Optimiser : \A g \in (names[t] \cup {cur[t].file}) \ {"none"} :
        store'[g] # None
  BY <1>2 DEF IInv, HandInv, Hand, FarmTypeOK, Names
<1>4. /\ \A t \in Optimiser : Hand(t)'
      /\ \A t \in Optimiser : SeenGood(t, {"create", "exists", "replace", "temp"})'
      /\ LinksInv' /\ DirInv' /\ PassInv'
  BY <1>1, <1>2, <1>3, OptimisersKept
<1> QED  BY <1>4 DEF IInv, HandInv, ContentInv

\* tryDedup() ends.
LEMMA DedupDoneEffect ==
  ASSUME IInv, DedupDone
  PROVE  /\ fpc' \in [Actor -> FPCs] /\ fpc'[Import] = "idle"
         /\ cur' \in [Actor -> CurType]
         /\ \A a \in Actor \ {Import} : fpc'[a] = fpc[a] /\ cur'[a] = cur[a]
<1>1. Import \in Actor
  BY DEF Actor
<1>2. NoFile \in CurType
  BY DEF NoFile, CurType, Names
<1>3. cur \in [Actor -> CurType] /\ fpc \in [Actor -> FPCs] /\ "idle" \in FPCs
  BY DEF IInv, FarmTypeOK, CurType, FPCs
<1> QED  BY <1>1, <1>2, <1>3 DEF DedupDone, Goto

\* A link of the right size is good.
LEMMA DedupLstatStep ==
  ASSUME IInv, DedupLstat
  PROVE  IInv'
<1> DEFINE c == cur[Import].hash
           i == links[c]
<1>0. /\ fpc[Import] = "lstat" /\ Import \in Actor
      /\ UNCHANGED <<job, want, content, store, links, temp, canonical, inodeHash,
                     names, toggled, cleanup, disturbed>>
  BY DEF DedupLstat, Actor
<1>1. FilesInv'
  BY <1>0 DEF IInv, ContentInv, FilesInv
<1>2. c \in Content /\ (i # None /\ SizeMatches(Import, i) => content[i] = c)
  <2>1. c \in Content
    BY <1>0, NewFileAssumption DEF IInv, HandInv, ImportHand, FarmTypeOK
  <2> QED  BY <2>1 DEF SizeMatches, HashAtHand, IInv, ContentInv, LinksInv
<1>3. CASE DedupDone
  <2>1. /\ fpc' \in [Actor -> FPCs] /\ fpc'[Import] = "idle"
        /\ cur' \in [Actor -> CurType]
        /\ \A a \in Actor \ {Import} : fpc'[a] = fpc[a] /\ cur'[a] = cur[a]
    BY <1>3, DedupDoneEffect
  <2>2. FarmTypeOK'
    BY <1>0, <2>1 DEF IInv, FarmTypeOK, CurType
  <2>3. ImportHand' /\ SeenGood(Import, {"temp"})'
        /\ (fpc[Import] = "rename" => temp[Import] # None)'
    BY <2>1 DEF ImportHand, SeenGood
  <2> QED  BY <1>0, <1>1, <2>1, <2>2, <2>3, ImportFrame
<1>4. CASE /\ Goto(Import, "temp") /\ UNCHANGED cur
           /\ i # None /\ SizeMatches(Import, i)
  <2>1. /\ fpc' \in [Actor -> FPCs] /\ fpc'[Import] = "temp"
        /\ \A a \in Actor \ {Import} : fpc'[a] = fpc[a]
    BY <1>0, <1>4 DEF IInv, FarmTypeOK, FPCs, Goto
  <2>2. FarmTypeOK'
    BY <1>0, <1>4, <2>1 DEF IInv, FarmTypeOK
  <2>3. ImportHand' /\ SeenGood(Import, {"temp"})'
        /\ (fpc[Import] = "rename" => temp[Import] # None)'
    BY <1>0, <1>2, <1>4, <2>1 DEF ImportHand, SeenGood, GoodLink, IInv, HandInv
  <2> QED  BY <1>0, <1>1, <1>4, <2>1, <2>2, <2>3, ImportFrame
<1> QED  BY <1>3, <1>4 DEF DedupLstat, HashAtHand

\* The link may have been replaced since: by a good one.
LEMMA DedupLinkStep ==
  ASSUME IInv, DedupLink
  PROVE  IInv'
<1> DEFINE c == cur[Import].hash
           i == links[c]
<1>0. /\ fpc[Import] = "temp" /\ Import \in Actor
      /\ UNCHANGED <<job, want, content, store, links, canonical, inodeHash,
                     names, toggled, cleanup, disturbed>>
  BY DEF DedupLink, Actor
<1>1. FilesInv'
  BY <1>0 DEF IInv, ContentInv, FilesInv
<1>2. i \in FInode \cup {None}
  BY <1>0, NewFileAssumption DEF IInv, HandInv, ImportHand, FarmTypeOK
<1>3. CASE DedupDone /\ UNCHANGED temp
  <2>1. /\ fpc' \in [Actor -> FPCs] /\ fpc'[Import] = "idle"
        /\ cur' \in [Actor -> CurType]
        /\ \A a \in Actor \ {Import} : fpc'[a] = fpc[a] /\ cur'[a] = cur[a]
    BY <1>3, DedupDoneEffect
  <2>2. FarmTypeOK'
    BY <1>0, <1>3, <2>1 DEF IInv, FarmTypeOK, CurType
  <2>3. ImportHand' /\ SeenGood(Import, {"temp"})'
        /\ (fpc[Import] = "rename" => temp[Import] # None)'
    BY <2>1 DEF ImportHand, SeenGood
  <2> QED  BY <1>0, <1>1, <1>3, <2>1, <2>2, <2>3, ImportFrame
<1>4. CASE /\ temp' = [temp EXCEPT ![Import] = i] /\ i # None
           /\ Goto(Import, "rename") /\ UNCHANGED cur
  <2>1. /\ fpc' \in [Actor -> FPCs] /\ fpc'[Import] = "rename"
        /\ temp' \in [Actor -> FInode \cup {None}] /\ temp'[Import] = i
        /\ \A a \in Actor \ {Import} : fpc'[a] = fpc[a] /\ temp'[a] = temp[a]
    BY <1>0, <1>2, <1>4 DEF IInv, FarmTypeOK, FPCs, Goto
  <2>2. FarmTypeOK'
    BY <1>0, <1>4, <2>1 DEF IInv, FarmTypeOK
  <2>3. ImportHand' /\ SeenGood(Import, {"temp"})'
        /\ (fpc[Import] = "rename" => temp[Import] # None)'
    BY <1>0, <1>4, <2>1 DEF ImportHand, SeenGood, GoodLink, IInv, HandInv, ContentInv
  <2> QED  BY <1>0, <1>1, <1>4, <2>1, <2>2, <2>3, ImportFrame
<1> QED  BY <1>3, <1>4 DEF DedupLink, HashAtHand

\* The restored file is replaced by the link, or stays.
LEMMA DedupRenameStep ==
  ASSUME IInv, DedupRename
  PROVE  IInv'
<1>0. /\ fpc[Import] = "rename" /\ Import \in Actor /\ DedupDone
      /\ temp' = [temp EXCEPT ![Import] = None]
      /\ UNCHANGED <<job, want, content, links, canonical, inodeHash, names, toggled,
                     cleanup, disturbed>>
  BY DEF DedupRename, Actor
<1>g. PICK g \in File : g = cur[Import].file
  BY <1>0, NewFileAssumption DEF IInv, HandInv, ImportHand
<1>1. temp[Import] \in FInode /\ temp[Import] # None /\ content[temp[Import]] = want[g]
  BY <1>0, <1>g DEF IInv, FarmTypeOK, HandInv, ImportHand, ContentInv, SeenGood
<1>2. /\ store' \in [File -> FInode \cup {None}]
      /\ \A f \in File : store'[f] = store[f] \/ (f = g /\ store'[f] = temp[Import])
  BY <1>g, <1>1 DEF DedupRename, IInv, FarmTypeOK
<1>3. FilesInv' /\ \A f \in File : store[f] # None => store'[f] # None
  BY <1>0, <1>1, <1>2 DEF IInv, ContentInv, FilesInv
<1>4. /\ fpc' \in [Actor -> FPCs] /\ fpc'[Import] = "idle"
      /\ cur' \in [Actor -> CurType]
      /\ \A a \in Actor \ {Import} : fpc'[a] = fpc[a] /\ cur'[a] = cur[a]
  BY <1>0, DedupDoneEffect
<1>5. /\ temp' \in [Actor -> FInode \cup {None}]
      /\ \A a \in Actor \ {Import} : temp'[a] = temp[a]
  BY <1>0 DEF IInv, FarmTypeOK
<1>6. FarmTypeOK'
  BY <1>0, <1>2, <1>4, <1>5 DEF IInv, FarmTypeOK, CurType
<1>7. ImportHand' /\ SeenGood(Import, {"temp"})'
      /\ (fpc[Import] = "rename" => temp[Import] # None)'
  BY <1>4 DEF ImportHand, SeenGood
<1> QED  BY <1>0, <1>3, <1>4, <1>5, <1>6, <1>7, ImportFrame

\* A step of the collector: names are only removed.
LEMMA CollectorFrame ==
  ASSUME IInv, FarmTypeOK', disturbed',
         UNCHANGED <<job, want, names, canonical, toggled, content, cur, fpc>>,
         \A t \in Optimiser : temp'[t] = temp[t] \/ temp'[t] = None,
         temp'[Import] = temp[Import],
         \A c \in Content : links'[c] = links[c] \/ links'[c] = None,
         \A f \in File : store'[f] = store[f] \/ store'[f] = None,
         \A f \in NewFile : store'[f] = store[f],
         \A t \in Optimiser : \A f \in (names[t] \cup {cur[t].file}) \ {"none"} :
           store'[f] = store[f]
  PROVE  IInv'
<1>1. \A t \in Optimiser : \A f \in (names[t] \cup {cur[t].file}) \ {"none"} :
        store'[f] # None
  BY DEF IInv, HandInv, Hand
<1>2. /\ \A t \in Optimiser : Hand(t)'
      /\ \A t \in Optimiser : SeenGood(t, {"create", "exists", "replace", "temp"})'
      /\ LinksInv' /\ DirInv' /\ PassInv'
  BY <1>1, OptimisersKept
<1>3. FilesInv'
  BY DEF IInv, ContentInv, FilesInv
<1>4. ImportHand'
  BY DEF IInv, HandInv, ImportHand
<1>5. SeenGood(Import, {"temp"})' /\ (fpc[Import] = "rename" => temp[Import] # None)'
  <2>1. fpc[Import] = "temp" => cur[Import].hash \in Content
    BY NewFileAssumption DEF IInv, HandInv, ImportHand, FarmTypeOK
  <2> QED  BY <2>1 DEF IInv, ContentInv, SeenGood, GoodLink
<1> QED  BY <1>2, <1>3, <1>4, <1>5 DEF IInv, HandInv, ContentInv

\* A dead path is deleted: nobody has one of its files at hand.
LEMMA DeleteDeadStep ==
  ASSUME IInv, NEW d \in Dir, DeleteDead(d)
  PROVE  IInv'
<1>0. /\ \A t \in Optimiser : job[t].dir = d => fpc[t] = "idle"
      /\ \A f \in NewFile : DirOf[f] # d
      /\ store' = [f \in File |-> IF DirOf[f] = d THEN None ELSE store[f]]
      /\ UNCHANGED <<job, want, content, links, temp, canonical, inodeHash, fpc, names,
                     cur, toggled, cleanup>>
  BY DEF DeleteDead
<1>1. disturbed' /\ disturbed' \in BOOLEAN
  BY Zenon DEF DeleteDead
<1>2. /\ store' \in [File -> FInode \cup {None}]
      /\ \A f \in File : DirOf[f] # d => store'[f] = store[f]
      /\ \A f \in File : store'[f] = store[f] \/ store'[f] = None
  BY <1>0 DEF IInv, FarmTypeOK
<1>3. FarmTypeOK'
  BY <1>0, <1>1, <1>2 DEF IInv, FarmTypeOK
<1>4. ASSUME NEW t \in Optimiser, NEW f \in (names[t] \cup {cur[t].file}) \ {"none"}
      PROVE  store'[f] = store[f]
  <2>1. t \in Actor
    BY DEF Actor
  <2>2. f \in File /\ DirOf[f] = job[t].dir /\ fpc[t] # "idle"
    BY <2>1 DEF IInv, HandInv, Hand, FarmTypeOK, Names
  <2> QED  BY <1>0, <1>2, <2>2
<1> QED  BY <1>0, <1>1, <1>2, <1>3, <1>4, NewFileAssumption, CollectorFrame

\* A temporary link is deleted.
LEMMA DeleteTempStep ==
  ASSUME IInv, NEW t \in Optimiser, DeleteTemp(t)
  PROVE  IInv'
<1>0. /\ temp' = [temp EXCEPT ![t] = None]
      /\ UNCHANGED <<job, want, content, store, links, canonical, inodeHash, fpc, names,
                     cur, toggled, cleanup>>
  BY DEF DeleteTemp
<1>1. disturbed' /\ disturbed' \in BOOLEAN
  BY Zenon DEF DeleteTemp
<1>2. /\ temp' \in [Actor -> FInode \cup {None}] /\ temp'[Import] = temp[Import]
      /\ \A u \in Optimiser : temp'[u] = temp[u] \/ temp'[u] = None
  BY <1>0, ImportAssumption DEF IInv, FarmTypeOK, Actor
<1>3. FarmTypeOK'
  BY <1>0, <1>1, <1>2 DEF IInv, FarmTypeOK
<1> QED  BY <1>0, <1>1, <1>2, <1>3, CollectorFrame

\* The cleanup of .links only removes names from it.
LEMMA CleanupStep ==
  ASSUME IInv, CleanupStart \/ CleanupLstat \/ CleanupUnlink \/ CleanupDone
  PROVE  IInv'
<1>0. UNCHANGED <<job, want, content, store, temp, canonical, inodeHash, fpc, names,
                  cur, toggled>>
  BY DEF CleanupStart, CleanupLstat, CleanupUnlink, CleanupDone
<1>1. disturbed' /\ disturbed' \in BOOLEAN
  <2>1. CASE CleanupStart
    BY <2>1, Zenon DEF CleanupStart
  <2>2. CASE CleanupLstat \/ CleanupUnlink \/ CleanupDone
    <3>1. UNCHANGED disturbed /\ cleanup.pc # "idle"
      BY <2>2 DEF CleanupLstat, CleanupUnlink, CleanupDone
    <3>2. disturbed /\ disturbed \in BOOLEAN
      BY <3>1 DEF IInv, PassInv, FarmTypeOK
    <3> QED  BY <3>1, <3>2
  <2> QED  BY <2>1, <2>2
<1>2. /\ links' \in [Content -> FInode \cup {None}]
      /\ \A c \in Content : links'[c] = links[c] \/ links'[c] = None
  BY DEF IInv, FarmTypeOK, CleanupStart, CleanupLstat, CleanupUnlink, CleanupDone
<1>3. cleanup' \in [pc : {"idle", "scan", "unlink", "done", "failed"},
                    left : SUBSET Content, name : Content \cup {"none"}]
  BY DEF IInv, FarmTypeOK, CleanupStart, CleanupLstat, CleanupUnlink, CleanupDone
<1>4. FarmTypeOK'
  BY <1>0, <1>1, <1>2, <1>3 DEF IInv, FarmTypeOK
<1> QED  BY <1>0, <1>1, <1>2, <1>4, CollectorFrame

-----------------------------------------------------------------------------
(* The theorem.                                                            *)

\* The invariant holds when the store is found in one of its states.
LEMMA IInvInit == FarmInit => IInv
<1> SUFFICES ASSUME FarmInit PROVE IInv
  OBVIOUS
<1>1. PICK s \in FarmStarts :
        want = s.want /\ store = s.store /\ links = s.links /\ content = s.content
  BY DEF FarmInit
<1>2. /\ want \in [File -> Content] /\ store \in [File -> FInode \cup {None}]
      /\ content \in [FInode -> Content] /\ links \in [Content -> FInode \cup {None}]
      /\ \A f \in File : store[f] # None => content[store[f]] = want[f]
      /\ \A c \in Content : links[c] # None =>
           /\ Size[c] > 0
           /\ content[links[c]] = c \/ Size[content[links[c]]] # Size[c]
           /\ \A f \in File : store[f] = links[c] => store[f] = links[want[f]]
  BY <1>1, StartsAssumption
<1>3. \A a \in Actor : fpc[a] = "idle" /\ temp[a] = None /\ cur[a] = NoFile
  BY DEF FarmInit
<1>4. \A t \in Optimiser : names[t] = {} /\ t \in Actor
  BY DEF FarmInit, Actor
<1>5. FarmTypeOK
  <2>1. NoFile \in CurType
    BY DEF NoFile, CurType, Names
  <2>2. cur \in [Actor -> CurType]
    BY <2>1 DEF FarmInit
  <2>3. disturbed \in BOOLEAN
    BY Zenon DEF FarmInit
  <2>4. cleanup \in [pc : {"idle", "scan", "unlink", "done", "failed"},
                     left : SUBSET Content, name : Content \cup {"none"}]
    BY DEF FarmInit
  <2> QED  BY <1>2, <2>2, <2>3, <2>4 DEF FarmInit, FarmTypeOK, CurType, FPCs
<1>6. Import \in Actor
  BY DEF Actor
<1>7. HandInv
  BY <1>3, <1>4, <1>6 DEF HandInv, Hand, ImportHand, NoFile, BusyPCs
<1>8. ContentInv
  BY <1>2, <1>3, <1>4, <1>6 DEF ContentInv, FilesInv, LinksInv, SeenGood
<1>9. DirInv
  BY <1>3, <1>4 DEF DirInv, FarmInit
<1>10. PassInv
  <2>1. FarmKnown
    BY <1>2 DEF FarmKnown, Linked, FarmInit
  <2>2. \A t \in Optimiser : Pass(t)
    BY <1>3, <1>4 DEF Pass, BusyPCs
  <2> QED  BY <1>3, <1>6, <2>1, <2>2 DEF PassInv, FarmInit
<1> QED  BY <1>5, <1>7, <1>8, <1>9, <1>10 DEF IInv

\* Every step keeps it.
LEMMA IInvNext == IInv /\ [FarmNext]_farmVars => IInv'
<1> SUFFICES ASSUME IInv, [FarmNext]_farmVars PROVE IInv'
  OBVIOUS
<1>1. ASSUME NEW t \in Optimiser, Optimise(t)
      PROVE  IInv'
  BY <1>1, StartStep, ReadDirectoryStep, LstatStep, LstatLinkStep, RemoveCorruptedStep,
     CreateLinkStep, LinkExistsStep, LstatAgainStep, CompareStep, TempLinkStep,
     RenameStep, FinishStep DEF Optimise
<1>2. CASE Restore \/ DedupLstat \/ DedupLink \/ DedupRename
  BY <1>2, RestoreStep, DedupLstatStep, DedupLinkStep, DedupRenameStep
<1>3. CASE \E d \in Dir : DeleteDead(d)
  BY <1>3, DeleteDeadStep
<1>4. CASE \E t \in Optimiser : DeleteTemp(t)
  BY <1>4, DeleteTempStep
<1>5. CASE CleanupStart \/ CleanupLstat \/ CleanupUnlink \/ CleanupDone
  BY <1>5, CleanupStep
<1>6. CASE UNCHANGED farmVars
  <2> USE <1>6 DEF farmVars, IInv
  <2>1. FarmTypeOK' /\ DirInv'
    BY DEF FarmTypeOK, DirInv
  <2>2. HandInv'
    BY DEF HandInv, Hand, ImportHand
  <2>3. ContentInv'
    BY DEF ContentInv, FilesInv, LinksInv, SeenGood, GoodLink
  <2>4. PassInv'
    BY DEF PassInv, FarmKnown, Linked, Pass, Converged
  <2> QED  BY <2>1, <2>2, <2>3, <2>4
<1> QED  BY <1>1, <1>2, <1>3, <1>4, <1>5, <1>6 DEF FarmNext

\* Whatever optimisers, the import and the collector do on the farm: no content
\* is lost or exchanged, an undisturbed pass deduplicates everything that it is
\* called for, and a directory in which nobody works is canonical.
THEOREM FarmSafe == FarmSpec => []FarmIsSound
<1>1. IInv => FarmIsSound
  <2> SUFFICES ASSUME IInv PROVE FarmIsSound
    OBVIOUS
  <2>1. FarmTypeOK
    BY DEF IInv
  <2>2. ContentPreserved
    BY DEF IInv, HandInv, Hand, ContentInv, FilesInv, ContentPreserved
  <2>3. PassConverges
    BY DEF IInv, PassInv, Pass, Converged, PassConverges
  <2>4. DirsRestored
    BY DEF IInv, DirInv, DirsRestored, FarmTypeOK
  <2> QED  BY <2>1, <2>2, <2>3, <2>4 DEF FarmIsSound
<1> QED  BY <1>1, IInvInit, IInvNext, PTL DEF FarmSpec
=============================================================================
