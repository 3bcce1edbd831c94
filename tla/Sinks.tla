------------------------------- MODULE Sinks -------------------------------
(***************************************************************************)
(* The sinks an archive is unpacked into: MemorySink with the accessor it  *)
(* fills (memory-source-accessor.cc), RestoreSink that writes files with   *)
(* their final metadata as it goes (fs-sink.cc), and                       *)
(* canonicalisePathMetaData(), the walk that gives files that metadata     *)
(* afterwards (posix-fs-canonicalise.cc).                                  *)
(***************************************************************************)
EXTENDS Nar

CONSTANT LinksAllowed   \* how many symlinks resolveSymlinks() follows: 1024 in the code

ASSUME LinksAssumption == LinksAllowed \in Nat

(***************************************************************************)
(* MemorySourceAccessor.  `Nothing' is an accessor without a root, and the *)
(* result of a failed open(): the statuses are the exceptions it throws.   *)
(***************************************************************************)

Nothing == [type |-> "nothing"]

Opened(status, root, file) == [status |-> status, root |-> root, file |-> file]

RECURSIVE Grown(_, _)
\* The directories insert()ed for a missing path, with the file at its end.
Grown(path, file) ==
  IF path = <<>> THEN file ELSE Directory(Head(path) :> Grown(Tail(path), file))

RECURSIVE OpenFrom(_, _, _)
\* open() below an existing file; `create' is a sequence of at most one file.
OpenFrom(cur, path, create) ==
  CASE path = <<>> -> Opened("found", cur, cur)
    [] path # <<>> /\ cur.type = "symlink" -> Opened("SymlinkNotAllowed", cur, Nothing)
    [] path # <<>> /\ cur.type = "regular" ->
         Opened(IF create = <<>> THEN "null" ELSE "NotADirectory", cur, Nothing)
    [] OTHER ->
         LET name == Head(path)
         IN IF name \in DOMAIN cur.entries
            THEN LET below == OpenFrom(cur.entries[name], Tail(path), create)
                 IN [below EXCEPT !.root = [cur EXCEPT !.entries[name] = below.root]]
            ELSE IF create = <<>> THEN Opened("null", cur, Nothing)
            ELSE Opened("found",
                        [cur EXCEPT !.entries = @ @@ (name :> Grown(Tail(path), create[1]))],
                        create[1])

MemOpen(root, path, create) ==
  IF root # Nothing THEN OpenFrom(root, path, create)
  ELSE IF path = <<>> /\ create # <<>> THEN Opened("found", create[1], create[1])
  ELSE Opened("null", root, Nothing)

RECURSIVE WithFile(_, _, _)
\* The tree with the file at an existing path replaced: the pointer open() returned
\* is written through.
WithFile(cur, path, file) ==
  IF path = <<>> THEN file
  ELSE [cur EXCEPT !.entries[Head(path)] = WithFile(@, Tail(path), file)]

\* An answer of the accessor: a status, and a value when it is "ok".
Answer(status, value) == [status |-> status, value |-> value]

memReadFile(root, path) ==
  LET o == MemOpen(root, path, <<>>)
  IN CASE o.status = "null" -> Answer("FileNotFound", <<>>)
       [] o.status = "SymlinkNotAllowed" -> Answer(o.status, <<>>)
       [] o.file.type = "directory" -> Answer("NotARegularFile", <<>>)
       [] o.file.type = "symlink" -> Answer("SymlinkNotAllowed", <<>>)
       [] OTHER -> Answer("ok", o.file.contents)

memMaybeLstat(root, path) ==
  LET o == MemOpen(root, path, <<>>)
  IN IF o.status = "found"
     THEN Answer("ok", <<o.file.type, o.file.type = "regular" /\ o.file.executable>>)
     ELSE Answer(IF o.status = "null" THEN "missing" ELSE o.status, <<>>)

memReadDirectory(root, path) ==
  LET o == MemOpen(root, path, <<>>)
  IN CASE o.status = "null" -> Answer("FileNotFound", <<>>)
       [] o.status = "SymlinkNotAllowed" -> Answer(o.status, <<>>)
       [] o.file.type = "regular" -> Answer("NotADirectory", <<>>)
       [] o.file.type = "symlink" -> Answer("SymlinkNotAllowed", <<>>)
       [] OTHER -> Answer("ok", [e \in DOMAIN o.file.entries |-> o.file.entries[e].type])

memReadLink(root, path) ==
  LET o == MemOpen(root, path, <<>>)
  IN CASE o.status = "null" -> Answer("FileNotFound", <<>>)
       [] o.status = "SymlinkNotAllowed" -> Answer(o.status, <<>>)
       [] o.file.type # "symlink" -> Answer("NotASymlink", <<>>)
       [] OTHER -> Answer("ok", o.file.target)

(***************************************************************************)
(* MemorySink: an existing file of the right type is taken as it is, and   *)
(* contents are appended to it.                                            *)
(***************************************************************************)

MemCreate(s, path, file) ==
  LET o == MemOpen(s.root, path, <<file>>)
  IN [ok |-> o.status = "found" /\ o.file.type = file.type, root |-> o.root]

MemSinkCall(s, call) ==
  LET op == call[1]
      path == call[2]
      at(f) == [s EXCEPT !.root = WithFile(@, path, f)]
      here == MemOpen(s.root, path, <<>>).file
  IN CASE ~s.ok -> s
       [] s.ok /\ op = "mkdir" -> MemCreate(s, path, Directory(NoEntries))
       [] s.ok /\ op = "create" -> MemCreate(s, path, Regular(FALSE, <<>>))
       [] s.ok /\ op = "executable" -> at([here EXCEPT !.executable = TRUE])
       [] s.ok /\ op = "write" -> at([here EXCEPT !.contents = @ \o call[3]])
       [] s.ok /\ op = "symlink" ->
            LET made == MemCreate(s, path, Symlink(<<>>))
            IN IF made.ok THEN [made EXCEPT !.root = WithFile(@, path, Symlink(call[3]))] ELSE made
       [] OTHER -> s   \* "close" and "leave": nothing to do

MemorySink(calls) == FoldLeft(MemSinkCall, [ok |-> TRUE, root |-> Nothing], calls)

(***************************************************************************)
(* resolveSymlinks().  A component is a name, <<"..">> or <<".">>; a       *)
(* target that starts with <<"/">> is absolute.  TLC compares only values  *)
(* of one kind, so the three special components are negative texts.        *)
(***************************************************************************)

Up == <<-2>>
Here == <<-1>>
Slash == <<-3>>

Front1(p) == SubSeq(p, 1, Len(p) - 1)

RECURSIVE Resolve(_, _, _, _, _)
Resolve(root, res, todo, full, allowed) ==
  IF todo = <<>> THEN Answer("ok", res)
  ELSE LET c == Head(todo)
           rest == Tail(todo)
           there == Append(res, c)
           \* The exception of maybeLstat() passes through; `there' below a
           \* regular file is merely missing.
           st == memMaybeLstat(root, there)
       IN CASE c = Here -> Resolve(root, res, rest, full, allowed)
            [] c = Up -> Resolve(root, IF res = <<>> THEN res ELSE Front1(res), rest, full, allowed)
            [] OTHER ->
                 IF (full \/ rest # <<>>) /\ st.status = "ok" /\ st.value[1] = "symlink"
                 THEN LET target == memReadLink(root, there).value
                          absolute == Head(target) = Slash
                          parts == SelectSeq(target, LAMBDA x : x # Slash)
                      IN IF allowed = 0 THEN Answer("infinite", <<>>)
                         ELSE Resolve(root, IF absolute THEN <<>> ELSE res,
                                      parts \o rest, full, allowed - 1)
                 ELSE Resolve(root, there, rest, full, allowed)

resolveSymlinks(root, path, full) == Resolve(root, <<>>, path, full, LinksAllowed)

(***************************************************************************)
(* Files on disk, for RestoreSink and the canonicalising walk: a path      *)
(* names an inode, an inode has a type, permissions (a set of bits), a     *)
(* modification time (1 is the store's, 2 is now), an owner and extended   *)
(* attributes.                                                             *)
(***************************************************************************)

Bits == {"ur", "uw", "ux", "gr", "gw", "gx", "or", "ow", "ox"}
M0777 == Bits
M0755 == Bits \ {"gw", "ow"}
M0666 == Bits \ {"ux", "gx", "ox"}
M0555 == Bits \ {"uw", "gw", "ow"}
M0444 == {"ur", "gr", "or"}
M0111 == {"ux", "gx", "ox"}

mtimeStore == 1
Now == 2
Me == 0    \* geteuid()

Inode(type, mode, data) ==
  [type |-> type, mode |-> mode, mtime |-> Now, uid |-> Me, attrs |-> {}, data |-> data]

(***************************************************************************)
(* RestoreSink.  `o' holds the process umask, whether the sink is          *)
(* canonical, whether the file system folds case and whether directories   *)
(* are deferred.  A freshly written file is its own inode, named by its    *)
(* path.                                                                   *)
(***************************************************************************)

\* A mutant: the umask is taken to be harmless.
UmaskIgnored(o) == TRUE

umaskPreservesCanonicalModes(o) == o.umask \cap M0555 = {}

Taken(fs, path, o) ==
  LET key(p) == IF o.foldsCase THEN [i \in DOMAIN p |-> Folded(p[i])] ELSE p
  IN \E q \in DOMAIN fs : key(q) = key(path)

\* mkdirat(), openat() with O_EXCL, symlinkat(): the name must be free and its
\* parent a directory this sink made; the parent's time changes.
Make(s, path, inode, o) ==
  LET parent == Front1(path)
      parentOk == path = <<>> \/ (parent \in DOMAIN s.fs /\ s.fs[parent].type = "directory")
  IN IF Taken(s.fs, path, o) \/ ~parentOk THEN [s EXCEPT !.ok = FALSE]
     ELSE [s EXCEPT !.fs = [p \in DOMAIN @ \cup {path} |->
                              IF p = path THEN inode
                              ELSE IF path # <<>> /\ p = parent THEN [@[p] EXCEPT !.mtime = Now]
                              ELSE @[p]]]

\* finishCanonical(), called when a directory other than the root is complete.
FinishDirectory(s, path, o) ==
  CASE path = <<>> \/ ~o.canonical -> s
    [] path # <<>> /\ o.canonical /\ o.defer -> [s EXCEPT !.deferred = Append(@, path)]
    [] OTHER -> [s EXCEPT !.fs[path].mode = M0755, !.fs[path].mtime = mtimeStore]

\* The end of createRegularFile(): the mode only where the umask spoilt it.
FinishFile(s, path, o) ==
  IF ~o.canonical THEN s
  ELSE LET kept == umaskPreservesCanonicalModes(o) \/ path \in s.madeExecutable
       IN [s EXCEPT !.fs[path].mode = IF kept THEN @ ELSE M0444, !.fs[path].mtime = mtimeStore]

MakeExecutable(s, path, o) ==
  IF o.canonical
  THEN [s EXCEPT !.fs[path].mode = M0555, !.madeExecutable = @ \cup {path}]
  ELSE [s EXCEPT !.fs[path].mode = @ \cup M0111]

RestoreCall(s, call, o) ==
  LET op == call[1]
      path == call[2]
      born == (IF o.canonical THEN M0444 ELSE M0666) \ o.umask
      link == Make(s, path, Inode("symlink", M0777, call[3]), o)
  IN CASE ~s.ok -> s
       [] s.ok /\ op = "mkdir" -> Make(s, path, Inode("directory", M0777 \ o.umask, <<>>), o)
       [] s.ok /\ op = "leave" -> FinishDirectory(s, path, o)
       [] s.ok /\ op = "create" -> Make(s, path, Inode("regular", born, <<>>), o)
       [] s.ok /\ op = "executable" -> MakeExecutable(s, path, o)
       [] s.ok /\ op = "write" -> [s EXCEPT !.fs[path].data = @ \o call[3], !.fs[path].mtime = Now]
       [] s.ok /\ op = "close" -> FinishFile(s, path, o)
       [] OTHER -> IF o.canonical /\ link.ok THEN [link EXCEPT !.fs[path].mtime = mtimeStore] ELSE link

NoFiles == [p \in {} |-> {}]

RestoreSink(calls, o) ==
  FoldLeft(LAMBDA s, call : RestoreCall(s, call, o),
           [ok |-> TRUE, fs |-> NoFiles, deferred |-> <<>>, madeExecutable |-> {}], calls)

\* RegularFileSink: [regular, data]; anything but a file only clears the flag.
RegularFileSink(calls) ==
  FoldLeft(LAMBDA s, call :
             CASE call[1] \in {"mkdir", "symlink"} -> [s EXCEPT !.regular = FALSE]
               [] call[1] = "write" -> [s EXCEPT !.data = @ \o call[3]]
               [] OTHER -> s,
           [regular |-> TRUE, data |-> <<>>], calls)

RECURSIVE TreeOf(_, _)
\* The object an accessor sees in the files written.
TreeOf(fs, path) ==
  LET f == fs[path]
      names == {Last(p) : p \in {q \in DOMAIN fs : q # <<>> /\ Front1(q) = path}}
  IN CASE f.type = "regular" -> Regular("ux" \in f.mode, f.data)
       [] f.type = "symlink" -> Symlink(f.data)
       [] OTHER -> Directory([e \in names |-> TreeOf(fs, Append(path, e))])

(***************************************************************************)
(* canonicalisePathMetaData() on files that may have several names:        *)
(* w.at[path] is an inode number, w.inode[i] its attributes.  `o' holds    *)
(* the range of owners (a set; `AnyUid' for none) and the attributes to    *)
(* leave alone.                                                            *)
(***************************************************************************)

AnyUid == {-1}

canonicaliseTimestampAndPermissions(f) ==
  LET canon == CASE f.type = "directory" -> M0755
                 [] f.type = "regular" /\ "ux" \in f.mode -> M0555
                 [] OTHER -> M0444
  IN [f EXCEPT !.mode = IF f.type = "symlink" THEN @ ELSE canon, !.mtime = mtimeStore]

RECURSIVE CanonicaliseAt(_, _, _)
CanonicaliseAt(w, path, o) ==
  LET i == w.at[path]
      f == w.inode[i]
      stripped == [f EXCEPT !.attrs = @ \cap o.ignored]
      foreign == o.uids # AnyUid /\ f.uid \notin o.uids
      fixed == [canonicaliseTimestampAndPermissions(stripped) EXCEPT !.uid = Me]
      children == {p \in DOMAIN w.at : p # <<>> /\ Front1(p) = path}
  IN CASE ~w.ok -> w
       [] w.ok /\ f.type \notin {"regular", "directory", "symlink"} -> [w EXCEPT !.ok = FALSE]
       [] w.ok /\ f.type \in {"regular", "directory", "symlink"} /\ foreign ->
            [w EXCEPT !.inode[i] = stripped,
                      !.ok = /\ f.type # "directory" /\ i \in w.seen
                             /\ \/ f.type = "symlink"   \* the assertion
                                \/ f.uid = Me /\ f.mode \in {M0444, M0555} /\ f.mtime = mtimeStore]
       [] OTHER ->
            LET here == [w EXCEPT !.inode[i] = fixed, !.seen = @ \cup {i}]
            IN IF f.type = "directory"
               THEN FoldLeft(LAMBDA acc, p : CanonicaliseAt(acc, p, o), here, SetToSeq(children))
               ELSE here

canonicalisePathMetaData(at, inode, o) ==
  CanonicaliseAt([ok |-> TRUE, at |-> at, inode |-> inode, seen |-> {}], <<>>, o)
=============================================================================
