----------------------------- MODULE Accessors -----------------------------
(***************************************************************************)
(* PosixDirectorySourceAccessor (posix-source-accessor.cc): file system    *)
(* objects read through directory descriptors, by several threads.  Paths  *)
(* are walked without following symlinks (unix/file-system-at.cc), and the *)
(* descriptors of directories on the way are kept in an LRU cache per      *)
(* accessor, whose sizes add up to a global count that triggers eviction.  *)
(* One action is one system call or one critical section.                  *)
(*                                                                         *)
(* A tree is a function from the paths it has to what is there.  What is   *)
(* below the root may be replaced by another tree at any time; the root    *)
(* directory then shows the new one, and descriptors of directories below  *)
(* it still show the old one.  The answers are compared with those of      *)
(* MemorySourceAccessor (memory-source-accessor.cc) about the trees that   *)
(* were on disk.                                                           *)
(***************************************************************************)
EXTENDS Integers, Sequences, FiniteSets

CONSTANTS
  Accessor,        \* accessors of the root, numbered from 1 as they were registered
  Caller,          \* the threads that use them
  NoCaller,
  DirFdCacheSize,  \* dirFdCacheSize: getGlobalFdLimit() / 8
  GlobalFdLimit,   \* getGlobalFdLimit()
  EntryName,       \* the names of directory entries
  DiskTree,        \* the trees that may be found on disk
  Tree,            \* Tree[t]: the paths of t, and what is there
  Lookup           \* the calls made: an accessor, a call and a path

ASSUME AccessorAssumption ==
  /\ IsFiniteSet(Accessor) /\ Accessor = 1..Cardinality(Accessor)
  /\ NoCaller \notin Caller
  /\ DirFdCacheSize \in Nat /\ GlobalFdLimit \in Nat

Prefix(p, k) == SubSeq(p, 1, k)
parentOf(p) == Prefix(p, Len(p) - 1)

\* What is in a tree is in directories of the tree.
ASSUME TreeAssumption ==
  \A t \in DiskTree :
    /\ DOMAIN Tree[t] \subseteq Seq(EntryName) /\ <<>> \in DOMAIN Tree[t]
    /\ \A p \in DOMAIN Tree[t] :
         /\ Tree[t][p].type \in {"regular", "directory", "symlink"}
         /\ \A k \in 0..(Len(p) - 1) :
              Prefix(p, k) \in DOMAIN Tree[t] /\ Tree[t][Prefix(p, k)].type = "directory"

Calls == {"lstat", "readFile", "readDirectory", "readLink"}

ASSUME LookupAssumption == Lookup \subseteq Accessor \X Calls \X Seq(EntryName)

VARIABLES
  onDisk,            \* the tree on disk
  dirFdCache,        \* per accessor, <<path, descriptor>> pairs, least recently used first
  globalDirFdCount,
  evictor,           \* who holds the lock of globalDirFdCacheRegistry
  haveOpenat2,       \* the kernel knows openat2()
  rd,                \* the call each thread is in
  past               \* per accessor, what was on disk since its cache was last empty
                     \* and no call was under way

cacheVars == <<dirFdCache, globalDirFdCount>>
accVars == <<onDisk, cacheVars, evictor, haveOpenat2, rd, past>>

(***************************************************************************)
(* LRUCache                                                                *)
(***************************************************************************)

Keys(c) == {c[i][1] : i \in DOMAIN c}
IndexOf(c, key) == CHOOSE i \in DOMAIN c : c[i][1] = key
Cached(c, key) == c[IndexOf(c, key)][2]
DropAt(c, i) == [j \in 1..(Len(c) - 1) |-> IF j < i THEN c[j] ELSE c[j + 1]]
Without(c, key) == IF key \in Keys(c) THEN DropAt(c, IndexOf(c, key)) ELSE c
Promote(c, key) == Append(Without(c, key), <<key, Cached(c, key)>>)

Upsert(c, key, fd) ==
  LET rest == Without(c, key)
      room == IF Len(rest) >= DirFdCacheSize THEN DropAt(rest, 1) ELSE rest
  IN IF DirFdCacheSize = 0 THEN c ELSE Append(room, <<key, fd>>)

\* A cache gets a new value, and the count follows its size.
SetCache(x, c) ==
  /\ dirFdCache' = [dirFdCache EXCEPT ![x] = c]
  /\ globalDirFdCount' = globalDirFdCount + Len(c) - Len(dirFdCache[x])

insertIntoDirFdCache(x, key, fd) == SetCache(x, Upsert(dirFdCache[x], key, fd))

(***************************************************************************)
(* What the calls answer: a status, and a value when it is "ok".           *)
(***************************************************************************)

Reply(status, value) == [status |-> status, value |-> value]
Exists(t, p) == p \in DOMAIN Tree[t]
TypeAt(t, p) == Tree[t][p].type
StatOf(n) == <<n.type, n.type = "regular" /\ n.executable>>
EntriesOf(t, p) == {q[Len(q)] : q \in {q \in DOMAIN Tree[t] : q # <<>> /\ parentOf(q) = p}}
DirListing(t, p) == [e \in EntriesOf(t, p) |-> TypeAt(t, Append(p, e))]

\* Once the directory that path p of tree t is in is open: fstatat(), openat() with
\* O_NOFOLLOW, readdir() and readlinkat().
maybeLstat(t, p) == IF Exists(t, p) THEN Reply("ok", StatOf(Tree[t][p])) ELSE Reply("missing", <<>>)

readFile(t, p) ==
  CASE ~Exists(t, p) -> Reply("FileNotFound", <<>>)
    [] Exists(t, p) /\ TypeAt(t, p) = "symlink" -> Reply("SymlinkNotAllowed", <<>>)
    [] Exists(t, p) /\ TypeAt(t, p) = "directory" -> Reply("NotARegularFile", <<>>)
    [] OTHER -> Reply("ok", Tree[t][p].contents)

readDirectory(t, p) ==
  CASE ~Exists(t, p) -> Reply("SysError", <<>>)
    [] Exists(t, p) /\ TypeAt(t, p) = "symlink" -> Reply("SymlinkNotAllowed", <<>>)
    [] Exists(t, p) /\ TypeAt(t, p) = "regular" -> Reply("NotADirectory", <<>>)
    [] OTHER -> Reply("ok", DirListing(t, p))

readLink(t, p) ==
  CASE ~Exists(t, p) -> Reply("SysError", <<>>)
    [] Exists(t, p) /\ TypeAt(t, p) = "symlink" -> Reply("ok", Tree[t][p].target)
    [] OTHER -> Reply("NotASymlink", <<>>)

CallAt(call, t, p) ==
  CASE call = "lstat" -> maybeLstat(t, p)
    [] call = "readFile" -> readFile(t, p)
    [] call = "readDirectory" -> readDirectory(t, p)
    [] OTHER -> readLink(t, p)

\* The calls that openParentAndUpsert() ends: maybeLstat() ignores what is missing.
NoParent(call, status) ==
  CASE status = "SymlinkNotAllowed" -> Reply(status, <<>>)
    [] status # "SymlinkNotAllowed" /\ call = "lstat" -> Reply("missing", <<>>)
    [] OTHER -> Reply("FileNotFound", <<>>)

\* PosixFileSourceAccessor: the root is a regular file.
FileAnswer(f, call, path) ==
  CASE call = "lstat" -> IF path = <<>> THEN Reply("ok", StatOf(f)) ELSE Reply("missing", <<>>)
    [] call = "readFile" -> IF path = <<>> THEN Reply("ok", f.contents) ELSE Reply("NotADirectory", <<>>)
    [] call = "readDirectory" -> Reply("NotADirectory", <<>>)
    [] OTHER -> Reply(IF path = <<>> THEN "NotASymlink" ELSE "NotADirectory", <<>>)

\* MemorySourceAccessor::open() of an existing file: a symlink on the way throws.
MemStatus(t, p) ==
  CASE Exists(t, p) -> "found"
    [] ~Exists(t, p) /\ \E k \in 0..(Len(p) - 1) : Exists(t, Prefix(p, k)) /\ TypeAt(t, Prefix(p, k)) = "symlink"
         -> "SymlinkNotAllowed"
    [] OTHER -> "null"

\* What MemorySourceAccessor answers about a tree.
MemoryAnswer(t, call, p) ==
  CASE MemStatus(t, p) = "null" -> Reply(IF call = "lstat" THEN "missing" ELSE "FileNotFound", <<>>)
    [] MemStatus(t, p) = "SymlinkNotAllowed" -> Reply("SymlinkNotAllowed", <<>>)
    [] OTHER ->
         CASE call = "lstat" -> Reply("ok", StatOf(Tree[t][p]))
           [] call = "readFile" ->
                (CASE TypeAt(t, p) = "directory" -> Reply("NotARegularFile", <<>>)
                   [] TypeAt(t, p) = "symlink" -> Reply("SymlinkNotAllowed", <<>>)
                   [] OTHER -> Reply("ok", Tree[t][p].contents))
           [] call = "readDirectory" ->
                (CASE TypeAt(t, p) = "regular" -> Reply("NotADirectory", <<>>)
                   [] TypeAt(t, p) = "symlink" -> Reply("SymlinkNotAllowed", <<>>)
                   [] OTHER -> Reply("ok", DirListing(t, p)))
           [] OTHER -> IF TypeAt(t, p) = "symlink" THEN Reply("ok", Tree[t][p].target)
                       ELSE Reply("NotASymlink", <<>>)

(***************************************************************************)
(* A call in progress.  `fd' is the directory that is open, a tree and a   *)
(* path in it, `k' how many components of the path led to it, `anchor' how *)
(* many of them the cache had; `prev' is the directory before it, which    *)
(* goes to the cache, `next' the accessor to be evicted next, and `status' *)
(* the error of the walk.                                                  *)
(***************************************************************************)

NoReply == Reply("none", <<>>)
RootFd == [tree |-> <<>>, at |-> <<>>]

Idle == [pc |-> "idle", by |-> 0, call |-> "none", path |-> <<>>, fd |-> RootFd, prev |-> RootFd,
         k |-> 0, anchor |-> 0, next |-> 0, status |-> "ok", got |-> NoReply]

\* The tree that a descriptor shows: dirFd, of the root, shows what is there now.
TreeAt(fd) == IF fd.at = <<>> THEN onDisk ELSE fd.tree

IsDir(t) == TypeAt(t, <<>>) = "directory"

\* makeFSSourceAccessor() picks a class for the root: a file and a symlink, which is
\* kept in memory, are known once and for all.  A path in the root directory needs no
\* other directory.
BeginCall(r, x, call, path) ==
  LET new == [Idle EXCEPT !.by = x, !.call = call, !.path = path]
  IN /\ rd[r].pc = "idle"
     /\ rd' = [rd EXCEPT ![r] =
          CASE TypeAt(onDisk, <<>>) = "regular" ->
                 [new EXCEPT !.pc = "done", !.got = FileAnswer(Tree[onDisk][<<>>], call, path)]
            [] TypeAt(onDisk, <<>>) = "symlink" ->
                 [new EXCEPT !.pc = "done", !.got = MemoryAnswer(onDisk, call, path)]
            [] OTHER -> [new EXCEPT !.pc = IF Len(path) <= 1 THEN "final" ELSE "evict"]]
     /\ UNCHANGED <<onDisk, cacheVars, evictor, haveOpenat2>>

\* Below the limit there is nothing to evict.
maybeEvictFromGlobalCaches(r) ==
  /\ rd[r].pc = "evict"
  /\ \/ /\ globalDirFdCount < GlobalFdLimit
        /\ rd' = [rd EXCEPT ![r].pc = "find"]
        /\ UNCHANGED evictor
     \/ /\ globalDirFdCount >= GlobalFdLimit /\ evictor = NoCaller
        /\ evictor' = r
        /\ rd' = [rd EXCEPT ![r] = [@ EXCEPT !.pc = "evicting", !.next = 1]]
  /\ UNCHANGED <<onDisk, cacheVars, haveOpenat2>>

\* Under the lock of the registry, one cache after the other until the count is
\* below the limit.
EvictNext(r) ==
  /\ rd[r].pc = "evicting"
  /\ \/ /\ rd[r].next \in Accessor /\ globalDirFdCount >= GlobalFdLimit
        /\ SetCache(rd[r].next, <<>>)
        /\ rd' = [rd EXCEPT ![r].next = @ + 1]
        /\ UNCHANGED evictor
     \/ /\ rd[r].next \notin Accessor \/ globalDirFdCount < GlobalFdLimit
        /\ evictor' = NoCaller
        /\ rd' = [rd EXCEPT ![r] = [@ EXCEPT !.pc = "find", !.next = 0]]
        /\ UNCHANGED cacheVars
  /\ UNCHANGED <<onDisk, haveOpenat2>>

\* openParent() looks for the nearest ancestor in the cache, from the parent up.
Hits(c, parent) == {i \in 1..Len(parent) : Prefix(parent, i) \in Keys(c)}

FindAnchor(r) ==
  LET x == rd[r].by
      c == dirFdCache[x]
      parent == parentOf(rd[r].path)
  IN /\ rd[r].pc = "find"
     /\ \/ /\ Hits(c, parent) = {}
           /\ rd' = [rd EXCEPT ![r].pc = "walk"]
           /\ UNCHANGED cacheVars
        \/ \E a \in Hits(c, parent) :
             /\ \A i \in Hits(c, parent) : i <= a
             /\ SetCache(x, Promote(c, Prefix(parent, a)))
             /\ rd' = [rd EXCEPT ![r] =
                  [@ EXCEPT !.pc = IF a = Len(parent) THEN "keep" ELSE "walk",
                            !.fd = Cached(c, Prefix(parent, a)), !.k = a, !.anchor = a]]
     /\ UNCHANGED <<onDisk, evictor, haveOpenat2>>

\* openFileEnsureBeneathNoSymlinks(): once the next directory is open, the one before
\* it, if this walk has opened it, is handed to the callback, but not the one before
\* the last; openat2() does without.
Descended(m, fd) ==
  LET parentLen == Len(m.path) - 1
      pc == CASE m.k + 1 = parentLen -> "keep"
              [] m.k + 1 < parentLen /\ m.k > m.anchor /\ ~haveOpenat2 -> "handOn"
              [] OTHER -> "walk"
  IN [m EXCEPT !.pc = pc, !.fd = fd, !.prev = m.fd, !.k = m.k + 1]

\* openat() of the next component as a directory.  Without openat2(), an ENOTDIR may
\* mean a symlink.
OpenComponent(r) ==
  LET m == rd[r]
      t == TreeAt(m.fd)
      p == Append(m.fd.at, m.path[m.k + 1])
  IN /\ m.pc = "walk"
     /\ \/ /\ ~Exists(t, p)
           /\ rd' = [rd EXCEPT ![r] = [@ EXCEPT !.pc = "final", !.status = "ENOENT"]]
        \/ /\ Exists(t, p) /\ TypeAt(t, p) # "directory"
           /\ rd' = [rd EXCEPT ![r] =
                IF ~haveOpenat2 THEN [@ EXCEPT !.pc = "diagnose"]
                ELSE [@ EXCEPT !.pc = "final",
                               !.status = IF TypeAt(t, p) = "symlink" THEN "SymlinkNotAllowed" ELSE "ENOTDIR"]]
        \/ /\ Exists(t, p) /\ TypeAt(t, p) = "directory"
           /\ rd' = [rd EXCEPT ![r] = Descended(m, [tree |-> t, at |-> p])]
     /\ UNCHANGED <<onDisk, cacheVars, evictor, haveOpenat2>>

\* Mutant: a descriptor is filed under the name of the directory alone.
KeyOfName(anchor, rel) == <<(anchor \o rel)[Len(anchor \o rel)]>>

\* The callback's key when the walk starts at a cached directory: prefix / relKey.
CacheKey(anchor, rel) == anchor \o rel

HandOn(r) ==
  LET m == rd[r]
  IN /\ m.pc = "handOn"
     /\ insertIntoDirFdCache(m.by, CacheKey(Prefix(m.path, m.anchor), SubSeq(m.path, m.anchor + 1, m.k - 1)), m.prev)
     /\ rd' = [rd EXCEPT ![r].pc = "walk"]
     /\ UNCHANGED <<onDisk, evictor, haveOpenat2>>

\* fstatat() of what was not a directory, which may be something else by now.
Diagnose(r) ==
  LET m == rd[r]
      t == TreeAt(m.fd)
      p == Append(m.fd.at, m.path[m.k + 1])
      link == Exists(t, p) /\ TypeAt(t, p) = "symlink"
  IN /\ m.pc = "diagnose"
     /\ rd' = [rd EXCEPT ![r] =
          IF m.k + 1 = Len(m.path)
          THEN [@ EXCEPT !.pc = "done", !.got = Reply(IF link THEN "SymlinkNotAllowed" ELSE "NotADirectory", <<>>)]
          ELSE [@ EXCEPT !.pc = "final", !.status = IF link THEN "SymlinkNotAllowed" ELSE "ENOTDIR"]]
     /\ UNCHANGED <<onDisk, cacheVars, evictor, haveOpenat2>>

\* openParentAndUpsert(): the parent, if it is not the root, stays in the cache.
KeepParent(r) ==
  /\ rd[r].pc = "keep"
  /\ insertIntoDirFdCache(rd[r].by, parentOf(rd[r].path), rd[r].fd)
  /\ rd' = [rd EXCEPT ![r].pc = "final"]
  /\ UNCHANGED <<onDisk, evictor, haveOpenat2>>

\* The call itself, on the descriptor of the parent; openSubdirectory() opens one
\* more directory.
FinishCall(r) ==
  LET m == rd[r]
      t == TreeAt(m.fd)
      p == IF m.path = <<>> THEN <<>> ELSE Append(m.fd.at, m.path[Len(m.path)])
      checks == m.call = "readDirectory" /\ ~haveOpenat2 /\ Exists(t, p) /\ TypeAt(t, p) # "directory"
  IN /\ m.pc = "final"
     /\ rd' = [rd EXCEPT ![r] =
          CASE m.status # "ok" -> [@ EXCEPT !.pc = "done", !.got = NoParent(m.call, m.status)]
            [] m.status = "ok" /\ checks -> [@ EXCEPT !.pc = "diagnose"]
            [] OTHER -> [@ EXCEPT !.pc = "done", !.got = CallAt(m.call, t, p)]]
     /\ UNCHANGED <<onDisk, cacheVars, evictor, haveOpenat2>>

ReturnCall(r) ==
  /\ rd[r].pc = "done"
  /\ rd' = [rd EXCEPT ![r] = Idle]
  /\ UNCHANGED <<onDisk, cacheVars, evictor, haveOpenat2>>

invalidateCache(x) == SetCache(x, <<>>) /\ UNCHANGED <<onDisk, evictor, haveOpenat2, rd>>

\* Somebody replaces what is in a root directory by something new.
Replace ==
  \E t \in DiskTree :
    /\ t # onDisk /\ IsDir(t) /\ IsDir(onDisk)
    /\ onDisk' = t
    /\ UNCHANGED <<cacheVars, evictor, haveOpenat2, rd>>

\* History: a cache that is empty while no call is under way has no past.
Quiet(x) == dirFdCache[x] = <<>> /\ \A r \in Caller : rd[r].by # x
Remember == past' = [x \in Accessor |-> IF Quiet(x)' THEN {onDisk'} ELSE past[x] \cup {onDisk'}]

AccInit ==
  /\ onDisk \in DiskTree
  /\ dirFdCache = [x \in Accessor |-> <<>>]
  /\ globalDirFdCount = 0
  /\ evictor = NoCaller
  /\ haveOpenat2 \in BOOLEAN
  /\ rd = [r \in Caller |-> Idle]
  /\ past = [x \in Accessor |-> {onDisk}]

CallStep(r) ==
  \/ \E l \in Lookup : BeginCall(r, l[1], l[2], l[3])
  \/ maybeEvictFromGlobalCaches(r) \/ EvictNext(r) \/ FindAnchor(r) \/ OpenComponent(r) \/ HandOn(r)
  \/ Diagnose(r) \/ KeepParent(r) \/ FinishCall(r) \/ ReturnCall(r)

AccNext ==
  /\ \/ \E r \in Caller : CallStep(r)
     \/ \E x \in Accessor : invalidateCache(x)
     \/ Replace
  /\ Remember

AccSpec == AccInit /\ [][AccNext]_accVars

(***************************************************************************)
(* Properties                                                              *)
(***************************************************************************)

\* Where the last component is missing, two of the calls throw a SysError
\* instead of a FileNotFound; and below a regular file the posix accessor calls it
\* what it is.
Agrees(got, ref) ==
  got = ref \/ (got.status \in {"SysError", "NotADirectory"} /\ ref.status = "FileNotFound")

\* Without openat2(), a symlink in the root that is replaced between openat() and
\* fstatat() is taken for something that is no directory.
ReplacedMeanwhile(m) ==
  /\ ~haveOpenat2 /\ m.path # <<>> /\ m.got.status \in {"missing", "FileNotFound", "NotADirectory"}
  /\ \E t, u \in past[m.by] :
       /\ Exists(t, Prefix(m.path, 1)) /\ TypeAt(t, Prefix(m.path, 1)) = "symlink"
       /\ ~(Exists(u, Prefix(m.path, 1)) /\ TypeAt(u, Prefix(m.path, 1)) = "symlink")

\* The descriptors in the caches.
HeldFds == {h \in Accessor \X (1..DirFdCacheSize) : h[2] <= Len(dirFdCache[h[1]])}

\* Whatever descriptors are cached, evicted and reused by however many threads, an
\* accessor answers every call as the in-memory accessor does for one tree that was
\* on disk since its cache was last empty and unused, never for a mixture of two, and
\* never through a symlink; a cache keeps its limit, and the global count is the
\* number of descriptors in the caches.
AccessorsAgree ==
  /\ \A r \in Caller :
       rd[r].pc = "done" =>
         \/ \E t \in past[rd[r].by] : Agrees(rd[r].got, MemoryAnswer(t, rd[r].call, rd[r].path))
         \/ ReplacedMeanwhile(rd[r])
  /\ \A x \in Accessor : Len(dirFdCache[x]) <= DirFdCacheSize
  /\ globalDirFdCount = Cardinality(HeldFds)
=============================================================================
