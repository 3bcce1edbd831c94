# TLA+ models of the store layer and the generation tools

The repository is a local-only extraction of the Nix store (`src/src/libutil`,
`src/src/libstore`) and a set of tools (`src/arch`) that keep bootable Arch
Linux generations in such a store. This directory holds TLA+ models of the
parts whose correctness depends on the order of steps of several processes or
threads, on crashes and on power loss, models of the algorithms that the store's
formats and names rest on, the TLC configurations that check them, and TLAPS
proofs about them.

Paths below are relative to the directory that holds the repository as `src/`.

    tlc -workers 2 -config StoreGC_race.cfg MCStoreGC
    tlapm StoreGC_proofs.tla

`PROJECT.json` lists the runs with their expected results, the source lines of
every definition, the mutants, the findings, the hazards and the theorems.

## 1. Inventory

| component | state | operations | hard behaviour | what makes it correct |
|---|---|---|---|---|
| garbage collector (`gc.cc`) | GC lock, gcroots links, temproots files, socket server, `tempRoots`/`pending`, `dead`/`alive`, `referrersCache` | `collectGarbage`, `addTempRoot`, `addPermRoot`, `findRoots`, `findTempRoots`, `autoGC` | clients add and root paths while the collector deletes; server threads; any process may be killed | nothing that is rooted is deleted; references stay valid; garbage is deleted; `addTempRoot` returns |
| adding to the store (`local-store.cc`) | ValidPaths/Refs tables, the store directory, path locks | `addToStore`, `addToStoreFromDump`, `registerValidPaths`, `invalidatePathChecked` | two processes add one path; the collector in between; a kill between restoring and registering | valid implies on disk; nothing is written twice |
| path locks (`unix/pathlocks.cc`) | lock files by name, inode, token and flock | `lockPaths`, `unlock`, `setDeletion`, `deleteLockFile` | lock files are deleted while others wait for them; kills; circular waits | mutual exclusion; progress |
| generation tools (`src/arch`) | `entries.cfg`, `entries.cfg.new`, gcroots links, `/run/nixgen-active`, the command line | `nixgen-commit/-update/-adopt/-entry/-remove/-switch`, `import-dir`, `import-path`, `rm-path` | kills and power loss between any two steps; soft reboots | the running generation stays; the menu is whole; entries have roots |
| link farm (`optimise-store.cc`, `gc.cc:858-904`) | `.links`, link counts, inode hash | `optimisePath_`, cleanup, streaming dedup | the collector's cleanup races with linking | contents never change; no file is lost; an undisturbed pass deduplicates everything |
| streaming import (`local-store.cc:959-1643`) | bounded queues, two hashing threads, temporary directory | `AsyncHashSink`, `AsyncFileHasher`, `FileHashingSink`, `createTempDirInStore` | a worker that fails; a full queue; close while blocked; renames in finished directories | what is registered is what the archive says; a failure is noticed; it ends |
| thread pool (`thread-pool.{cc,hh}`) | pending, active, draining, quit, workers | `enqueue`, `process`, `shutdown`, `processGraph` | lost wake-ups, exceptions, enqueue while quitting | every node once, after its dependencies; `process` returns |
| database (`local-store.cc`, `sqlite.cc`, `store-api.cc`) | tables, transactions, path info cache | register, invalidate, query, `verifyStore`, `retrySQLite` | cache filled before commit; busy retries; snapshots | references are valid; the cache errs only where it cannot know |
| opening a store (`local-store.cc:93-420`) | schema file, tables, `big-lock` | the constructor of `LocalStore` | several processes create, upgrade and use one store; kills | nobody uses the tables while they are migrated; no migration twice |
| processes and signals (`unix/processes.cc`, `unix/signals.cc`) | child, pipe; callbacks | `runProgram2`; `triggerInterrupt` | exceptions between fork and wait; lists that change under the loop | no child is left; every callback is called |
| resource pool (`pool.hh`) | idle, in use | `get`, handle | lost wake-ups | every `get` is served |
| source accessors (`posix-source-accessor.cc`) | caches of directory descriptors | `maybeLstat`, `readFile`, `readDirectory`, `readLink` | two limits; threads that evict and invalidate what others walk through; trees that change | the answers are those of one tree; the count is exact |
| closures, topological sort | strand, queue, counters | `computeClosure`, `topoSort` | answers out of order, failures with others in flight | agrees with the definition; the handler runs once |
| NAR, sinks, metadata | none | `dumpPath`, `parseDump`, `RestoreSink`, `MemorySink`, `canonicalisePathMetaData` | malformed archives, case hacks, umask, hard links | parsing inverts dumping; restored files are canonical |
| streams (`serialise.cc`) | buffers | sinks, sources, wire format | pieces cut anywhere, ends | every byte once, in order |
| paths, hashes, encodings, content addresses | none | parse, print, encode, make | boundaries of digits, components and names | round trips; different inputs, different names |
| rewriting (`references.cc`) | tail of the last piece | `RewritingSink`, `HashModuloSink` | a match over the boundary of pieces | independent of the pieces |
| export and import of paths | none | `exportPaths`, `importPaths` | a stream that ends early, changed objects | what arrives is complete and valid |
| boot, installation, reporting, settings, logging, system call wrappers | - | - | sequences of external calls | not modelled (section 8) |

Interaction: the tools call `addToStoreFromDump`, `addPermRoot`, `optimisePath`
and `collectGarbage`. Every operation that hands out a path first calls
`addTempRoot`, which talks to a running collector over the GC lock, a socket
and the temproots file. Writers of one path exclude each other with
`PathLocks`, whose lock files live in the directory that the collector sweeps.

## 2. Plan

1. `StoreGC`: collector, roots and clients; the heart of the system. *Done.*
2. `PathLocks` and its abstract specification `LockTable`, which is how
   `StoreGC` uses path locks. *Done.*
3. `Generations`: the tools over the store, with crashes. *Done.*
4. `LinkFarm`: `optimisePath_`, the `.links` cleanup, streaming dedup, and the
   fate of `.tmp-link-*` names under the collector. *Done.*
5. `ImportPipeline`, `ThreadPool` and `ProcessGraph`, `TempDir`; the other
   parts that consist of threads and processes: `StoreOpen`, `RunProgram`,
   `Interrupts`, `Pool`, `Closure`. *Done.*
6. `StoreDB` (transactions, path info cache, `verifyStore`), `Accessors`, and
   the algorithms (`Nar`, `Sinks`, `Streams`, `Encodings`, `CanonPaths`,
   `Objects`, `Rewriting`) against reference definitions. *Done.*
7. Proofs about the modules of this second part that have no recursive
   operators: `StoreOpen`, `ImportPipeline`, `LinkFarm`, `StoreDB`,
   `ProcessGraph`, `RunProgram`, `Interrupts`, `Pool`, `Closure`, `Accessors`.
   *Done.*
8. Refinements of `StoreGC`: creation of temproots files with recycled pids,
   several threads in one process.

## 3. Modules

| module | models |
|---|---|
| `StoreGC` | the collector, `addTempRoot`, its callers |
| `MCStoreGC`, `StoreGC_{race,graph,lateroot}.cfg` | instances |
| `StoreGC_proofs` | proofs |
| `LockTable` | what path locks promise |
| `PathLocks` | lock files, one system call per step |
| `MCPathLocks`, `PathLocks_{unlinkfails,killed}.cfg` | instances |
| `MCWaiting`, `Waiting.cfg` | an instance of `StoreGC` and `PathLocks`, for what waits |
| `PathLocks_proofs` | proofs, with the refinement of `LockTable` |
| `Generations` | the generation tools |
| `MCGenerations`, `Generations_{entryroot,marker}.cfg` | instances; another one is in `MCRunning` |
| `Generations_proofs` | proofs |
| `ImportPipeline` | `addToStoreFromDump` and its hashing threads |
| `ThreadPool`, `ProcessGraph` | the pool, and `processGraph` on it |
| `StoreOpen` | the constructor of `LocalStore` |
| `LocalStore_proofs` | proofs about `StoreOpen` and `ImportPipeline` |
| `RunProgram`, `Interrupts`, `Pool`, `Closure` | `runProgram2`, interrupt callbacks, `Pool<R>`, `computeClosure` |
| `ProcessGraph_proofs` | proofs about `ThreadPool` and `ProcessGraph` |
| `Util_proofs` | proofs about `RunProgram`, `Interrupts`, `Pool`, `Closure`, `Accessors` |
| `MCRunning`, `Running.cfg` | an instance of `ImportPipeline` to `Closure`, and of `Generations` |
| `LinkFarm` | `.links` and everybody who works on it |
| `StoreDB` | the tables, transactions, path info cache, `verifyStore` |
| `MCStoreDB`, `StoreDB_snapshot.cfg` | an instance of `StoreDB`; another one is in `MCData` |
| `LinkFarm_proofs`, `StoreDB_proofs` | proofs |
| `Accessors` | the accessors of `posix-source-accessor.cc`, their caches, and the threads that use them |
| `Nar`, `Sinks`, `Streams`, `Rewriting`, `Encodings`, `CanonPaths`, `Objects` | algorithms, as operators |
| `DataChecks` | inputs and reference definitions for the algorithms |
| `MCData`, `Data.cfg` | an instance of `LinkFarm`, `StoreDB`, `Accessors` and `DataChecks` |
| `TempDir`, `TempDir.cfg` | temporary directories against the collector |

Definitions that a comment calls a mutant are variants of the definition that
follows them, used to check that a property can fail. They take no part in the
specifications.

### StoreGC

State: `valid` is the ValidPaths table and `disk` the store directory, with two
names per object, the path and its `.lock` file, that share a hash part;
`gcroots` the links. A client has a control state `cpc`, the object `cpath` and
the operation `job` it is about, the objects it has been told are valid
(`using`), its temproots file (`file`) and its end of the socket (`conn`,
`req`). The collector has a control state `gcpc`, its options and the locals of
`collectGarbage` under the names of the source. `gcpc # "off"` stands for the
exclusive GC lock, `shared` for the shared holders.

| code | actions |
|---|---|
| `addTempRoot` (gc.cc:114-189) | `TryGCLock`, `Connect`, `Send`, `ReadAck`, `AppendRoot` |
| `addToStore`, `addToStoreFromDump`, `optimisePath` | `Begin`, `IsValid`, `LockPath`, `Recheck`, `Restore`, `Register`, `AddFails`, `Unlock` |
| `addPermRoot`; rm-path's unlinking | `Symlink`; `RemoveRoot` |
| server threads (479-525) | `ServerInsert`, `ServerAck` |
| `collectGarbage` | `AcquireGCLock`, `StartServer`, `FindPermRoots`, `ScanTempFile`, `RootsFound`, `PickStart`, `DriverDone`, `StopServer`, `ReleaseGCLock` |
| `maybeDeleteReferrersClosure` (604-773) | `VisitKeeps`, `VisitDead`, `VisitExpand`, `VisitDone`, `SweepSkips`, `SweepPath`, `Invalidate`, `UnlinkPath`, `SweepDone` |
| kills | `Die`, `CollectorDies` |

What is atomic: each critical section of `_shared`, each transaction, each
system call on a lock, a link or a socket. Setting `pending` and asking for the
referrers are one step in the walk, because no action of another process can
tell the difference until the next critical section. The scan of the gcroots
directory is one step. The queue of the walk is a set, so every order is
explored. `readdir` returns every name that exists, also new ones.

Abstractions: one thread per client process; the temproots file exists from the
start; `keep-outputs`, derivers and `ignoreLiveness` are off, as in the tools;
`gcReturnLive` walks as `gcReturnDead` does; the path info cache, temporary
directories and the `.links` cleanup are left out; a lock file is deleted by
name only (`PathLocks` has the inodes). Error exits of the collector: a limit
reached and a failing deletion (`UnlinkPath`), a live path that was to be
deleted (`Return`), being killed; an interrupt during the walk amounts to the
latter.

**Late roots.** Two windows in the code let a root escape the running
collection, and the history variable `late` collects the objects concerned:

- `AppendRoot`: the root was acknowledged by a collection that has ended, and is
  written to the file while another collection runs (run `gc_lateroot`);
- `Symlink`: a link appears after the gcroots directory was read, and the
  collector does not know the path as a temporary root. The comment at
  gc.cc:540-541 says that the set of permanent roots cannot increase while the
  GC lock is held; `addPermRoot` makes its link without that lock.

The invariants hold for all objects outside `late`. `ReferencesAreValid` needs
no such exception.

### PathLocks

A lock file is found by its name (`link`) and locked by its inode (`holder`).
`stale` is the set of inodes with the token in them. `lockPaths` is `Call`,
`Open`, `Flock`/`FlockBusy`, `CheckStale`/`CheckGood`; `unlock` is `Close`, or
`Unlink` and `WriteToken` when the file is to be deleted, then `UnlockDone`.
Inodes are recycled once nothing refers to them. `Throws` is an exception out of
`lockPaths`, `Crash` a kill in one of the states of `CrashPoints`, and
`UnlinkMayFail` says whether `tryUnlink` may fail. `lockFile` returns early on
EINTR, and `lockPaths` ignores that; no signal handler is installed anywhere in
the libraries (signals are taken by a thread in `sigwait`), so `flock` does not
return EINTR and the model leaves it out.

`LockTable` has one variable, the owner of each path. A process owns a path from
the moment its lock file has passed the test of the size until the file is
unlinked or closed; `OwnerOf` is the refinement mapping. `StoreGC!LockPath` and
`StoreGC!PathLocked` use the locks as `LockTable` describes them.

### Generations

State: on the store disk the directories (`dirs`), the rows of the database
(`valid`), `gcroots`, and `cfg` and `new` (entries.cfg and entries.cfg.new);
`live` (what runs), `cmdline` and `marker` (/run/nixgen-active); the running tool with
its control state and variables. One action per step that changes a file:

| code | actions |
|---|---|
| `addToStoreFromDump`, `addToStore` as the tools call them | `StartImport`, `Deduplicate`, `RestorePath`, `RegisterPath`, `ImportFails` |
| import-dir's root; import-path, which makes none | `AddRoot`; `ImportPathDone` |
| nixgen-adopt | `Adopt` |
| nixgen-entry | `EntryExists`, `EntryCopy`, `EntryAppend`, `EntryMove`, `EntryLink` |
| nixgen-remove with rm-path | `RemoveGens`, `RemoveRefuses`, `Unroot`, `Invalidate`, `Unlink`, `DeleteFails`, `Prune`, `PruneMove`, `RemoveDone` |
| nixgen-switch | `Switch`, `SoftReboot`, `SoftRebootFails` |
| kills and the power button | `Killed`, `PowerCycle` |

A directory and its row are separate: a tool that is killed between restoring
and registering a path leaves a directory without a row. The scripts test the
directory only (`[ -d ]` in nixgen-adopt:13, nixgen-remove and nixgen-switch);
the collector ignores a link whose path has no row (gc.cc:250-253). A menu file
is the set of its entries and whether it ends in mid-entry. `Killed` and
`PowerCycle` end a tool at any step and may tear the file that it is writing,
the marker included, which the shell truncates before it writes; a power cycle
then boots the ISO or an entry whose generation is there. `Matched[g]` are the
generations whose entry awk takes for that of `g` when it reads the name as a
pattern (nixgen-remove:67); a name need not match itself, and may match others.

Four history variables say in which cases the tools do not keep what they
promise: `cut`, the generations whose entry was left without a root by a tool
that was killed or failed, until root or removal are made good; `cutFirst`, that power was lost while the first entry ever was written (there is
no menu to copy over the remains then, `nixgen-entry:28`); `strays`, the
generations that were adopted although they have no row; `misled`, that
the marker lies since nixgen-switch was killed.

Abstractions: one tool at a time; names are resolved already; kernel and
initramfs are there; a generation that is imported again has the same path; of
the collections only those of rm-path are modelled.

### Running: threads and processes

`MCRunning` puts these seven components and `Generations` next to each other;
they share no state. A behaviour is about one of them; the others stay in an
initial state. This costs the sum of their state spaces, not the product.

`ImportPipeline`: the archive is a sequence of events. `Read`, `PushChunk`,
`Dispatch`, `PushEvent` and `Apply` are the importing thread, `Worker(h)` the
two hashing threads, and `ReadFails`, `ApplyFails` and `Fail` the exceptions;
the destructors of sink and hasher are the `Close` and `Join` steps, in the
order of the code. A digest is the sequence of the archive positions that were
hashed, so a chunk that is lost, doubled or out of order shows. The
deduplicating thread replaces files in directories that are complete and bumps
their mtimes; the `deferred` list is what the code keeps to stamp them last.

`ThreadPool` has the lock, the condition variable and `doWork`; `ProcessGraph`
has the work items: `GetEdges`, the decision under the lock, processing, and the
release of those that wait. A thread that sleeps is woken only by the
notifications of the code.

`StoreOpen`: flock as the kernel does it (changing a lock gives it up first),
the schema file, which is truncated before it is written, the legacy migrations
and the table of migrations.

`RunProgram`: fork and vfork, a pipe with a capacity, a child that writes, exits
or is killed, `drainFD`, `Pid`'s destructor. `Interrupts`: callbacks by token and
the loop over them without the lock. `Pool`: `get` with its loop, and the
destructor of the handle. `Closure`: the strand's handlers in their order,
coroutines that are resumed in any order, and the counters of `State`.

### Data: what is kept and what is computed

`LinkFarm` has inodes with contents, and three directories of names: files of
the store, `.links`, and temporary links. Optimising threads of two processes,
an import and the collector take one system call at a time. `disturbed` records
that something other than one undisturbed pass has happened, for
`PassConverges`.

`StoreDB` has the committed tables, one open transaction per handle with its
snapshot, the writer, the mutex of each handle and its cache. A write that
finds a newer commit than its snapshot is busy and starts again. `doubt`
records, per handle, the paths about which its cache cannot be right.

`Accessors` has a tree on disk that may be replaced, the caches of descriptors
(`dirFdCache`, `globalDirFdCount`, the lock of the registry as `evictor`) and,
per thread, the call it is in (`rd`). A call is a sequence of critical sections
and system calls: eviction, one cache at a time (`maybeEvictFromGlobalCaches`,
`EvictNext`), the search for the nearest cached directory (`FindAnchor`), one
`openat` per component (`OpenComponent`), directories handed to the callback
(`HandOn`), the `fstatat` after an `ENOTDIR` (`Diagnose`), the parent kept
(`KeepParent`) and the call itself (`FinishCall`). Other threads evict,
invalidate and walk in between. A kernel with `openat2()` walks without the
callback and without `Diagnose`. A tree is a function from paths to nodes. After
a replacement the descriptor of the root shows the new tree, as it is the same
directory, and every other descriptor the tree it was opened in. The history
variable `past` has what was on disk since the cache was last empty and unused.
The reference, `MemoryAnswer`, is `MemorySourceAccessor` over such a function;
`MemoryAnswerIsFaithful` compares it with the nested trees of `Sinks`.

The algorithms are operators. `DataChecks` picks an input (`PickInput`) and the
invariants compare: an archive with the tree it came from, the bytes read with
the bytes written, a path with the list of its components, a store path with
what it was made from. Bytes are digits in base 3 and words have two of them,
buffers have three bytes; digests are symbolic, so two are equal only if what
was hashed is.

In an archive the tags, names and link targets are texts of different kinds, and
the texts that `parseDump` refuses for what they are (too long, an empty name, a
slash or a NUL in it) are `BadText` and `BadTarget`. Contents may be any text, a
tag included. `IntMax` is the largest value of the type that a number on the
wire is read into, so that the range check of `readNum` can fail.

`TempDir` stands alone, with the collector's lock and deletion as two steps.

## 4. Runs

| run | instance | states | result |
|---|---|---|---|
| `gc_race` | 1 object, 2 clients (symmetric), 2 collections | 4.0 M | pass |
| `gc_graph` | 2 objects, one refers to the other, 1 client, 1 collection, 5 kinds of options | 2.3 M | pass |
| `waiting` | 1 object, 1 client, 2 collections; 2 processes, 2 paths, 4 inodes; fairness | 232 k | pass |
| `running` | see section 5, fairness | 851 k | pass |
| `data` | see section 5 | 1.4 M | pass |
| `gc_lateroot` | 1 object, 1 client, 2 collections | - | violation |
| `locks_unlinkfails` | 2 processes, 1 path, unlink may fail, fairness | - | violation |
| `locks_killed` | 2 processes, 1 path, kill between unlink and write | - | violation |
| `generations_entryroot` | 2 generations | - | violation |
| `generations_marker` | 2 generations | - | violation |
| `verify_snapshot` | 2 processes, 1 path | - | violation |
| `tempdir` | 2 importers, 3 directories | - | violation |

What they show:

- `gc_race`: the pending handshake excludes deletion and re-creation
  (`DeletionIsExclusive`), what is rooted and used stays valid, links stay
  valid, valid means on disk, and lock files in use are not swept.
- `gc_graph`: the order of deletion and the cache of referrers are right: the
  branch that prints `BUG:` is reached only for a path whose other referrers
  are kept for a temporary root or a late one, and a whole collection leaves no
  garbage behind.
- `waiting`: of lock files, mutual exclusion, refinement of the lock table and
  progress; of the collector, that every `addTempRoot` returns: no lost wake-up,
  no endless retry.
- `gc_lateroot`: run 1 acknowledges a root and ends; run 2 reads the temproots
  files; only then does the client append the root. Run 2 never learns of it,
  against the comment at gc.cc:550-551.
- `locks_unlinkfails`: the comment at pathlocks.cc:34-35 calls unlinking an
  optimisation; with the token in a file that is still linked every locker
  retries for ever.
- `locks_killed`: the test at pathlocks.cc:111-121 is meant to detect unlinked
  files; it does not between the two calls at 32-33.
- `generations_entryroot`: the comment at nixgen-entry:5-6 promises a root for
  every entry; a removal that is cut short, or an `rm-path` that fails after
  removing the link, leaves an entry without one, and `nixgen-entry` refuses to
  repair it because the entry exists.
- `generations_marker`: nixgen-switch:103 says that the marker must not lie about
  a switch that did not happen. A kill between writing it and the soft reboot
  leaves it lying, and nixgen-remove, which goes by it, will then delete the
  generation that runs.
- `verify_snapshot`: the comment at local-store.cc:1679-1680 promises a
  consistent snapshot of existing and valid paths. The GC lock keeps no importer
  out; a path that is registered after the directory was listed is taken for
  one that disappeared.
- `running`: an import registers what the archive says or nothing
  (`ImportIsExact`); `processGraph` keeps the order of dependencies and returns
  only when nobody works on its stack frame; an upgrade of the database is
  alone, and opening fails over the state of the database only after a kill,
  while the store is being created or without a lock; no child is left; every
  callback is called; a closure is the closure; and all of them end. Three
  invariants say why they do not stop for a missed notification: there are
  always enough threads awake for the items in the queue, for the free places of
  a `Pool`, and on the other side of a full, empty or closed queue
  (`GraphWakesEnough`, `PoolWakesEnough`, `ImportWakesEnough`; the second is part
  of `EveryoneGetsThere`).
- `running`, of the generations: tools are killed and lose power at every step.
  No tool deletes the directory of the generation that runs (`LiveIsKept`),
  except after a kill of nixgen-switch with the marker changed, until the next
  boot, and when a tree whose running directory has no row is imported again.
  Links in gcroots have a row (`RootsAreValid`), except for directories without
  one that nixgen-adopt took. GRUB never reads a torn menu (`MenuIsWhole`),
  except for the first entry ever written. No tool touches another generation's
  entry (`OneEntryAtATime`), except those that nixgen-remove's pattern matches.
  An entry without a root (`EntryKeepsRoot`) is one that a tool was cut short
  on, or one whose name the pattern does not match, so that it stays when the
  generation is removed. One of the two generations has such a name, and its
  name matches the other's entry.
- `data`: the farm never changes a content; references are valid whatever
  transactions overlap, fail or are retried; the cache is wrong about a path
  only after another process, a rollback or an overlapping query, so
  `CacheErrorsExplained` shows that no invalidation is forgotten and excuses
  everything concurrent; the damage of the inconsistent snapshot is bounded:
  `verifyStore` drops the row of a path that is on disk only if the path came
  after its listing of the directory; cached descriptors never mix two trees,
  whoever evicts or replaces what meanwhile, except for the one answer that
  `ReplacedMeanwhile` describes (section 7); and the algorithms agree with their
  reference definitions.
- `tempdir`: the comment at local-store.cc:1623-1624 promises that a temporary
  directory is not collected while its descriptor is open. `deleteFromStore`
  (gc.cc:574-581) closes the descriptor, and with it the lock, before it deletes
  the directory; an importer that waited for the lock takes it in between,
  finds that the directory exists, and loses it.

Where the code differs from a comment or a test and no run is about it:

- Entries: nixgen-remove:67 reads the name as a pattern, so a removal may delete
  another generation's entry, or leave the entry of the one that it removes,
  while nixgen-remove:4-5 says that it prunes the entries of the generations it
  deletes and nixgen-remove:73 reports "GRUB entry pruned". `Matched` has both cases; the
  properties except them.
- Metadata: a directory becomes 0755 (posix-fs-canonicalise.cc:26) and a file 0444
  or 0555. The comment at posix-fs-canonicalise.hh:57-58 says that the mode is
  made 444 or 555, and tests/parallel-optimise.cc:198-214 expects that nothing in
  a store path, directories included, is writable by the user. `MetadataIsCanonical` states the modes that the code gives.
- Closure: closure.hh:56-58 speaks of a maximum number of concurrent coroutines;
  `inFlight` may exceed it (up to twice less one), since a popped element is
  counted when it is spawned. `ClosureExact` does not claim the maximum.
- Paths: `CanonPath` orders bytes above 127 before "/", as its characters are
  signed, and then a directory is not next to what is in it, against the comment
  at canon-path.hh:257-262; `PathsStayWithin` claims the order without such
  bytes (`NoHighByte`).
- Roots: gc.cc:540-541, see the late roots of section 3.

What the models showed besides:

- Farm: `rename` of a temporary link onto another name of the same inode does
  nothing and leaves the temporary name behind, until a collection sweeps it; a
  collection that sweeps it too early ends the pass of the optimiser.
- Database: if a chain c -> b -> a has lost a and b on disk, `verifyStore` keeps
  b, because c is there, then tries to drop a, which the foreign key forbids,
  and ends with that error. `updatePathInfo` leaves the cache as it is. A query
  that fills the cache after another thread's invalidation makes it wrong for
  good.
- Opening: the creator of a store writes the schema file under a shared lock, so
  another process may read it empty and give up.
- Generations: a directory that a killed import has left is adopted without a
  row. The collector ignores its root, and importing the tree again deletes it
  first, even if it runs.
- Closure: if all start elements are known, the handler is never called.
- Archives: names made by the case hack are not entered among the names, so
  "a~nix~case~hack~1" after "A" and "a" is caught by `O_EXCL` only.
- Paths: `toStorePath("/store//x")` throws although `isInStore` holds. `canonPath`
  gives up at the 1024th link, `resolveSymlinks` one later.
- Streams: `sourceToSink` aborts if the reader returns early; a coroutine source
  that is read past its end starts again; seeking past the end of a file is no
  error; the destructor of `FramedSink` does not flush.
- Rewriting: `HashModuloSink` tells apart texts of one length only; with several
  rewrites `RewritingSink` depends on the pieces.
- Metadata: extended attributes are removed before the owner is checked.
- Encodings: base 64 ignores the spare bits after the last byte, newlines, and what
  follows a "=", so several texts parse to one hash, and only those that decode
  canonically are rendered as themselves (`AddressesAreFaithful`); `Hash` compares with `==`
  without its algorithm and with `<=>` with it.
- Addresses: a flat hash of a directory is refused by `computeStorePath` and not
  by `addToStoreSlow`; export and import drop content address and signatures.
- Latent: `Pid::kill` with a timeout uses members that are not set; it has no
  callers. Neither have `Pool`, `sort.hh`, `FramedSink`, `EnsureRead`,
  `isAllowed` and `makeRelative`.

## 5. Bounds

Two clients and one object are enough for every interleaving of two writers and
the collector on one hash part; two collections are needed for what one leaves
to the next (connections, acknowledgements, temproots files of dead processes).
Two objects with a reference and one client cover the order of deletion, new
referrers and stale caches. Two processes with two paths are the smallest
circular wait; per process one open or held inode per path and the linked ones
make four; the lowest free inode is used, as inodes differ in nothing but who
refers to them. Two generations, and the ISO, let a tool work on one while
another one runs and has an entry of its own. Of these models `StoreGC` alone has a
bounded counter, `MaxRuns`.

`running`: an archive of twelve events with queues of two, so that both fill up
and run empty; three threads over three graphs of three nodes (a chain with
shared nodes and one outside, a fan-in, a cycle); three openers, one of them
read-only, five schema versions and one kill; an output of three units through a
pipe of one; two triggers and two owners of callbacks; three users of a pool of
two; five elements with two at a time, every single missing element and every
known closure of one; two generations, one of them with a name that is a pattern
for the other's.

`data`: four files in three directories with three contents, one of them empty,
link counts up to three, two threads; three paths, two handles with three
threads that do one operation each, so that two threads share a cache and a
third is another process, a cache of two entries; two threads, two accessors
with caches of two descriptors and a global limit of two, so that one walk
overflows both, four roots (two directories of depth five, a file, a symlink)
and three calls, with and without `openat2()`. The algorithms' inputs are all
directories of up to three files and links and some deeper trees, all texts up to
a length of three to six over a few characters, all ways to cut them, and all
archives that differ from a good one by one token. Hashes have 8 and 13 bytes,
which leave two and four spare bits in base 64 as the sizes of the code do.

The proofs hold for all sizes, for what they cover.

Only the violation runs of `PathLocks` and `Generations` check for deadlock; in
the others all processes may have ended and all bounds been used up. That nothing
stops before its end is the subject of `SomebodyGetsLocks`, `RootRequestReturns`
and `EveryoneGetsThere`.

## 6. Fairness

`StoreGC`: weak fairness of each client inside `addTempRoot`, of the server
threads and of the collector: threads that are runnable are scheduled. Neither
starting a collection nor any client operation is assumed, and clients may die.
`PathLocks`: weak fairness of every process that has called `lockPaths`,
including that it releases what it holds; `SomebodyGetsLocks` is about
behaviours in which kills and interrupts come to an end, and says that somebody
gets on, not that everybody does: flock has no queue, and one process can be
overtaken for ever. `MCWaiting` assumes both, each for the behaviours that are
about its component. `Generations` claims no liveness.

`MCRunning`: weak fairness of each thread and process (the importing thread, the
hashing threads, the threads of the pool, the openers, parent and child, the
users of a `Pool`, the strand). Openers that use the store close it, and a child
that runs exits in the end; without that nobody could promise that waiting for a
lock or a child ends. Interrupts and kills need not come, and nothing is assumed
of the owners of interrupt callbacks. Weak fairness is enough everywhere because
a waiting thread stays enabled once it has been notified; a notification that
the code omits would leave it disabled, which `EveryoneGetsThere` would show.

## 7. Proofs

All proofs are for arbitrary constants that satisfy the assumptions in the
modules.

`StoreGC_proofs`: `Spec => []IInv` and from it the types and the six safety
properties. The invariant says, along the path of a root: shared holders of the
GC lock are about to append, so a collection finds their root in the file or
the client talks to it (`GCLockInv`); an open connection has a live server that
has inserted what it is about to acknowledge (`SocketInv`, `AckInv`); a
collection knows the roots of each file it has read (`FileInv`) and each link
(`LinkInv`); what the walk has passed is no root (`WalkInv`); what is being
deleted is pending, is no root and is invalidated first (`DeleteInv`,
`DeletionIsExclusive`); a client that works on a path has rooted it
(`ClientInv`) and holds its lock alone (`PathLockInv`). None of the safety
properties is inductive by itself: each needs the chain from the file or the
socket to `tempRoots` to `pending`.

A second invariant, `GInv`, is about what a collection keeps and what it
removes, for any graph of references: `CacheInv` says that a cached set of
referrers lacks at most objects that became temporary or late roots since
(`Newcomers`); `VisitInv` and `SweepInv` that the walk, and then the sweep, has
all referrers of what is to be deleted in hand but for those; `KeptInv` and
`UseInv` that a path which the sweep passes over or finds in use is reached by
one of them; `AliveInv`, `DeadInv` and `DiskInv` account for every name in the
directory. `InUseOnlyByNewReferrer` and `CollectionIsComplete` follow. The proof
corrected the former: it used to say that the referrers are temporary roots
themselves, which two objects cannot refute. With c -> b -> a and a root for c
that arrives during the sweep, b is in use when its turn comes, and then a is
in use by b, which is nobody's root.

`PathLocks_proofs`: mutual exclusion and the refinement of `LockTable`, for
`UnlinkMayFail` true or false, provided that `"unlinked" \notin CrashPoints`;
run `locks_killed` shows that the proviso is needed. The core is `OpenedInv`: a
file that was opened and carries no token is the linked one, unless the process
that has unlinked it has yet to write the token; it still holds the flock then,
so whoever gets the lock next sees the token.

`Generations_proofs`: the types, the three state properties and the two action
properties, for any set of generations, any way in which names match as
patterns, and kills at every step; the exceptions are part of the properties
(section 4). `MarkerInv` ties marker and command line to what runs, unless
nixgen-switch was killed with the marker changed, and `RemoveInv` says that
nixgen-remove is not at work on what it takes for running; `RootInv` says that
what has a root or is about to get one has a row or was adopted without one;
`NewInv` says what may be in entries.cfg.new, and `EntryInv` which entries may
lack a root. `MarkerTellsTruth` and `EntryImpliesRoot` are false and have runs.

`LocalStore_proofs`: `UpgradeAlone` and `OpenFailsOnlyAfterKill`, for any number
of processes and kills, any of them read-only, and any version the store is
found with. Neither is inductive. `LockInv` says which lock a process has at
which step, and that one which waits for the exclusive lock has no shared one
left; `TableInv` that the tables have what the schema file says, which is why a
process that reads the current version need not look at them; `NewInv` keeps
creation, which runs under a shared lock, apart from upgrades, which do not;
`WholeInv` says that without a kill the tables are not ahead of the schema file
except in the process that holds the exclusive lock. A proof with the version
read before the lock in place of the one read again under it fails in exactly
`GetSchemaAgain`.

The same module proves `ImportIsExact`, for any length of the queues and any
archive that `parseDump` accepts: the assumption on `Archive` says that the
events of a file follow each other from its begin to its end, that no file comes
twice, and that every directory is left again except the root, which the caller
completes. `NarInv` says that what the first thread has hashed, the chunk in its
hands and its queue are consecutive positions that end where the importing
thread is. For the second thread, which sees only the events of files,
`FileInv` says that there is a position up to which it is through: every file
that ended there has its hash, it has gathered the parts of the file it is in,
and what is queued are the events from there to the last one sent. `TreeInv` says
the same of the files that the importing thread writes, and `DirInv` that the
directories it has left are in the deferred list and are stamped once the thread
that may touch them is joined. `JoinInv` fixes which thread is closed and joined
at which step, and after an exception it is all that is left of the invariant:
the contents no longer matter, the joins do. The proof attempt corrected one
property: an archive may be a single file, so what has to be stamped is the set
of its directories, and not a root that may be none. `ImportWakesEnough` needs
`WakeInv` beside it: the second thread of an archive in memory is made only when
the restore begins, and until then nobody pushes to it or joins it.

`ProcessGraph_proofs`: `DependenciesFirst` and `ReturnsClean`, for any finite
graph and any number of threads. `ThreadInv` and `QuitInv` are about the pool:
`active` counts the threads that execute an item, and it quits only on an
exception or when nothing is left. `PlaceInv` is the core: a node that is not
processed is in one place only, with the caller, in the queue, with one thread,
or waiting for others, which is why no node runs twice although it is enqueued
by whoever releases its last dependency; `StageInv`, `RefInv` and `WaitInv` say
what is recorded about it there. `KeptInv` says that no node is forgotten unless
an item throws, so if the pool runs dry with nodes left, each of them waits for
another one, and a finite set in which every node refers to a node of the set
has a cycle (`CycleExists`, with the smallest such set in place of an
induction). The proof corrected `DependenciesFirst`: it used to say that a node
that is being processed has no dependency in `left`. A dependency is removed
from `left` only after it was processed, in a later critical section, and with
four nodes and three threads another thread may be faster; what is true, and
what the code needs, is that the dependency has been processed.
`GraphWakesEnough` is inductive beside `IInv`: `enqueue` adds one item and one
thread that looks for it if anybody slept (`EnqueuedWakes`), who takes an item was
one of those who looked, nobody goes to sleep over an item, and after `process`
nobody goes to sleep unless somebody works, who will look again.

`LinkFarm_proofs`: `FarmIsSound`, for any finite store, any number of threads
and any directories they work on, with an import and a collection. `ContentInv`
says that a link of the farm has its content or another size, so a thread that
has seen the right size may use it, whoever removes or replaces it later;
`DirInv` that a directory with write permission has a thread that will take it
away; `PassInv` what a pass that nothing disturbs has linked so far. The
assumption on the initial states had to say that a file which shares an inode
with `.links` shares it with the link of its content: with a wrong inode hash
the optimiser would believe that the file needs no work.

`StoreDB_proofs`: `RefsClosed`, `CacheErrorsExplained` and the action property
`VerifyLosesOnlyNewcomers`, for any number of handles, threads, paths and cache
entries. `TxnPart` says that a transaction is closed under references by itself
and, while its snapshot is current, differs from the tables only by what its
thread has done; that is why the commit of one is the commit of closed tables.
`ThreadPart` says what a thread still relies on that it has read before
(checked referrers, rows written, a listing of the directory); `CachePart` that
the cache agrees with the tables and with the open transaction except for what
is in `doubt` or added by it.

`Util_proofs`: `NoChildLeft` for any output and capacity of the pipe (`RunInv`:
which child there is at which step of the parent, and where each unit of output
is); `InterruptReachesAll` for any number of triggers and owners (`SigInv`:
tokens grow, so the next token after the last one called skips no callback that
was there from the start); `PoolTypeOK`, which includes the limit of the pool, and
`PoolWakesEnough`: a place becomes free only by a thread that notifies at once or
next, and is taken only by one that was awake;
`ClosureExact` for any finite graph and any limit. `ClosureInv` follows the
phases of `computeClosure`. While it works, every element that is entered and
not finished is in one place (`Counted`: a posted handler, a suspended
coroutine or the queue), so the counters are the sizes of these sets and reach
zero when the last one ends, not before and not twice; and the result lies
between the edges of what is finished and what is reachable (`Sound`), which
are the same when nothing is unfinished.

`Util_proofs` also has `AccessorsAgree`, for any number of threads and accessors,
any trees and any sizes of the caches, zero included. `AccInv` says of every
descriptor, cached or in the hands of a thread, that it shows a directory of one
tree of `past`, at the very path it is filed under (`ShowsDir`, `CacheInv`); that
is what a wrong key breaks. `CallInv` says what a thread knows at each step: how
far it has come, that a walk which failed was stopped by that tree
(`WalkFailed`, `InTheWay`), and that an answer is one that the tree gives
(`Answered`). As `past` only grows while a call of the accessor is under way or its
cache is in use (`CallsGoOn`, `CachesGoOn`), what one thread knows survives the
steps of all others. The first version of the property was false: without
`openat2()` the kind of what was in the way is asked for in a second system call,
so a symlink directly in the root that is replaced in between is reported as
something that is no directory. `ReplacedMeanwhile` describes that case and no other. The
count is the number of descriptors in the caches because every change of a cache
changes both (`SetCache`).

Model-checked only:

- the liveness properties (`RootRequestReturns`, `SomebodyGetsLocks`,
  `EveryoneGetsThere`), which are beyond the prover; that no wake-up is lost, the
  part of the last one that is a safety property, is proved;
- the properties about `Nar`, `Sinks`, `Streams`, `Rewriting`, `Encodings`,
  `CanonPaths` and `Objects`, which say what recursive definitions compute and
  would take induction over data.

## 8. Not modelled

- `autoGC`, `findPlatformRoots`, derivers, signatures and repairing.
- Known windows that the models leave out: the collector unlinking the new
  temproots file of a process with a recycled pid (gc.cc:92-111, 223-226); two
  threads of one process sharing the descriptor of the GC lock
  (gc.cc:126-135); a failing write of the token, which leaves descriptors open
  (pathlocks.cc:33, 131-144); two generation tools at once, which share
  entries.cfg.new.
- `nixgen-savemeta`, `nixgen-restmeta`, installation and boot scripts: sequences
  of external commands with no state of their own.
- Settings, logging and terminal output, and the wrappers of system calls: what
  system calls do is part of the actions. The headers of types, templates and
  settings make up most of what is left of the source.
- `sort.hh`, `chunked-vector.hh` and `monitor-fd.hh` have no users here.
