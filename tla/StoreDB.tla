------------------------------ MODULE StoreDB ------------------------------
(***************************************************************************)
(* The database of valid paths: the tables of                              *)
(* src/src/libstore/schema.sql, the transactions of                        *)
(* src/src/libstore/sqlite.cc and sqlite.hh, the operations of             *)
(* src/src/libstore/local-store.cc that read and write it, and the path    *)
(* info cache of src/src/libstore/store-api.cc that stands before it.      *)
(*                                                                         *)
(* A handle is a LocalStore object of a process: it has one connection to  *)
(* SQLite, one mutex (_state) and one cache, and several threads.  SQLite  *)
(* is external: a transaction reads a snapshot, one connection at a time   *)
(* writes, and a connection whose snapshot has become old may not write    *)
(* (WAL mode): it gets SQLITE_BUSY at once.                                *)
(***************************************************************************)
EXTENDS Integers, Sequences, FiniteSets, SequencesExt, Relation

CONSTANTS
  Path,          \* store paths
  Handle,        \* LocalStore objects, of any processes
  DbThread,      \* the threads that use them
  HandleOf,      \* HandleOf[t]: the handle that thread t uses
  Batches,       \* what registerValidPaths() may be called with
  CacheCapacity, \* path-info-cache-size
  DbStarts,      \* the states the store may be found in
  MaxOps         \* bound: operations of a thread

Nobody  == "nobody"   \* no handle or thread
NoRow   == "no row"   \* not valid: neither a hash nor a content
NullHash == "null hash" \* the all-zero hash of a row written long ago
Hash    == {NullHash, "good", "bad"}
OnDisk == {NoRow, "good", "bad"}

\* A batch: for some paths, their references and whether the claim that they
\* are content-addressed is true.
BatchType == UNION {[S -> [refs : SUBSET Path, ca : BOOLEAN]] :
                      S \in SUBSET Path}

ASSUME BatchesAssumption == Batches \subseteq BatchType
ASSUME HandlesAssumption == HandleOf \in [DbThread -> Handle]
ASSUME NobodyAssumption == Nobody \notin Handle \cup DbThread
ASSUME BoundsAssumption == CacheCapacity \in Nat /\ MaxOps \in Nat

\* Processes find the tables as earlier processes have committed them.
ASSUME DbStartsAssumption ==
  \A s \in DbStarts :
    /\ s.rows \in [Path -> Hash \cup {NoRow}]
    /\ s.disk \in [Path -> OnDisk]
    /\ s.refs \subseteq {p \in Path \X Path :
                          s.rows[p[1]] # NoRow /\ s.rows[p[2]] # NoRow}

VARIABLES
  rows,   \* rows[x]: the hash in the row of x in ValidPaths, or NoRow
  drefs,  \* the table Refs: pairs of a referrer and a reference
  disk,   \* disk[x]: what lies at x in the store directory
  txn,    \* txn[h]: the transaction of the connection of h
  writer, \* the handle whose transaction may write
  mutex,  \* mutex[h]: the thread that holds _state of h
  cache,  \* cache[h]: pathInfoCache, the least recently used entry first
  op,     \* op[t]: what thread t is doing
  ops,    \* ops[t]: how many operations it has started
  doubt   \* doubt[h]: history: the paths the cache of h may be wrong about

dbVars == <<rows, drefs, disk, txn, writer, mutex, cache, op, ops, doubt>>

NoTxn == [on |-> FALSE, stale |-> FALSE, rows |-> [x \in Path |-> NoRow],
          refs |-> {}, added |-> {}]
Resting == [pc |-> "idle"]

DbInit ==
  /\ \E s \in DbStarts :
       /\ rows = s.rows
       /\ drefs = s.refs
       /\ disk = s.disk
  /\ txn = [h \in Handle |-> NoTxn]
  /\ writer = Nobody
  /\ mutex = [h \in Handle |-> Nobody]
  /\ cache = [h \in Handle |-> <<>>]
  /\ op = [t \in DbThread |-> Resting]
  /\ ops = [t \in DbThread |-> 0]
  /\ doubt = [h \in Handle |-> {}]

-----------------------------------------------------------------------------
(* The cache: LRUCache, whose entries are a path and the hash of its row,  *)
(* or NoRow when the path was found not to be valid.                       *)

CacheEntry == [path : Path, info : Hash \cup {NoRow}]

InfoCached(c, x) == \E i \in DOMAIN c : c[i].path = x

PlaceOf(c, x) == CHOOSE i \in DOMAIN c : c[i].path = x

CachedInfo(c, x) == c[PlaceOf(c, x)].info

WithoutInfo(c, x) == IF InfoCached(c, x) THEN RemoveAt(c, PlaceOf(c, x)) ELSE c

UpsertInfo(c, x, info) ==
  LET kept == WithoutInfo(c, x)
      room == IF Len(kept) >= CacheCapacity THEN Tail(kept) ELSE kept
  IN  IF CacheCapacity = 0 THEN c
      ELSE Append(room, [path |-> x, info |-> info])

PromoteInfo(c, x) ==
  Append(WithoutInfo(c, x), [path |-> x, info |-> CachedInfo(c, x)])

-----------------------------------------------------------------------------
(* The tables.                                                             *)

Valid(r) == {x \in Path : r[x] # NoRow}

Referrers(f, x) == {p[1] : p \in {q \in f : q[2] = x}}

\* As MayDelete, with a foreign key that does not restrict.
MayAlwaysDelete(f, x) == TRUE

\* `on delete restrict': a row goes only when no other row refers to it;
\* the trigger DeleteSelfRefs takes the self-reference away first.
MayDelete(f, x) == Referrers(f, x) \ {x} = {}

\* `on delete cascade': its own references go with it.
RefsWithout(f, x) == {p \in f : p[1] # x}

-----------------------------------------------------------------------------
(* Transactions.                                                           *)

\* A connection may write when its snapshot is that of the last commit and no
\* other connection is writing.
MayWrite(h) == writer = h \/ (writer = Nobody /\ ~txn[h].stale)

\* After a commit of h that changes rows to r, every other snapshot is old.
\* The other handles' caches may now be wrong, and so may the one of h if one
\* of its threads has read the table and not yet filled the cache.
Published(h, r) ==
  LET changed == {x \in Path : (rows[x] = NoRow) # (r[x] = NoRow)}
      behind(k) == {op[t].path : t \in {u \in DbThread :
                      HandleOf[u] = k /\ op[u].pc = "fill"}}
  IN  doubt' = [k \in Handle |->
                  doubt[k] \cup (IF k = h THEN changed \cap behind(k)
                                 ELSE changed)]

Outdate(h) ==
  [k \in Handle |-> IF k = h THEN NoTxn
                    ELSE IF txn[k].on THEN [txn[k] EXCEPT !.stale = TRUE]
                    ELSE txn[k]]

\* SQLiteTxn::~SQLiteTxn() without a commit, and the mutex released: what was
\* put into the cache for the paths that were being added stays there.
Rollback(t, next) ==
  LET h == HandleOf[t]
  IN  /\ txn' = [txn EXCEPT ![h] = NoTxn]
      /\ writer' = IF writer = h THEN Nobody ELSE writer
      /\ mutex' = [mutex EXCEPT ![h] = Nobody]
      /\ doubt' = [doubt EXCEPT ![h] = @ \cup txn[h].added]
      /\ op' = [op EXCEPT ![t] = next]

\* SQLITE_BUSY: retrySQLite() runs its function again from the start.
Busy(t) ==
  /\ op[t].pc \in {"row", "delete"}
  /\ ~MayWrite(HandleOf[t])
  /\ Rollback(t, [op[t] EXCEPT !.pc = "begin", !.todo = op[t].all])
  /\ UNCHANGED <<rows, drefs, disk, cache, ops>>

\* The constructor of SQLiteTxn and the first read of the transaction.
Begin(t) ==
  LET h == HandleOf[t]
  IN  /\ op[t].pc = "begin"
      /\ mutex[h] = Nobody
      /\ mutex' = [mutex EXCEPT ![h] = t]
      /\ txn' = [txn EXCEPT ![h] = [on |-> TRUE, stale |-> FALSE,
                                    rows |-> rows, refs |-> drefs,
                                    added |-> {}]]
      /\ op' = [op EXCEPT ![t].pc = IF op[t].what = "register" THEN "row"
                                    ELSE "check"]
      /\ UNCHANGED <<rows, drefs, disk, writer, cache, ops, doubt>>

\* A transaction that wrote nothing leaves the tables alone.
Commit(t) ==
  LET h == HandleOf[t]
  IN  /\ op[t].pc = "commit"
      /\ IF writer = h
         THEN /\ rows' = txn[h].rows
              /\ drefs' = txn[h].refs
              /\ Published(h, txn[h].rows)
              /\ txn' = Outdate(h)
              /\ writer' = Nobody
         ELSE /\ txn' = [txn EXCEPT ![h] = NoTxn]
              /\ UNCHANGED <<rows, drefs, doubt, writer>>
      /\ mutex' = [mutex EXCEPT ![h] = Nobody]
      /\ op' = [op EXCEPT ![t] = Resting]
      /\ UNCHANGED <<disk, cache, ops>>

\* A statement fails (the disk is full, an I/O error): the exception goes
\* through retrySQLite().
StatementFails(t) ==
  /\ op[t].pc \in {"row", "delete", "commit"}
  /\ writer = HandleOf[t]
  /\ Rollback(t, Resting)
  /\ UNCHANGED <<rows, drefs, disk, cache, ops>>

-----------------------------------------------------------------------------
(* registerValidPaths().                                                   *)

StartsOp(t) ==
  /\ op[t].pc = "idle"
  /\ ops[t] < MaxOps
  /\ ops' = [ops EXCEPT ![t] = @ + 1]

\* The caller has put the store objects in place before it registers them.
\* A listing of the store directory made before that does not show them.
StartRegister(t) ==
  /\ StartsOp(t)
  /\ \E b \in Batches :
       LET new == {x \in DOMAIN b : disk[x] = NoRow}
       IN  /\ op' = [u \in DbThread |->
                       IF u = t
                       THEN [pc |-> "begin", what |-> "register", batch |-> b,
                             all |-> DOMAIN b, todo |-> DOMAIN b]
                       ELSE IF op[u].pc \in {"list", "visit"}
                            THEN [op[u] EXCEPT !.fresh = @ \cup new]
                            ELSE op[u]]
           /\ disk' = [x \in Path |-> IF x \in new THEN "good" ELSE disk[x]]
  /\ UNCHANGED <<rows, drefs, txn, writer, mutex, cache, doubt>>

\* addValidPath() enters the path into the cache before the commit;
\* updatePathInfo() leaves the cache alone.
RegisterRow(t) ==
  LET h == HandleOf[t]
  IN  /\ op[t].pc = "row"
      /\ op[t].todo # {}
      /\ MayWrite(h)
      /\ \E x \in op[t].todo :
           LET isNew == txn[h].rows[x] = NoRow
           IN  IF isNew /\ ~op[t].batch[x].ca
               THEN Rollback(t, Resting) /\ UNCHANGED cache
               ELSE /\ writer' = h
                    /\ txn' = [txn EXCEPT ![h].rows[x] = "good",
                                 ![h].added = IF isNew THEN @ \cup {x} ELSE @]
                    /\ cache' = IF isNew
                                THEN [cache EXCEPT ![h] = UpsertInfo(@, x, "good")]
                                ELSE cache
                    /\ op' = [op EXCEPT ![t].todo = @ \ {x}]
                    /\ UNCHANGED <<mutex, doubt>>
      /\ UNCHANGED <<rows, drefs, disk, ops>>

\* The references, once every row is there, and the search for a cycle among
\* the paths of the batch (not among those that were there before).
BatchRefs(b) == {p \in (DOMAIN b) \X Path : p[2] \in b[p[1]].refs}

HasCycle(b) ==
  LET inner == {p \in BatchRefs(b) : p[1] # p[2] /\ p[2] \in DOMAIN b}
      tc == TransitiveClosure([p \in Path \X Path |-> p \in inner], Path)
  IN  \E x \in DOMAIN b : tc[x, x]

ReferencesValid(b, r) == \A x \in DOMAIN b : b[x].refs \subseteq Valid(r)

RegisterRefs(t) ==
  LET h == HandleOf[t]
      b == op[t].batch
  IN  /\ op[t].pc = "row"
      /\ op[t].todo = {}
      /\ IF ReferencesValid(b, txn[h].rows) /\ ~HasCycle(b)
         THEN /\ txn' = [txn EXCEPT ![h].refs = @ \cup BatchRefs(b)]
              /\ op' = [op EXCEPT ![t].pc = "commit"]
              /\ UNCHANGED <<writer, mutex, doubt>>
         ELSE Rollback(t, Resting)
      /\ UNCHANGED <<rows, drefs, disk, cache, ops>>

-----------------------------------------------------------------------------
(* invalidatePathChecked().                                                *)

StartInvalidate(t) ==
  /\ StartsOp(t)
  /\ \E x \in Path :
       op' = [op EXCEPT ![t] = [pc |-> "begin", what |-> "invalidate",
                                path |-> x, all |-> {x}, todo |-> {x}]]
  /\ UNCHANGED <<rows, drefs, disk, txn, writer, mutex, cache, doubt>>

\* Not valid: nothing to do; referrers other than itself: PathInUse.
CheckReferrers(t) ==
  LET h == HandleOf[t]
      x == op[t].path
  IN  /\ op[t].pc = "check"
      /\ IF txn[h].rows[x] = NoRow
         THEN /\ op' = [op EXCEPT ![t].pc = "commit"]
              /\ UNCHANGED <<txn, writer, mutex, doubt>>
         ELSE IF Referrers(txn[h].refs, x) \ {x} # {}
              THEN Rollback(t, Resting)
              ELSE /\ op' = [op EXCEPT ![t].pc = "delete"]
                   /\ UNCHANGED <<txn, writer, mutex, doubt>>
      /\ UNCHANGED <<rows, drefs, disk, cache, ops>>

\* As Forget, for an invalidatePath() that leaves the cache alone.
ForgetNothing(c, x) == c

\* invalidatePathInfoCacheFor().
Forget(c, x) == WithoutInfo(c, x)

DeleteRow(t) ==
  LET h == HandleOf[t]
      x == op[t].path
  IN  /\ op[t].pc = "delete"
      /\ MayWrite(h)
      /\ writer' = h
      /\ txn' = [txn EXCEPT ![h].rows[x] = NoRow,
                            ![h].refs = RefsWithout(@, x)]
      /\ cache' = [cache EXCEPT ![h] = Forget(@, x)]
      /\ op' = [op EXCEPT ![t].pc = "commit"]
      /\ UNCHANGED <<rows, drefs, disk, mutex, ops, doubt>>

-----------------------------------------------------------------------------
(* queryPathInfo(): from the cache or, if the path is not there, from the  *)
(* table; the cache is filled after the mutex has been released.           *)

StartQuery(t) ==
  LET h == HandleOf[t]
  IN  /\ StartsOp(t)
      /\ \E x \in Path :
           IF InfoCached(cache[h], x)
           THEN /\ cache' = [cache EXCEPT ![h] = PromoteInfo(@, x)]
                /\ UNCHANGED op
           ELSE /\ op' = [op EXCEPT ![t] = [pc |-> "query", path |-> x]]
                /\ UNCHANGED cache
      /\ UNCHANGED <<rows, drefs, disk, txn, writer, mutex, doubt>>

QueryUncached(t) ==
  /\ op[t].pc = "query"
  /\ mutex[HandleOf[t]] = Nobody
  /\ op' = [op EXCEPT ![t] = [pc |-> "fill", path |-> op[t].path,
                              info |-> rows[op[t].path]]]
  /\ UNCHANGED <<rows, drefs, disk, txn, writer, mutex, cache, ops, doubt>>

FillCache(t) ==
  /\ op[t].pc = "fill"
  /\ cache' = [cache EXCEPT ![HandleOf[t]] =
                              UpsertInfo(@, op[t].path, op[t].info)]
  /\ doubt' = IF txn[HandleOf[t]].on
              THEN [doubt EXCEPT ![HandleOf[t]] = @ \cup {op[t].path}]
              ELSE doubt
  /\ op' = [op EXCEPT ![t] = Resting]
  /\ UNCHANGED <<rows, drefs, disk, txn, writer, mutex, ops>>

-----------------------------------------------------------------------------
(* verifyStore(): first the store directory is listed, then the rows are   *)
(* read, then each row is compared with the listing, its referrers first.  *)
(* The recursion of verifyPath() is a stack of frames: a path, and the     *)
(* referrers that are still to be visited.                                 *)

StartVerify(t) ==
  /\ StartsOp(t)
  /\ op' = [op EXCEPT ![t] =
              [pc |-> "list", listing |-> {x \in Path : disk[x] # NoRow},
               fresh |-> {}, todo |-> {}, done |-> {}, found |-> {},
               stack |-> <<>>, errors |-> FALSE]]
  /\ UNCHANGED <<rows, drefs, disk, txn, writer, mutex, cache, doubt>>

QueryAllValidPaths(t) ==
  /\ op[t].pc = "list"
  /\ mutex[HandleOf[t]] = Nobody
  /\ op' = [op EXCEPT ![t].pc = "visit", ![t].todo = Valid(rows)]
  /\ UNCHANGED <<rows, drefs, disk, txn, writer, mutex, cache, ops, doubt>>

\* The paths that verifyPath() is called for next: those of the top frame, or
\* of the loop in verifyAllValidPaths().
NextToVisit(o) == IF o.stack = <<>> THEN o.todo ELSE Last(o.stack).todo

\* As ExistsInStoreDir, with referrers not looked up in the listing.
ExistsAmongRoots(o, x) == o.stack = <<>> /\ x \in o.listing

ExistsInStoreDir(o, x) == x \in o.listing

\* One call of verifyPath(), up to its loop over the referrers.
VerifyPath(t) ==
  LET o == op[t]
  IN  /\ o.pc = "visit"
      /\ mutex[HandleOf[t]] = Nobody
      /\ \E x \in NextToVisit(o) :
           LET popped == IF o.stack = <<>>
                         THEN [o EXCEPT !.todo = @ \ {x}]
                         ELSE [o EXCEPT !.stack[Len(o.stack)].todo = @ \ {x}]
               frame  == [path |-> x, referrers |-> Referrers(drefs, x) \ {x},
                          todo |-> Referrers(drefs, x) \ {x}]
           IN  op' = [op EXCEPT ![t] =
                 IF x \in o.done THEN popped
                 ELSE IF ExistsInStoreDir(o, x)
                      THEN [popped EXCEPT !.done = @ \cup {x},
                                          !.found = @ \cup {x}]
                      ELSE [popped EXCEPT !.done = @ \cup {x},
                                          !.stack = Append(@, frame)]]
      /\ UNCHANGED <<rows, drefs, disk, txn, writer, mutex, cache, ops, doubt>>

\* The end of verifyPath(): a path whose referrers were not found either is
\* removed, with invalidatePath() outside of any transaction.  The statement
\* waits for the writer.  When some other row still refers to the path, the
\* foreign key makes it fail, and verifyStore() with it.
VerifyDisappeared(t) ==
  LET h == HandleOf[t]
      o == op[t]
      frame == Last(o.stack)
      x == frame.path
      popped == [o EXCEPT !.stack = Front(@)]
      left == [rows EXCEPT ![x] = NoRow]
  IN  /\ o.pc = "visit"
      /\ o.stack # <<>> /\ frame.todo = {}
      /\ mutex[h] = Nobody
      /\ IF frame.referrers \cap o.found # {}
         THEN /\ op' = [op EXCEPT ![t] = [popped EXCEPT !.errors = TRUE]]
              /\ UNCHANGED <<rows, drefs, txn, cache, doubt>>
         ELSE /\ writer = Nobody
              /\ IF MayDelete(drefs, x)
                 THEN /\ rows' = left
                      /\ drefs' = RefsWithout(drefs, x)
                      /\ txn' = Outdate(h)
                      /\ cache' = [cache EXCEPT ![h] = Forget(@, x)]
                      /\ Published(h, left)
                      /\ op' = [op EXCEPT ![t] = popped]
                 ELSE /\ op' = [op EXCEPT ![t] = Resting]
                      /\ UNCHANGED <<rows, drefs, txn, cache, doubt>>
      /\ UNCHANGED <<disk, writer, mutex, ops>>

\* The contents of one path that was found: its info, from the cache or the
\* table, against what lies on disk.  A missing hash is filled in, in the
\* cached object too, and in the row if there still is one.
VerifyContents(t) ==
  LET h == HandleOf[t]
      o == op[t]
  IN  /\ o.pc = "visit"
      /\ o.stack = <<>> /\ o.todo = {}
      /\ mutex[h] = Nobody
      /\ IF o.found = {}
         THEN /\ op' = [op EXCEPT ![t] = Resting]
              /\ UNCHANGED <<rows, txn, cache>>
         ELSE \E x \in o.found :
                LET info == IF InfoCached(cache[h], x) THEN CachedInfo(cache[h], x)
                            ELSE rows[x]
                    seen == UpsertInfo(cache[h], x, info)
                    fill == info = NullHash /\ disk[x] # NoRow
                    wrong == info # NullHash /\ info # disk[x]
                IN  /\ fill => writer = Nobody
                    /\ rows' = IF fill /\ rows[x] # NoRow
                               THEN [rows EXCEPT ![x] = disk[x]] ELSE rows
                    /\ txn' = IF fill THEN Outdate(h) ELSE txn
                    /\ cache' = [cache EXCEPT ![h] =
                                   IF fill THEN UpsertInfo(@, x, disk[x])
                                   ELSE seen]
                    /\ op' = [op EXCEPT ![t].found = @ \ {x},
                                ![t].errors = @ \/ wrong \/ info = NoRow]
      /\ UNCHANGED <<drefs, disk, writer, mutex, ops, doubt>>

-----------------------------------------------------------------------------

DbNext ==
  \E t \in DbThread :
    \/ StartRegister(t) \/ StartInvalidate(t) \/ StartQuery(t) \/ StartVerify(t)
    \/ Begin(t) \/ Busy(t) \/ Commit(t) \/ StatementFails(t)
    \/ RegisterRow(t) \/ RegisterRefs(t)
    \/ CheckReferrers(t) \/ DeleteRow(t)
    \/ QueryUncached(t) \/ FillCache(t)
    \/ QueryAllValidPaths(t) \/ VerifyPath(t) \/ VerifyDisappeared(t)
    \/ VerifyContents(t)

DbSpec == DbInit /\ [][DbNext]_dbVars

-----------------------------------------------------------------------------

\* The types of the tables, the cache (never above its capacity and with one
\* entry per path) and the locks.
DbTypeOK ==
  /\ rows \in [Path -> Hash \cup {NoRow}]
  /\ drefs \subseteq Path \X Path
  /\ disk \in [Path -> OnDisk]
  /\ writer \in Handle \cup {Nobody}
  /\ mutex \in [Handle -> DbThread \cup {Nobody}]
  /\ \A h \in Handle :
       /\ ToSet(cache[h]) \subseteq CacheEntry
       /\ Len(cache[h]) <= CacheCapacity
       /\ \A i, j \in DOMAIN cache[h] :
            cache[h][i].path = cache[h][j].path => i = j
  /\ ops \in [DbThread -> 0..MaxOps]

\* The committed tables are closed under references, whatever registrations,
\* invalidations and verifications of several processes overlap, fail or are
\* retried: what a valid path refers to is valid (registerValidPaths() adds
\* rows before references in one transaction, invalidatePathChecked() checks
\* the referrers in one, verifyPath() relies on the foreign key).
RefsClosed == DbTypeOK /\ \A p \in drefs : {p[1], p[2]} \subseteq Valid(rows)

\* The cache of path infos is wrong about a path's validity only where it
\* cannot know: another process has changed the row since, a registration of
\* this handle was rolled back after addValidPath() had filled the cache, or
\* is not committed yet, or a query overlapped a change by another thread.
CacheErrorsExplained ==
  \A h \in Handle : \A x \in Path :
    (/\ InfoCached(cache[h], x)
     /\ (CachedInfo(cache[h], x) = NoRow) # (rows[x] = NoRow))
       => x \in doubt[h] \cup txn[h].added

LosesOnlyNewcomers ==
  \A x \in Path :
    (rows[x] # NoRow /\ rows'[x] = NoRow /\ disk[x] # NoRow)
      => \E t \in DbThread :
           \/ /\ op[t].pc = "commit" /\ op'[t].pc = "idle"
              /\ op[t].what = "invalidate" /\ op[t].path = x
           \/ op[t].pc = "visit" /\ x \in op[t].fresh

\* verifyStore(): a row disappears while its store object is on disk only by
\* invalidatePathChecked(), or by a verification whose listing of the store
\* directory is older than the store object.  That the listing can be older
\* than the rows is what SnapshotIsConsistent is about; this bounds the damage.
VerifyLosesOnlyNewcomers == [][LosesOnlyNewcomers]_dbVars

\* What local-store.cc:1679-1680 says of verifyStore(): "Acquire the global GC
\* lock to get a consistent snapshot of existing and valid paths."  Then a
\* path that it has read from the database, and that exists, is in its listing.
SnapshotIsConsistent ==
  \A t \in DbThread : op[t].pc = "visit" =>
    \A x \in op[t].todo : disk[x] # NoRow => x \in op[t].listing
=============================================================================
