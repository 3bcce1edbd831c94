-------------------------- MODULE StoreDB_proofs --------------------------
(***************************************************************************)
(* Proofs about the database of valid paths (StoreDB): the committed       *)
(* tables are closed under references, the cache of path infos is wrong    *)
(* only where it cannot know, and a verification loses only rows of store  *)
(* objects younger than its listing; for any number of paths, handles,     *)
(* threads and batches, any cache size and any closed initial tables.      *)
(***************************************************************************)
EXTENDS StoreDB, TLAPS

-----------------------------------------------------------------------------
(* What a thread may be doing, by the operation it is in.                  *)

Frame == [path : Path, referrers : SUBSET Path, todo : SUBSET Path]

RestOp == [pc : {"idle"}]
RegisterOp == {o \in [pc : {"begin", "row", "commit"}, what : {"register"},
                      batch : Batches, all : SUBSET Path, todo : SUBSET Path] :
                 o.all = DOMAIN o.batch}
InvalidateOp == [pc : {"begin", "check", "delete", "commit"},
                 what : {"invalidate"}, path : Path,
                 all : SUBSET Path, todo : SUBSET Path]
QueryOp == [pc : {"query"}, path : Path]
FillOp == [pc : {"fill"}, path : Path, info : Hash \cup {NoRow}]
VerifyOp == [pc : {"list", "visit"}, listing : SUBSET Path,
             fresh : SUBSET Path, todo : SUBSET Path, done : SUBSET Path,
             found : SUBSET Path, stack : Seq(Frame), errors : BOOLEAN]

OpType == RestOp \cup RegisterOp \cup InvalidateOp \cup QueryOp \cup FillOp
            \cup VerifyOp

TxnType == [on : BOOLEAN, stale : BOOLEAN,
            rows : [Path -> Hash \cup {NoRow}], refs : SUBSET (Path \X Path),
            added : SUBSET Path]

Holding == {"row", "check", "delete", "commit"}

-----------------------------------------------------------------------------
(* The inductive invariant.                                                *)

\* A cache has an entry per path and is not above its capacity.
CacheOK(c) ==
  /\ c \in Seq(CacheEntry)
  /\ Len(c) <= CacheCapacity
  /\ \A i, j \in 1..Len(c) : c[i].path = c[j].path => i = j

TypeInv ==
  /\ rows \in [Path -> Hash \cup {NoRow}]
  /\ drefs \in SUBSET (Path \X Path)
  /\ disk \in [Path -> OnDisk]
  /\ writer \in Handle \cup {Nobody}
  /\ mutex \in [Handle -> DbThread \cup {Nobody}]
  /\ ops \in [DbThread -> 0..MaxOps]
  /\ doubt \in [Handle -> SUBSET Path]
  /\ txn \in [Handle -> TxnType]
  /\ op \in [DbThread -> OpType]
  /\ DOMAIN cache = Handle

Closed(f, r) == \A p \in f : r[p[1]] # NoRow /\ r[p[2]] # NoRow

\* What thread t relies on: it holds the mutex while it is in a transaction,
\* the rows it has written and the referrers it has checked are still so in
\* that transaction, what it has read of the table is right or in doubt, and
\* what its listing does not show has come after it.
ThreadPart(t) ==
  LET h == HandleOf[t]
      o == op[t]
  IN  /\ o.pc \in Holding <=> mutex[h] = t
      /\ o.pc = "begin" => o.todo = o.all
      /\ o.pc = "row" => \A x \in o.all \ o.todo : txn[h].rows[x] # NoRow
      /\ o.pc = "delete" => MayDelete(txn[h].refs, o.path)
      /\ o.pc = "fill" => \/ (o.info = NoRow) <=> (rows[o.path] = NoRow)
                          \/ o.path \in doubt[h]
      /\ o.pc \in {"list", "visit"} =>
           /\ \A x \in Path : disk[x] # NoRow => x \in o.listing \cup o.fresh
           /\ \A i \in 1..Len(o.stack) : o.stack[i].path \notin o.listing

\* The transaction of h: it is closed, and while its snapshot is current it
\* differs from the tables only by what its own thread has done.
TxnPart(h) ==
  /\ txn[h].on <=> mutex[h] # Nobody
  /\ mutex[h] # Nobody => HandleOf[mutex[h]] = h
  /\ ~txn[h].on => txn[h] = NoTxn
  /\ writer = h => txn[h].on /\ ~txn[h].stale
  /\ writer # h => txn[h].added = {}
  /\ Closed(txn[h].refs, txn[h].rows)
  /\ (txn[h].on /\ ~txn[h].stale) =>
       \A x \in Path :
         /\ (rows[x] = NoRow /\ txn[h].rows[x] # NoRow) => x \in txn[h].added
         /\ (rows[x] # NoRow /\ txn[h].rows[x] = NoRow) =>
              /\ writer = h
              /\ op[mutex[h]].pc = "commit"
              /\ op[mutex[h]].what = "invalidate" /\ op[mutex[h]].path = x

\* The cache of h: what it says and the tables, or the current transaction,
\* do not differ where nothing is in doubt.
CachePart(h) ==
  /\ CacheOK(cache[h])
  /\ \A x \in Path : InfoCached(cache[h], x) =>
       /\ \/ (CachedInfo(cache[h], x) = NoRow) <=> (rows[x] = NoRow)
          \/ x \in doubt[h] \cup txn[h].added
       /\ (txn[h].on /\ ~txn[h].stale) =>
            \/ (CachedInfo(cache[h], x) = NoRow) <=> (txn[h].rows[x] = NoRow)
            \/ x \in doubt[h]

IInv ==
  /\ TypeInv
  /\ Closed(drefs, rows)
  /\ \A t \in DbThread : ThreadPart(t)
  /\ \A h \in Handle : TxnPart(h) /\ CachePart(h)

-----------------------------------------------------------------------------
(* The cache.                                                              *)

\* RemoveAt takes one element away and closes the gap.
LEMMA RemoveAtElems ==
  ASSUME NEW S, NEW c \in Seq(S), NEW i \in 1..Len(c)
  PROVE  /\ RemoveAt(c, i) \in Seq(S)
         /\ Len(RemoveAt(c, i)) = Len(c) - 1
         /\ \A j \in 1..Len(c) - 1 :
              RemoveAt(c, i)[j] = IF j < i THEN c[j] ELSE c[j + 1]
<1> DEFINE u == SubSeq(c, 1, i - 1)
           v == SubSeq(c, i + 1, Len(c))
<1>1. u \in Seq(S) /\ Len(u) = i - 1 /\ \A j \in 1..i - 1 : u[j] = c[j]
  OBVIOUS
<1>2. /\ v \in Seq(S) /\ Len(v) = Len(c) - i
      /\ \A j \in 1..Len(c) - i : v[j] = c[i + j]
  OBVIOUS
<1> HIDE DEF u, v
<1>3. u \o v \in Seq(S) /\ Len(u \o v) = Len(c) - 1
  BY <1>1, <1>2
<1>4. \A j \in 1..Len(u) + Len(v) :
         (u \o v)[j] = IF j <= Len(u) THEN u[j] ELSE v[j - Len(u)]
  BY <1>1, <1>2
<1>5. Len(u) + Len(v) = Len(c) - 1
  BY <1>1, <1>2
<1>6. \A j \in 1..Len(c) - 1 :
        (u \o v)[j] = IF j < i THEN c[j] ELSE c[j + 1]
  BY <1>1, <1>2, <1>4, <1>5
<1> QED
  BY <1>3, <1>6 DEF RemoveAt, u, v

\* In a cache, a path has one place, and CachedInfo is what stands there.
LEMMA OnePlace ==
  ASSUME NEW c, CacheOK(c), NEW i \in 1..Len(c)
  PROVE  /\ PlaceOf(c, c[i].path) = i
         /\ InfoCached(c, c[i].path)
         /\ CachedInfo(c, c[i].path) = c[i].info
<1>1. DOMAIN c = 1..Len(c)
  BY DEF CacheOK
<1>2. \A j \in DOMAIN c : c[j].path = c[i].path => j = i
  BY <1>1 DEF CacheOK
<1> QED
  BY <1>1, <1>2 DEF PlaceOf, InfoCached, CachedInfo

\* What is cached stands at a place.
LEMMA PlaceOfCached ==
  ASSUME NEW c, CacheOK(c), NEW x, InfoCached(c, x)
  PROVE  /\ PlaceOf(c, x) \in 1..Len(c)
         /\ c[PlaceOf(c, x)].path = x
         /\ c[PlaceOf(c, x)] \in CacheEntry
         /\ CachedInfo(c, x) \in Hash \cup {NoRow}
<1>1. DOMAIN c = 1..Len(c)
  BY DEF CacheOK
<1>2. PlaceOf(c, x) \in 1..Len(c) /\ c[PlaceOf(c, x)].path = x
  BY <1>1 DEF InfoCached, PlaceOf
<1>3. c[PlaceOf(c, x)] \in CacheEntry
  BY <1>2 DEF CacheOK
<1> QED
  BY <1>2, <1>3 DEF CachedInfo, CacheEntry

\* The entries of d are entries of c.
Shrunk(c, d) ==
  \A y \in Path : InfoCached(d, y) =>
    InfoCached(c, y) /\ CachedInfo(d, y) = CachedInfo(c, y)

\* The element of d at j is the one of c at m[j], another one for each j.
PartBy(c, d, m) ==
  /\ d \in Seq(CacheEntry) /\ Len(d) <= Len(c)
  /\ m \in [1..Len(d) -> 1..Len(c)]
  /\ \A j \in 1..Len(d) : d[j] = c[m[j]]
  /\ \A j, k \in 1..Len(d) : m[j] = m[k] => j = k

\* A part of a cache is a cache with some of its entries.
LEMMA PartOfCache ==
  ASSUME NEW c, NEW d, NEW m, CacheOK(c), PartBy(c, d, m)
  PROVE  /\ CacheOK(d)
         /\ Shrunk(c, d)
         /\ \A y \in Path : InfoCached(d, y) =>
              \E j \in 1..Len(d) : PlaceOf(c, y) = m[j]
<1> USE DEF PartBy
<1>1. c \in Seq(CacheEntry) /\ Len(c) <= CacheCapacity
  BY DEF CacheOK
<1>2. CacheOK(d)
  <2>1. ASSUME NEW j \in 1..Len(d), NEW k \in 1..Len(d),
               d[j].path = d[k].path
        PROVE  j = k
    BY <2>1 DEF CacheOK
  <2> QED
    BY <1>1, <2>1, BoundsAssumption DEF CacheOK
<1>3. ASSUME NEW y \in Path, InfoCached(d, y)
      PROVE  /\ InfoCached(c, y) /\ CachedInfo(d, y) = CachedInfo(c, y)
             /\ \E j \in 1..Len(d) : PlaceOf(c, y) = m[j]
  <2>1. PICK j \in 1..Len(d) : d[j].path = y
    BY <1>2, <1>3, PlaceOfCached
  <2>2. m[j] \in 1..Len(c) /\ c[m[j]] = d[j]
    OBVIOUS
  <2>3. CachedInfo(d, y) = d[j].info
    BY <1>2, <2>1, OnePlace
  <2>4. /\ PlaceOf(c, y) = m[j] /\ InfoCached(c, y)
        /\ CachedInfo(c, y) = d[j].info
    BY <2>1, <2>2, OnePlace
  <2> QED
    BY <2>3, <2>4
<1> QED
  BY <1>2, <1>3 DEF Shrunk

\* erase(): the entry of x goes, the others stay.
LEMMA WithoutEffect ==
  ASSUME NEW c, CacheOK(c), NEW x \in Path
  PROVE  /\ CacheOK(WithoutInfo(c, x))
         /\ Shrunk(c, WithoutInfo(c, x))
         /\ ~InfoCached(WithoutInfo(c, x), x)
         /\ InfoCached(c, x) => Len(WithoutInfo(c, x)) < CacheCapacity
<1>1. CASE ~InfoCached(c, x)
  BY <1>1 DEF WithoutInfo, Shrunk
<1>2. CASE InfoCached(c, x)
  <2> DEFINE i == PlaceOf(c, x)
             d == RemoveAt(c, i)
             m == [j \in 1..Len(d) |-> IF j < i THEN j ELSE j + 1]
  <2>1. i \in 1..Len(c)
    BY <1>2, PlaceOfCached
  <2> HIDE DEF i
  <2>2. c \in Seq(CacheEntry) /\ Len(c) <= CacheCapacity /\ Len(c) \in Nat
    BY DEF CacheOK
  <2>3. /\ d \in Seq(CacheEntry) /\ Len(d) = Len(c) - 1
        /\ \A j \in 1..Len(c) - 1 : d[j] = IF j < i THEN c[j] ELSE c[j + 1]
    BY <2>1, <2>2, RemoveAtElems
  <2> HIDE DEF d
  <2>4. m \in [1..Len(d) -> 1..Len(c)]
    BY <2>1, <2>2, <2>3
  <2>5. \A j \in 1..Len(d) : d[j] = c[m[j]] /\ m[j] # i
    BY <2>1, <2>2, <2>3
  <2>6. \A j, k \in 1..Len(d) : m[j] = m[k] => j = k
    BY <2>1, <2>2, <2>3
  <2>7. Len(d) <= Len(c) /\ Len(d) < CacheCapacity
    BY <2>2, <2>3, BoundsAssumption
  <2> HIDE DEF m
  <2>8. /\ CacheOK(d)
        /\ Shrunk(c, d)
        /\ \A y \in Path : InfoCached(d, y) =>
             \E j \in 1..Len(d) : PlaceOf(c, y) = m[j]
    <3>1. PartBy(c, d, m)
      BY <2>3, <2>4, <2>5, <2>6, <2>7 DEF PartBy
    <3> QED
      BY <3>1, PartOfCache
  <2>9. ~InfoCached(d, x)
    BY <2>5, <2>8 DEF i
  <2> QED
    BY <1>2, <2>7, <2>8, <2>9 DEF WithoutInfo, d, i
<1> QED
  BY <1>1, <1>2

\* The oldest entry goes.
LEMMA TailEffect ==
  ASSUME NEW c, CacheOK(c), Len(c) # 0
  PROVE  CacheOK(Tail(c)) /\ Shrunk(c, Tail(c)) /\ Len(Tail(c)) < CacheCapacity
<1> DEFINE d == Tail(c)
           m == [j \in 1..Len(d) |-> j + 1]
<1>1. c \in Seq(CacheEntry) /\ Len(c) <= CacheCapacity /\ Len(c) \in Nat
  BY DEF CacheOK
<1>2. /\ d \in Seq(CacheEntry) /\ Len(d) = Len(c) - 1
      /\ \A j \in 1..Len(c) - 1 : d[j] = c[j + 1]
  BY <1>1
<1> HIDE DEF d
<1>3. m \in [1..Len(d) -> 1..Len(c)]
  BY <1>1, <1>2
<1>4. \A j \in 1..Len(d) : d[j] = c[m[j]]
  BY <1>1, <1>2
<1>5. \A j, k \in 1..Len(d) : m[j] = m[k] => j = k
  BY <1>1, <1>2
<1>6. Len(d) <= Len(c) /\ Len(d) < CacheCapacity
  BY <1>1, <1>2, BoundsAssumption
<1> HIDE DEF m
<1>7. PartBy(c, d, m)
  BY <1>2, <1>3, <1>4, <1>5, <1>6 DEF PartBy
<1>8. CacheOK(d) /\ Shrunk(c, d)
  BY <1>7, PartOfCache
<1> QED
  BY <1>6, <1>8 DEF d

\* A new entry comes last.
LEMMA AppendEffect ==
  ASSUME NEW c, CacheOK(c), Len(c) < CacheCapacity, NEW x \in Path,
         ~InfoCached(c, x), NEW info \in Hash \cup {NoRow}
  PROVE  LET d == Append(c, [path |-> x, info |-> info])
         IN  /\ CacheOK(d)
             /\ \A y \in Path : InfoCached(d, y) =>
                  \/ y = x /\ CachedInfo(d, y) = info
                  \/ InfoCached(c, y) /\ CachedInfo(d, y) = CachedInfo(c, y)
<1> DEFINE e == [path |-> x, info |-> info]
           d == Append(c, e)
<1>1. c \in Seq(CacheEntry) /\ Len(c) \in Nat /\ DOMAIN c = 1..Len(c)
  BY DEF CacheOK
<1>2. e \in CacheEntry /\ e.path = x /\ e.info = info
  BY DEF CacheEntry
<1> HIDE DEF e
<1>3. /\ d \in Seq(CacheEntry) /\ Len(d) = Len(c) + 1
      /\ d[Len(d)] = e
      /\ \A i \in 1..Len(c) : d[i] = c[i]
  BY <1>1, <1>2
<1> HIDE DEF d
<1>4. \A i \in 1..Len(c) : c[i].path # x
  BY <1>1 DEF InfoCached
<1>5. CacheOK(d)
  <2>1. ASSUME NEW i \in 1..Len(d), NEW j \in 1..Len(d),
               d[i].path = d[j].path, i < j
        PROVE  FALSE
    <3>1. i \in 1..Len(c)
      BY <1>1, <1>3, <2>1
    <3>2. CASE j = Len(d)
      BY <1>2, <1>3, <1>4, <2>1, <3>1, <3>2
    <3>3. CASE j # Len(d)
      <4>1. j \in 1..Len(c)
        BY <1>1, <1>3, <3>3
      <4> QED
        BY <1>3, <2>1, <3>1, <4>1 DEF CacheOK
    <3> QED
      BY <3>2, <3>3
  <2> QED
    BY <1>1, <1>3, <2>1, BoundsAssumption DEF CacheOK
<1>6. ASSUME NEW y \in Path, InfoCached(d, y)
      PROVE  \/ y = x /\ CachedInfo(d, y) = info
             \/ InfoCached(c, y) /\ CachedInfo(d, y) = CachedInfo(c, y)
  <2>1. PICK i \in 1..Len(d) : d[i].path = y
    BY <1>5, <1>6, PlaceOfCached
  <2>2. CachedInfo(d, y) = d[i].info
    BY <1>5, <2>1, OnePlace
  <2>3. CASE i = Len(d)
    BY <1>2, <1>3, <2>1, <2>2, <2>3
  <2>4. CASE i # Len(d)
    <3>1. i \in 1..Len(c) /\ c[i] = d[i]
      BY <1>1, <1>3, <2>4
    <3> QED
      BY <2>1, <2>2, <3>1, OnePlace
  <2> QED
    BY <2>3, <2>4
<1> QED
  BY <1>5, <1>6 DEF d, e

\* upsert(): a cache remains a cache; it has the new info for x, if any, and
\* for other paths what it had.
LEMMA UpsertEffect ==
  ASSUME NEW c, CacheOK(c), NEW x \in Path, NEW info \in Hash \cup {NoRow}
  PROVE  LET d == UpsertInfo(c, x, info)
         IN  /\ CacheOK(d)
             /\ \A y \in Path : InfoCached(d, y) =>
                  \/ y = x /\ CachedInfo(d, y) = info
                  \/ /\ y # x /\ InfoCached(c, y)
                     /\ CachedInfo(d, y) = CachedInfo(c, y)
<1> DEFINE kept == WithoutInfo(c, x)
           room == IF Len(kept) >= CacheCapacity THEN Tail(kept) ELSE kept
<1>1. CASE CacheCapacity = 0
  <2>1. c \in Seq(CacheEntry) /\ Len(c) = 0
    BY <1>1 DEF CacheOK
  <2>2. \A y \in Path : ~InfoCached(c, y)
    BY <2>1 DEF InfoCached
  <2> QED
    BY <1>1, <2>2 DEF UpsertInfo
<1>2. CASE CacheCapacity # 0
  <2>1. CacheOK(kept) /\ Shrunk(c, kept) /\ ~InfoCached(kept, x)
    BY WithoutEffect
  <2>2. Len(kept) \in Nat
    BY <2>1 DEF CacheOK
  <2> HIDE DEF kept
  <2>3. CacheOK(room) /\ Shrunk(kept, room) /\ Len(room) < CacheCapacity
    <3>1. CASE Len(kept) >= CacheCapacity
      BY <1>2, <2>1, <2>2, <3>1, TailEffect, BoundsAssumption
    <3>2. CASE ~(Len(kept) >= CacheCapacity)
      BY <2>1, <2>2, <3>2, BoundsAssumption DEF Shrunk
    <3> QED
      BY <3>1, <3>2
  <2> HIDE DEF room
  <2>4. ~InfoCached(room, x)
    BY <2>1, <2>3 DEF Shrunk
  <2>5. UpsertInfo(c, x, info) = Append(room, [path |-> x, info |-> info])
    BY <1>2 DEF UpsertInfo, kept, room
  <2>6. LET d == Append(room, [path |-> x, info |-> info])
        IN  /\ CacheOK(d)
            /\ \A y \in Path : InfoCached(d, y) =>
                 \/ y = x /\ CachedInfo(d, y) = info
                 \/ InfoCached(room, y) /\ CachedInfo(d, y) = CachedInfo(room, y)
    BY <2>3, <2>4, AppendEffect
  <2> QED
    BY <2>1, <2>3, <2>5, <2>6 DEF Shrunk
<1> QED
  BY <1>1, <1>2

\* promote(): the same entries.
LEMMA PromoteEffect ==
  ASSUME NEW c, CacheOK(c), NEW x \in Path, InfoCached(c, x)
  PROVE  CacheOK(PromoteInfo(c, x)) /\ Shrunk(c, PromoteInfo(c, x))
<1> DEFINE kept == WithoutInfo(c, x)
           info == CachedInfo(c, x)
<1>1. /\ CacheOK(kept) /\ Shrunk(c, kept) /\ ~InfoCached(kept, x)
      /\ Len(kept) < CacheCapacity
  BY WithoutEffect
<1>2. info \in Hash \cup {NoRow}
  BY PlaceOfCached
<1> HIDE DEF kept
<1>3. LET d == Append(kept, [path |-> x, info |-> info])
      IN  /\ CacheOK(d)
          /\ \A y \in Path : InfoCached(d, y) =>
               \/ y = x /\ CachedInfo(d, y) = info
               \/ InfoCached(kept, y) /\ CachedInfo(d, y) = CachedInfo(kept, y)
  BY <1>1, <1>2, AppendEffect
<1> QED
  BY <1>1, <1>3 DEF PromoteInfo, Shrunk, kept

-----------------------------------------------------------------------------
(* What a step leaves alone.                                               *)

\* The pc of an operation tells which one it is.
LEMMA OpKinds ==
  ASSUME NEW o \in OpType
  PROVE  /\ o.pc = "idle" => o \in RestOp
         /\ o.pc = "row" => o \in RegisterOp
         /\ o.pc \in {"check", "delete"} => o \in InvalidateOp
         /\ o.pc \in {"begin", "commit"} => o \in RegisterOp \cup InvalidateOp
         /\ o.pc = "query" => o \in QueryOp
         /\ o.pc = "fill" => o \in FillOp
         /\ o.pc \in {"list", "visit"} => o \in VerifyOp
  BY DEF OpType, RestOp, RegisterOp, InvalidateOp, QueryOp, FillOp, VerifyOp

\* A thread that takes no step keeps what it relies on, if its transaction
\* stays the same and the rows it may have read change with its doubts.
LEMMA ThreadFrame ==
  ASSUME TypeInv, NEW u \in DbThread, ThreadPart(u),
         op'[u] = op[u], disk' = disk,
         (mutex'[HandleOf[u]] = u) <=> (mutex[HandleOf[u]] = u),
         mutex[HandleOf[u]] = u => txn'[HandleOf[u]] = txn[HandleOf[u]],
         doubt[HandleOf[u]] \subseteq doubt'[HandleOf[u]],
         op[u].pc = "fill" =>
           \/ (rows'[op[u].path] = NoRow) <=> (rows[op[u].path] = NoRow)
           \/ op[u].path \in doubt'[HandleOf[u]]
  PROVE  ThreadPart(u)'
<1>1. op[u].pc \in {"row", "delete"} => mutex[HandleOf[u]] = u
  BY DEF ThreadPart, Holding
<1> QED
  BY <1>1 DEF ThreadPart

\* The holder of a mutex is a thread of its handle in a transaction.
LEMMA Holder ==
  ASSUME TypeInv, NEW h \in Handle, TxnPart(h), mutex[h] # Nobody,
         \A t \in DbThread : ThreadPart(t)
  PROVE  /\ mutex[h] \in DbThread
         /\ HandleOf[mutex[h]] = h
         /\ op[mutex[h]].pc \in Holding
<1>1. mutex[h] \in DbThread /\ HandleOf[mutex[h]] = h
  BY DEF TypeInv, TxnPart
<1> QED
  BY <1>1 DEF ThreadPart

\* A transaction that nobody works in keeps its part, if the rows' validity
\* stays the same.
LEMMA TxnFrame ==
  ASSUME TypeInv, NEW k \in Handle, TxnPart(k),
         txn'[k] = txn[k], mutex'[k] = mutex[k],
         (writer' = k) <=> (writer = k),
         \A x \in Path : (rows'[x] = NoRow) <=> (rows[x] = NoRow),
         mutex[k] # Nobody => op'[mutex[k]] = op[mutex[k]]
  PROVE  TxnPart(k)'
  BY DEF TxnPart, Closed, NoTxn

\* A cache that loses entries at most keeps its part, if the rows' validity
\* and the transaction stay the same.
LEMMA CacheFrame ==
  ASSUME TypeInv, NEW k \in Handle, CachePart(k),
         CacheOK(cache'[k]), Shrunk(cache[k], cache'[k]),
         txn'[k] = txn[k], doubt[k] \subseteq doubt'[k],
         \A x \in Path : (rows'[x] = NoRow) <=> (rows[x] = NoRow)
  PROVE  CachePart(k)'
<1>1. \A x \in Path : InfoCached(cache'[k], x) =>
        InfoCached(cache[k], x) /\ CachedInfo(cache'[k], x) = CachedInfo(cache[k], x)
  BY DEF Shrunk
<1> QED
  BY <1>1 DEF CachePart

\* A cache is part of itself.
LEMMA ShrunkSame ==
  ASSUME NEW c
  PROVE  Shrunk(c, c)
  BY DEF Shrunk

\* A step of t in which only its own operation and the caches change, outside
\* of a transaction.
LEMMA LocalStep ==
  ASSUME IInv, NEW t \in DbThread, NEW o \in OpType,
         op' = [op EXCEPT ![t] = o],
         op[t].pc \notin Holding,
         ops' \in [DbThread -> 0..MaxOps],
         UNCHANGED <<rows, drefs, disk, txn, writer, mutex, doubt>>,
         DOMAIN cache' = Handle,
         \A k \in Handle : CacheOK(cache'[k]) /\ Shrunk(cache[k], cache'[k]),
         ThreadPart(t)'
  PROVE  IInv'
<1> USE DEF IInv
<1>1. TypeInv'
  BY DEF TypeInv
<1>2. op'[t] = o /\ \A u \in DbThread \ {t} : op'[u] = op[u]
  BY DEF TypeInv
<1>3. \A u \in DbThread \ {t} : ThreadPart(u)'
  BY <1>2, ThreadFrame
<1>4. ASSUME NEW k \in Handle
      PROVE  TxnPart(k)' /\ CachePart(k)'
  <2>1. mutex[k] # Nobody => op'[mutex[k]] = op[mutex[k]]
    BY <1>2, Holder
  <2>2. TxnPart(k)'
    BY <2>1, TxnFrame
  <2>3. CachePart(k)'
    BY CacheFrame
  <2> QED
    BY <2>2, <2>3
<1>5. Closed(drefs, rows)'
  BY DEF Closed
<1> QED
  BY <1>1, <1>3, <1>4, <1>5

-----------------------------------------------------------------------------
(* Steps outside of a transaction.                                         *)

\* The bound on operations.
LEMMA StartsOpType ==
  ASSUME TypeInv, NEW t \in DbThread, StartsOp(t)
  PROVE  ops' \in [DbThread -> 0..MaxOps]
<1>1. ops[t] \in 0..MaxOps /\ ops[t] < MaxOps
  BY DEF TypeInv, StartsOp
<1>2. ops[t] + 1 \in 0..MaxOps
  BY <1>1, BoundsAssumption
<1> QED
  BY <1>2 DEF TypeInv, StartsOp

\* The caches of a step that leaves them alone.
LEMMA SameCaches ==
  ASSUME IInv, cache' = cache
  PROVE  /\ DOMAIN cache' = Handle
         /\ \A k \in Handle : CacheOK(cache'[k]) /\ Shrunk(cache[k], cache'[k])
  BY ShrunkSame DEF IInv, TypeInv, CachePart

\* An invalidation begins; nothing is read yet.
LEMMA StartInvalidateStep ==
  ASSUME IInv, NEW t \in DbThread, StartInvalidate(t)
  PROVE  IInv'
<1>1. PICK x \in Path :
        op' = [op EXCEPT ![t] = [pc |-> "begin", what |-> "invalidate",
                                 path |-> x, all |-> {x}, todo |-> {x}]]
  BY DEF StartInvalidate
<1> DEFINE o == [pc |-> "begin", what |-> "invalidate",
                 path |-> x, all |-> {x}, todo |-> {x}]
<1>2. o \in OpType
  BY DEF OpType, InvalidateOp
<1>3. op[t].pc = "idle" /\ op'[t] = o
  BY <1>1 DEF StartInvalidate, StartsOp, IInv, TypeInv
<1>4. ThreadPart(t)'
  BY <1>3 DEF ThreadPart, Holding, IInv, StartInvalidate
<1>5. ops' \in [DbThread -> 0..MaxOps]
  BY StartsOpType DEF IInv, StartInvalidate
<1>6. UNCHANGED <<rows, drefs, disk, txn, writer, mutex, cache, doubt>>
  BY DEF StartInvalidate
<1> HIDE DEF o
<1>7. op' = [op EXCEPT ![t] = o]
  BY <1>1 DEF o
<1> QED
  BY <1>2, <1>3, <1>4, <1>5, <1>6, <1>7, SameCaches, LocalStep DEF Holding

\* The store directory is listed.
LEMMA StartVerifyStep ==
  ASSUME IInv, NEW t \in DbThread, StartVerify(t)
  PROVE  IInv'
<1> DEFINE o == [pc |-> "list", listing |-> {x \in Path : disk[x] # NoRow},
                 fresh |-> {}, todo |-> {}, done |-> {}, found |-> {},
                 stack |-> <<>>, errors |-> FALSE]
<1>1. op' = [op EXCEPT ![t] = o]
  BY DEF StartVerify
<1>2. o \in OpType
  BY DEF OpType, VerifyOp
<1>3. op[t].pc = "idle" /\ op'[t] = o
  BY <1>1 DEF StartVerify, StartsOp, IInv, TypeInv
<1>4. ThreadPart(t)'
  BY <1>3 DEF ThreadPart, Holding, IInv, StartVerify
<1>5. ops' \in [DbThread -> 0..MaxOps]
  BY StartsOpType DEF IInv, StartVerify
<1>6. UNCHANGED <<rows, drefs, disk, txn, writer, mutex, cache, doubt>>
  BY DEF StartVerify
<1> HIDE DEF o
<1> QED
  BY <1>1, <1>2, <1>3, <1>4, <1>5, <1>6, SameCaches, LocalStep DEF Holding

\* Either the cache answers, or the table will be asked.
LEMMA StartQueryStep ==
  ASSUME IInv, NEW t \in DbThread, StartQuery(t)
  PROVE  IInv'
<1> DEFINE h == HandleOf[t]
<1>1. /\ op[t].pc = "idle" /\ op[t] \in OpType /\ h \in Handle
      /\ ops' \in [DbThread -> 0..MaxOps]
      /\ UNCHANGED <<rows, drefs, disk, txn, writer, mutex, doubt>>
  BY StartsOpType, HandlesAssumption DEF IInv, TypeInv, StartQuery, StartsOp
<1>2. PICK x \in Path :
        IF InfoCached(cache[h], x)
        THEN /\ cache' = [cache EXCEPT ![h] = PromoteInfo(@, x)]
             /\ UNCHANGED op
        ELSE /\ op' = [op EXCEPT ![t] = [pc |-> "query", path |-> x]]
             /\ UNCHANGED cache
  BY DEF StartQuery
<1>3. CASE InfoCached(cache[h], x)
  <2>1. op' = [op EXCEPT ![t] = op[t]] /\ op'[t] = op[t]
    BY <1>2, <1>3 DEF IInv, TypeInv
  <2>2. ThreadPart(t)'
    BY <1>1, <2>1 DEF ThreadPart, IInv
  <2>3. DOMAIN cache' = Handle
    BY <1>2, <1>3 DEF IInv, TypeInv
  <2>4. ASSUME NEW k \in Handle
        PROVE  CacheOK(cache'[k]) /\ Shrunk(cache[k], cache'[k])
    <3>1. CacheOK(cache[k])
      BY DEF IInv, CachePart
    <3>2. CASE k = h
      BY <1>2, <1>3, <3>1, <3>2, PromoteEffect DEF IInv, TypeInv
    <3>3. CASE k # h
      BY <1>2, <1>3, <3>1, <3>3, ShrunkSame DEF IInv, TypeInv
    <3> QED
      BY <3>2, <3>3
  <2> QED
    BY <1>1, <2>1, <2>2, <2>3, <2>4, LocalStep DEF Holding
<1>4. CASE ~InfoCached(cache[h], x)
  <2> DEFINE o == [pc |-> "query", path |-> x]
  <2>1. op' = [op EXCEPT ![t] = o] /\ cache' = cache
    BY <1>2, <1>4
  <2>2. o \in OpType
    BY DEF OpType, QueryOp
  <2>3. op'[t] = o
    BY <2>1 DEF IInv, TypeInv
  <2>4. ThreadPart(t)'
    BY <1>1, <2>3 DEF ThreadPart, Holding, IInv
  <2> HIDE DEF o
  <2> QED
    BY <1>1, <2>1, <2>2, <2>4, SameCaches, LocalStep DEF Holding
<1> QED
  BY <1>3, <1>4

\* The row is read while nobody of this process is in a transaction.
LEMMA QueryUncachedStep ==
  ASSUME IInv, NEW t \in DbThread, QueryUncached(t)
  PROVE  IInv'
<1> DEFINE o == [pc |-> "fill", path |-> op[t].path, info |-> rows[op[t].path]]
<1>1. op' = [op EXCEPT ![t] = o]
  BY DEF QueryUncached
<1>2. op[t].pc = "query" /\ op[t] \in QueryOp
  BY OpKinds DEF QueryUncached, IInv, TypeInv
<1>3. o \in OpType
  BY <1>2 DEF OpType, FillOp, QueryOp, IInv, TypeInv
<1>4. op'[t] = o
  BY <1>1 DEF IInv, TypeInv
<1>5. UNCHANGED <<rows, drefs, disk, txn, writer, mutex, cache, ops, doubt>>
  BY DEF QueryUncached
<1>6. ThreadPart(t)'
  BY <1>2, <1>4, <1>5 DEF ThreadPart, Holding, IInv
<1> HIDE DEF o
<1>7. ops' \in [DbThread -> 0..MaxOps]
  BY <1>5 DEF IInv, TypeInv
<1> QED
  BY <1>1, <1>2, <1>3, <1>5, <1>6, <1>7, SameCaches, LocalStep DEF Holding

\* The rows that will be compared with the listing are read.
LEMMA QueryAllValidPathsStep ==
  ASSUME IInv, NEW t \in DbThread, QueryAllValidPaths(t)
  PROVE  IInv'
<1> DEFINE o == [op[t] EXCEPT !.pc = "visit", !.todo = Valid(rows)]
<1>1. op[t].pc = "list" /\ op[t] \in VerifyOp
  BY OpKinds DEF QueryAllValidPaths, IInv, TypeInv
<1>2. op' = [op EXCEPT ![t] = o]
  BY <1>1 DEF QueryAllValidPaths, IInv, TypeInv
<1>3. o \in VerifyOp
  BY <1>1 DEF VerifyOp, Valid
<1>4. op'[t] = o
  BY <1>2 DEF IInv, TypeInv
<1>5. UNCHANGED <<rows, drefs, disk, txn, writer, mutex, cache, ops, doubt>>
  BY DEF QueryAllValidPaths
<1>6. /\ o.pc = "visit" /\ o.stack = op[t].stack
      /\ o.listing = op[t].listing /\ o.fresh = op[t].fresh
  BY <1>1 DEF VerifyOp
<1> HIDE DEF o
<1>7. ThreadPart(t)'
  BY <1>1, <1>4, <1>5, <1>6 DEF ThreadPart, Holding, IInv
<1>8. ops' \in [DbThread -> 0..MaxOps] /\ o \in OpType
  BY <1>3, <1>5 DEF IInv, TypeInv, OpType
<1> QED
  BY <1>1, <1>2, <1>5, <1>7, <1>8, SameCaches, LocalStep DEF Holding

\* A verification goes on: what its listing does not show has still come after
\* it, and what it looks for is still not in the listing.
LEMMA VisitStep ==
  ASSUME IInv, NEW t \in DbThread, NEW o \in VerifyOp,
         op[t].pc = "visit", op' = [op EXCEPT ![t] = o], o.pc = "visit",
         o.listing = op[t].listing, o.fresh = op[t].fresh,
         \A i \in 1..Len(o.stack) : o.stack[i].path \notin o.listing,
         UNCHANGED <<rows, drefs, disk, txn, writer, mutex, cache, ops, doubt>>
  PROVE  IInv'
<1>1. op'[t] = o
  BY DEF IInv, TypeInv
<1>2. ThreadPart(t)'
  BY <1>1 DEF ThreadPart, Holding, IInv
<1>3. ops' \in [DbThread -> 0..MaxOps] /\ o \in OpType
  BY DEF IInv, TypeInv, OpType
<1> QED
  BY <1>2, <1>3, SameCaches, LocalStep DEF Holding

\* A path that the listing does not show is put on the stack.
LEMMA VerifyPathStep ==
  ASSUME IInv, NEW t \in DbThread, VerifyPath(t)
  PROVE  IInv'
<1>1. op[t].pc = "visit" /\ op[t] \in VerifyOp
  BY OpKinds DEF VerifyPath, IInv, TypeInv
<1>2. PICK o \in VerifyOp : o = op[t]
  BY <1>1
<1>3. /\ o.stack \in Seq(Frame) /\ o.listing \in SUBSET Path
      /\ o.done \in SUBSET Path /\ o.todo \in SUBSET Path
      /\ o.found \in SUBSET Path /\ o.pc = "visit"
      /\ \A i \in 1..Len(o.stack) : o.stack[i].path \notin o.listing
  BY <1>1, <1>2 DEF VerifyOp, IInv, ThreadPart
<1> DEFINE n == Len(o.stack)
           popped(x) == IF o.stack = <<>>
                        THEN [o EXCEPT !.todo = @ \ {x}]
                        ELSE [o EXCEPT !.stack[n].todo = @ \ {x}]
           frame(x)  == [path |-> x, referrers |-> Referrers(drefs, x) \ {x},
                         todo |-> Referrers(drefs, x) \ {x}]
           next(x)   == IF x \in o.done THEN popped(x)
                        ELSE IF ExistsInStoreDir(o, x)
                             THEN [popped(x) EXCEPT !.done = @ \cup {x},
                                                    !.found = @ \cup {x}]
                             ELSE [popped(x) EXCEPT !.done = @ \cup {x},
                                                    !.stack = Append(@, frame(x))]
<1>4. PICK x \in NextToVisit(o) : op' = [op EXCEPT ![t] = next(x)]
  BY <1>2 DEF VerifyPath
<1>5. x \in Path
  <2>1. CASE o.stack = <<>>
    BY <1>3, <1>4, <2>1 DEF NextToVisit
  <2>2. CASE o.stack # <<>>
    <3>1. Last(o.stack) \in Frame
      BY <1>3, <2>2 DEF Last
    <3> QED
      BY <1>4, <2>2, <3>1 DEF NextToVisit, Frame
  <2> QED
    BY <2>1, <2>2
<1>6. frame(x) \in Frame /\ frame(x).path = x
  BY <1>5 DEF Frame, Referrers, IInv, TypeInv
<1>7. /\ popped(x) \in VerifyOp
      /\ popped(x).pc = "visit" /\ popped(x).listing = o.listing
      /\ popped(x).fresh = o.fresh
      /\ \A i \in 1..Len(popped(x).stack) : popped(x).stack[i].path \notin o.listing
  <2>1. CASE o.stack = <<>>
    BY <1>3, <2>1 DEF VerifyOp
  <2>2. CASE o.stack # <<>>
    <3> DEFINE f == [o.stack[n] EXCEPT !.todo = @ \ {x}]
               s == [o.stack EXCEPT ![n] = f]
    <3>1. n \in 1..Len(o.stack) /\ o.stack[n] \in Frame
      BY <1>3, <2>2
    <3>2. f \in Frame /\ f.path = o.stack[n].path
      BY <3>1 DEF Frame
    <3> HIDE DEF f, n
    <3>3. /\ s \in Seq(Frame) /\ Len(s) = Len(o.stack)
          /\ \A i \in 1..Len(s) : s[i].path = o.stack[i].path
      BY <1>3, <3>1, <3>2
    <3>4. popped(x) = [o EXCEPT !.stack = s]
      BY <2>2, <3>1 DEF f, n
    <3> HIDE DEF s
    <3> QED
      BY <1>3, <3>3, <3>4 DEF VerifyOp
  <2> QED
    BY <2>1, <2>2
<1> HIDE DEF popped, frame
<1>8. /\ next(x) \in VerifyOp
      /\ next(x).pc = "visit" /\ next(x).listing = o.listing
      /\ next(x).fresh = o.fresh
      /\ \A i \in 1..Len(next(x).stack) : next(x).stack[i].path \notin o.listing
  <2>1. CASE x \in o.done
    BY <1>7, <2>1
  <2>2. CASE x \notin o.done /\ ExistsInStoreDir(o, x)
    BY <1>5, <1>7, <2>2 DEF VerifyOp
  <2>3. CASE x \notin o.done /\ ~ExistsInStoreDir(o, x)
    <3> DEFINE s == Append(popped(x).stack, frame(x))
    <3>1. popped(x).stack \in Seq(Frame) /\ x \notin o.listing
      BY <1>7, <2>3 DEF VerifyOp, ExistsInStoreDir
    <3>2. s \in Seq(Frame) /\ \A i \in 1..Len(s) : s[i].path \notin o.listing
      BY <1>6, <1>7, <3>1
    <3>3. next(x) = [popped(x) EXCEPT !.done = @ \cup {x}, !.stack = s]
      BY <2>3
    <3> HIDE DEF s, next
    <3>4. PICK q \in VerifyOp : q = popped(x)
      BY <1>7
    <3>5. PICK d \in SUBSET Path : next(x) = [q EXCEPT !.done = d, !.stack = s]
      <4>1. q.done \cup {x} \in SUBSET Path
        BY <1>5 DEF VerifyOp
      <4> QED
        BY <3>3, <3>4, <4>1
    <3>6. next(x) \in VerifyOp /\ next(x).stack = s
      <4>1. s \in Seq(Frame)
        BY <3>2
      <4> QED
        BY <3>5, <4>1 DEF VerifyOp
    <3>7. /\ next(x).pc = q.pc /\ next(x).listing = q.listing
          /\ next(x).fresh = q.fresh
      BY <3>5 DEF VerifyOp
    <3> QED
      BY <1>7, <3>2, <3>4, <3>6, <3>7
  <2> QED
    BY <2>1, <2>2, <2>3
<1> HIDE DEF next
<1>9. UNCHANGED <<rows, drefs, disk, txn, writer, mutex, cache, ops, doubt>>
  BY DEF VerifyPath
<1> QED
  BY <1>1, <1>2, <1>4, <1>8, <1>9, VisitStep

\* The paths of a batch are paths.
LEMMA BatchPaths ==
  ASSUME NEW b \in Batches
  PROVE  /\ DOMAIN b \in SUBSET Path
         /\ \A x \in DOMAIN b : b[x] \in [refs : SUBSET Path, ca : BOOLEAN]
<1>1. PICK S \in SUBSET Path : b \in [S -> [refs : SUBSET Path, ca : BOOLEAN]]
  BY BatchesAssumption DEF BatchType
<1> QED
  BY <1>1

\* New store objects are fresh to every verification under way.
LEMMA StartRegisterStep ==
  ASSUME IInv, NEW t \in DbThread, StartRegister(t)
  PROVE  IInv'
<1> USE DEF IInv
<1>1. PICK b \in Batches :
        LET new == {x \in DOMAIN b : disk[x] = NoRow}
        IN  /\ op' = [u \in DbThread |->
                        IF u = t
                        THEN [pc |-> "begin", what |-> "register", batch |-> b,
                              all |-> DOMAIN b, todo |-> DOMAIN b]
                        ELSE IF op[u].pc \in {"list", "visit"}
                             THEN [op[u] EXCEPT !.fresh = @ \cup new]
                             ELSE op[u]]
            /\ disk' = [x \in Path |-> IF x \in new THEN "good" ELSE disk[x]]
  BY DEF StartRegister
<1> DEFINE new == {x \in DOMAIN b : disk[x] = NoRow}
           o == [pc |-> "begin", what |-> "register", batch |-> b,
                 all |-> DOMAIN b, todo |-> DOMAIN b]
<1>2. new \in SUBSET Path /\ o \in RegisterOp
  BY BatchPaths DEF RegisterOp
<1>3. disk' = [x \in Path |-> IF x \in new THEN "good" ELSE disk[x]]
  BY <1>1
<1>4. op' = [u \in DbThread |->
               IF u = t THEN o
               ELSE IF op[u].pc \in {"list", "visit"}
                    THEN [op[u] EXCEPT !.fresh = @ \cup new] ELSE op[u]]
  BY <1>1
<1>5. o.pc = "begin" /\ o.todo = o.all /\ op[t].pc = "idle"
  BY DEF StartRegister, StartsOp
<1> HIDE DEF new, o
<1>6. UNCHANGED <<rows, drefs, txn, writer, mutex, cache, doubt>>
  BY DEF StartRegister
<1>7. op'[t] = o
  BY <1>4
<1>8. ASSUME NEW u \in DbThread, u # t, op[u].pc \in {"list", "visit"}
      PROVE  /\ op'[u] \in VerifyOp
             /\ op'[u].pc = op[u].pc /\ op'[u].fresh = op[u].fresh \cup new
             /\ op'[u].listing = op[u].listing /\ op'[u].stack = op[u].stack
  <2>1. PICK q \in VerifyOp : q = op[u]
    BY <1>8, OpKinds DEF TypeInv
  <2>2. op'[u] = [q EXCEPT !.fresh = @ \cup new]
    BY <1>4, <1>8, <2>1
  <2> QED
    BY <1>2, <2>1, <2>2 DEF VerifyOp
<1>9. ASSUME NEW u \in DbThread, u # t, op[u].pc \notin {"list", "visit"}
      PROVE  op'[u] = op[u]
  BY <1>4, <1>9
<1>10. TypeInv'
  <2>1. \A u \in DbThread : op'[u] \in OpType
    BY <1>2, <1>7, <1>8, <1>9 DEF TypeInv, OpType
  <2>2. op' \in [DbThread -> OpType]
    BY <1>4, <2>1
  <2>3. disk' \in [Path -> OnDisk]
    BY <1>2, <1>3 DEF TypeInv, OnDisk
  <2>4. ops' \in [DbThread -> 0..MaxOps]
    BY StartsOpType DEF StartRegister
  <2> QED
    BY <1>6, <2>2, <2>3, <2>4 DEF TypeInv
<1>11. ASSUME NEW u \in DbThread
       PROVE  ThreadPart(u)'
  <2>1. CASE u = t
    BY <1>5, <1>6, <1>7, <2>1 DEF ThreadPart, Holding
  <2>2. CASE u # t /\ op[u].pc \in {"list", "visit"}
    <3>1. \A x \in Path : disk'[x] # NoRow => x \in new \/ disk[x] # NoRow
      BY <1>3
    <3> QED
      BY <1>6, <1>8, <2>2, <3>1 DEF ThreadPart, Holding
  <2>3. CASE u # t /\ op[u].pc \notin {"list", "visit"}
    BY <1>6, <1>9, <2>3 DEF ThreadPart
  <2> QED
    BY <2>1, <2>2, <2>3
<1>12. ASSUME NEW k \in Handle
       PROVE  TxnPart(k)' /\ CachePart(k)'
  <2>1. mutex[k] # Nobody => op'[mutex[k]] = op[mutex[k]]
    BY <1>5, <1>9, Holder DEF Holding
  <2>2. TxnPart(k)'
    BY <1>6, <2>1, TxnFrame
  <2>3. CachePart(k)'
    BY <1>6, SameCaches, CacheFrame
  <2> QED
    BY <2>2, <2>3
<1> QED
  BY <1>6, <1>10, <1>11, <1>12 DEF Closed

\* The answer of the table goes into the cache, in doubt if a transaction has
\* begun in the meantime.
LEMMA FillCacheStep ==
  ASSUME IInv, NEW t \in DbThread, FillCache(t)
  PROVE  IInv'
<1> USE DEF IInv
<1> DEFINE h == HandleOf[t]
           x == op[t].path
<1>1. op[t].pc = "fill" /\ op[t] \in FillOp /\ h \in Handle
  BY OpKinds, HandlesAssumption DEF FillCache, TypeInv
<1>2. x \in Path /\ op[t].info \in Hash \cup {NoRow}
  BY <1>1 DEF FillOp
<1>3. /\ op' = [op EXCEPT ![t] = Resting]
      /\ UNCHANGED <<rows, drefs, disk, txn, writer, mutex, ops>>
      /\ cache' = [cache EXCEPT ![h] = UpsertInfo(@, x, op[t].info)]
      /\ doubt' = IF txn[h].on THEN [doubt EXCEPT ![h] = @ \cup {x}] ELSE doubt
  BY DEF FillCache
<1> HIDE DEF h, x
<1>4. Resting \in RestOp /\ Resting.pc = "idle"
  BY DEF Resting, RestOp
<1>5. /\ op'[t] = Resting
      /\ \A u \in DbThread \ {t} : op'[u] = op[u]
      /\ \A k \in Handle : doubt[k] \subseteq doubt'[k]
      /\ \A k \in Handle \ {h} : cache'[k] = cache[k]
      /\ cache'[h] = UpsertInfo(cache[h], x, op[t].info)
      /\ txn[h].on => x \in doubt'[h]
  BY <1>1, <1>3 DEF TypeInv
<1>6. TypeInv'
  BY <1>1, <1>2, <1>3, <1>4 DEF TypeInv, OpType
<1>7. ASSUME NEW u \in DbThread
      PROVE  ThreadPart(u)'
  <2>1. CASE u = t
    BY <1>1, <1>3, <1>4, <1>5, <2>1 DEF ThreadPart, Holding
  <2>2. CASE u # t
    BY <1>3, <1>5, <2>2, ThreadFrame, HandlesAssumption
  <2> QED
    BY <2>1, <2>2
<1>8. ASSUME NEW k \in Handle
      PROVE  TxnPart(k)'
  <2>1. mutex[k] # Nobody => op'[mutex[k]] = op[mutex[k]]
    BY <1>1, <1>5, Holder DEF Holding
  <2> QED
    BY <1>3, <2>1, TxnFrame
<1>9. ASSUME NEW k \in Handle
      PROVE  CachePart(k)'
  <2>1. CASE k # h
    BY <1>3, <1>5, <2>1, ShrunkSame, CacheFrame DEF CachePart
  <2>2. CASE k = h
    <3>1. /\ CacheOK(cache'[h])
          /\ \A y \in Path : InfoCached(cache'[h], y) =>
               \/ y = x /\ CachedInfo(cache'[h], y) = op[t].info
               \/ /\ InfoCached(cache[h], y)
                  /\ CachedInfo(cache'[h], y) = CachedInfo(cache[h], y)
      BY <1>1, <1>2, <1>5, UpsertEffect DEF CachePart
    <3>2. \/ (op[t].info = NoRow) <=> (rows[x] = NoRow)
          \/ x \in doubt[h]
      BY <1>1 DEF ThreadPart, h, x
    <3> QED
      BY <1>1, <1>2, <1>3, <1>5, <2>2, <3>1, <3>2 DEF CachePart
  <2> QED
    BY <2>1, <2>2
<1> QED
  BY <1>3, <1>6, <1>7, <1>8, <1>9 DEF Closed

-----------------------------------------------------------------------------
(* Steps of a transaction that leave the tables alone.                     *)

\* A step of t that touches only what is its own or its handle's, when nobody
\* else has the handle's mutex.
OnlyOf(t) ==
  LET h == HandleOf[t]
  IN  /\ UNCHANGED <<rows, drefs, disk>>
      /\ \A u \in DbThread \ {t} : op'[u] = op[u]
      /\ \A k \in Handle \ {h} :
           /\ txn'[k] = txn[k] /\ mutex'[k] = mutex[k]
           /\ cache'[k] = cache[k] /\ doubt'[k] = doubt[k]
           /\ (writer' = k) <=> (writer = k)
      /\ doubt[h] \subseteq doubt'[h]
      /\ mutex[h] \in {t, Nobody}
      /\ mutex'[h] \in {t, Nobody}

\* Such a step keeps the invariant if it keeps the parts of t and of its handle.
LEMMA OwnStep ==
  ASSUME IInv, NEW t \in DbThread, TypeInv', OnlyOf(t),
         ThreadPart(t)', TxnPart(HandleOf[t])', CachePart(HandleOf[t])'
  PROVE  IInv'
<1> USE DEF IInv
<1>1. HandleOf \in [DbThread -> Handle] /\ Nobody \notin DbThread
  BY HandlesAssumption, NobodyAssumption
<1>2. ASSUME NEW u \in DbThread, u # t
      PROVE  ThreadPart(u)'
  <2>1. CASE HandleOf[u] = HandleOf[t]
    BY <1>1, <1>2, <2>1, ThreadFrame DEF OnlyOf
  <2>2. CASE HandleOf[u] # HandleOf[t]
    BY <1>1, <1>2, <2>2, ThreadFrame DEF OnlyOf
  <2> QED
    BY <2>1, <2>2
<1>3. ASSUME NEW k \in Handle, k # HandleOf[t]
      PROVE  TxnPart(k)' /\ CachePart(k)'
  <2>1. mutex[k] # Nobody => op'[mutex[k]] = op[mutex[k]]
    BY <1>3, Holder DEF OnlyOf
  <2>2. TxnPart(k)'
    BY <1>3, <2>1, TxnFrame DEF OnlyOf
  <2>3. CachePart(k)'
    BY <1>3, ShrunkSame, CacheFrame DEF OnlyOf, CachePart
  <2> QED
    BY <2>2, <2>3
<1> QED
  BY <1>2, <1>3 DEF OnlyOf, Closed

\* The thread that works in a transaction has the mutex, and its handle's
\* transaction is open.
LEMMA InTransaction ==
  ASSUME IInv, NEW t \in DbThread, op[t].pc \in Holding
  PROVE  /\ HandleOf[t] \in Handle
         /\ mutex[HandleOf[t]] = t
         /\ txn[HandleOf[t]] \in TxnType
         /\ txn[HandleOf[t]].on
         /\ op[t] \in OpType
<1>1. HandleOf[t] \in Handle /\ t # Nobody
  BY HandlesAssumption, NobodyAssumption
<1> QED
  BY <1>1 DEF IInv, TypeInv, ThreadPart, TxnPart

\* A new transaction is a snapshot of the tables.
LEMMA BeginStep ==
  ASSUME IInv, NEW t \in DbThread, Begin(t)
  PROVE  IInv'
<1> USE DEF IInv
<1> DEFINE h == HandleOf[t]
           s == [on |-> TRUE, stale |-> FALSE, rows |-> rows, refs |-> drefs,
                 added |-> {}]
<1>1. /\ op[t].pc = "begin" /\ op[t] \in RegisterOp \cup InvalidateOp
      /\ h \in Handle /\ t # Nobody /\ mutex[h] = Nobody
  BY OpKinds, HandlesAssumption, NobodyAssumption DEF Begin, TypeInv
<1>2. /\ mutex' = [mutex EXCEPT ![h] = t]
      /\ txn' = [txn EXCEPT ![h] = s]
      /\ op' = [op EXCEPT ![t].pc = IF op[t].what = "register" THEN "row"
                                    ELSE "check"]
      /\ UNCHANGED <<rows, drefs, disk, writer, cache, ops, doubt>>
  BY DEF Begin
<1> HIDE DEF h
<1>3. s \in TxnType
  BY DEF TypeInv, TxnType
<1>4. /\ s.on /\ ~s.stale /\ s.rows = rows /\ s.refs = drefs /\ s.added = {}
      /\ s # NoTxn
  BY DEF NoTxn
<1> HIDE DEF s
<1>5. PICK o \in OpType :
        /\ op' = [op EXCEPT ![t] = o]
        /\ \/ /\ o \in RegisterOp /\ o.pc = "row"
              /\ o.all = op[t].all /\ o.todo = op[t].todo
           \/ o \in InvalidateOp /\ o.pc = "check"
  <2>1. CASE op[t] \in RegisterOp
    <3> DEFINE o == [op[t] EXCEPT !.pc = "row"]
    <3>1. /\ o \in RegisterOp /\ o.pc = "row"
          /\ o.all = op[t].all /\ o.todo = op[t].todo
      BY <2>1 DEF RegisterOp
    <3>2. op' = [op EXCEPT ![t] = o]
      BY <1>2, <2>1 DEF RegisterOp, TypeInv
    <3> HIDE DEF o
    <3> QED
      BY <3>1, <3>2 DEF OpType
  <2>2. CASE op[t] \in InvalidateOp
    <3> DEFINE o == [op[t] EXCEPT !.pc = "check"]
    <3>1. o \in InvalidateOp /\ o.pc = "check"
      BY <2>2 DEF InvalidateOp
    <3>2. op' = [op EXCEPT ![t] = o]
      BY <1>2, <2>2 DEF InvalidateOp, TypeInv
    <3> HIDE DEF o
    <3> QED
      BY <3>1, <3>2 DEF OpType
  <2> QED
    BY <1>1, <2>1, <2>2
<1>6. op'[t] = o /\ \A u \in DbThread \ {t} : op'[u] = op[u]
  BY <1>5 DEF TypeInv
<1>7. /\ txn'[h] = s /\ mutex'[h] = t
      /\ \A k \in Handle \ {h} : txn'[k] = txn[k] /\ mutex'[k] = mutex[k]
  BY <1>1, <1>2 DEF TypeInv
<1>8. TypeInv'
  BY <1>1, <1>2, <1>3, <1>5 DEF TypeInv
<1>9. OnlyOf(t)
  BY <1>1, <1>2, <1>6, <1>7 DEF OnlyOf, h
<1>10. writer # h /\ txn[h].added = {}
  BY <1>1 DEF TxnPart
<1>11. TxnPart(h)'
  BY <1>1, <1>2, <1>4, <1>7, <1>10 DEF TxnPart, Closed, h
<1>12. CachePart(h)'
  BY <1>1, <1>2, <1>4, <1>7, <1>10 DEF CachePart
<1>13. ThreadPart(t)'
  <2>1. op[t].todo = op[t].all
    BY <1>1 DEF ThreadPart
  <2> QED
    BY <1>5, <1>6, <1>7, <2>1 DEF ThreadPart, Holding, h
<1> QED
  BY <1>8, <1>9, <1>11, <1>12, <1>13, OwnStep DEF h

\* A transaction that is rolled back leaves its doubts behind.
LEMMA RollbackStep ==
  ASSUME IInv, NEW t \in DbThread, op[t].pc \in Holding,
         NEW o \in OpType, Rollback(t, o), o.pc \in {"idle", "begin"},
         o.pc = "begin" => o.todo = o.all,
         UNCHANGED <<rows, drefs, disk, cache, ops>>
  PROVE  IInv'
<1> USE DEF IInv
<1> DEFINE h == HandleOf[t]
<1>1. /\ h \in Handle /\ mutex[h] = t /\ t # Nobody /\ h # Nobody
      /\ txn[h] \in TxnType
  BY InTransaction, NobodyAssumption
<1>2. /\ txn' = [txn EXCEPT ![h] = NoTxn]
      /\ writer' = IF writer = h THEN Nobody ELSE writer
      /\ mutex' = [mutex EXCEPT ![h] = Nobody]
      /\ doubt' = [doubt EXCEPT ![h] = @ \cup txn[h].added]
      /\ op' = [op EXCEPT ![t] = o]
  BY DEF Rollback
<1> HIDE DEF h
<1>3. /\ NoTxn \in TxnType /\ ~NoTxn.on /\ NoTxn.added = {} /\ NoTxn.refs = {}
  BY DEF NoTxn, TxnType
<1>4. /\ op'[t] = o /\ \A u \in DbThread \ {t} : op'[u] = op[u]
      /\ txn'[h] = NoTxn /\ mutex'[h] = Nobody
      /\ doubt'[h] = doubt[h] \cup txn[h].added
      /\ \A k \in Handle \ {h} : /\ txn'[k] = txn[k] /\ mutex'[k] = mutex[k]
                                 /\ doubt'[k] = doubt[k]
  BY <1>1, <1>2 DEF TypeInv
<1>5. TypeInv'
  BY <1>1, <1>2, <1>3 DEF TypeInv, TxnType
<1>6. OnlyOf(t)
  BY <1>1, <1>2, <1>4, NobodyAssumption DEF OnlyOf, h
<1>7. ThreadPart(t)'
  BY <1>1, <1>4 DEF ThreadPart, Holding, h
<1>8. TxnPart(h)'
  BY <1>1, <1>2, <1>3, <1>4 DEF TxnPart, Closed
<1>9. CachePart(h)'
  BY <1>1, <1>3, <1>4 DEF CachePart
<1> QED
  BY <1>5, <1>6, <1>7, <1>8, <1>9, OwnStep DEF h

\* A resting thread.
LEMMA RestingOp == Resting \in OpType /\ Resting.pc = "idle"
  BY DEF Resting, OpType, RestOp

\* retrySQLite() starts over, with the whole batch to do again.
LEMMA BusyStep ==
  ASSUME IInv, NEW t \in DbThread, Busy(t)
  PROVE  IInv'
<1> DEFINE o == [op[t] EXCEPT !.pc = "begin", !.todo = op[t].all]
<1>1. op[t].pc \in {"row", "delete"} /\ op[t] \in OpType
  BY DEF Busy, IInv, TypeInv
<1>2. op[t] \in RegisterOp \/ op[t] \in InvalidateOp
  BY <1>1, OpKinds
<1>3. o.pc = "begin" /\ o.todo = o.all /\ o \in OpType
  <2>1. CASE op[t] \in RegisterOp
    BY <2>1 DEF RegisterOp, OpType
  <2>2. CASE op[t] \in InvalidateOp
    BY <2>2 DEF InvalidateOp, OpType
  <2> QED
    BY <1>2, <2>1, <2>2
<1>4. Rollback(t, o) /\ UNCHANGED <<rows, drefs, disk, cache, ops>>
  BY DEF Busy
<1> HIDE DEF o
<1> QED
  BY <1>1, <1>3, <1>4, RollbackStep DEF Holding

\* A statement that fails rolls the transaction back.
LEMMA StatementFailsStep ==
  ASSUME IInv, NEW t \in DbThread, StatementFails(t)
  PROVE  IInv'
  BY RestingOp, RollbackStep DEF StatementFails, Holding

\* The referrers are looked up in the transaction the row is deleted in.
LEMMA CheckReferrersStep ==
  ASSUME IInv, NEW t \in DbThread, CheckReferrers(t)
  PROVE  IInv'
<1> USE DEF IInv
<1> DEFINE h == HandleOf[t]
           x == op[t].path
<1>1. /\ op[t].pc = "check" /\ op[t] \in InvalidateOp /\ op[t].pc \in Holding
      /\ UNCHANGED <<rows, drefs, disk, cache, ops>>
  BY OpKinds DEF CheckReferrers, TypeInv, Holding
<1>2. h \in Handle /\ mutex[h] = t /\ t # Nobody /\ txn[h].on
  BY <1>1, InTransaction, NobodyAssumption
<1>3. CASE txn[h].rows[x] # NoRow /\ Referrers(txn[h].refs, x) \ {x} # {}
  BY <1>1, <1>3, RestingOp, RollbackStep DEF CheckReferrers
<1>4. CASE txn[h].rows[x] = NoRow \/ Referrers(txn[h].refs, x) \ {x} = {}
  <2> DEFINE p == IF txn[h].rows[x] = NoRow THEN "commit" ELSE "delete"
             o == [op[t] EXCEPT !.pc = p]
  <2>1. /\ op' = [op EXCEPT ![t].pc = p]
        /\ UNCHANGED <<txn, writer, mutex, doubt>>
    BY <1>4 DEF CheckReferrers
  <2>2. /\ o \in InvalidateOp /\ o.pc \in {"commit", "delete"} /\ o.path = x
        /\ o.pc = "delete" => MayDelete(txn[h].refs, x)
    BY <1>1, <1>4 DEF InvalidateOp, MayDelete
  <2>3. op' = [op EXCEPT ![t] = o] /\ op'[t] = o
    BY <1>1, <2>1 DEF InvalidateOp, TypeInv
  <2> HIDE DEF o, p, h, x
  <2>4. \A u \in DbThread \ {t} : op'[u] = op[u]
    BY <2>3 DEF TypeInv
  <2>5. TypeInv'
    BY <1>1, <2>1, <2>2, <2>3 DEF TypeInv, OpType
  <2>6. OnlyOf(t)
    BY <1>1, <1>2, <2>1, <2>4 DEF OnlyOf, h
  <2>7. ThreadPart(t)'
    BY <1>2, <2>1, <2>2, <2>3 DEF ThreadPart, Holding, h
  <2>8. TxnPart(h)'
    BY <1>1, <1>2, <2>1 DEF TxnPart, Closed, NoTxn
  <2>9. CachePart(h)'
    BY <1>1, <1>2, <2>1, ShrunkSame, CacheFrame DEF CachePart
  <2> QED
    BY <2>5, <2>6, <2>7, <2>8, <2>9, OwnStep DEF h
<1> QED
  BY <1>3, <1>4

\* Nothing refers to the row that goes, so that the transaction stays closed.
LEMMA DeleteRowStep ==
  ASSUME IInv, NEW t \in DbThread, DeleteRow(t)
  PROVE  IInv'
<1> USE DEF IInv
<1> DEFINE h == HandleOf[t]
           x == op[t].path
           s == [txn[h] EXCEPT !.rows = [@ EXCEPT ![x] = NoRow],
                               !.refs = RefsWithout(@, x)]
           o == [op[t] EXCEPT !.pc = "commit"]
<1>1. /\ op[t].pc = "delete" /\ op[t] \in InvalidateOp /\ op[t].pc \in Holding
      /\ UNCHANGED <<rows, drefs, disk, mutex, ops, doubt>>
      /\ MayWrite(h) /\ writer' = h
      /\ cache' = [cache EXCEPT ![h] = Forget(@, x)]
  BY OpKinds DEF DeleteRow, TypeInv, Holding
<1>2. /\ h \in Handle /\ mutex[h] = t /\ t # Nobody /\ h # Nobody
      /\ txn[h] \in TxnType /\ txn[h].on /\ TxnPart(h) /\ x \in Path
  BY <1>1, InTransaction, NobodyAssumption DEF InvalidateOp
<1>3. writer \in {h, Nobody} /\ ~txn[h].stale
  BY <1>1, <1>2 DEF MayWrite, TxnPart
<1>4. txn' = [txn EXCEPT ![h] = s]
  BY <1>2 DEF DeleteRow, TypeInv, TxnType
<1>5. /\ s \in TxnType /\ s.on /\ ~s.stale /\ s.added = txn[h].added
      /\ s.rows = [txn[h].rows EXCEPT ![x] = NoRow]
      /\ s.refs = RefsWithout(txn[h].refs, x)
  <2>1. RefsWithout(txn[h].refs, x) \in SUBSET (Path \X Path)
    BY <1>2 DEF RefsWithout, TxnType
  <2>2. [txn[h].rows EXCEPT ![x] = NoRow] \in [Path -> Hash \cup {NoRow}]
    BY <1>2 DEF TxnType
  <2> QED
    BY <1>2, <1>3, <2>1, <2>2 DEF TxnType
<1>6. /\ o \in InvalidateOp /\ o.pc = "commit" /\ o.path = x
      /\ o.what = "invalidate"
  BY <1>1 DEF InvalidateOp
<1>7. op' = [op EXCEPT ![t] = o]
  BY <1>1 DEF DeleteRow, InvalidateOp, TypeInv
<1> HIDE DEF s, o, h
<1>8. /\ op'[t] = o /\ \A u \in DbThread \ {t} : op'[u] = op[u]
      /\ txn'[h] = s /\ cache'[h] = WithoutInfo(cache[h], x)
      /\ \A k \in Handle \ {h} : txn'[k] = txn[k] /\ cache'[k] = cache[k]
  BY <1>1, <1>2, <1>4, <1>7 DEF TypeInv, Forget
<1>9. TypeInv'
  BY <1>1, <1>2, <1>4, <1>5, <1>6, <1>7 DEF TypeInv, OpType
<1>10. OnlyOf(t)
  BY <1>1, <1>2, <1>3, <1>8, NobodyAssumption DEF OnlyOf, h
<1>11. ThreadPart(t)'
  BY <1>1, <1>2, <1>6, <1>8 DEF ThreadPart, Holding, h
<1>12. Closed(s.refs, s.rows)
  <2>1. MayDelete(txn[h].refs, x)
    BY <1>1 DEF ThreadPart, h
  <2>2. ASSUME NEW p \in s.refs
        PROVE  /\ p \in txn[h].refs /\ p \in Path \X Path
               /\ p[1] # x /\ p[2] # x
    <3>1. p \in txn[h].refs /\ p \in Path \X Path /\ p[1] # x
      BY <1>2, <1>5 DEF RefsWithout, TxnType
    <3>2. p[2] = x => p[1] \in Referrers(txn[h].refs, x) \ {x}
      BY <3>1 DEF Referrers
    <3> QED
      BY <2>1, <3>1, <3>2 DEF MayDelete
  <2>3. Closed(txn[h].refs, txn[h].rows)
    BY <1>2 DEF TxnPart
  <2>4. txn[h].rows \in [Path -> Hash \cup {NoRow}]
    BY <1>2 DEF TxnType
  <2> QED
    BY <1>5, <2>2, <2>3, <2>4 DEF Closed
<1>13. TxnPart(h)'
  <2>1. \A y \in Path : y # x => s.rows[y] = txn[h].rows[y]
    BY <1>2, <1>5 DEF TxnType
  <2>2. \A y \in Path :
          /\ (rows[y] = NoRow /\ s.rows[y] # NoRow) => y \in s.added
          /\ (rows[y] # NoRow /\ s.rows[y] = NoRow) => y = x
    <3>1. \A y \in Path :
            /\ (rows[y] = NoRow /\ txn[h].rows[y] # NoRow) => y \in txn[h].added
            /\ ~(rows[y] # NoRow /\ txn[h].rows[y] = NoRow)
      BY <1>1, <1>2, <1>3 DEF TxnPart
    <3>2. s.rows[x] = NoRow
      BY <1>2, <1>5 DEF TxnType
    <3> QED
      BY <1>5, <2>1, <3>1, <3>2
  <2> QED
    BY <1>1, <1>2, <1>5, <1>6, <1>8, <1>12, <2>2 DEF TxnPart, h
<1>14. CachePart(h)'
  <2>1. /\ CacheOK(cache'[h]) /\ Shrunk(cache[h], cache'[h])
        /\ ~InfoCached(cache'[h], x)
    BY <1>2, <1>8, WithoutEffect DEF CachePart
  <2>2. \A y \in Path : InfoCached(cache'[h], y) =>
          /\ y # x /\ InfoCached(cache[h], y)
          /\ CachedInfo(cache'[h], y) = CachedInfo(cache[h], y)
    BY <2>1 DEF Shrunk
  <2>3. \A y \in Path : y # x => s.rows[y] = txn[h].rows[y]
    BY <1>2, <1>5 DEF TxnType
  <2>4. CachePart(h)
    BY <1>2
  <2>5. rows' = rows /\ doubt' = doubt /\ txn'[h] = s /\ s.added = txn[h].added
    BY <1>1, <1>5, <1>8
  <2>6. ASSUME NEW y \in Path, InfoCached(cache'[h], y)
        PROVE  /\ \/ (CachedInfo(cache'[h], y) = NoRow) <=> (rows[y] = NoRow)
                  \/ y \in doubt[h] \cup s.added
               /\ \/ (CachedInfo(cache'[h], y) = NoRow) <=> (s.rows[y] = NoRow)
                  \/ y \in doubt[h]
    <3>1. /\ y # x /\ InfoCached(cache[h], y)
          /\ CachedInfo(cache'[h], y) = CachedInfo(cache[h], y)
      BY <2>2, <2>6
    <3>2. s.rows[y] = txn[h].rows[y]
      BY <2>3, <3>1
    <3>3. txn[h].on /\ ~txn[h].stale
      BY <1>2, <1>3
    <3> QED
      BY <2>4, <2>5, <3>1, <3>2, <3>3 DEF CachePart
  <2> QED
    BY <2>1, <2>5, <2>6 DEF CachePart
<1> QED
  BY <1>9, <1>10, <1>11, <1>13, <1>14, OwnStep DEF h

\* A row is written in the transaction and, if it is new, entered in the cache.
LEMMA RegisterRowStep ==
  ASSUME IInv, NEW t \in DbThread, RegisterRow(t)
  PROVE  IInv'
<1> USE DEF IInv
<1> DEFINE h == HandleOf[t]
<1>1. /\ op[t].pc = "row" /\ op[t] \in RegisterOp /\ op[t].pc \in Holding
      /\ UNCHANGED <<rows, drefs, disk, ops>>
      /\ MayWrite(h)
  BY OpKinds DEF RegisterRow, TypeInv, Holding
<1>2. /\ h \in Handle /\ mutex[h] = t /\ t # Nobody /\ h # Nobody
      /\ txn[h] \in TxnType /\ txn[h].on /\ TxnPart(h) /\ CachePart(h)
  BY <1>1, InTransaction, NobodyAssumption
<1>3. PICK x \in op[t].todo :
        LET isNew == txn[h].rows[x] = NoRow
        IN  IF isNew /\ ~op[t].batch[x].ca
            THEN Rollback(t, Resting) /\ UNCHANGED cache
            ELSE /\ writer' = h
                 /\ txn' = [txn EXCEPT ![h].rows[x] = "good",
                              ![h].added = IF isNew THEN @ \cup {x} ELSE @]
                 /\ cache' = IF isNew
                             THEN [cache EXCEPT ![h] = UpsertInfo(@, x, "good")]
                             ELSE cache
                 /\ op' = [op EXCEPT ![t].todo = @ \ {x}]
                 /\ UNCHANGED <<mutex, doubt>>
  BY DEF RegisterRow
<1> DEFINE isNew == txn[h].rows[x] = NoRow
<1>4. CASE isNew /\ ~op[t].batch[x].ca
  BY <1>1, <1>3, <1>4, RestingOp, RollbackStep
<1>5. CASE ~(isNew /\ ~op[t].batch[x].ca)
  <2> DEFINE add == IF isNew THEN txn[h].added \cup {x} ELSE txn[h].added
             s == [txn[h] EXCEPT !.rows = [@ EXCEPT ![x] = "good"],
                                 !.added = add]
             o == [op[t] EXCEPT !.todo = @ \ {x}]
  <2>1. /\ writer' = h /\ UNCHANGED <<mutex, doubt>>
        /\ cache' = IF isNew
                    THEN [cache EXCEPT ![h] = UpsertInfo(@, x, "good")]
                    ELSE cache
    BY <1>3, <1>5
  <2>2. writer \in {h, Nobody} /\ ~txn[h].stale
    BY <1>1, <1>2 DEF MayWrite, TxnPart
  <2>3. x \in Path
    BY <1>1 DEF RegisterOp
  <2>4. txn' = [txn EXCEPT ![h] = s]
    BY <1>2, <1>3, <1>5 DEF TypeInv, TxnType
  <2>5. /\ s \in TxnType /\ s.on /\ ~s.stale /\ s.added = add
        /\ s.rows = [txn[h].rows EXCEPT ![x] = "good"]
        /\ s.refs = txn[h].refs
    <3>1. add \in SUBSET Path
      BY <1>2, <2>3 DEF TxnType
    <3>2. [txn[h].rows EXCEPT ![x] = "good"] \in [Path -> Hash \cup {NoRow}]
      BY <1>2 DEF TxnType, Hash
    <3> HIDE DEF add
    <3> QED
      BY <1>2, <2>2, <3>1, <3>2 DEF TxnType
  <2>6. /\ o \in RegisterOp /\ o.pc = "row" /\ o.all = op[t].all
        /\ o.todo = op[t].todo \ {x}
    BY <1>1 DEF RegisterOp
  <2>7. op' = [op EXCEPT ![t] = o]
    BY <1>1, <1>3, <1>5 DEF RegisterOp, TypeInv
  <2> HIDE DEF s, o, h
  <2>8. /\ op'[t] = o /\ \A u \in DbThread \ {t} : op'[u] = op[u]
        /\ txn'[h] = s
        /\ isNew => cache'[h] = UpsertInfo(cache[h], x, "good")
        /\ ~isNew => cache'[h] = cache[h]
        /\ \A k \in Handle \ {h} : txn'[k] = txn[k] /\ cache'[k] = cache[k]
    BY <1>1, <1>2, <2>1, <2>4, <2>7 DEF TypeInv
  <2>9. TypeInv'
    BY <1>1, <1>2, <2>1, <2>4, <2>5, <2>6, <2>7 DEF TypeInv, OpType
  <2>10. OnlyOf(t)
    BY <1>1, <1>2, <2>1, <2>2, <2>8, NobodyAssumption DEF OnlyOf, h
  <2>11. /\ s.rows[x] = "good"
         /\ \A y \in Path : y # x => s.rows[y] = txn[h].rows[y]
    BY <1>2, <2>3, <2>5 DEF TxnType
  <2>12. ThreadPart(t)'
    <3>1. \A y \in op[t].all \ op[t].todo : txn[h].rows[y] # NoRow
      BY <1>1 DEF ThreadPart, h
    <3>2. \A y \in o.all \ o.todo : s.rows[y] # NoRow
      BY <1>1, <2>6, <2>11, <3>1 DEF RegisterOp, NoRow
    <3> QED
      BY <1>1, <1>2, <2>1, <2>6, <2>8, <3>2 DEF ThreadPart, Holding, h
  <2>13. TxnPart(h)'
    <3>1. Closed(s.refs, s.rows)
      <4>1. \A p \in txn[h].refs : p \in Path \X Path
        BY <1>2 DEF TxnType
      <4>2. \A y \in Path : txn[h].rows[y] # NoRow => s.rows[y] # NoRow
        BY <2>11 DEF NoRow
      <4>3. Closed(txn[h].refs, txn[h].rows)
        BY <1>2 DEF TxnPart
      <4> QED
        BY <2>5, <4>1, <4>2, <4>3 DEF Closed
    <3>2. \A y \in Path :
            /\ (rows[y] = NoRow /\ txn[h].rows[y] # NoRow) => y \in txn[h].added
            /\ ~(rows[y] # NoRow /\ txn[h].rows[y] = NoRow)
      BY <1>1, <1>2, <2>2 DEF TxnPart
    <3>3. \A y \in Path :
            /\ (rows[y] = NoRow /\ s.rows[y] # NoRow) => y \in s.added
            /\ ~(rows[y] # NoRow /\ s.rows[y] = NoRow)
      BY <2>5, <2>11, <3>2 DEF NoRow
    <3> QED
      BY <1>1, <1>2, <2>1, <2>5, <2>8, <3>1, <3>3 DEF TxnPart, h
  <2>14. CachePart(h)'
    <3>1. /\ CacheOK(cache'[h])
          /\ \A y \in Path : InfoCached(cache'[h], y) =>
               \/ isNew /\ y = x /\ CachedInfo(cache'[h], y) = "good"
               \/ /\ InfoCached(cache[h], y)
                  /\ CachedInfo(cache'[h], y) = CachedInfo(cache[h], y)
                  /\ isNew => y # x
      <4>1. CASE isNew
        <5>1. CacheOK(cache[h]) /\ "good" \in Hash \cup {NoRow}
          BY <1>2 DEF CachePart, Hash
        <5>2. cache'[h] = UpsertInfo(cache[h], x, "good")
          BY <2>8, <4>1
        <5> QED
          BY <2>3, <4>1, <5>1, <5>2, UpsertEffect
      <4>2. CASE ~isNew
        BY <1>2, <2>8, <4>2 DEF CachePart
      <4> QED
        BY <4>1, <4>2
    <3>2. /\ txn[h].added \subseteq s.added
          /\ isNew => x \in s.added
          /\ isNew <=> txn[h].rows[x] = NoRow
      BY <2>5
    <3> HIDE DEF isNew, add
    <3>3. ASSUME NEW y \in Path, InfoCached(cache'[h], y)
          PROVE  /\ \/ (CachedInfo(cache'[h], y) = NoRow) <=> (rows[y] = NoRow)
                    \/ y \in doubt[h] \cup s.added
                 /\ \/ (CachedInfo(cache'[h], y) = NoRow) <=> (s.rows[y] = NoRow)
                    \/ y \in doubt[h]
      <4>1. CASE isNew /\ y = x /\ CachedInfo(cache'[h], y) = "good"
        BY <2>11, <3>2, <4>1 DEF NoRow
      <4>2. CASE /\ InfoCached(cache[h], y)
                 /\ CachedInfo(cache'[h], y) = CachedInfo(cache[h], y)
                 /\ isNew => y # x
        <5>1. (s.rows[y] = NoRow) <=> (txn[h].rows[y] = NoRow)
          BY <2>11, <3>2, <4>2 DEF NoRow
        <5> QED
          BY <1>2, <2>2, <3>2, <4>2, <5>1 DEF CachePart
      <4> QED
        BY <3>1, <3>3, <4>1, <4>2
    <3> QED
      BY <1>1, <2>1, <2>8, <3>1, <3>3 DEF CachePart
  <2> QED
    BY <2>9, <2>10, <2>12, <2>13, <2>14, OwnStep DEF h
<1> QED
  BY <1>4, <1>5

\* The references are added when every path they join has its row.
LEMMA RegisterRefsStep ==
  ASSUME IInv, NEW t \in DbThread, RegisterRefs(t)
  PROVE  IInv'
<1> USE DEF IInv
<1> DEFINE h == HandleOf[t]
           b == op[t].batch
<1>1. /\ op[t].pc = "row" /\ op[t] \in RegisterOp /\ op[t].pc \in Holding
      /\ op[t].todo = {}
      /\ UNCHANGED <<rows, drefs, disk, cache, ops>>
  BY OpKinds DEF RegisterRefs, TypeInv, Holding
<1>2. /\ h \in Handle /\ mutex[h] = t /\ t # Nobody
      /\ txn[h] \in TxnType /\ txn[h].on /\ TxnPart(h) /\ CachePart(h)
  BY <1>1, InTransaction, NobodyAssumption
<1>3. CASE ~(ReferencesValid(b, txn[h].rows) /\ ~HasCycle(b))
  BY <1>1, <1>3, RestingOp, RollbackStep DEF RegisterRefs
<1>4. CASE ReferencesValid(b, txn[h].rows) /\ ~HasCycle(b)
  <2> DEFINE new == txn[h].refs \cup BatchRefs(b)
             s == [txn[h] EXCEPT !.refs = new]
             o == [op[t] EXCEPT !.pc = "commit"]
  <2>1. UNCHANGED <<writer, mutex, doubt>>
    BY <1>4 DEF RegisterRefs
  <2>2. b \in Batches /\ DOMAIN b = op[t].all /\ DOMAIN b \in SUBSET Path
    BY <1>1 DEF RegisterOp
  <2>3. txn' = [txn EXCEPT ![h] = s]
    BY <1>2, <1>4 DEF RegisterRefs, TypeInv, TxnType
  <2>4. BatchRefs(b) \in SUBSET (Path \X Path)
    BY <2>2 DEF BatchRefs
  <2>5. /\ s \in TxnType /\ s.on /\ s.stale = txn[h].stale
        /\ s.added = txn[h].added /\ s.rows = txn[h].rows /\ s.refs = new
    <3>1. new \in SUBSET (Path \X Path)
      BY <1>2, <2>4 DEF TxnType
    <3> HIDE DEF new
    <3> QED
      BY <1>2, <3>1 DEF TxnType
  <2>6. o \in RegisterOp /\ o.pc = "commit"
    BY <1>1 DEF RegisterOp
  <2>7. op' = [op EXCEPT ![t] = o]
    BY <1>1, <1>4 DEF RegisterRefs, RegisterOp, TypeInv
  <2>8. Closed(new, txn[h].rows)
    <3>1. \A x \in DOMAIN b : txn[h].rows[x] # NoRow
      BY <1>1, <2>2 DEF ThreadPart
    <3>2. \A p \in BatchRefs(b) : p[1] \in DOMAIN b /\ p[2] \in b[p[1]].refs
      BY DEF BatchRefs
    <3>3. \A x \in DOMAIN b : \A y \in b[x].refs : txn[h].rows[y] # NoRow
      BY <1>4 DEF ReferencesValid, Valid
    <3>4. Closed(txn[h].refs, txn[h].rows)
      BY <1>2 DEF TxnPart
    <3> QED
      BY <3>1, <3>2, <3>3, <3>4 DEF Closed
  <2> HIDE DEF s, o, h, b, new
  <2>9. /\ op'[t] = o /\ \A u \in DbThread \ {t} : op'[u] = op[u]
        /\ txn'[h] = s /\ \A k \in Handle \ {h} : txn'[k] = txn[k]
    BY <1>2, <2>3, <2>7 DEF TypeInv
  <2>10. TypeInv'
    BY <1>1, <1>2, <2>1, <2>3, <2>5, <2>6, <2>7 DEF TypeInv, OpType
  <2>11. OnlyOf(t)
    BY <1>1, <1>2, <2>1, <2>9 DEF OnlyOf, h
  <2>12. ThreadPart(t)'
    BY <1>2, <2>1, <2>6, <2>9 DEF ThreadPart, Holding, h
  <2>13. TxnPart(h)'
    BY <1>1, <1>2, <2>1, <2>5, <2>8, <2>9 DEF TxnPart, h
  <2>14. CachePart(h)'
    BY <1>1, <1>2, <2>1, <2>5, <2>9 DEF CachePart
  <2> QED
    BY <2>10, <2>11, <2>12, <2>13, <2>14, OwnStep DEF h
<1> QED
  BY <1>3, <1>4

-----------------------------------------------------------------------------
(* Steps that change the tables.                                           *)

\* Another handle's transaction after the tables have changed: its snapshot is
\* old, and its cache is in doubt about what has changed.
LEMMA Outdated ==
  ASSUME IInv, NEW k \in Handle, writer # k, writer' # k,
         txn'[k] = (IF txn[k].on THEN [txn[k] EXCEPT !.stale = TRUE] ELSE txn[k]),
         mutex'[k] = mutex[k], cache'[k] = cache[k],
         doubt[k] \subseteq doubt'[k],
         \A x \in Path : \/ (rows'[x] = NoRow) <=> (rows[x] = NoRow)
                         \/ x \in doubt'[k]
  PROVE  TxnPart(k)' /\ CachePart(k)'
<1>1. txn[k] \in TxnType /\ TxnPart(k) /\ CachePart(k)
  BY DEF IInv, TypeInv
<1>2. CASE txn[k].on
  <2>1. /\ txn'[k].on /\ txn'[k].stale /\ txn'[k].rows = txn[k].rows
        /\ txn'[k].refs = txn[k].refs /\ txn'[k].added = txn[k].added
    BY <1>1, <1>2 DEF TxnType
  <2> QED
    BY <1>1, <1>2, <2>1 DEF TxnPart, CachePart
<1>3. CASE ~txn[k].on
  BY <1>1, <1>3 DEF TxnPart, CachePart, NoTxn
<1> QED
  BY <1>2, <1>3

\* A snapshot that becomes old stays a snapshot of the same tables.
LEMMA StaleTxn ==
  ASSUME NEW s \in TxnType, NEW r,
         r = (IF s.on THEN [s EXCEPT !.stale = TRUE] ELSE s)
  PROVE  r \in TxnType /\ r.rows = s.rows /\ r.refs = s.refs
<1>1. CASE s.on
  <2>1. r = [s EXCEPT !.stale = TRUE]
    BY <1>1
  <2> QED
    BY <2>1 DEF TxnType
<1>2. CASE ~s.on
  BY <1>2
<1> QED
  BY <1>1, <1>2

\* The effect of a step of t on the others when it changes the tables.
Outdates(t) ==
  LET h == HandleOf[t]
  IN  /\ disk' = disk
      /\ \A u \in DbThread \ {t} : op'[u] = op[u]
      /\ \A k \in Handle \ {h} :
           /\ txn'[k] = IF txn[k].on THEN [txn[k] EXCEPT !.stale = TRUE] ELSE txn[k]
           /\ mutex'[k] = mutex[k] /\ cache'[k] = cache[k]
           /\ writer # k /\ writer' # k
           /\ \A x \in Path : \/ (rows'[x] = NoRow) <=> (rows[x] = NoRow)
                              \/ x \in doubt'[k]
      /\ \A k \in Handle : doubt[k] \subseteq doubt'[k]
      /\ mutex[h] \in {t, Nobody}
      /\ mutex'[h] \in {t, Nobody}
      /\ \A u \in DbThread :
           (HandleOf[u] = h /\ op[u].pc = "fill") =>
             \/ (rows'[op[u].path] = NoRow) <=> (rows[op[u].path] = NoRow)
             \/ op[u].path \in doubt'[h]

\* Such a step keeps the invariant if it keeps the tables closed and the parts
\* of t and of its handle.
LEMMA TableStep ==
  ASSUME IInv, NEW t \in DbThread, TypeInv', Outdates(t), Closed(drefs', rows'),
         ThreadPart(t)', TxnPart(HandleOf[t])', CachePart(HandleOf[t])'
  PROVE  IInv'
<1> USE DEF IInv
<1>1. HandleOf \in [DbThread -> Handle] /\ Nobody \notin DbThread
  BY HandlesAssumption, NobodyAssumption
<1>2. ASSUME NEW k \in Handle, k # HandleOf[t]
      PROVE  TxnPart(k)' /\ CachePart(k)'
  BY <1>2, Outdated DEF Outdates
<1>3. ASSUME NEW u \in DbThread, u # t
      PROVE  ThreadPart(u)'
  <2>1. CASE HandleOf[u] = HandleOf[t]
    BY <1>1, <1>3, <2>1, ThreadFrame DEF Outdates
  <2>2. CASE HandleOf[u] # HandleOf[t]
    <3> DEFINE k == HandleOf[u]
    <3>1. k \in Handle \ {HandleOf[t]} /\ op'[u] = op[u] /\ op[u] \in OpType
      BY <1>1, <1>3, <2>2 DEF Outdates, TypeInv
    <3>2. /\ txn'[k].rows = txn[k].rows /\ txn'[k].refs = txn[k].refs
          /\ mutex'[k] = mutex[k] /\ disk' = disk
      <4>1. txn[k] \in TxnType
        BY <3>1 DEF TypeInv
      <4> HIDE DEF k
      <4>2. txn'[k] = IF txn[k].on THEN [txn[k] EXCEPT !.stale = TRUE] ELSE txn[k]
        BY <3>1 DEF Outdates
      <4>3. txn'[k].rows = txn[k].rows /\ txn'[k].refs = txn[k].refs
        BY <4>1, <4>2, StaleTxn
      <4> QED
        BY <3>1, <4>3 DEF Outdates
    <3>3. op[u].pc = "fill" => op[u].path \in Path
      BY <3>1, OpKinds DEF FillOp
    <3>4. \A x \in Path : \/ (rows'[x] = NoRow) <=> (rows[x] = NoRow)
                          \/ x \in doubt'[k]
      BY <3>1 DEF Outdates
    <3>5. doubt[k] \subseteq doubt'[k]
      BY <3>1 DEF Outdates
    <3> QED
      BY <3>1, <3>2, <3>3, <3>4, <3>5 DEF ThreadPart
  <2> QED
    BY <2>1, <2>2
<1>4. Closed(drefs, rows)'
  BY DEF Closed
<1> QED
  BY <1>2, <1>3, <1>4

\* The doubts after a commit.
LEMMA PublishedEffect ==
  ASSUME TypeInv, NEW h \in Handle, Published(h, rows')
  PROVE  /\ doubt' \in [Handle -> SUBSET Path]
         /\ \A k \in Handle : doubt[k] \subseteq doubt'[k]
         /\ \A k \in Handle \ {h} : \A x \in Path :
              \/ (rows'[x] = NoRow) <=> (rows[x] = NoRow)
              \/ x \in doubt'[k]
         /\ \A u \in DbThread :
              (HandleOf[u] = h /\ op[u].pc = "fill") =>
                \/ (rows'[op[u].path] = NoRow) <=> (rows[op[u].path] = NoRow)
                \/ op[u].path \in doubt'[h]
<1> DEFINE changed == {x \in Path : (rows[x] = NoRow) # (rows'[x] = NoRow)}
           behind(k) == {op[t].path : t \in {u \in DbThread :
                           HandleOf[u] = k /\ op[u].pc = "fill"}}
<1>1. doubt' = [k \in Handle |->
                  doubt[k] \cup (IF k = h THEN changed \cap behind(k)
                                 ELSE changed)]
  BY DEF Published
<1>2. \A x \in Path : ~((rows'[x] = NoRow) <=> (rows[x] = NoRow)) => x \in changed
  OBVIOUS
<1>3. changed \in SUBSET Path
  OBVIOUS
<1> HIDE DEF changed
<1>4. /\ doubt' \in [Handle -> SUBSET Path]
      /\ \A k \in Handle : doubt[k] \subseteq doubt'[k]
  BY <1>1, <1>3 DEF TypeInv
<1>5. \A u \in DbThread :
        (HandleOf[u] = h /\ op[u].pc = "fill") =>
          /\ op[u].path \in behind(h)
          /\ op[u].path \in Path
  BY OpKinds DEF TypeInv, FillOp
<1> HIDE DEF behind
<1> QED
  BY <1>1, <1>2, <1>4, <1>5

\* The writer's transaction becomes the tables.
LEMMA CommitStep ==
  ASSUME IInv, NEW t \in DbThread, Commit(t)
  PROVE  IInv'
<1> USE DEF IInv
<1> DEFINE h == HandleOf[t]
<1>1. /\ op[t].pc = "commit" /\ op[t].pc \in Holding
      /\ UNCHANGED <<disk, cache, ops>>
      /\ mutex' = [mutex EXCEPT ![h] = Nobody]
      /\ op' = [op EXCEPT ![t] = Resting]
  BY DEF Commit, Holding
<1>2. /\ h \in Handle /\ mutex[h] = t /\ t # Nobody /\ h # Nobody
      /\ txn[h] \in TxnType /\ txn[h].on /\ TxnPart(h) /\ CachePart(h)
  BY <1>1, InTransaction, NobodyAssumption
<1>3. /\ NoTxn \in TxnType /\ ~NoTxn.on /\ NoTxn.added = {} /\ NoTxn.refs = {}
  BY DEF NoTxn, TxnType
<1> HIDE DEF h
<1>4. /\ op'[t] = Resting /\ \A u \in DbThread \ {t} : op'[u] = op[u]
      /\ mutex'[h] = Nobody /\ \A k \in Handle \ {h} : mutex'[k] = mutex[k]
  BY <1>1, <1>2 DEF TypeInv
<1>5. ThreadPart(t)'
  BY <1>2, <1>4, RestingOp DEF ThreadPart, Holding, h
<1>6. CASE writer = h
  <2>1. /\ rows' = txn[h].rows /\ drefs' = txn[h].refs
        /\ Published(h, txn[h].rows) /\ txn' = Outdate(h) /\ writer' = Nobody
    BY <1>6 DEF Commit, h
  <2>2. /\ txn'[h] = NoTxn
        /\ \A k \in Handle \ {h} :
             txn'[k] = IF txn[k].on THEN [txn[k] EXCEPT !.stale = TRUE] ELSE txn[k]
    BY <1>2, <2>1 DEF Outdate
  <2>3. /\ doubt' \in [Handle -> SUBSET Path]
        /\ \A k \in Handle : doubt[k] \subseteq doubt'[k]
        /\ \A k \in Handle \ {h} : \A x \in Path :
             \/ (rows'[x] = NoRow) <=> (rows[x] = NoRow)
             \/ x \in doubt'[k]
        /\ \A u \in DbThread :
             (HandleOf[u] = h /\ op[u].pc = "fill") =>
               \/ (rows'[op[u].path] = NoRow) <=> (rows[op[u].path] = NoRow)
               \/ op[u].path \in doubt'[h]
    BY <1>2, <2>1, PublishedEffect
  <2>4. TypeInv'
    <3>1. \A k \in Handle : txn'[k] \in TxnType
      BY <1>3, <2>2, StaleTxn DEF TypeInv
    <3>2. txn' \in [Handle -> TxnType]
      BY <2>1, <3>1 DEF Outdate
    <3>3. rows' \in [Path -> Hash \cup {NoRow}] /\ drefs' \in SUBSET (Path \X Path)
      BY <1>2, <2>1 DEF TxnType
    <3> QED
      BY <1>1, <1>2, <2>1, <2>3, <3>2, <3>3, RestingOp DEF TypeInv
  <2>5. Outdates(t)
    BY <1>1, <1>2, <1>4, <1>6, <2>1, <2>2, <2>3, NobodyAssumption
       DEF Outdates, h
  <2>6. Closed(drefs', rows')
    BY <1>2, <2>1 DEF TxnPart
  <2>7. TxnPart(h)'
    BY <1>2, <1>3, <1>4, <2>1, <2>2 DEF TxnPart, Closed
  <2>8. CachePart(h)'
    <3>1. doubt[h] \subseteq doubt'[h] /\ ~txn[h].stale
      BY <1>2, <1>6, <2>3 DEF TxnPart
    <3> QED
      BY <1>1, <1>2, <1>3, <2>1, <2>2, <3>1 DEF CachePart
  <2> QED
    BY <1>5, <2>4, <2>5, <2>6, <2>7, <2>8, TableStep DEF h
<1>7. CASE writer # h
  <2>1. /\ txn' = [txn EXCEPT ![h] = NoTxn]
        /\ UNCHANGED <<rows, drefs, doubt, writer>>
    BY <1>7 DEF Commit, h
  <2>2. txn'[h] = NoTxn /\ \A k \in Handle \ {h} : txn'[k] = txn[k]
    BY <1>2, <2>1 DEF TypeInv
  <2>3. TypeInv'
    BY <1>1, <1>2, <1>3, <2>1, RestingOp DEF TypeInv
  <2>4. OnlyOf(t)
    BY <1>1, <1>2, <1>4, <2>1, <2>2 DEF OnlyOf, h
  <2>5. TxnPart(h)'
    BY <1>2, <1>3, <1>4, <1>7, <2>1, <2>2 DEF TxnPart, Closed
  <2>6. CachePart(h)'
    <3>1. txn[h].added = {}
      BY <1>2, <1>7 DEF TxnPart
    <3> QED
      BY <1>1, <1>2, <1>3, <2>1, <2>2, <3>1 DEF CachePart
  <2> QED
    BY <1>5, <2>3, <2>4, <2>5, <2>6, OwnStep DEF h
<1> QED
  BY <1>6, <1>7

\* The transactions after a change outside of any transaction, made by a handle
\* whose mutex is free while nobody writes.
LEMMA OutdateAlone ==
  ASSUME IInv, NEW h \in Handle, mutex[h] = Nobody, txn' = Outdate(h)
  PROVE  /\ txn' \in [Handle -> TxnType] /\ txn'[h] = NoTxn /\ txn[h] = NoTxn
         /\ \A k \in Handle \ {h} :
              txn'[k] = IF txn[k].on THEN [txn[k] EXCEPT !.stale = TRUE] ELSE txn[k]
<1>1. txn[h] = NoTxn /\ NoTxn \in TxnType
  BY DEF IInv, TxnPart, NoTxn, TxnType
<1>2. txn'[h] = NoTxn
  BY DEF Outdate
<1>3. \A k \in Handle \ {h} :
        txn'[k] = IF txn[k].on THEN [txn[k] EXCEPT !.stale = TRUE] ELSE txn[k]
  BY DEF Outdate
<1>4. \A k \in Handle : txn'[k] \in TxnType
  <2> SUFFICES ASSUME NEW k \in Handle \ {h}
               PROVE  txn'[k] \in TxnType
    BY <1>1, <1>2
  <2>1. txn[k] \in TxnType
    BY DEF IInv, TypeInv
  <2> QED
    BY <1>3, <2>1, StaleTxn
<1> QED
  BY <1>1, <1>2, <1>3, <1>4 DEF Outdate

\* No transaction: nothing on, nothing added.
LEMMA NoTxnIsOff == ~NoTxn.on /\ NoTxn.added = {} /\ NoTxn.refs = {}
  BY DEF NoTxn

\* The end of a visit: the top frame goes.
LEMMA PopFrame ==
  ASSUME NEW o \in VerifyOp, o.stack # <<>>,
         \A i \in 1..Len(o.stack) : o.stack[i].path \notin o.listing
  PROVE  LET q == [o EXCEPT !.stack = Front(@)]
         IN  /\ q \in VerifyOp /\ q.pc = o.pc
             /\ q.listing = o.listing /\ q.fresh = o.fresh
             /\ \A i \in 1..Len(q.stack) : q.stack[i].path \notin o.listing
<1> DEFINE s == Front(o.stack)
<1>1. o.stack \in Seq(Frame)
  BY DEF VerifyOp
<1>2. /\ s \in Seq(Frame) /\ Len(s) = Len(o.stack) - 1
      /\ \A i \in 1..Len(s) : s[i] = o.stack[i]
  BY <1>1 DEF Front
<1> HIDE DEF s
<1>3. \A i \in 1..Len(s) : s[i].path \notin o.listing
  BY <1>1, <1>2
<1>4. [o EXCEPT !.stack = Front(@)] = [o EXCEPT !.stack = s]
  BY DEF s
<1>5. s \in Seq(Frame)
  BY <1>2
<1>6. LET q == [o EXCEPT !.stack = s]
      IN  /\ q \in VerifyOp /\ q.pc = o.pc /\ q.stack = s
          /\ q.listing = o.listing /\ q.fresh = o.fresh
  BY <1>5 DEF VerifyOp
<1> QED
  BY <1>3, <1>4, <1>6

\* A verification that only changes its own flags and contents goes on.
LEMMA VerifyThreadPart ==
  ASSUME IInv, NEW t \in DbThread, op[t].pc = "visit", NEW o \in VerifyOp,
         op'[t] = o, o.pc = "visit", o.listing = op[t].listing,
         o.fresh = op[t].fresh,
         \A i \in 1..Len(o.stack) : o.stack[i].path \notin o.listing,
         disk' = disk, mutex' = mutex
  PROVE  ThreadPart(t)'
  BY DEF ThreadPart, Holding, IInv

\* A thread that gives up rests.
LEMMA RestThreadPart ==
  ASSUME IInv, NEW t \in DbThread, op[t].pc \notin Holding, op'[t] = Resting,
         mutex' = mutex
  PROVE  ThreadPart(t)'
  BY RestingOp DEF ThreadPart, Holding, IInv

\* A row goes outside of any transaction, with the foreign key's consent.
LEMMA VerifyDisappearedStep ==
  ASSUME IInv, NEW t \in DbThread, VerifyDisappeared(t)
  PROVE  IInv'
<1> USE DEF IInv
<1> DEFINE h == HandleOf[t]
           frame == Last(op[t].stack)
           x == frame.path
           popped == [op[t] EXCEPT !.stack = Front(@)]
           left == [rows EXCEPT ![x] = NoRow]
<1>1. /\ op[t].pc = "visit" /\ op[t] \in VerifyOp /\ op[t].stack # <<>>
      /\ mutex[h] = Nobody /\ h \in Handle
      /\ UNCHANGED <<disk, writer, mutex, ops>>
  BY OpKinds, HandlesAssumption DEF VerifyDisappeared, TypeInv
<1>2. \A i \in 1..Len(op[t].stack) : op[t].stack[i].path \notin op[t].listing
  BY <1>1 DEF ThreadPart
<1>3. /\ popped \in VerifyOp /\ popped.pc = "visit"
      /\ popped.listing = op[t].listing /\ popped.fresh = op[t].fresh
      /\ \A i \in 1..Len(popped.stack) : popped.stack[i].path \notin op[t].listing
  BY <1>1, <1>2, PopFrame
<1>4. x \in Path
  <2>1. Last(op[t].stack) \in Frame
    BY <1>1 DEF VerifyOp, Last
  <2> QED
    BY <2>1 DEF Frame
<1>5. CASE frame.referrers \cap op[t].found # {}
  <2> DEFINE o == [popped EXCEPT !.errors = TRUE]
  <2>1. /\ op' = [op EXCEPT ![t] = o]
        /\ UNCHANGED <<rows, drefs, txn, cache, doubt>>
    BY <1>5 DEF VerifyDisappeared
  <2>2. PICK q \in VerifyOp : q = popped
    BY <1>3
  <2>3. [q EXCEPT !.errors = TRUE] \in VerifyOp
    BY DEF VerifyOp
  <2>4. LET r == [q EXCEPT !.errors = TRUE]
        IN  r.pc = q.pc /\ r.listing = q.listing /\ r.fresh = q.fresh
            /\ r.stack = q.stack
    BY DEF VerifyOp
  <2>5. /\ o \in VerifyOp /\ o.pc = "visit" /\ o.stack = popped.stack
        /\ o.listing = op[t].listing /\ o.fresh = op[t].fresh
    BY <1>3, <2>2, <2>3, <2>4
  <2> HIDE DEF o, popped
  <2> QED
    BY <1>1, <1>3, <2>1, <2>5, VisitStep
<1>6. CASE frame.referrers \cap op[t].found = {} /\ ~MayDelete(drefs, x)
  <2>1. /\ op' = [op EXCEPT ![t] = Resting]
        /\ UNCHANGED <<rows, drefs, txn, cache, doubt>>
    BY <1>6 DEF VerifyDisappeared
  <2>2. op'[t] = Resting /\ ops' \in [DbThread -> 0..MaxOps]
    BY <1>1, <2>1 DEF TypeInv
  <2>3. ThreadPart(t)'
    BY <1>1, <2>2, RestThreadPart DEF Holding
  <2> QED
    BY <1>1, <2>1, <2>2, <2>3, RestingOp, SameCaches, LocalStep DEF Holding
<1>7. CASE frame.referrers \cap op[t].found = {} /\ MayDelete(drefs, x)
  <2>1. /\ writer = Nobody /\ rows' = left /\ drefs' = RefsWithout(drefs, x)
        /\ txn' = Outdate(h) /\ cache' = [cache EXCEPT ![h] = Forget(@, x)]
        /\ Published(h, left) /\ op' = [op EXCEPT ![t] = popped]
    BY <1>7 DEF VerifyDisappeared
  <2> HIDE DEF popped, h, x
  <2>2. /\ op'[t] = popped /\ \A u \in DbThread \ {t} : op'[u] = op[u]
        /\ cache'[h] = WithoutInfo(cache[h], x)
        /\ \A k \in Handle \ {h} : cache'[k] = cache[k]
    BY <1>1, <2>1 DEF TypeInv, Forget
  <2>3. /\ txn' \in [Handle -> TxnType] /\ txn'[h] = NoTxn /\ txn[h] = NoTxn
        /\ \A k \in Handle \ {h} :
             txn'[k] = IF txn[k].on THEN [txn[k] EXCEPT !.stale = TRUE] ELSE txn[k]
    BY <1>1, <2>1, OutdateAlone
  <2>4. /\ doubt' \in [Handle -> SUBSET Path]
        /\ \A k \in Handle : doubt[k] \subseteq doubt'[k]
        /\ \A k \in Handle \ {h} : \A y \in Path :
             \/ (rows'[y] = NoRow) <=> (rows[y] = NoRow)
             \/ y \in doubt'[k]
        /\ \A u \in DbThread :
             (HandleOf[u] = h /\ op[u].pc = "fill") =>
               \/ (rows'[op[u].path] = NoRow) <=> (rows[op[u].path] = NoRow)
               \/ op[u].path \in doubt'[h]
    BY <1>1, <2>1, PublishedEffect
  <2>5. /\ rows' \in [Path -> Hash \cup {NoRow}] /\ rows'[x] = NoRow
        /\ \A y \in Path : y # x => rows'[y] = rows[y]
    BY <1>4, <2>1 DEF TypeInv
  <2>6. TypeInv'
    <3>1. drefs' \in SUBSET (Path \X Path)
      BY <2>1 DEF TypeInv, RefsWithout
    <3>2. op' \in [DbThread -> OpType] /\ DOMAIN cache' = Handle
      BY <1>3, <2>1 DEF TypeInv, OpType
    <3> QED
      BY <1>1, <2>3, <2>4, <2>5, <3>1, <3>2 DEF TypeInv
  <2>7. Outdates(t)
    BY <1>1, <2>1, <2>2, <2>3, <2>4, NobodyAssumption DEF Outdates, h
  <2>8. Closed(drefs', rows')
    <3>1. ASSUME NEW p \in drefs'
          PROVE  p \in drefs /\ p \in Path \X Path /\ p[1] # x /\ p[2] # x
      <4>1. p \in drefs /\ p \in Path \X Path /\ p[1] # x
        BY <2>1 DEF RefsWithout, TypeInv
      <4>2. p[2] = x => p[1] \in Referrers(drefs, x) \ {x}
        BY <4>1 DEF Referrers
      <4> QED
        BY <1>7, <4>1, <4>2 DEF MayDelete, x
    <3> QED
      BY <2>5, <3>1 DEF Closed
  <2>9. ThreadPart(t)'
    BY <1>1, <1>3, <2>2, VerifyThreadPart
  <2>10. TxnPart(h)'
    BY <1>1, <2>1, <2>3, NoTxnIsOff, NobodyAssumption DEF TxnPart, Closed
  <2>11. CachePart(h)'
    <3>1. CachePart(h) /\ CacheOK(cache[h])
      BY <1>1 DEF CachePart
    <3>2. /\ CacheOK(cache'[h]) /\ Shrunk(cache[h], cache'[h])
          /\ ~InfoCached(cache'[h], x)
      BY <1>4, <2>2, <3>1, WithoutEffect
    <3>3. \A y \in Path : InfoCached(cache'[h], y) =>
            /\ y # x /\ InfoCached(cache[h], y)
            /\ CachedInfo(cache'[h], y) = CachedInfo(cache[h], y)
      BY <3>2 DEF Shrunk
    <3>4. doubt[h] \subseteq doubt'[h]
      BY <1>1, <2>4
    <3> QED
      BY <2>3, <2>5, <3>1, <3>2, <3>3, <3>4, NoTxnIsOff DEF CachePart
  <2> QED
    BY <2>6, <2>7, <2>8, <2>9, <2>10, <2>11, TableStep DEF h
<1> QED
  BY <1>5, <1>6, <1>7

\* An entry with an info of the right validity, or of the validity the cache
\* has already, keeps the cache's part while no transaction is open.
LEMMA UpsertKeepsPart ==
  ASSUME IInv, NEW h \in Handle, txn[h] = NoTxn, txn'[h] = NoTxn,
         doubt' = doubt, NEW x \in Path, NEW info \in Hash \cup {NoRow},
         cache'[h] = UpsertInfo(cache[h], x, info),
         \A y \in Path : (rows'[y] = NoRow) <=> (rows[y] = NoRow),
         \/ (info = NoRow) <=> (rows[x] = NoRow)
         \/ /\ InfoCached(cache[h], x)
            /\ (info = NoRow) <=> (CachedInfo(cache[h], x) = NoRow)
  PROVE  CachePart(h)'
<1>1. CachePart(h) /\ CacheOK(cache[h])
  BY DEF IInv, CachePart
<1>2. /\ CacheOK(cache'[h])
      /\ \A y \in Path : InfoCached(cache'[h], y) =>
           \/ y = x /\ CachedInfo(cache'[h], y) = info
           \/ /\ InfoCached(cache[h], y)
              /\ CachedInfo(cache'[h], y) = CachedInfo(cache[h], y)
  BY <1>1, UpsertEffect
<1>3. /\ ~txn'[h].on /\ txn'[h].added = {} /\ txn[h].added = {}
      /\ doubt'[h] = doubt[h]
  BY NoTxnIsOff
<1>4. \A y \in Path : InfoCached(cache[h], y) =>
        \/ (CachedInfo(cache[h], y) = NoRow) <=> (rows[y] = NoRow)
        \/ y \in doubt[h]
  BY <1>1, <1>3 DEF CachePart
<1>5. ASSUME NEW y \in Path, InfoCached(cache'[h], y)
      PROVE  \/ (CachedInfo(cache'[h], y) = NoRow) <=> (rows'[y] = NoRow)
             \/ y \in doubt'[h]
  <2>1. CASE y = x /\ CachedInfo(cache'[h], y) = info
    BY <1>3, <1>4, <2>1
  <2>2. CASE /\ InfoCached(cache[h], y)
             /\ CachedInfo(cache'[h], y) = CachedInfo(cache[h], y)
    BY <1>3, <1>4, <2>2
  <2> QED
    BY <1>2, <1>5, <2>1, <2>2
<1> QED
  BY <1>2, <1>3, <1>5 DEF CachePart

\* A missing hash is filled in; no row comes or goes.
LEMMA VerifyContentsStep ==
  ASSUME IInv, NEW t \in DbThread, VerifyContents(t)
  PROVE  IInv'
<1> USE DEF IInv
<1> DEFINE h == HandleOf[t]
<1>1. /\ op[t].pc = "visit" /\ op[t] \in VerifyOp /\ mutex[h] = Nobody
      /\ h \in Handle
      /\ UNCHANGED <<drefs, disk, writer, mutex, ops, doubt>>
  BY OpKinds, HandlesAssumption DEF VerifyContents, TypeInv
<1>2. CASE op[t].found = {}
  <2>1. op' = [op EXCEPT ![t] = Resting] /\ UNCHANGED <<rows, txn, cache>>
    BY <1>2 DEF VerifyContents
  <2>2. op'[t] = Resting /\ ops' \in [DbThread -> 0..MaxOps]
    BY <1>1, <2>1 DEF TypeInv
  <2>3. ThreadPart(t)'
    BY <1>1, <2>2, RestThreadPart DEF Holding
  <2> QED
    BY <1>1, <2>1, <2>2, <2>3, RestingOp, SameCaches, LocalStep DEF Holding
<1>3. CASE op[t].found # {}
  <2>1. PICK x \in op[t].found :
          LET info == IF InfoCached(cache[h], x) THEN CachedInfo(cache[h], x)
                      ELSE rows[x]
              fill == info = NullHash /\ disk[x] # NoRow
              wrong == info # NullHash /\ info # disk[x]
          IN  /\ fill => writer = Nobody
              /\ rows' = IF fill /\ rows[x] # NoRow
                         THEN [rows EXCEPT ![x] = disk[x]] ELSE rows
              /\ txn' = IF fill THEN Outdate(h) ELSE txn
              /\ cache' = [cache EXCEPT ![h] =
                             IF fill THEN UpsertInfo(@, x, disk[x])
                             ELSE UpsertInfo(cache[h], x, info)]
              /\ op' = [op EXCEPT ![t].found = @ \ {x},
                          ![t].errors = @ \/ wrong \/ info = NoRow]
    BY <1>3 DEF VerifyContents
  <2> DEFINE info == IF InfoCached(cache[h], x) THEN CachedInfo(cache[h], x)
                     ELSE rows[x]
             fill == info = NullHash /\ disk[x] # NoRow
             wrong == info # NullHash /\ info # disk[x]
             entry == IF fill THEN disk[x] ELSE info
  <2>2. x \in Path /\ CacheOK(cache[h])
    BY <1>1, <2>1 DEF VerifyOp, CachePart
  <2>3. info \in Hash \cup {NoRow} /\ disk[x] \in OnDisk
    BY <2>2, PlaceOfCached DEF TypeInv
  <2>4. /\ entry \in Hash \cup {NoRow}
        /\ (entry = NoRow) <=> (info = NoRow)
    BY <2>3 DEF OnDisk, Hash, NoRow, NullHash
  <2>5. PICK o \in VerifyOp :
          /\ op' = [op EXCEPT ![t] = o] /\ o.pc = "visit"
          /\ o.listing = op[t].listing /\ o.fresh = op[t].fresh
          /\ o.stack = op[t].stack
    <3> DEFINE e == op[t].errors \/ wrong \/ info = NoRow
               f == op[t].found \ {x}
    <3>1. op' = [op EXCEPT ![t] = [op[t] EXCEPT !.found = f, !.errors = e]]
      BY <1>1, <2>1 DEF VerifyOp, TypeInv
    <3>2. e \in BOOLEAN
      BY Zenon
    <3>3. f \in SUBSET Path
      BY <1>1 DEF VerifyOp
    <3> HIDE DEF e, f
    <3>4. LET o == [op[t] EXCEPT !.found = f, !.errors = e]
          IN  /\ o \in VerifyOp /\ o.pc = "visit"
              /\ o.listing = op[t].listing /\ o.fresh = op[t].fresh
              /\ o.stack = op[t].stack
      BY <1>1, <3>2, <3>3 DEF VerifyOp
    <3> QED
      BY <3>1, <3>4
  <2>6. /\ cache' = [cache EXCEPT ![h] = UpsertInfo(cache[h], x, entry)]
        /\ rows' = IF fill /\ rows[x] # NoRow
                   THEN [rows EXCEPT ![x] = disk[x]] ELSE rows
        /\ txn' = IF fill THEN Outdate(h) ELSE txn
        /\ fill => writer = Nobody
    BY <2>1
  <2>7. /\ rows' \in [Path -> Hash \cup {NoRow}]
        /\ \A y \in Path : (rows'[y] = NoRow) <=> (rows[y] = NoRow)
    BY <2>2, <2>3, <2>6 DEF TypeInv, OnDisk, Hash, NoRow
  <2>8. \/ (entry = NoRow) <=> (rows[x] = NoRow)
        \/ /\ InfoCached(cache[h], x)
           /\ (entry = NoRow) <=> (CachedInfo(cache[h], x) = NoRow)
    BY <2>4
  <2> HIDE DEF entry, fill, h
  <2>9. /\ op'[t] = o /\ \A u \in DbThread \ {t} : op'[u] = op[u]
        /\ cache'[h] = UpsertInfo(cache[h], x, entry)
        /\ \A k \in Handle \ {h} : cache'[k] = cache[k]
        /\ DOMAIN cache' = Handle /\ op' \in [DbThread -> OpType]
    BY <1>1, <2>5, <2>6 DEF TypeInv, OpType
  <2>10. ThreadPart(t)'
    <3>1. \A i \in 1..Len(o.stack) : o.stack[i].path \notin o.listing
      BY <1>1, <2>5 DEF ThreadPart
    <3> QED
      BY <1>1, <2>5, <2>9, <3>1, VerifyThreadPart
  <2>11. txn[h] = NoTxn /\ writer # h
    BY <1>1 DEF TxnPart
  <2>12. CASE fill
    <3>1. /\ txn' \in [Handle -> TxnType] /\ txn'[h] = NoTxn
          /\ \A k \in Handle \ {h} :
               txn'[k] = IF txn[k].on THEN [txn[k] EXCEPT !.stale = TRUE]
                         ELSE txn[k]
      BY <1>1, <2>6, <2>12, OutdateAlone
    <3>2. TypeInv'
      BY <1>1, <2>7, <2>9, <3>1 DEF TypeInv
    <3>3. \A u \in DbThread : op[u].pc = "fill" => op[u].path \in Path
      BY OpKinds DEF FillOp, TypeInv
    <3>4. Outdates(t)
      BY <1>1, <2>6, <2>7, <2>9, <2>12, <3>1, <3>3, NobodyAssumption
         DEF Outdates, h
    <3>5. Closed(drefs', rows')
      BY <1>1, <2>7 DEF Closed, TypeInv
    <3>6. TxnPart(h)'
      BY <1>1, <2>11, <3>1, NoTxnIsOff DEF TxnPart, Closed
    <3>7. CachePart(h)'
      BY <1>1, <2>2, <2>4, <2>7, <2>8, <2>9, <2>11, <3>1, UpsertKeepsPart
    <3> QED
      BY <2>10, <3>2, <3>4, <3>5, <3>6, <3>7, TableStep DEF h
  <2>13. CASE ~fill
    <3>1. rows' = rows /\ txn' = txn
      BY <2>6, <2>13
    <3>2. TypeInv'
      BY <1>1, <2>9, <3>1 DEF TypeInv
    <3>3. OnlyOf(t)
      BY <1>1, <2>9, <3>1 DEF OnlyOf, h
    <3>4. TxnPart(h)'
      BY <1>1, <3>1, TxnFrame
    <3>5. CachePart(h)'
      BY <1>1, <2>2, <2>4, <2>7, <2>8, <2>9, <2>11, <3>1, UpsertKeepsPart
    <3> QED
      BY <2>10, <3>2, <3>3, <3>4, <3>5, OwnStep DEF h
  <2> QED
    BY <2>12, <2>13
<1> QED
  BY <1>2, <1>3

-----------------------------------------------------------------------------
(* The theorems.                                                           *)

\* The processes start with closed tables, empty caches and no transaction.
LEMMA IInvInit == DbInit => IInv
<1> SUFFICES ASSUME DbInit
             PROVE  IInv
  OBVIOUS
<1> USE DEF DbInit
<1>1. PICK s \in DbStarts : rows = s.rows /\ drefs = s.refs /\ disk = s.disk
  OBVIOUS
<1>2. /\ rows \in [Path -> Hash \cup {NoRow}] /\ disk \in [Path -> OnDisk]
      /\ drefs \in SUBSET (Path \X Path) /\ Closed(drefs, rows)
  BY <1>1, DbStartsAssumption DEF Closed
<1>3. NoTxn \in TxnType
  BY DEF NoTxn, TxnType
<1>4. TypeInv
  <2>1. 0 \in 0..MaxOps
    BY BoundsAssumption
  <2> QED
    BY <1>2, <1>3, <2>1, RestingOp DEF TypeInv
<1>5. ASSUME NEW t \in DbThread
      PROVE  ThreadPart(t)
  BY RestingOp, HandlesAssumption, NobodyAssumption DEF ThreadPart, Holding
<1>6. ASSUME NEW h \in Handle
      PROVE  TxnPart(h) /\ CachePart(h)
  <2>1. TxnPart(h)
    BY NoTxnIsOff, NobodyAssumption DEF TxnPart, Closed
  <2>2. CachePart(h)
    BY BoundsAssumption DEF CachePart, CacheOK, InfoCached
  <2> QED
    BY <2>1, <2>2
<1> QED
  BY <1>2, <1>4, <1>5, <1>6 DEF IInv

\* Every step keeps the inductive invariant.
LEMMA IInvNext == IInv /\ [DbNext]_dbVars => IInv'
<1> SUFFICES ASSUME IInv, [DbNext]_dbVars
             PROVE  IInv'
  OBVIOUS
<1>1. CASE UNCHANGED dbVars
  BY <1>1 DEF dbVars, IInv, TypeInv, ThreadPart, TxnPart, CachePart, Closed
<1>2. CASE DbNext
  <2>1. PICK t \in DbThread :
          \/ StartRegister(t) \/ StartInvalidate(t) \/ StartQuery(t)
          \/ StartVerify(t)
          \/ Begin(t) \/ Busy(t) \/ Commit(t) \/ StatementFails(t)
          \/ RegisterRow(t) \/ RegisterRefs(t)
          \/ CheckReferrers(t) \/ DeleteRow(t)
          \/ QueryUncached(t) \/ FillCache(t)
          \/ QueryAllValidPaths(t) \/ VerifyPath(t) \/ VerifyDisappeared(t)
          \/ VerifyContents(t)
    BY <1>2 DEF DbNext
  <2> QED
    BY <2>1, StartRegisterStep, StartInvalidateStep, StartQueryStep,
       StartVerifyStep, BeginStep, BusyStep, CommitStep, StatementFailsStep,
       RegisterRowStep, RegisterRefsStep, CheckReferrersStep, DeleteRowStep,
       QueryUncachedStep, FillCacheStep, QueryAllValidPathsStep,
       VerifyPathStep, VerifyDisappearedStep, VerifyContentsStep
<1> QED
  BY <1>1, <1>2

\* The inductive invariant holds always.
THEOREM DbInvariance == DbSpec => []IInv
  BY IInvInit, IInvNext, PTL DEF DbSpec

\* Whatever registrations, invalidations and verifications overlap, fail or are
\* retried, what a valid path refers to is valid, and a cache has at most its
\* capacity of entries, one per path.
THEOREM TablesClosed == DbSpec => []RefsClosed
<1>1. ASSUME IInv
      PROVE  RefsClosed
  <2> USE <1>1 DEF IInv
  <2>1. ASSUME NEW h \in Handle
        PROVE  /\ ToSet(cache[h]) \subseteq CacheEntry
               /\ Len(cache[h]) <= CacheCapacity
               /\ \A i, j \in DOMAIN cache[h] :
                    cache[h][i].path = cache[h][j].path => i = j
    <3>1. CacheOK(cache[h]) /\ DOMAIN cache[h] = 1..Len(cache[h])
      BY DEF CachePart, CacheOK
    <3> QED
      BY <3>1 DEF CacheOK, ToSet
  <2>2. DbTypeOK
    BY <2>1 DEF DbTypeOK, TypeInv
  <2>3. \A p \in drefs : {p[1], p[2]} \subseteq Valid(rows)
    BY DEF Closed, Valid, TypeInv
  <2> QED
    BY <2>2, <2>3 DEF RefsClosed
<1> QED
  BY <1>1, DbInvariance, PTL

\* A cache of path infos is wrong about the validity of a path only after
\* another process's change, a rollback, before a commit, or when a query
\* overlapped a change.
THEOREM CacheExplained == DbSpec => []CacheErrorsExplained
<1>1. ASSUME IInv
      PROVE  CacheErrorsExplained
  <2> SUFFICES ASSUME NEW h \in Handle, NEW x \in Path,
                      InfoCached(cache[h], x),
                      (CachedInfo(cache[h], x) = NoRow) # (rows[x] = NoRow)
               PROVE  x \in doubt[h] \cup txn[h].added
    BY DEF CacheErrorsExplained
  <2> QED
    BY <1>1 DEF IInv, CachePart
<1> QED
  BY <1>1, DbInvariance, PTL

\* A commit takes a row away only for the invalidation that made it.
LEMMA CommitLoses ==
  ASSUME IInv, NEW t \in DbThread, Commit(t), NEW x \in Path,
         rows[x] # NoRow, rows'[x] = NoRow
  PROVE  /\ op[t].pc = "commit" /\ op'[t].pc = "idle"
         /\ op[t].what = "invalidate" /\ op[t].path = x
<1> DEFINE h == HandleOf[t]
<1>1. op[t].pc = "commit" /\ op[t].pc \in Holding /\ op'[t] = Resting
  BY DEF Commit, Holding, IInv, TypeInv
<1>2. h \in Handle /\ mutex[h] = t /\ TxnPart(h)
  BY <1>1, InTransaction DEF IInv
<1>3. writer = h /\ rows' = txn[h].rows
  BY DEF Commit
<1> QED
  BY <1>1, <1>2, <1>3, RestingOp DEF TxnPart

\* A verification takes a row away only when its listing does not show the
\* path.
LEMMA VerifyLoses ==
  ASSUME IInv, NEW t \in DbThread, VerifyDisappeared(t), NEW x \in Path,
         rows[x] # NoRow, rows'[x] = NoRow, disk[x] # NoRow
  PROVE  op[t].pc = "visit" /\ x \in op[t].fresh
<1> DEFINE y == Last(op[t].stack).path
<1>1. /\ op[t].pc = "visit" /\ op[t] \in VerifyOp /\ op[t].stack # <<>>
      /\ ThreadPart(t)
  BY OpKinds DEF VerifyDisappeared, IInv, TypeInv
<1>2. rows' = [rows EXCEPT ![y] = NoRow]
  BY DEF VerifyDisappeared
<1>3. x = y
  BY <1>2 DEF IInv, TypeInv
<1>4. y \notin op[t].listing
  <2>1. /\ op[t].stack \in Seq(Frame)
        /\ Len(op[t].stack) \in 1..Len(op[t].stack)
    BY <1>1 DEF VerifyOp
  <2> QED
    BY <1>1, <2>1 DEF ThreadPart, Last
<1> QED
  BY <1>1, <1>3, <1>4 DEF ThreadPart

\* verifyStore() loses the row of a store object that is on disk only when the
\* object is younger than its listing; otherwise a row goes by
\* invalidatePathChecked().
THEOREM VerifyLosesLittle == DbSpec => VerifyLosesOnlyNewcomers
<1>1. ASSUME IInv, [DbNext]_dbVars
      PROVE  [LosesOnlyNewcomers]_dbVars
  <2> SUFFICES ASSUME DbNext, NEW x \in Path, rows[x] # NoRow,
                      rows'[x] = NoRow, disk[x] # NoRow
               PROVE  \E t \in DbThread :
                        \/ /\ op[t].pc = "commit" /\ op'[t].pc = "idle"
                           /\ op[t].what = "invalidate" /\ op[t].path = x
                        \/ op[t].pc = "visit" /\ x \in op[t].fresh
    BY <1>1 DEF LosesOnlyNewcomers
  <2>1. rows' # rows
    OBVIOUS
  <2>2. PICK t \in DbThread :
          Commit(t) \/ VerifyDisappeared(t) \/ VerifyContents(t)
    <3>1. ASSUME NEW u \in DbThread
          PROVE  /\ ~StartRegister(u) /\ ~StartInvalidate(u) /\ ~StartQuery(u)
                 /\ ~StartVerify(u) /\ ~Begin(u) /\ ~Busy(u)
      BY <2>1 DEF StartRegister, StartInvalidate, StartQuery, StartVerify, Begin, Busy
    <3>2. ASSUME NEW u \in DbThread
          PROVE  /\ ~StatementFails(u) /\ ~RegisterRow(u) /\ ~RegisterRefs(u)
                 /\ ~CheckReferrers(u) /\ ~DeleteRow(u)
      BY <2>1 DEF StatementFails, RegisterRow, RegisterRefs, CheckReferrers, DeleteRow
    <3>3. ASSUME NEW u \in DbThread
          PROVE  /\ ~QueryUncached(u) /\ ~FillCache(u) /\ ~QueryAllValidPaths(u)
                 /\ ~VerifyPath(u)
      BY <2>1 DEF QueryUncached, FillCache, QueryAllValidPaths, VerifyPath
    <3> QED
      BY <3>1, <3>2, <3>3 DEF DbNext
  <2>3. ~VerifyContents(t)
    <3> SUFFICES ASSUME VerifyContents(t)
                 PROVE  FALSE
      OBVIOUS
    <3>1. PICK y : rows' = [rows EXCEPT ![y] = disk[y]] /\ disk[y] # NoRow
      BY <2>1 DEF VerifyContents
    <3> QED
      BY <1>1, <3>1 DEF IInv, TypeInv
  <2> QED
    BY <1>1, <2>2, <2>3, CommitLoses, VerifyLoses
<1> QED
  BY <1>1, DbInvariance, PTL DEF DbSpec, VerifyLosesOnlyNewcomers

===========================================================================
