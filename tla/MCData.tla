------------------------------- MODULE MCData -------------------------------
(***************************************************************************)
(* One run for the parts of the program that keep data: the link farm, the *)
(* database of valid paths, the caches of source accessors, and the        *)
(* algorithms of DataChecks.  `component' says which one a behaviour is    *)
(* about, and the others stay in an initial state.                         *)
(***************************************************************************)
EXTENDS LinkFarm, StoreDB, Accessors, DataChecks

VARIABLE component

dataVars == <<farmVars, dbVars, accVars, calc, component>>

First(S) == CHOOSE x \in S : TRUE

Init ==
  /\ component \in {"farm", "db", "accessors", "algorithms"}
  /\ calc = NoInput
  /\ FarmInit
  /\ component # "farm" => job = First(Jobs) /\ store = First(FarmStarts).store
                             /\ want = First(FarmStarts).want
                             /\ links = First(FarmStarts).links
  /\ DbInit
  /\ component # "db" => disk = First(DbStarts).disk /\ rows = First(DbStarts).rows
  /\ AccInit
  /\ component # "accessors" => onDisk = First(DiskTree) /\ haveOpenat2

FarmOnly == component = "farm" /\ UNCHANGED <<dbVars, accVars, calc, component>>
DbOnly == component = "db" /\ UNCHANGED <<farmVars, accVars, calc, component>>
AccOnly == component = "accessors" /\ UNCHANGED <<farmVars, dbVars, calc, component>>
AlgOnly == component = "algorithms" /\ UNCHANGED <<farmVars, dbVars, accVars, component>>

Next ==
  \/ FarmOnly /\ FarmNext
  \/ DbOnly /\ DbNext
  \/ AccOnly /\ AccNext
  \/ AlgOnly /\ PickInput

Spec == Init /\ [][Next]_dataVars

-----------------------------------------------------------------------------
(* The link farm: two threads of one process in two directories, or of two *)
(* processes in one; "f4" is imported meanwhile.                           *)

MCDirOf == [f1 |-> "d1", f2 |-> "d1", f3 |-> "d2", f4 |-> "d3"]

MCJobs ==
  {[t1 |-> [process |-> "p1", dir |-> "d1"], t2 |-> [process |-> "p1", dir |-> "d2"]],
   [t1 |-> [process |-> "p1", dir |-> "d1"], t2 |-> [process |-> "p2", dir |-> "d1"]]}

MCSize == [a |-> 1, e |-> 0, junk |-> 2]

Layout(w2, i2, farm) ==
  [want |-> [f1 |-> "a", f2 |-> w2, f3 |-> "a", f4 |-> "a"],
   store |-> [f1 |-> 1, f2 |-> i2, f3 |-> 3, f4 |-> None],
   content |-> <<"a", w2, "a", "junk">>,
   links |-> [a |-> farm, e |-> None, junk |-> None]]

\* Two files are one already; all are different; the link is corrupted and a
\* file is empty.
MCFarmStarts == {Layout("a", 1, None), Layout("a", 2, None), Layout("e", 2, 4)}

-----------------------------------------------------------------------------
(* The database: two threads of a process and one of another.              *)

Claim(refs, ca) == [refs |-> refs, ca |-> ca]

\* A closure, a path that refers to another one, and a cycle, with a claim that
\* is false if the path is new.
MCBatches ==
  {("a" :> Claim({"b"}, TRUE)) @@ ("b" :> Claim({"b"}, TRUE)),
   "c" :> Claim({"a"}, TRUE),
   ("a" :> Claim({"b"}, TRUE)) @@ ("b" :> Claim({"a"}, FALSE))}

NothingIn == [x \in Path |-> NoRow]
OldRows == [a |-> NullHash, b |-> "good", c |-> "good"]
OldRefs == {<<"c", "b">>, <<"b", "a">>}

\* An empty store; a chain whose lower end has disappeared; a corrupted path
\* that refers to one without a hash.
MCDbStarts ==
  {[rows |-> NothingIn, refs |-> {}, disk |-> NothingIn],
   [rows |-> OldRows, refs |-> OldRefs, disk |-> [NothingIn EXCEPT !["c"] = "good"]],
   [rows |-> [OldRows EXCEPT !["c"] = NoRow], refs |-> {<<"b", "a">>},
    disk |-> [a |-> "good", b |-> "bad", c |-> NoRow]]}

MCHandleOf == [t1 |-> "h1", t2 |-> "h1", t3 |-> "h2"]

-----------------------------------------------------------------------------
(* The accessors: a deep tree, another one with symlinks where the first   *)
(* has directories and the other way round, and roots that are not         *)
(* directories.                                                            *)

DirNode == [type |-> "directory"]

MCTree ==
  [one |-> (<<>> :> DirNode) @@ (<<"a">> :> DirNode) @@ (<<"a", "b">> :> DirNode) @@ (<<"a", "b", "a">> :> DirNode)
             @@ (<<"a", "b", "a", "b">> :> DirNode) @@ (<<"a", "b", "a", "b", "c">> :> PlainFile)
             @@ (<<"a", "c">> :> Program) @@ (<<"b">> :> LinkTo(<<"a">>)),
   two |-> (<<>> :> DirNode) @@ (<<"a">> :> DirNode) @@ (<<"a", "b">> :> DirNode)
             @@ (<<"a", "c">> :> LinkTo(<<"b">>)) @@ (<<"b">> :> DirNode) @@ (<<"b", "b">> :> LinkTo(<<"a">>)),
   file |-> (<<>> :> Program),
   link |-> (<<>> :> LinkTo(<<"a">>))]

MCDeepPath == <<"a", "b", "a", "b", "c">>
MCLookups ==
  {<<1, "lstat", <<"b", "b">>>>, <<1, "readFile", MCDeepPath>>, <<2, "readDirectory", <<"a", "c">>>>}

RECURSIVE Nested(_, _)
\* What is at a path of a tree, as the in-memory accessor keeps it.
Nested(t, p) ==
  IF TypeAt(t, p) = "directory" THEN Directory([e \in EntriesOf(t, p) |-> Nested(t, Append(p, e))])
  ELSE Tree[t][p]

\* The reference that AccessorsAgree compares with is what the in-memory accessor
\* of Sinks answers.
ASSUME MemoryAnswerIsFaithful ==
  \A t \in DiskTree, p \in SeqsTo(EntryName, 5) :
    /\ MemoryAnswer(t, "lstat", p) = memMaybeLstat(Nested(t, <<>>), p)
    /\ MemoryAnswer(t, "readFile", p) = memReadFile(Nested(t, <<>>), p)
    /\ MemoryAnswer(t, "readDirectory", p) = memReadDirectory(Nested(t, <<>>), p)
    /\ MemoryAnswer(t, "readLink", p) = memReadLink(Nested(t, <<>>), p)

=============================================================================
