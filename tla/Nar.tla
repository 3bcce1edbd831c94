-------------------------------- MODULE Nar --------------------------------
(***************************************************************************)
(* Nix archives: dumpPath() writes a file system object as a stream of     *)
(* strings, parseDump() reads such a stream and tells a sink what to       *)
(* create (archive.cc), and copyRecursive() drives the same sinks straight *)
(* from a source (fs-sink.cc).  An archive is a sequence of tokens, one    *)
(* per string; the bytes of a token are module Streams' matter.  Tags,     *)
(* names, targets and contents are texts of different kinds; whatever      *)
(* stands where contents are wanted is taken for contents.                 *)
(*                                                                         *)
(* A file name is a sequence of numbers: the first stands for the name's   *)
(* text, each further one k for an appended "~nix~case~hack~k".  That      *)
(* orders names as strings are ordered.                                    *)
(***************************************************************************)
EXTENDS Integers, Sequences, SequencesExt, FiniteSets

CONSTANTS
  NarMaxDepth,  \* narMaxDepth: 64 in the code
  CaseFold,     \* CaseFold[b]: the text b with its letters in one case
  BadText,      \* "", ".", "..", texts that hold '/' or a NUL, and texts longer
                \* than narMaxName
  BadTarget,    \* targets that hold a NUL or are longer than narMaxTarget
  EmptyText     \* "": sorts before every other text

ASSUME NarAssumption ==
  /\ NarMaxDepth \in Nat \ {0}
  /\ EmptyText \in BadText /\ BadText \subseteq Nat /\ EmptyText = 0

(***************************************************************************)
(* File system objects, as a SourceAccessor shows them.                    *)
(***************************************************************************)

Regular(x, c) == [type |-> "regular", executable |-> x, contents |-> c]
Directory(e) == [type |-> "directory", entries |-> e]
Symlink(t) == [type |-> "symlink", target |-> t]
\* A fifo, socket or device.  A "hidden" one is a fifo on a file system whose
\* readdir() does not tell types.
Special(k) == [type |-> k]

NoEntries == [n \in {} |-> {}]

\* The type readDirectory() reports for an entry.
DirEntryType(n) == IF n.type = "hidden" THEN "unknown" ELSE n.type

\* The entries dumpPath() leaves out, going by what readDirectory() says.
SkippedTypes == {"fifo", "socket"}

isNotNARSerialisable(n) == n.type \notin {"regular", "symlink", "directory"}

(***************************************************************************)
(* Names                                                                   *)
(***************************************************************************)

NameBefore(a, b) ==
  \/ IsStrictPrefix(a, b)
  \/ \E i \in DOMAIN a \cap DOMAIN b :
        a[i] < b[i] /\ \A j \in 1..(i - 1) : a[j] = b[j]

Folded(name) == <<CaseFold[name[1]]>> \o Tail(name)

\* find(caseHackSuffix) and erase(): everything from the first suffix on goes.
Unhacked(name, hack) == IF hack THEN <<name[1]>> ELSE name

InOrder(names) == SetToSortSeq(names, NameBefore)

(***************************************************************************)
(* Dumping.  `hack' is the use-case-hack setting, `hidden' the paths the   *)
(* caller's filter turns down.                                             *)
(***************************************************************************)

Tag(s) == <<"tag", s>>
Magic == <<"magic", "nix-archive-1">>
Tags(ss) == [i \in DOMAIN ss |-> Tag(ss[i])]

Stream(ok, toks) == [ok |-> ok, toks |-> toks]

\* sink << ...: nothing more is written once something has thrown.
Put(s, toks) == IF s.ok THEN [s EXCEPT !.toks = @ \o toks] ELSE s

TextKinds == {"tag", "name", "target"}

\* The token of a file's contents.
ContentsTok(c) == IF Len(c) = 2 /\ c[1] \in TextKinds THEN c ELSE <<"data", c>>

RegularToks(n) ==
  Tags(<<"(", "type", "regular">>)
    \o (IF n.executable THEN Tags(<<"executable", "">>) ELSE <<>>)
    \o <<Tag("contents"), ContentsTok(n.contents), Tag(")")>>

SymlinkToks(n) == Tags(<<"(", "type", "symlink", "target">>) \o <<<<"target", n.target>>, Tag(")")>>

Listed(n) == {e \in DOMAIN n.entries : DirEntryType(n.entries[e]) \notin SkippedTypes}

RECURSIVE DumpNode(_, _, _, _, _, _)

\* The entries of a directory in the order of their unhacked names.  The filter
\* sees the unhacked name under the hacked path of the directory.
DumpEntries(s, n, fpath, depth, hack, hidden) ==
  LET listed == Listed(n)
      origin(u) == CHOOSE e \in listed : Unhacked(e, hack) = u
      entry(acc, u) ==
        IF Append(fpath, u) \in hidden THEN acc
        ELSE LET opened == Put(acc, Tags(<<"entry", "(", "name">>) \o <<<<"name", u>>, Tag("node")>>)
             IN Put(DumpNode(opened, n.entries[origin(u)], Append(fpath, origin(u)), depth + 1, hack, hidden),
                    Tags(<<")">>))
  IN IF \E d, e \in listed : d # e /\ Unhacked(d, hack) = Unhacked(e, hack)
     THEN [s EXCEPT !.ok = FALSE]
     ELSE FoldLeft(entry, s, InOrder({Unhacked(e, hack) : e \in listed}))

DumpNode(s, n, fpath, depth, hack, hidden) ==
  CASE ~s.ok \/ depth >= NarMaxDepth -> [s EXCEPT !.ok = FALSE]
    [] n.type = "regular" -> Put(s, RegularToks(n))
    [] n.type = "symlink" -> Put(s, SymlinkToks(n))
    [] n.type = "directory" ->
         Put(DumpEntries(Put(s, Tags(<<"(", "type", "directory">>)), n, fpath, depth, hack, hidden),
             Tags(<<")">>))
    [] OTHER -> [s EXCEPT !.ok = FALSE]

dumpPath(n, hack, hidden) == DumpNode(Stream(TRUE, <<Magic>>), n, <<>>, 0, hack, hidden)

dumpString(c) == <<Magic>> \o RegularToks(Regular(FALSE, c))

(***************************************************************************)
(* Parsing.  A cursor runs over the tokens and collects the calls made on  *)
(* the sink; `ok' turns FALSE where the parser throws, and the calls made  *)
(* until then have happened.                                               *)
(***************************************************************************)

Cursor(toks) == [ok |-> TRUE, toks |-> toks, pos |-> 1, calls |-> <<>>]

Peek(c) == IF c.ok /\ c.pos <= Len(c.toks) THEN c.toks[c.pos] ELSE <<"eof", "">>
Throw(c) == [c EXCEPT !.ok = FALSE]
Skip(c) == IF c.ok THEN [c EXCEPT !.pos = @ + 1] ELSE c
Call(c, op, path, arg) == IF c.ok THEN [c EXCEPT !.calls = Append(@, <<op, path, arg>>)] ELSE c

expectTag(c, s) == IF Peek(c) = Tag(s) THEN Skip(c) ELSE Throw(c)

\* Any text will do: one of another kind is contents that read like it.
ParseContents(c, path) ==
  LET t == Peek(c)
  IN CASE t[1] = "data" -> Skip(Call(c, "write", path, t[2]))
       [] t[1] \in TextKinds -> Skip(Call(c, "write", path, t))
       [] OTHER -> Throw(c)

ParseRegular(c, path) ==
  LET created == Call(c, "create", path, <<>>)
      marked == IF Peek(created) = Tag("executable")
                THEN Call(expectTag(Skip(created), ""), "executable", path, <<>>)
                ELSE created
      filled == ParseContents(expectTag(marked, "contents"), path)
  IN Call(expectTag(filled, ")"), "close", path, <<>>)

ParseSymlink(c, path) ==
  LET t == Peek(expectTag(c, "target"))
  IN IF t[1] = "target" /\ t[2] # <<>> /\ t[2] \notin BadTarget
     THEN expectTag(Call(Skip(Skip(c)), "symlink", path, t[2]), ")")
     ELSE Throw(c)

\* A mutant: equal names pass.
NotSortedLoosely(name, prev) == NameBefore(name, prev)

\* `name <= prevName'.
NotSorted(name, prev) == ~NameBefore(prev, name)

\* The name a directory entry is restored under, given the names seen so far
\* and how often each was hacked; "clash" when that name was seen as well.
HackedName(name, names) ==
  LET key == Folded(name)
      hacked == Append(name, names[key] + 1)
  IN CASE key \notin DOMAIN names -> [as |-> name, clash |-> FALSE, names |-> names @@ (key :> 0)]
       [] OTHER -> [as |-> hacked,
                    clash |-> Folded(hacked) \in DOMAIN names,
                    names |-> [names EXCEPT ![key] = @ + 1]]

RECURSIVE Parse(_, _, _, _), ParseEntries(_, _, _, _, _, _)

ParseEntries(c, path, depth, hack, prev, names) ==
  IF Peek(c) = Tag(")") THEN Skip(c)
  ELSE LET d == expectTag(expectTag(expectTag(c, "entry"), "("), "name")
           name == Peek(d)[2]
           invalid == \/ Peek(d)[1] # "name"
                      \/ name[1] \in BadText
                      \/ NotSorted(name, prev)
           h == IF hack THEN HackedName(name, names) ELSE [as |-> name, clash |-> FALSE, names |-> names]
       IN IF ~d.ok \/ invalid \/ h.clash THEN Throw(d)
          ELSE LET node == Parse(expectTag(Skip(d), "node"), Append(path, h.as), depth + 1, hack)
                   e == expectTag(node, ")")
               IN IF e.ok THEN ParseEntries(e, path, depth, hack, name, h.names) ELSE e

Parse(c, path, depth, hack) ==
  LET t == expectTag(expectTag(c, "("), "type")
      type == Peek(t)
  IN CASE ~c.ok \/ depth >= NarMaxDepth -> Throw(c)
       [] type = Tag("regular") -> ParseRegular(Skip(t), path)
       [] type = Tag("symlink") -> ParseSymlink(Skip(t), path)
       [] type = Tag("directory") ->
            LET made == Call(Skip(t), "mkdir", path, <<>>)
                full == ParseEntries(made, path, depth, hack, <<EmptyText>>, <<>>)
            IN Call(full, "leave", path, <<>>)
       [] OTHER -> Throw(t)

parseDump(toks, hack) ==
  IF Peek(Cursor(toks)) = Magic THEN Parse(Skip(Cursor(toks)), <<>>, 0, hack) ELSE Throw(Cursor(toks))

\* copyNAR(): a TeeSource hands on what the parser consumes.
copyNAR(toks, hack) ==
  LET c == parseDump(toks, hack) IN Stream(c.ok, SubSeq(toks, 1, c.pos - 1))

(***************************************************************************)
(* copyRecursive(): the same calls, made from a source directly.           *)
(***************************************************************************)
RECURSIVE CopyNode(_, _, _)
CopyNode(c, n, path) ==
  CASE ~c.ok \/ isNotNARSerialisable(n) -> Throw(c)
    [] n.type = "symlink" -> Call(c, "symlink", path, n.target)
    [] n.type = "regular" ->
         LET created == Call(c, "create", path, <<>>)
             marked == IF n.executable THEN Call(created, "executable", path, <<>>) ELSE created
         IN Call(Call(marked, "write", path, n.contents), "close", path, <<>>)
    [] n.type = "directory" ->
         LET child(acc, e) == CopyNode(acc, n.entries[e], Append(path, e))
         IN Call(FoldLeft(child, Call(c, "mkdir", path, <<>>), InOrder(DOMAIN n.entries)),
                 "leave", path, <<>>)

copyRecursive(n) == CopyNode(Cursor(<<>>), n, <<>>)

(***************************************************************************)
(* What the archives are checked against.                                  *)
(***************************************************************************)

RECURSIVE Stored(_, _)
\* The object without the sockets and fifos of its directories, each entry under
\* the name `as' gives it.
Stored(n, hack) ==
  IF n.type # "directory" THEN n
  ELSE LET kept == Listed(n)
       IN Directory([u \in {Unhacked(e, hack) : e \in kept} |->
                       Stored(n.entries[CHOOSE e \in kept : Unhacked(e, hack) = u], hack)])

RECURSIVE Dumpable(_, _)
\* An object an archive can hold, within `room' levels.
Dumpable(n, room) ==
  /\ room > 0 /\ ~isNotNARSerialisable(n)
  /\ n.type = "directory" => \A e \in Listed(n) : Dumpable(n.entries[e], room - 1)
=============================================================================
