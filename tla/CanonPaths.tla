----------------------------- MODULE CanonPaths -----------------------------
(***************************************************************************)
(* The syntax of paths: CanonPath (canon-path.cc, canon-path.hh), the      *)
(* canonicalisation of file names (file-path-impl.hh, file-system.cc), and *)
(* the names of store paths (path.cc, store-dir-config.cc, store-api.cc).  *)
(*                                                                         *)
(* A text is a sequence of characters.  The characters are numbered in     *)
(* their order and stand for all that the code treats alike: 'a' for what  *)
(* base 32 has, 'e' for letters it lacks, '~' for what no name may hold.   *)
(* The characters compare as signed ones, so a byte of a UTF-8 sequence is *)
(* less than all others.                                                   *)
(***************************************************************************)
EXTENDS Integers, Sequences, SequencesExt, FiniteSets, FiniteSetsExt

CONSTANTS
  StorePathHashLen,   \* StorePath::HashLen: 32 in the code
  MaxPathLen,         \* StorePath::MaxPathLen: 211
  MaxFollow           \* maxFollow of canonPath() and followLinksToStore(): 1024

ASSUME PathAssumption ==
  StorePathHashLen \in Nat \ {0} /\ MaxPathLen \in Nat \ {0} /\ MaxFollow \in Nat \ {0}

HighByte == -1
NulChar == 0
Dash == 1
Dot == 2
Sl == 3
LetterA == 4
LetterE == 5
Tilde == 6

(***************************************************************************)
(* Components                                                              *)
(***************************************************************************)

\* The pieces between slashes, empty ones included.
Cuts(text) ==
  LET cuts == SelectSeq([i \in DOMAIN text |-> i], LAMBDA i : text[i] = Sl)
      from == <<0>> \o cuts
      to == Append(cuts, Len(text) + 1)
  IN [k \in DOMAIN from |-> SubSeq(text, from[k] + 1, to[k] - 1)]

Components(text) == SelectSeq(Cuts(text), LAMBDA c : c # <<>>)

Slashed(comps) == FlattenSeq([i \in DOMAIN comps |-> <<Sl>> \o comps[i]])
AbsPath(comps) == IF comps = <<>> THEN <<Sl>> ELSE Slashed(comps)

DotComp == <<Dot>>
DotDot == <<Dot, Dot>>

IsAbsolute(text) == text # <<>> /\ text[1] = Sl

\* The outcome of a function that may throw.
Fine(value) == [ok |-> TRUE, value |-> value]
Thrown == [ok |-> FALSE, value |-> <<>>]

RECURSIVE canonPathInner(_, _, _, _)
\* `links' maps the components of a symlink's path to its target, and is empty where
\* no hook looks for symlinks.
canonPathInner(result, remaining, links, follows) ==
  IF remaining = <<>> THEN Fine(AbsPath(result))
  ELSE LET c == Head(remaining)
           rest == Tail(remaining)
           there == Append(result, c)
           target == links[there]
       IN CASE c = DotComp -> canonPathInner(result, rest, links, follows)
            [] c = DotDot ->
                 canonPathInner(IF result = <<>> THEN result ELSE Front(result), rest, links, follows)
            [] c \notin {DotComp, DotDot} /\ there \in DOMAIN links ->
                 IF follows + 1 >= MaxFollow THEN Thrown
                 ELSE canonPathInner(IF IsAbsolute(target) THEN <<>> ELSE result,
                                     Components(target) \o rest, links, follows + 1)
            [] OTHER -> canonPathInner(there, rest, links, follows)

NoLinks == [p \in {} |-> <<>>]

\* canonPath(): of an absolute file name.
canonPath(text, links) ==
  IF ~IsAbsolute(text) THEN Thrown ELSE canonPathInner(<<>>, Components(text), links, 0)

absPath(text, dir) == canonPath(IF IsAbsolute(text) THEN text ELSE dir \o <<Sl>> \o text, NoLinks)

\* lexically_relative() does not canonicalise: the components of the directory must
\* be those the path begins with, and what follows must not lead nowhere or up.
isInDir(path, dir) ==
  LET p == Components(path)
      d == Components(dir)
  IN /\ IsAbsolute(path) /\ IsPrefix(d, p) /\ Len(p) > Len(d)
     /\ p[Len(d) + 1] \notin {DotComp, DotDot}

baseNameOf(path) ==
  LET last == Max({1} \cup {i \in DOMAIN path : path[i] # Sl})
      pos == Max({0} \cup {i \in 1..last : path[i] = Sl})
  IN IF path = <<>> THEN <<>> ELSE SubSeq(path, pos + 1, last)

(***************************************************************************)
(* CanonPath                                                               *)
(***************************************************************************)

CanonPath(raw) ==
  IF NulChar \in ToSet(raw) THEN Thrown ELSE canonPathInner(<<>>, Components(raw), NoLinks, 0)

\* CanonPath(raw, root).
CanonPathFrom(raw, root) ==
  IF NulChar \in ToSet(raw) THEN Thrown
  ELSE canonPathInner(<<>>, Components(IF IsAbsolute(raw) THEN raw ELSE root \o <<Sl>> \o raw), NoLinks, 0)

isRoot(p) == Len(p) <= 1
rel(p) == Tail(p)

LastSlash(p) == Max({i \in DOMAIN p : p[i] = Sl})
parent(p) == SubSeq(p, 1, Max({1, LastSlash(p) - 1}))

fromFilename(segment) ==
  LET res == CanonPath(segment)
  IN IF res.ok /\ segment = rel(res.value) /\ Len(Components(res.value)) = 1 THEN res ELSE Thrown

\* A mutant: "/a" is taken to hold "/ab".
PrefixOnly(p, dir) == Len(p) >= Len(dir) /\ SubSeq(p, 1, Len(dir)) = dir

isWithin(p, dir) ==
  ~ \/ Len(p) < Len(dir)
    \/ SubSeq(p, 1, Len(dir)) # dir
    \/ Len(dir) > 1 /\ Len(p) > Len(dir) /\ p[Len(dir) + 1] # Sl

\* Only for a path within the prefix.
removePrefix(p, prefix) ==
  CASE isRoot(prefix) -> p
    [] ~isRoot(prefix) /\ Len(p) = Len(prefix) -> <<Sl>>
    [] OTHER -> SubSeq(p, Len(prefix) + 1, Len(p))

extend(p, x) == CASE isRoot(x) -> p [] ~isRoot(x) /\ isRoot(p) -> p \o rel(x) [] OTHER -> p \o x

push(p, c) == IF isRoot(p) THEN p \o c ELSE p \o <<Sl>> \o c

\* operator<=>: a slash counts as zero.
PathBefore(p, q) ==
  LET rank(c) == IF c = Sl THEN 0 ELSE c
      differ == {i \in DOMAIN p \cap DOMAIN q : p[i] # q[i]}
  IN IF differ = {} THEN Len(p) < Len(q) ELSE rank(p[Min(differ)]) < rank(q[Min(differ)])

RECURSIVE Ancestors(_)
\* The paths pop() leads to.
Ancestors(p) == IF isRoot(p) THEN {} ELSE {parent(p)} \cup Ancestors(parent(p))

isAllowed(p, allowed) ==
  LET above == {q \in allowed : ~PathBefore(q, p)}
      lb == CHOOSE q \in above : \A r \in above : ~PathBefore(r, q)
  IN \/ above # {} /\ isWithin(lb, p)
     \/ Ancestors(p) \cap allowed # {}

\* The text that leads from p to q.
makeRelative(p, q) ==
  LET a == Components(p)
      b == Components(q)
      same == Max({n \in 0..Min({Len(a), Len(b)}) : SubSeq(a, 1, n) = SubSeq(b, 1, n)})
      up == [i \in 1..(Len(a) - same) |-> DotDot]
  IN IF a = b THEN DotComp ELSE Tail(Slashed(up \o SubSeq(b, same + 1, Len(b))))

(***************************************************************************)
(* Store paths.  `storeDir' is canonical.                                  *)
(***************************************************************************)

\* checkName() returns rather than throws.
checkName(name) ==
  ~ \/ name = <<>>
    \/ Len(name) > MaxPathLen
    \/ /\ name[1] = Dot
       /\ \/ Len(name) = 1
          \/ name[2] = Dash
          \/ name[2] = Dot /\ (Len(name) = 2 \/ name[3] = Dash)
    \/ \E i \in DOMAIN name : name[i] \in {HighByte, NulChar, Sl, Tilde}

hashPart(base) == SubSeq(base, 1, StorePathHashLen)
nameOf(base) == SubSeq(base, StorePathHashLen + 2, Len(base))

\* StorePath(baseName): the character between the hash and the name may be any.
StorePath(base) ==
  IF /\ Len(base) >= StorePathHashLen + 1
     /\ \A i \in 1..StorePathHashLen : hashPart(base)[i] = LetterA
     /\ checkName(nameOf(base))
  THEN Fine(base) ELSE Thrown

\* parseStorePath(): a canonical path's parent_path() is that of its components.
parseStorePath(path, storeDir) ==
  LET p == canonPath(path, NoLinks)
  IN IF ~p.ok \/ isRoot(p.value) \/ parent(p.value) # storeDir THEN Thrown
     ELSE StorePath(Last(Components(p.value)))

printStorePath(base, storeDir) == storeDir \o <<Sl>> \o base

\* [path, sub]: the store path and the path within it.
toStorePath(path, storeDir) ==
  LET slashes == {i \in DOMAIN path : i > Len(storeDir) + 1 /\ path[i] = Sl}
      slash == Min(slashes)
      top == parseStorePath(IF slashes = {} THEN path ELSE SubSeq(path, 1, slash - 1), storeDir)
      sub == IF slashes = {} THEN Fine(<<Sl>>) ELSE CanonPath(SubSeq(path, slash, Len(path)))
  IN IF ~isInDir(path, storeDir) \/ ~top.ok \/ ~sub.ok THEN Thrown
     ELSE Fine([path |-> top.value, sub |-> sub.value])

RECURSIVE FollowFrom(_, _, _, _)
FollowFrom(path, links, storeDir, follows) ==
  LET here == Components(path)
      next == absPath(links[here], parent(path))
  IN CASE isInDir(path, storeDir) -> Fine(path)
       [] ~isInDir(path, storeDir) /\ here \notin DOMAIN links -> Thrown
       [] OTHER -> IF follows + 1 >= MaxFollow THEN Thrown
                   ELSE FollowFrom(next.value, links, storeDir, follows + 1)

\* The last component's symlinks are followed, one after the other.
followLinksToStore(path, links, storeDir) ==
  LET p == absPath(path, <<Sl>>) IN IF p.ok THEN FollowFrom(p.value, links, storeDir, 0) ELSE Thrown

canonStoreDir(text) == IF IsAbsolute(text) THEN CanonPath(text) ELSE Thrown

\* The `store' setting: from NIX_STORE_DIR, NIX_STORE, or what was built in.
StoreDirDefault(nixStoreDir, nixStore, builtIn) ==
  canonStoreDir(Head(SelectSeq(<<nixStoreDir, nixStore, builtIn>>, LAMBDA text : text # <<>>)))

parseStoreDir(text) == IF text = <<>> THEN Thrown ELSE canonStoreDir(text)
=============================================================================
