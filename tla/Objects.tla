------------------------------ MODULE Objects ------------------------------
(***************************************************************************)
(* Store objects: content addresses and their text (content-address.cc),   *)
(* the store paths computed from them (store-dir-config.cc), what is       *)
(* recorded of a path (path-info.cc), adding a file system object          *)
(* (store-api.cc), sorting (topo-sort.hh), and the export and import of    *)
(* paths (export-import.cc).                                               *)
(*                                                                         *)
(* Digests are symbolic: a digest is named by what was hashed, so that two *)
(* are equal only if the texts are.  A text with colons in it is the       *)
(* sequence of its fields.  A store path is [digest, name].                *)
(***************************************************************************)
EXTENDS Sinks, Encodings, CanonPaths

(***************************************************************************)
(* Content addresses                                                       *)
(***************************************************************************)

ContentAddressMethod == {"text", "flat", "nar"}

getFileIngestionMethod(m) == IF m = "text" THEN "flat" ELSE m

makeFileIngestionPrefix(m) == IF m = "nar" THEN <<"r">> ELSE <<>>

renderPrefix(m) == IF m = "text" THEN <<"text">> ELSE makeFileIngestionPrefix(m)

\* [method, rest].
parsePrefix(fields) ==
  LET takes(f) == fields # <<>> /\ Head(fields) = f
  IN CASE takes("r") -> [method |-> "nar", rest |-> Tail(fields)]
       [] takes("text") -> [method |-> "text", rest |-> Tail(fields)]
       [] OTHER -> [method |-> "flat", rest |-> fields]

renderPrefixModern(m) == IF m = "text" THEN <<"text">> ELSE <<"fixed">> \o makeFileIngestionPrefix(m)

renderWithAlgo(m, algo) == Append(renderPrefixModern(m), algo)

\* An address, and its text: the fields before the hash, and the hash.
ContentAddress(m, h) == [method |-> m, hash |-> h]

render(ca) == [fields |-> renderWithAlgo(ca.method, ca.hash.algo), body |-> nix32Encode(ca.hash.bytes)]

\* The text up to the hash: [ok, method, algo, rest].
parseContentAddressMethodPrefix(fields) ==
  LET after == Tail(fields)
      recursive == after # <<>> /\ Head(after) = "r"
      rest == IF Head(fields) = "fixed" /\ recursive THEN Tail(after) ELSE after
      method == CASE Head(fields) = "text" -> "text" [] Head(fields) # "text" /\ recursive -> "nar" [] OTHER -> "flat"
  IN IF fields = <<>> \/ Head(fields) \notin {"text", "fixed"} \/ rest = <<>> \/ ~IsHashAlgo(Head(rest))
     THEN [ok |-> FALSE, method |-> "", algo |-> "", rest |-> <<>>]
     ELSE [ok |-> TRUE, method |-> method, algo |-> Head(rest), rest |-> Tail(rest)]

parseWithAlgo(fields) == parseContentAddressMethodPrefix(fields)

\* A further field makes the hash a text with a colon in it, which no encoding has.
parseContentAddress(text) ==
  LET p == parseContentAddressMethodPrefix(text.fields)
      h == parseNonSRIUnprefixed(text.body, p.algo)
  IN IF p.ok /\ p.rest = <<>> /\ h.status = "ok" THEN Fine(ContentAddress(p.method, h.hash)) ELSE Thrown

(***************************************************************************)
(* Content addresses with references.  TextInfo is one whose method is     *)
(* "text"; it has no self reference.                                       *)
(***************************************************************************)

WithReferences(m, h, others, self) == [method |-> m, hash |-> h, others |-> others, self |-> self]

withoutRefs(ca) == WithReferences(ca.method, ca.hash, {}, FALSE)

fromParts(m, h, others, self) ==
  IF m = "text" /\ self THEN Thrown ELSE Fine(WithReferences(m, h, others, self))

(***************************************************************************)
(* Store paths                                                             *)
(***************************************************************************)

Lit(s) == <<"lit", s>>
Lits(ss) == [i \in DOMAIN ss |-> Lit(ss[i])]
Base16(h) == <<Lit(h.algo), <<"hex", h.bytes>>>>

\* "<type>:<hash>:<store>:<name>", hashed.
makeStorePath(type, hash, name, dir) ==
  IF checkName(name) THEN Fine([digest |-> type \o hash \o <<Lit(dir), <<"name", name>>>>, name |-> name])
  ELSE Thrown

\* A mutant: an object that refers to itself is taken for one that does not.
MakeTypeSelfless(type, others, self) == <<Lit(type)>> \o [i \in 1..Cardinality(others) |-> <<"path", SetToSeq(others)[i]>>]

makeType(type, others, self) ==
  <<Lit(type)>> \o [i \in 1..Cardinality(others) |-> <<"path", SetToSeq(others)[i]>>]
    \o (IF self THEN <<Lit("self")>> ELSE <<>>)

makeFixedOutputPath(name, info, dir) ==
  LET payload == Lits(<<"fixed", "out">> \o makeFileIngestionPrefix(info.method)) \o Base16(info.hash)
  IN CASE info.hash.algo = "sha256" /\ info.method = "nar" ->
            makeStorePath(makeType("source", info.others, info.self), Base16(info.hash), name, dir)
       [] ~(info.hash.algo = "sha256" /\ info.method = "nar") /\ (info.self \/ info.others # {}) -> Thrown
       [] OTHER -> makeStorePath(Lits(<<"output", "out">>), <<Lit("sha256"), <<"hexOf", payload>>>>, name, dir)

\* The assertion that a text is addressed by sha256 counts as throwing.
makeFixedOutputPathFromCA(name, ca, dir) ==
  CASE ca.method = "text" /\ ca.hash.algo # "sha256" -> Thrown
    [] ca.method = "text" /\ ca.hash.algo = "sha256" ->
         makeStorePath(makeType("text", ca.others, FALSE), Base16(ca.hash), name, dir)
    [] OTHER -> makeFixedOutputPath(name, ca, dir)

(***************************************************************************)
(* Path infos.  `ca' and `deriver' hold at most one value.                 *)
(***************************************************************************)

PathInfo(path, narHash) ==
  [path |-> path, narHash |-> narHash, narSize |-> 0, references |-> {}, ca |-> {}, deriver |-> {},
   registrationTime |-> 0, ultimate |-> FALSE, sigs |-> {}]

\* Of an info that has an address.  The assertion that a text does not refer to
\* itself counts as throwing.
contentAddressWithReferences(info) ==
  LET ca == CHOOSE c \in info.ca : TRUE
      self == info.path \in info.references
  IN IF ca.method = "text" /\ self THEN Thrown
     ELSE Fine(WithReferences(ca.method, ca.hash, info.references \ {info.path}, self))

\* What is thrown on the way, here or in makeFixedOutputPathFromCA(), is not caught.
isContentAddressed(info, dir) ==
  LET full == contentAddressWithReferences(info)
      caPath == makeFixedOutputPathFromCA(info.path.name, full.value, dir)
  IN CASE info.ca = {} -> Fine(FALSE)
       [] info.ca # {} /\ full.ok -> IF caPath.ok THEN Fine(caPath.value = info.path) ELSE Thrown
       [] OTHER -> Thrown

makeFromCA(name, ca, narHash, dir) ==
  LET p == makeFixedOutputPathFromCA(name, ca, dir)
      self == IF ca.method # "text" /\ ca.self THEN {p.value} ELSE {}
  IN IF ~p.ok THEN Thrown
     ELSE Fine([PathInfo(p.value, narHash) EXCEPT !.ca = {ContentAddress(ca.method, ca.hash)},
                                                  !.references = ca.others \cup self])

\* JSON: keys and values.  Version 1 prints paths with the store directory and
\* addresses as text, the later ones are nested objects.
Full(path) == <<"full", path>>
BaseName(path) == <<"base", path>>
Paths(format, S) == {IF format = 1 THEN Full(p) ELSE BaseName(p) : p \in S}

toJSON(info, includeImpureInfo, format) ==
  [version |-> format, narHash |-> HashToJSON(info.narHash), narSize |-> info.narSize,
   references |-> Paths(format, info.references),
   ca |-> IF format = 1 THEN {<<"text", render(c)>> : c \in info.ca}
          ELSE {<<"object", c.method, HashToJSON(c.hash)>> : c \in info.ca}]
  @@ (IF ~includeImpureInfo THEN <<>>
      ELSE [deriver |-> Paths(format, info.deriver),
            registrationTime |-> IF info.registrationTime = 0 THEN {} ELSE {info.registrationTime},
            ultimate |-> info.ultimate,
            signatures |-> info.sigs])

fromJSON(path, json) ==
  LET has(key) == key \in DOMAIN json
      format == json.version
      stripped(S) == {p[2] : p \in S}
      address(c) == IF format = 1 THEN parseContentAddress(c[2]).value
                    ELSE ContentAddress(c[2], HashFromJSON(c[3]).hash)
  IN [PathInfo(path, HashFromJSON(json.narHash).hash) EXCEPT
        !.narSize = json.narSize,
        !.references = stripped(json.references),
        !.ca = {address(c) : c \in json.ca},
        !.deriver = IF has("deriver") THEN stripped(json.deriver) ELSE {},
        !.registrationTime = IF has("registrationTime") THEN Max({0} \cup json.registrationTime) ELSE 0,
        !.ultimate = has("ultimate") /\ json.ultimate,
        !.sigs = IF has("signatures") THEN json.signatures ELSE {}]

(***************************************************************************)
(* Adding a file system object, an object as in module Nar.                *)
(***************************************************************************)

HashOf(algo, data) == MkHash(algo, <<"digest", data>>)

\* hashPath(): readFile() throws for anything but a regular file.
hashPath(object, method, algo) ==
  LET nar == dumpPath(object, FALSE, {})
  IN CASE method = "flat" /\ object.type = "regular" -> Fine(HashOf(algo, object.contents))
       [] method # "flat" /\ nar.ok -> Fine(HashOf(algo, nar.toks))
       [] OTHER -> Thrown

computeStorePath(name, object, method, algo, references, dir) ==
  LET h == hashPath(object, getFileIngestionMethod(method), algo)
  IN IF ~h.ok THEN Thrown
     ELSE makeFixedOutputPathFromCA(name, fromParts(method, h.value, references, FALSE).value, dir)

\* One pass over the archive; for the flat methods the contents of all its files go
\* into the hash, whether the object is a file or not.
addToStoreSlow(name, object, method, algo, references, dir) ==
  LET nar == dumpPath(object, FALSE, {})
      parsed == parseDump(nar.toks, FALSE)
      narHash == HashOf("sha256", nar.toks)
      hash == CASE method # "nar" -> HashOf(algo, RegularFileSink(parsed.calls).data)
                [] method = "nar" /\ algo = "sha256" -> narHash
                [] OTHER -> HashOf(algo, nar.toks)
      made == makeFromCA(name, fromParts(method, hash, references, FALSE).value, narHash, dir)
  IN IF ~nar.ok \/ ~parsed.ok \/ ~made.ok THEN Thrown
     ELSE Fine([made.value EXCEPT !.narSize = Len(nar.toks)])

(***************************************************************************)
(* topoSort().  s is [sorted, visited, cycle]; `path' is the way down.     *)
(***************************************************************************)

RECURSIVE dfsVisit(_, _, _, _, _)
dfsVisit(s, item, parents, items, children) ==
  CASE s.cycle \/ item \in parents -> [s EXCEPT !.cycle = TRUE]
    [] ~s.cycle /\ item \notin parents /\ item \in s.visited -> s
    [] OTHER ->
         LET below == (children[item] \ {item}) \cap items
             visit(acc, i) == dfsVisit(acc, i, parents \cup {item}, items, children)
             done == FoldLeft(visit, [s EXCEPT !.visited = @ \cup {item}], SetToSeq(below))
         IN IF done.cycle THEN done ELSE [done EXCEPT !.sorted = Append(@, item)]

\* A sequence with every item before its children; nothing for a cycle.
topoSort(items, children) ==
  LET s == FoldLeft(LAMBDA acc, i : dfsVisit(acc, i, {}, items, children),
                    [sorted |-> <<>>, visited |-> {}, cycle |-> FALSE], SetToSeq(items))
  IN IF s.cycle THEN Thrown ELSE Fine(Reverse(s.sorted))

(***************************************************************************)
(* Export and import.  A store is [infos, objects], two functions of the   *)
(* paths that are valid.                                                   *)
(***************************************************************************)

Num(n) == <<"num", n>>
exportMagic == 2

\* topoSortPaths(): a path that is not valid has no references.
topoSortPaths(store, paths) ==
  topoSort(paths, [p \in paths |-> IF p \in DOMAIN store.infos THEN store.infos[p].references ELSE {}])

\* The hash that stands for none: all zeros.
UnknownHash == HashOf("sha256", <<"unknown">>)

\* What one path adds to the stream: its archive, and what is known of it.
exportPath(store, path) ==
  LET info == store.infos[path]
      nar == dumpPath(store.objects[path], FALSE, {})
      changed == HashOf("sha256", nar.toks) # info.narHash /\ info.narHash # UnknownHash
  IN IF path \notin DOMAIN store.infos \/ ~nar.ok \/ changed THEN Thrown
     ELSE Fine(nar.toks \o <<Num(exportMagic), Full(path), <<"paths", info.references>>,
                             <<"deriver", info.deriver>>, Num(0)>>)

\* A mutant: the order of topoSortPaths(), referrers first.
ExportReferrersFirst(store, paths) ==
  LET order == topoSortPaths(store, paths)
      parts == [i \in 1..Len(order.value) |-> exportPath(store, order.value[i])]
  IN IF ~order.ok \/ \E i \in DOMAIN parts : ~parts[i].ok THEN Thrown
     ELSE Fine(FlattenSeq([i \in DOMAIN parts |-> <<Num(1)>> \o parts[i].value]) \o <<Num(0)>>)

exportPaths(store, paths) ==
  LET order == topoSortPaths(store, paths)
      parts == [i \in 1..Len(order.value) |-> exportPath(store, Reverse(order.value)[i])]
  IN IF ~order.ok \/ \E i \in DOMAIN parts : ~parts[i].ok THEN Thrown
     ELSE Fine(FlattenSeq([i \in DOMAIN parts |-> <<Num(1)>> \o parts[i].value]) \o <<Num(0)>>)

\* addToStore() of an archive: the references must be valid by then.
Register(store, info, object) ==
  CASE info.path \in DOMAIN store.infos -> Fine(store)
    [] info.path \notin DOMAIN store.infos /\ info.references \subseteq DOMAIN store.infos \cup {info.path} ->
         Fine([infos |-> store.infos @@ (info.path :> info), objects |-> store.objects @@ (info.path :> object)])
    [] OTHER -> Thrown

RECURSIVE importPaths(_, _), ImportRest(_, _, _)

\* What the stream says of the path after its archive, which ends before `pos'.
\* Neither the address nor the signatures travel.
ImportedInfo(stream, pos) ==
  [PathInfo(stream[pos + 2][2], HashOf("sha256", SubSeq(stream, 2, pos))) EXCEPT
     !.references = stream[pos + 3][2], !.deriver = stream[pos + 4][2], !.narSize = pos - 1]

\* The rest of the stream, once a path was added; an old signature is skipped.
ImportRest(added, stream, pos) ==
  LET after == IF stream[pos + 5] = Num(1) THEN 7 ELSE 6
  IN importPaths(added, SubSeq(stream, pos + after, Len(stream)))

ImportOne(store, stream, nar) ==
  IF ~nar.ok \/ stream[nar.pos + 1] # Num(exportMagic) THEN Thrown
  ELSE Register(store, ImportedInfo(stream, nar.pos), MemorySink(nar.calls).root)

ImportNext(store, stream, pos, added) ==
  IF added.ok THEN ImportRest(added.value, stream, pos) ELSE [ok |-> FALSE, store |-> store, rest |-> stream]

\* The result is the store after the last path that could be added, and what is
\* left of the stream.
importPaths(store, stream) ==
  CASE stream # <<>> /\ Head(stream) = Num(0) -> [ok |-> TRUE, store |-> store, rest |-> Tail(stream)]
    [] stream = <<>> \/ Head(stream) \notin {Num(0), Num(1)} -> [ok |-> FALSE, store |-> store, rest |-> stream]
    [] OTHER -> LET nar == parseDump(Tail(stream), FALSE)
                IN ImportNext(store, stream, nar.pos, ImportOne(store, stream, nar))
=============================================================================
