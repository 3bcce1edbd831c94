----------------------------- MODULE DataChecks -----------------------------
(***************************************************************************)
(* Inputs for the algorithms on data (archives, metadata, streams, paths,  *)
(* encodings, content addresses) and what their results must be.  An       *)
(* action picks one input for one of them; the invariants compare what the *)
(* code computes with what it undoes, or with a definition of the result   *)
(* that owes nothing to the code.                                          *)
(***************************************************************************)
EXTENDS Objects, Rewriting

VARIABLE calc   \* the kind of the input and the input

NoInput == <<"none", <<>>>>
Kind == calc[1]
Input == calc[2]

Pick(kind, inputs) == calc = NoInput /\ \E x \in inputs : calc' = <<kind, x>>

\* The sequences over S of at most n elements.
SeqsTo(S, n) == UNION {[1..k -> S] : k \in 0..n}

-----------------------------------------------------------------------------
(* File system objects and archives.  1 and 2 are names that differ only   *)
(* in case, 0 and 4 are names that are not allowed.                        *)

UpperA == <<1>>
LowerA == <<2>>
LowerB == <<3>>
MCFold == [t \in 0..4 |-> IF t = 2 THEN 1 ELSE t]
MCBad == {0, 4}
MCBadTarget == {<<<<4>>>>}

PlainFile == Regular(FALSE, <<"c">>)
Program == Regular(TRUE, <<"c">>)
LinkTo(names) == Symlink(names)

LeafObjects ==
  {PlainFile, Program, Regular(FALSE, <<>>), LinkTo(<<LowerA>>)}
    \cup {Special(k) : k \in {"fifo", "hidden", "char"}}

SomeEntries(S, T) == UNION {[d -> T] : d \in SUBSET S}

\* Directories nested up to the limit and beyond it.
DeepObjects ==
  {Directory(NoEntries), Directory(LowerA :> Program),
   Directory(UpperA :> Directory(LowerB :> Directory(NoEntries))),
   Directory(UpperA :> Directory(LowerB :> LinkTo(<<LowerB>>))),
   Directory((UpperA :> Special("fifo")) @@ (LowerB :> PlainFile)),
   Directory((UpperA :> Directory(UpperA :> LinkTo(<<LowerB>>)))
               @@ (LowerA :> Directory(UpperA :> LinkTo(<<LowerB>>))))}

TreeInputs ==
  LeafObjects
    \cup {Directory(e) : e \in SomeEntries({UpperA, LowerA, LowerB}, LeafObjects)}
    \cup {Directory((LowerA :> x) @@ (LowerB :> y)) : x \in DeepObjects, y \in DeepObjects \cup LeafObjects}
    \cup {Directory(e) : e \in SomeEntries({<<2, 1>>, UpperA, LowerA},
                                           {Program, Directory(LowerB :> LinkTo(<<LowerB>>))})}

\* Archives that list names in any order, and archives with one token changed,
\* removed or cut off.  A name or a target is changed into another one.
EntryToks(n) ==
  Tags(<<"entry", "(", "name">>) \o <<<<"name", n>>, Tag("node")>> \o RegularToks(PlainFile) \o Tags(<<")">>)

Listing(l) ==
  <<Magic>> \o Tags(<<"(", "type", "directory">>) \o FlattenSeq([i \in DOMAIN l |-> EntryToks(l[i])]) \o Tags(<<")">>)

WrongToks ==
  {Tag(s) : s \in {"(", ")", "type", "entry", "", "executable", "contents"}}
    \cup {<<"target", <<>>>>, <<"target", <<<<4>>>>>>, <<"name", LowerB>>, <<"name", <<4>>>>, <<"data", <<>>>>}

Spoilt(x) ==
  LET others(tok) == IF tok[1] \in {"name", "target"} THEN {w \in WrongToks : w[1] = tok[1]} ELSE WrongToks
  IN UNION {{[x EXCEPT ![i] = w] : w \in others(x[i])} \cup {RemoveAt(x, i), SubSeq(x, 1, i - 1)} : i \in DOMAIN x}

NarInputs ==
  {Listing(l) : l \in SeqsTo({UpperA, LowerA, LowerB, <<0>>, <<4>>, <<2, 1>>}, 3)}
    \cup UNION {Spoilt(dumpPath(t, FALSE, {}).toks) :
                  t \in {Directory(UpperA :> Program),
                         Directory((UpperA :> Directory(NoEntries)) @@ (LowerB :> LinkTo(<<LowerB>>)))}}

RECURSIVE HasSpecial(_)
HasSpecial(n) ==
  isNotNARSerialisable(n) \/ (n.type = "directory" /\ \E e \in DOMAIN n.entries : HasSpecial(n.entries[e]))

\* dumpPath(), parseDump(), copyNAR() and MemorySink: what can be archived is
\* archived and comes back the same, nothing after it is read, and copyRecursive()
\* makes the same calls; an archive that parseDump() accepts, whatever it is,
\* describes one tree, whose own archive is the one that was accepted.
ArchivesSurvive ==
  /\ Kind = "tree" =>
       LET dumped == dumpPath(Input, FALSE, {})
           parsed == parseDump(dumped.toks, FALSE)
           memory == MemorySink(parsed.calls)
       IN /\ dumped.ok <=> Dumpable(Input, NarMaxDepth)
          /\ dumped.ok =>
               /\ parsed.ok /\ parsed.pos = Len(dumped.toks) + 1
               /\ memory.ok /\ memory.root = Stored(Input, FALSE)
               /\ ~HasSpecial(Input) => copyRecursive(Input).calls = parsed.calls
          /\ Input.type = "regular" /\ ~Input.executable => dumpString(Input.contents) = dumped.toks
  /\ Kind = "nar" =>
       LET parsed == parseDump(Input, FALSE)
           memory == MemorySink(parsed.calls)
       IN parsed.ok => memory.ok /\ dumpPath(memory.root, FALSE, {}) = copyNAR(Input, FALSE)

-----------------------------------------------------------------------------
(* Metadata: the same trees restored under several umasks; files with two  *)
(* names and other owners; lookups through symlinks.                       *)

UmaskInputs == {{}, {"gw", "ow"}, Bits \ {"ur", "uw", "ux"}, {"ur", "ux"}}

Restoring(u, canonical, folds) == [umask |-> u, canonical |-> canonical, foldsCase |-> folds, defer |-> FALSE]

RECURSIVE NoHacks(_)
NoHacks(n) == n.type = "directory" => \A e \in DOMAIN n.entries : Len(e) = 1 /\ NoHacks(n.entries[e])

\* <<at, inode>>: a directory with two names, of one inode or of two.
TheDir(m) == [Inode("directory", m, <<>>) EXCEPT !.attrs = {"x"}, !.uid = 1]
OwnedInputs ==
  {<<(<<>> :> 1) @@ (<<UpperA>> :> 2) @@ (<<LowerB>> :> j),
     <<TheDir(d), [Inode(t, m, <<>>) EXCEPT !.uid = u, !.attrs = {"x", "y"}], [Inode("regular", M0666, <<>>) EXCEPT !.uid = v]>>>> :
     j \in {2, 3}, d \in {M0777, M0555}, t \in {"regular", "symlink", "fifo"}, m \in {M0777, M0444, M0666 \cup {"ux"}}, u \in {0, 1, 2}, v \in {1, 2}}

\* Two links in a tree, and a path to look up.
ResolveInputs ==
  LET targets == {<<LowerA>>, <<Up, LowerA>>, <<Slash, LowerA, LowerB>>, <<LowerB>>, <<Here, UpperA>>}
      tree(s, t) == Directory((LowerA :> Directory((LowerB :> LinkTo(s)) @@ (UpperA :> PlainFile))) @@ (LowerB :> LinkTo(t)))
  IN {<<tree(s, t), p>> : s \in targets, t \in targets, p \in SeqsTo({LowerA, LowerB, UpperA, Up}, 3)}

HasLink(root, p) == LET st == memMaybeLstat(root, p) IN st.status = "ok" /\ st.value[1] = "symlink"

\* RestoreSink in its canonical mode leaves on every inode, except a root
\* directory, what canonicalisePathMetaData() would have made of it, under any
\* umask, and loses nothing of the tree; a tree that is restored on a file system
\* that folds case, with the case hack, is archived as it came.  The canonicalising
\* walk ends well exactly when every file has an allowed type and owner; it then
\* leaves no trace of owner, time or attribute, on every directory the mode 0755,
\* which lets its owner write, and on every regular file 0555 or 0444, which lets
\* nobody write, according to whether its owner could execute it.
MetadataIsCanonical ==
  /\ Kind = "tree" =>
       LET dumped == dumpPath(Input, FALSE, {})
           calls == parseDump(dumped.toks, FALSE).calls
           hacked == parseDump(dumped.toks, TRUE).calls
       IN dumped.ok =>
            /\ \A u \in UmaskInputs :
                 LET direct == RestoreSink(calls, Restoring(u, TRUE, FALSE))
                     plain == RestoreSink(calls, Restoring(u, FALSE, FALSE))
                     walked == canonicalisePathMetaData([q \in DOMAIN plain.fs |-> q], plain.fs, [uids |-> AnyUid, ignored |-> {}])
                 IN /\ direct.ok /\ plain.ok /\ walked.ok
                    /\ TreeOf(direct.fs, <<>>) = Stored(Input, FALSE)
                    /\ \A q \in DOMAIN direct.fs :
                         q # <<>> \/ direct.fs[q].type # "directory" => direct.fs[q] = walked.inode[q]
            /\ NoHacks(Input) =>
                 LET r == RestoreSink(hacked, Restoring({}, TRUE, TRUE))
                 IN r.ok /\ dumpPath(TreeOf(r.fs, <<>>), TRUE, {}) = dumped
  /\ Kind = "owned" =>
       LET at == Input[1]
           inode == Input[2]
           used == {at[p] : p \in DOMAIN at}
           run(uids) == canonicalisePathMetaData(at, inode, [uids |-> uids, ignored |-> {"y"}])
           clean(f) == f.uid = Me /\ f.mtime = mtimeStore /\ f.attrs \subseteq {"y"}
           mode(f) == CASE f.type = "directory" -> M0755
                        [] f.type = "regular" /\ "ux" \in f.mode -> {"ur", "gr", "or", "ux", "gx", "ox"}
                        [] OTHER -> {"ur", "gr", "or"}
       IN /\ \A uids \in {AnyUid, {0, 1}, {1}} :
               run(uids).ok <=> \A i \in used : /\ inode[i].type \in {"regular", "symlink", "directory"}
                                                /\ uids = AnyUid \/ inode[i].uid \in uids
          /\ run(AnyUid).ok =>
               \A i \in used : /\ clean(run(AnyUid).inode[i])
                               /\ inode[i].type # "symlink" => run(AnyUid).inode[i].mode = mode(inode[i])
  /\ Kind = "resolve" =>
       LET root == Input[1]
           r == resolveSymlinks(root, Input[2], TRUE)
       IN r.status = "ok" =>
            /\ \A n \in 1..Len(r.value) : ~HasLink(root, SubSeq(r.value, 1, n))
            /\ resolveSymlinks(root, r.value, TRUE) = r
            /\ Up \notin ToSet(Input[2]) /\ (\A n \in 1..Len(Input[2]) : ~HasLink(root, SubSeq(Input[2], 1, n)))
                 => r.value = Input[2]
            /\ LET a == resolveSymlinks(root, Input[2], FALSE)
               IN a.status = "ok" /\ resolveSymlinks(root, a.value, TRUE) = r

-----------------------------------------------------------------------------
(* Streams: data cut into writes, read in pieces, from a file descriptor   *)
(* that returns what it likes; and bytes off the wire.                     *)

RECURSIVE Cut(_, _)
Cut(sizes, from) ==
  IF sizes = <<>> THEN <<>>
  ELSE <<[i \in 1..Head(sizes) |-> (from + i) % ByteBase]>> \o Cut(Tail(sizes), from + Head(sizes))

SizesTo(S, n) == SeqsTo(S, n) \ {<<>>}

\* <<writes, sizes of reads, sizes of what read() returns>>
StreamInputs ==
  {<<Cut(w, 0), r, k>> : w \in SizesTo({0, 1, 3, 4}, 3), r \in SizesTo({1, 4}, 2), k \in {<<1>>, <<2, 1>>, <<4>>}}

WireInputs == SeqsTo(0..(ByteBase - 1), 6)

\* A text, and a hash to look for in it.
ModuloInputs == SeqsTo(0..2, 5) \X {<<1, 2>>, <<1, 1>>, <<1, 2, 1>>}

RECURSIVE ReadBy(_, _, _)
ReadBy(src, reads, got) ==
  LET r == Read(src, Head(reads))
  IN IF Threw(r) THEN got ELSE ReadBy(r.src, Append(Tail(reads), Head(reads)), got \o r.data)

RECURSIVE LinesOf(_, _)
LinesOf(src, got) ==
  LET r == readLine(src, 0, FALSE) IN IF Threw(r) THEN got ELSE LinesOf(r.src, got \o r.data \o <<0>>)

More == <<2, 2>>   \* what follows in the same stream

\* Every way to read back what was written.
TeeOver(writes) == TeeSource(LengthSource(SinkToSource(Pieces(writes))))

SourcesOver(writes, data, sizes) ==
  {FdSource(data, sizes, FALSE), FdSource(data, sizes, TRUE), SinkToSource(Pieces(writes)), StringSource(data),
   TeeOver(writes),
   ChainSource(StringSource(Take(data, 2)), FdSource(Drop(data, 2), sizes, FALSE)),
   SizedSource(FdSource(data \o More, sizes, FALSE), Len(data)),
   FramedSource(FdSource(Framed(writes) \o More, sizes, FALSE))}

SkipsTo(after, rest) == ~Threw(after) /\ Drain(after.src, <<>>).data = rest

Delivers(src, data, reads) ==
  /\ ReadBy(src, reads, <<>>) = data
  /\ DrainLen(src, Len(data), <<>>).data = data
  /\ data # <<>> => \A k \in {1, Len(data)} : SkipsTo(SkipIn(ReadExactly(src, 1).src, k - 1), Drop(data, k))

Saved(tee, data) == tee.saved = data /\ tee.orig.total = Len(data)

\* sourceToSink(): the reader got everything, and was left in this state.
Received(reader, data, state) ==
  ~reader.aborted /\ reader.got = data /\ (data # <<>> => reader.state = state)

HashesAlike(hashed, writes) ==
  /\ \A i \in DOMAIN hashed :
       hashed[i] = Last(HashSink(EmptySink, <<Concat(SubSeq(writes, 1, Least(i, Len(writes))))>>, "sha1"))
  /\ HashResult(FoldLeft(Write, EmptySink, writes), "sha1") = Last(hashed)

\* What is left in the source belongs to the next reader.
Rest(got) == IF got.src.kind = "fd" THEN got.src.buf \o got.src.rest ELSE got.src.rest
ReadOne(got, wire) == got.status = "ok" => writeString(got.value) \o Rest(got) = wire
ReadMany(got, wire) == got.status = "ok" => writeStrings(got.value) \o Rest(got) = wire
ReadBack(got, value, rest) == got.status = "ok" /\ got.value = value /\ Rest(got) = rest

\* The wire ends before the string that it starts with.
CutShort(wire) ==
  \E whole \in {writeString([i \in 1..k |-> 1]) : k \in 0..3} :
    Len(wire) < Len(whole) /\ Take(whole, Least(WordLen, Len(wire))) = Take(wire, WordLen)

\* A FramedSource that is read to its end: it ends where a word is 0, and fails
\* where a word is no unsigned int.  `starts' are the places after whole frames.
FramesRead(r, wire) ==
  LET word(i) == Take(Drop(wire, i), WordLen)
      frame(i, j) == j - i > WordLen /\ word(i) = PutNum(j - i - WordLen)
      once == {j \in DOMAIN wire : frame(0, j)}
      starts == {0} \cup once \cup {j \in DOMAIN wire : \E i \in once : frame(i, j)}
      reaches(S) == \E i \in starts, n \in S : word(i) = PutNum(n)
  IN /\ r.src.eof <=> reaches({0})
     /\ r.bad <=> reaches((IntMax + 1)..SizeMax)

SentError == [level |-> 1, msg |-> Input, traces |-> <<Take(Input, 1), Input>>, count |-> 2]
SentTexts == {Take(Input, k) : k \in 0..2}

HashesModulo(whole, text, modulus) ==
  LET n == Len(text)
  IN /\ whole.bytes = n
     /\ \A i, j \in 0..n :
          i <= j => HashModuloSink(<<Take(text, i), SubSeq(text, i + 1, j), Drop(text, j)>>, modulus) = whole
     /\ n <= 4 => \A other \in [1..n -> 0..2] : HashModuloSink(<<other>>, modulus) = whole => other = text
     /\ Found(Take(whole.hashed, n), modulus, 1) = {}

\* Sources (buffered, seeking, chained, sized, framed, tee, counting, coroutine)
\* and sinks deliver the bytes that were written, once and in order, however they
\* are cut, and leave what follows them alone.  What readString() and readStrings()
\* accept is what writeString() and writeStrings() produce, and nothing else; a
\* framed stream ends at its 0 and fails at a length that is out of range.  A
\* hash does not depend on the cuts, and HashModuloSink does not either: it tells
\* apart any two texts of one length and hashes no self-reference.
StreamsDeliver ==
  /\ Kind = "stream" =>
       LET writes == Input[1]
           reads == Input[2]
           sizes == Input[3]
           data == Concat(writes)
           one == Least(1, Len(data))
       IN /\ \A src \in SourcesOver(writes, data, sizes) : Delivers(src, data, reads)
          /\ Saved(Drain(TeeOver(writes), <<>>).src, data)
          /\ FinishFramed(ReadExactly(FramedSource(StringSource(Framed(writes) \o More)), one).src).rest = More
          /\ FinishEnsure(ReadExactly(EnsureRead(StringSource(data \o More), Len(data)), one).src).rest = More
          /\ LinesOf(FdSource(data \o <<0>>, sizes, FALSE), <<>>) = data \o <<0>>
          /\ Received(sourceToSink(writes, Reader(Len(data), reads)), data, "returned")
          /\ Received(sourceToSink(writes, Reader(Len(data) + 1, reads)), data, "eof")
          /\ HashesAlike(HashSink(EmptySink, writes, "sha1"), writes)
  /\ Kind = "wire" =>
       /\ ReadOne(readString(FdSource(Input, <<1, 2>>, FALSE), 3), Input)
       /\ ReadMany(readStrings(StringSource(Input)), Input)
       /\ FramesRead(Drain(FramedSource(StringSource(Input)), <<>>), Input)
       /\ readString(StringSource(Input), 3).status = "eof" <=> CutShort(Input)
       /\ ReadBack(readError(StringSource(PutError(SentError) \o Input), 8), SentError, Input)
       /\ ReadBack(ReadSet(StringSource(WriteSet(SentTexts) \o Input)),
                   SentTexts, Input)
  /\ Kind = "modulo" => HashesModulo(HashModuloSink(<<Input[1]>>, Input[2]), Input[1], Input[2])

-----------------------------------------------------------------------------
(* Paths.                                                                  *)

CompA == <<LetterA>>
CompAA == <<LetterA, LetterA>>
HighComp == <<LetterA, HighByte>>
PlainComps == {CompA, <<LetterA, Dash>>, CompAA, HighComp}
TheStore == <<Sl, LetterE>>

JoinComps(cs) == IF cs = <<>> THEN <<>> ELSE Tail(Slashed(cs))

RawInputs == {JoinComps(cs) : cs \in SeqsTo({<<>>, DotComp, DotDot, CompA, <<LetterA, Dash>>}, 5)}

CanonTexts(n) == {AbsPath(cs) : cs \in SeqsTo(PlainComps, n)}
PairInputs == CanonTexts(2) \X CanonTexts(2)

NameInputs == SeqsTo({Dash, Dot, LetterA, Tilde}, 4)

InStoreInputs ==
  {TheStore \o <<Sl>> \o JoinComps(cs) : cs \in SeqsTo({<<>>, DotComp, DotDot, CompA, <<LetterA, Dash, LetterA>>}, 3)}

\* The targets of two links, and the path that is followed.
FollowInputs ==
  LET targets == {<<Sl, LetterE, Sl, LetterA>>, CompA, <<Sl>> \o CompAA, <<Dot, Dot, Sl>> \o CompA, <<Dash>>}
  IN targets \X targets \X {CompA, CompAA, <<Dash>>}

Canonical(p) == p = AbsPath(Components(p)) /\ ToSet(Components(p)) \cap {DotComp, DotDot} = {}

\* A component stays unless the ones after it lead back up past it.
Survivors(cs) ==
  LET plain == SelectSeq(cs, LAMBDA c : c \notin {<<>>, DotComp})
      gone(i) == \E j \in (i + 1)..Len(plain) :
                   LET after == SubSeq(plain, i + 1, j)
                   IN 2 * Len(SelectSeq(after, LAMBDA c : c = DotDot)) > Len(after)
      kept == SelectSeq([i \in DOMAIN plain |-> i], LAMBDA i : plain[i] # DotDot /\ ~gone(i))
  IN [k \in DOMAIN kept |-> plain[kept[k]]]

RECURSIVE Hops(_, _, _)
\* Where n - 1 links lead: <<a path in the store>>, or <<>>.
Hops(here, links, n) ==
  IF here[1] = <<LetterE>> /\ Len(here) > 1 THEN <<here>>
  ELSE IF here \notin DOMAIN links \/ n = 1 THEN <<>>
  ELSE Hops(Survivors(IF IsAbsolute(links[here]) THEN Cuts(links[here]) ELSE Front(here) \o Cuts(links[here])),
            links, n - 1)

NoHighByte(p) == HighByte \notin ToSet(p)

\* CanonPath resolves "." and ".." as counting says and never leaves the root;
\* isWithin(), removePrefix(), extend(), makeRelative(), parent() agree with the
\* lists of components; the order is total and, without bytes above 127, keeps a
\* directory next to what is in it, so that isAllowed() finds it.  A name is a store
\* path exactly when it keeps the rules, and prints and parses as itself; a path in
\* the store is split at its first component; links are followed to the end.
PathsStayWithin ==
  /\ Kind = "raw" =>
       LET r == CanonPath(Input).value
           cs == Components(Input)
       IN /\ r = AbsPath(Survivors(Cuts(Input))) /\ Canonical(r)
          /\ CanonPath(r).value = r /\ canonPath(<<Sl>> \o Input, NoLinks).value = r
          /\ fromFilename(Input).ok <=> Sl \notin ToSet(Input) /\ Input \notin {<<>>, DotComp, DotDot}
          /\ fromFilename(Input).ok => push(<<Sl>>, Input) = fromFilename(Input).value
          /\ Input # <<>> => baseNameOf(Input) = (IF cs = <<>> THEN <<>> ELSE Last(cs))
          /\ ~isRoot(r) => Components(parent(r)) = Front(Components(r)) /\ push(parent(r), Last(Components(r))) = r
          /\ parseStoreDir(Input) = (IF IsAbsolute(Input) THEN Fine(r) ELSE Thrown)
          /\ IsAbsolute(Input) => StoreDirDefault(<<>>, Input, TheStore) = Fine(r)
  /\ Kind = "pair" =>
       LET p == Input[1]
           q == Input[2]
       IN /\ isWithin(p, q) <=> IsPrefix(Components(q), Components(p))
          /\ isWithin(p, q) => extend(q, removePrefix(p, q)) = p /\ Canonical(removePrefix(p, q))
          /\ Canonical(extend(p, q)) /\ isWithin(extend(p, q), p) /\ removePrefix(extend(p, q), p) = q
          /\ CanonPathFrom(makeRelative(q, p), q).value = p
          /\ (PathBefore(p, q) \/ PathBefore(q, p)) <=> p # q
          /\ ~(PathBefore(p, q) /\ PathBefore(q, p))
          /\ p \in Ancestors(q) <=> p # q /\ isWithin(q, p)
          /\ \A r \in CanonTexts(2) :
               /\ PathBefore(p, q) /\ PathBefore(q, r) => PathBefore(p, r)
               /\ NoHighByte(p) /\ NoHighByte(q) /\ NoHighByte(r) =>
                    /\ PathBefore(p, q) /\ PathBefore(q, r) /\ isWithin(r, p) => isWithin(q, p)
                    /\ isAllowed(p, {q, r}) <=> \E s \in {q, r} : isWithin(s, p) \/ isWithin(p, s)
  /\ Kind = "name" =>
       LET base == <<LetterA, Dash>> \o Input
           dashes == {i \in DOMAIN Input : Input[i] = Dash}
           first == IF dashes = {} THEN Input ELSE SubSeq(Input, 1, Min(dashes) - 1)
       IN /\ StorePath(base).ok <=>
               /\ Input # <<>> /\ Len(Input) <= MaxPathLen
               /\ Tilde \notin ToSet(Input) /\ first \notin {DotComp, DotDot}
          /\ StorePath(base).ok =>
               parseStorePath(printStorePath(base, TheStore), TheStore) = Fine(base) /\ nameOf(base) = Input
  /\ Kind = "in store" =>
       LET r == toStorePath(Input, TheStore)
           full == extend(printStorePath(r.value.path, TheStore), r.value.sub)
           c == CanonPath(Input).value
       IN /\ r.ok => /\ Canonical(full) /\ StorePath(r.value.path).ok
                     /\ DotDot \notin ToSet(Cuts(Input)) => c = full
          /\ isWithin(c, TheStore) /\ c # TheStore /\ StorePath(Components(c)[2]).ok => toStorePath(c, TheStore).ok
  /\ Kind = "follow" =>
       LET links == (<<CompA>> :> Input[1]) @@ (<<CompAA>> :> Input[2])
           reached == Hops(<<Input[3]>>, links, MaxFollow)
       IN followLinksToStore(Input[3], links, TheStore) =
            (IF reached = <<>> THEN Thrown ELSE Fine(AbsPath(reached[1])))

-----------------------------------------------------------------------------
(* Hashes, their encodings, and content addresses.                         *)

\* As with the sizes in the code, base 64 has bits to spare: two for the first
\* (20 and 32 bytes) and four for the second (16 and 64 bytes).
MCHashSize == [sha1 |-> 8, sha256 |-> 13]
SomeBytes == {0, 1, 31, 127, 128, 170, 255}

SomeHash == MkHash("sha1", <<1, 2, 3, 128, 255, 0, 77, 200>>)

HashInputs ==
  {MkHash("sha1", b \o <<0, 255, 128, 1, 200, c>>) : b \in [1..2 -> SomeBytes], c \in SomeBytes}
    \cup {MkHash("sha256", b \o <<0, 255, 128, 1, 2, 3, 4, 5, 6, 7, c>>) : b \in [1..2 -> {1, 255}], c \in SomeBytes}

Algos == {"sha1", "sha256"}
Ref(n) == [digest |-> <<<<"lit", n>>>>, name |-> CompA]
AddressesOf ==
  {WithReferences(m, MkHash(al, <<n>>), o, s) :
     m \in ContentAddressMethod, al \in Algos, n \in 1..2, o \in SUBSET {Ref("1"), Ref("2")}, s \in BOOLEAN}
AddressNames == {CompA, <<LetterE>>}
AddressInputs == AddressesOf \X AddressNames

CaInputs == SeqsTo({"text", "fixed", "r", "sha1", "sha256"}, 4)

ObjectInputs ==
  {PlainFile, Program, Regular(FALSE, <<>>), LinkTo(<<LowerA>>), Special("char"), Directory(NoEntries),
   Directory(LowerA :> PlainFile), Directory((LowerA :> PlainFile) @@ (LowerB :> LinkTo(<<LowerA>>)))}
    \X ContentAddressMethod \X Algos \X {{}, {Ref("1")}}

\* <<version, method, include impure info, content-addressed, time>>
JsonInputs == (1..3) \X ContentAddressMethod \X BOOLEAN \X BOOLEAN \X (0..1)

\* Rendered hashes with one character and one of the last two changed, or one left
\* out: digits of every alphabet, of one, or of none.
BodyInputs ==
  LET bodies == {Encode(f, h.bytes) : f \in HashFormat, h \in {SomeHash, Zeros("sha1")}}
      odd == {52, 53, 51, 30, 2, 63, Equals, Newline, 66}
  IN UNION {{[b EXCEPT ![i] = c, ![j] = d] : i \in DOMAIN b, j \in {Len(b) - 1, Len(b)}, c \in odd, d \in odd}
              \cup {RemoveAt(b, i) : i \in DOMAIN b} : b \in bodies}

EncodedLength(format, size) ==
  CASE format = "base16" -> b16Length(size) [] format = "nix32" -> n32Length(size) [] OTHER -> b64Length(size)

\* A hash in one format: with its prefix, and without.
HashSurvives(h, f, printed, bare) ==
  /\ parseAnyPrefixed(printed) = Parsed(h, f)
  /\ newHashAllowEmpty(printed, h.algo) = Parsed(h, f)
  /\ f # "sri" => parseNonSRIUnprefixed(bare, h.algo) = Parsed(h, f)
  /\ f = "sri" => parseSRI(printed) = Parsed(h, f)
  /\ parseHashFormat(f) = f
  /\ Len(bare) = EncodedLength(f, HashSize[h.algo])

ByteMatters(g, h) ==
  ~HashEqual(compressHash(g, 2), compressHash(h, 2)) /\ (HashBefore(g, h) <=> ~HashBefore(h, g))

\* What counts in a text: in base 64, for a hash of 8 bytes, the characters up to
\* the first '=' that are no newlines, and of the eleventh only 4 bits.
Digits64(text) ==
  SelectSeq(SubSeq(text, 1, Min({i \in DOMAIN text : text[i] = Equals} \cup {Len(text) + 1}) - 1), LAMBDA c : c # Newline)

WhatCounts(text) ==
  CASE Len(text) = 16 -> [i \in DOMAIN text |-> HexDigit(text[i])]
    [] Len(text) = 12 -> [Digits64(text) EXCEPT ![11] = @ \div 4]
    [] OTHER -> text

\* Text of 16, 13 or 12 characters is base 16, 32 or 64 for a hash of 8 bytes.
BodyAllowed(text) ==
  CASE Len(text) = 16 -> ToSet(text) \subseteq 52..61 \cup 0..5 \cup 26..31
    [] Len(text) = 13 -> /\ ToSet(text) \subseteq (52..61 \cup 26..51) \ {30, 40, 45, 46}
                         /\ text[1] \in 52..61 \cup {26, 27, 28, 29, 31, 32}
    [] Len(text) = 12 -> Len(Digits64(text)) = 11 /\ ToSet(Digits64(text)) \subseteq 0..63
    [] OTHER -> FALSE

BodyRead(r, text) ==
  /\ r.status = "ok" <=> BodyAllowed(text)
  /\ r.status = "ok" =>
       LET rendered == to_string(r.hash, r.format, FALSE).body
       IN WhatCounts(rendered) = WhatCounts(text) /\ parseNonSRIUnprefixed(rendered, r.hash.algo) = r

NoReferences(x) == x = withoutRefs(x)

Addressable(x) ==
  CASE x.method = "text" -> x.hash.algo = "sha256"
    [] x.method = "nar" /\ x.hash.algo = "sha256" -> TRUE
    [] OTHER -> NoReferences(x)

\* A text object cannot refer to itself: its path does not depend on `self'.
PathIsUnique(p, x, n) ==
  /\ p.ok <=> Addressable(x)
  /\ p.ok => \A y \in AddressesOf, m \in AddressNames, d \in {"store", "gnu"} :
               makeFixedOutputPathFromCA(m, y, d) = p =>
                 /\ m = n /\ d = "store"
                 /\ y = x \/ (x.method = "text" /\ [y EXCEPT !.self = x.self] = x)

Recognised(info, dir) == LET r == isContentAddressed(info, dir) IN r.ok /\ r.value

InfoIsFaithful(i, x) ==
  /\ i.ok <=> Addressable(x)
  /\ i.ok =>
       LET with(refs) == [i.value EXCEPT !.references = @ \cup refs]
           full == IF x.method = "text" THEN [x EXCEPT !.self = FALSE] ELSE x
       IN /\ Recognised(i.value, "store") /\ isContentAddressed(i.value, "gnu").ok /\ ~Recognised(i.value, "gnu")
          /\ ~Recognised(with({Ref("3")}), "store")
          /\ Recognised(with({i.value.path}), "store") => x.self
          /\ contentAddressWithReferences(i.value) = Fine(full)

CaRead(r, fields, body) ==
  /\ r.ok <=> \E m \in ContentAddressMethod : fields = renderWithAlgo(m, "sha1")
  /\ r.ok => render(r.value) = [fields |-> fields, body |-> body]

PrefixRead(w, fields) == w.ok /\ w.rest = <<>> => renderWithAlgo(w.method, w.algo) = fields

AddedAsComputed(computed, added, object, method) ==
  /\ computed.ok => added.ok /\ added.value.path = computed.value
  /\ added.ok /\ ~computed.ok => method # "nar" /\ object.type # "regular"
  /\ added.ok => Recognised(added.value, "store")

\* What content addresses say: hashes in every format, with or without prefix,
\* parse as themselves.  A body is refused unless it has as many digits of its
\* format as the hash needs, and one that parses is what its hash renders as, up to
\* the case of hexadecimal digits and, in base 64, newlines, what follows a '=' and
\* the bits after the last byte.  Compressing a
\* hash loses no change of one byte.  makeFixedOutputPathFromCA() gives different
\* paths to different addresses, names and store directories, and throws exactly
\* where references are not representable; the path info made from an address says
\* the same address, and is recognised as content-addressed in that store only and
\* with those references only.  computeStorePath() and addToStoreSlow() agree.
\* Path infos survive JSON.
AddressesAreFaithful ==
  /\ Kind = "hash" =>
       /\ \A f \in HashFormat : HashSurvives(Input, f, to_string(Input, f, TRUE), Encode(f, Input.bytes))
       /\ \A i \in DOMAIN Input.bytes : \A v \in SomeBytes \ {Input.bytes[i]} :
            ByteMatters(MkHash(Input.algo, [Input.bytes EXCEPT ![i] = v]), Input)
  /\ Kind = "body" => BodyRead(parseNonSRIUnprefixed(Input, "sha1"), Input)
  /\ Kind = "address" =>
       /\ PathIsUnique(makeFixedOutputPathFromCA(Input[2], Input[1], "store"), Input[1], Input[2])
       /\ InfoIsFaithful(makeFromCA(Input[2], Input[1], MkHash("sha256", <<0>>), "store"), Input[1])
  /\ Kind = "ca" =>
       LET body == nix32Encode(SomeHash.bytes)
       IN /\ CaRead(parseContentAddress([fields |-> Input, body |-> body]), Input, body)
          /\ PrefixRead(parseWithAlgo(Input), Input)
          /\ \A m \in ContentAddressMethod :
               /\ parseContentAddress(render(ContentAddress(m, SomeHash))) = Fine(ContentAddress(m, SomeHash))
               /\ parsePrefix(renderPrefix(m) \o <<"sha1">>) = [method |-> m, rest |-> <<"sha1">>]
  /\ Kind = "object" =>
       AddedAsComputed(computeStorePath(CompA, Input[1], Input[2], Input[3], Input[4], "store"),
                       addToStoreSlow(CompA, Input[1], Input[2], Input[3], Input[4], "store"), Input[1], Input[2])
  /\ Kind = "json" =>
       LET info == [PathInfo(Ref("1"), MkHash("sha256", [k \in 1..HashSize["sha256"] |-> k])) EXCEPT
                      !.ca = IF Input[4] THEN {ContentAddress(Input[2], SomeHash)} ELSE {},
                      !.references = {Ref("2"), Ref("1")}, !.narSize = 7,
                      !.deriver = IF Input[5] = 0 THEN {} ELSE {Ref("3")},
                      !.registrationTime = Input[5], !.ultimate = Input[4], !.sigs = {"s"}]
           pure == [info EXCEPT !.deriver = {}, !.registrationTime = 0, !.ultimate = FALSE, !.sigs = {}]
       IN fromJSON(info.path, toJSON(info, Input[3], Input[1])) = (IF Input[3] THEN info ELSE pure)

-----------------------------------------------------------------------------
(* Closures that are exported and imported.                                *)

ExportPath(n) == [digest |-> <<<<"lit", n>>>>, name |-> <<LetterE>>]
ExportPaths == {ExportPath("1"), ExportPath("2"), ExportPath("3")}

ObjectAt(p) ==
  CASE p = ExportPath("1") -> Directory(LowerA :> PlainFile)
    [] p = ExportPath("2") -> Program
    [] OTHER -> LinkTo(<<LowerA>>)

InfoAt(g, p, known) ==
  LET nar == dumpPath(ObjectAt(p), FALSE, {}).toks
  IN [PathInfo(p, IF known THEN HashOf("sha256", nar) ELSE UnknownHash) EXCEPT
        !.references = g[p], !.narSize = Len(nar),
        !.deriver = IF p = ExportPath("1") THEN {ExportPath("2")} ELSE {}]

StoreWith(g, S, known) == [infos |-> [p \in S |-> InfoAt(g, p, known)], objects |-> [p \in S |-> ObjectAt(p)]]

\* <<references, paths to export, whether their hashes are known>>
ExportInputs == [ExportPaths -> SUBSET ExportPaths] \X (SUBSET ExportPaths) \X BOOLEAN

RECURSIVE Below(_, _)
Below(g, S) == LET more == S \cup UNION {g[p] : p \in S} IN IF more = S THEN S ELSE Below(g, more)

Cyclic(g, S) ==
  LET inner == [p \in ExportPaths |-> IF p \in S THEN (g[p] \cap S) \ {p} ELSE {}]
  IN \E p \in S : p \in Below(inner, inner[p])

SortedWell(sorted, g, S) ==
  /\ sorted.ok <=> ~Cyclic(g, S)
  /\ sorted.ok =>
       /\ ToSet(sorted.value) = S /\ Len(sorted.value) = Cardinality(S)
       /\ \A k, l \in DOMAIN sorted.value : sorted.value[l] \in g[sorted.value[k]] => k <= l

ImportedWell(imported, g, S) ==
  /\ imported.ok <=> \A p \in S : g[p] \subseteq S
  /\ imported.ok => imported.store = StoreWith(g, S, TRUE) /\ imported.rest = <<Num(1)>>
  /\ \A p \in DOMAIN imported.store.infos :
       imported.store.infos[p] = InfoAt(g, p, TRUE) /\ g[p] \subseteq DOMAIN imported.store.infos

ExportedWell(exported, g, S) ==
  /\ exported.ok <=> ~Cyclic(g, S)
  /\ exported.ok => ImportedWell(importPaths(StoreWith(g, {}, TRUE), exported.value \o <<Num(1)>>), g, S)

ChangedIsRefused(exported, g, S, known) ==
  exported.ok <=> ~Cyclic(g, S) /\ (ExportPath("1") \notin S \/ ~known)

Changed(store) == [store EXCEPT !.objects[ExportPath("1")] = Directory(NoEntries)]

\* exportPaths() and importPaths(): topoSortPaths() fails on cycles alone and puts
\* referrers first; what is exported arrives with its contents, hash and references
\* where its references are, and what follows in the stream is left there; nothing
\* arrives whose references are not there, even
\* when the import fails half-way; a store object that changed is not exported.
ExportsArrive ==
  Kind = "export" =>
    LET g == Input[1]
        S == Input[2]
        store == StoreWith(g, ExportPaths, Input[3])
    IN /\ SortedWell(topoSortPaths(store, S), g, S)
       /\ ExportedWell(exportPaths(store, S), g, S)
       /\ ChangedIsRefused(exportPaths(Changed(store), S), g, S, Input[3])

-----------------------------------------------------------------------------
PickInput ==
  \/ Pick("tree", TreeInputs) \/ Pick("nar", NarInputs)
  \/ Pick("owned", OwnedInputs) \/ Pick("resolve", ResolveInputs)
  \/ Pick("stream", StreamInputs) \/ Pick("wire", WireInputs) \/ Pick("modulo", ModuloInputs)
  \/ Pick("raw", RawInputs) \/ Pick("pair", PairInputs) \/ Pick("name", NameInputs)
  \/ Pick("in store", InStoreInputs) \/ Pick("follow", FollowInputs)
  \/ Pick("hash", HashInputs) \/ Pick("body", BodyInputs) \/ Pick("address", AddressInputs)
  \/ Pick("ca", CaInputs) \/ Pick("object", ObjectInputs) \/ Pick("json", JsonInputs)
  \/ Pick("export", ExportInputs)
=============================================================================
