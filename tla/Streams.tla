------------------------------ MODULE Streams ------------------------------
(***************************************************************************)
(* Sinks, sources and their wire format (serialise.cc, serialise.hh).  A   *)
(* byte is a number below ByteBase, a word has WordLen bytes; the code has *)
(* 256 and 8.  Reading from a source returns the source as it is           *)
(* afterwards, the bytes, and whether an EndOfFile (`eof') or a            *)
(* SerialisationError (`bad') was thrown.                                  *)
(***************************************************************************)
EXTENDS Integers, Sequences, SequencesExt, FiniteSets, FiniteSetsExt

CONSTANTS
  ByteBase, WordLen,
  IntMax,      \* the largest unsigned int, which a word can exceed
  BufSize,     \* bufSize of the buffered sinks and sources
  ChunkLen     \* the local arrays drainInto() and skip() read into

ASSUME StreamAssumption ==
  /\ ByteBase \in Nat \ {0, 1} /\ WordLen \in Nat \ {0}
  /\ BufSize \in Nat \ {0} /\ ChunkLen \in Nat \ {0}
  /\ IntMax \in 1..(ByteBase^WordLen - 2)

Least(m, n) == IF m < n THEN m ELSE n
Take(s, n) == SubSeq(s, 1, Least(n, Len(s)))
Drop(s, n) == SubSeq(s, Least(n, Len(s)) + 1, Len(s))
Concat(ss) == FlattenSeq(ss)

(***************************************************************************)
(* BufferedSink.  s.buf is the buffer, s.out the pieces writeUnbuffered()  *)
(* was given.                                                              *)
(***************************************************************************)

EmptySink == [buf |-> <<>>, out |-> <<>>]

flush(s) == IF s.buf = <<>> THEN s ELSE [buf |-> <<>>, out |-> Append(s.out, s.buf)]

\* A mutant: what does not fit overtakes what is in the buffer.
WriteOvertaking(s, data) ==
  IF Len(data) >= BufSize - Len(s.buf) /\ data # <<>>
  THEN [s EXCEPT !.out = Append(@, data)]
  ELSE [s EXCEPT !.buf = @ \o data]

\* operator()(data): data that fills the buffer bypasses it.
Write(s, data) ==
  IF Len(data) >= BufSize - Len(s.buf) /\ data # <<>>
  THEN [flush(s) EXCEPT !.out = Append(@, data)]
  ELSE [s EXCEPT !.buf = @ \o data]

\* The pieces a whole run of writes and a flush come to.
Pieces(writes) == flush(FoldLeft(Write, EmptySink, writes)).out

(***************************************************************************)
(* Sources.  `kind' is the class.                                          *)
(***************************************************************************)

StringSource(s) == [kind |-> "string", rest |-> s]

\* FdSource: what is left in the file, what the kernel hands out at a time, the
\* buffer of BufferedSource.
FdSource(file, sizes, seekable) ==
  [kind |-> "fd", rest |-> file, sizes |-> sizes, seekable |-> seekable, buf |-> <<>>]

\* The Source of sinkToSource(): the pieces the writer has still to yield, and
\* the piece being read.
SinkToSource(pieces) == [kind |-> "coro", all |-> pieces, todo |-> pieces, cur |-> <<>>]

ChainSource(a, b) == [kind |-> "chain", first |-> a, second |-> b, useSecond |-> FALSE]
SizedSource(orig, n) == [kind |-> "sized", orig |-> orig, remain |-> n]
TeeSource(orig) == [kind |-> "tee", orig |-> orig, saved |-> <<>>]
LengthSource(next) == [kind |-> "length", orig |-> next, total |-> 0]
FramedSource(from) == [kind |-> "framed", from |-> from, eof |-> FALSE, pending |-> <<>>]
EnsureRead(orig, n) == [kind |-> "ensure", orig |-> orig, bytesRead |-> 0, expected |-> n]

Result(src, data) == [src |-> src, data |-> data, eof |-> FALSE, bad |-> FALSE]
EndOfFile(src) == [src |-> src, data |-> <<>>, eof |-> TRUE, bad |-> FALSE]
SerialisationError(src) == [src |-> src, data |-> <<>>, eof |-> FALSE, bad |-> TRUE]
Threw(r) == r.eof \/ r.bad

ReadString(src, len) ==
  IF src.rest = <<>> THEN EndOfFile(src)
  ELSE Result([src EXCEPT !.rest = Drop(@, len)], Take(src.rest, len))

\* read(2): some of what is asked for; `sizes' is used round and round.
readUnbuffered(src, len) ==
  LET n == Least(len, Head(src.sizes))
  IN IF src.rest = <<>> THEN EndOfFile(src)
     ELSE Result([src EXCEPT !.rest = Drop(@, n), !.sizes = Append(Tail(@), Head(@))], Take(src.rest, n))

\* BufferedSource::read().
ReadBuffered(src, len) ==
  LET r == IF src.buf = <<>> THEN readUnbuffered(src, BufSize) ELSE Result(src, src.buf)
  IN IF r.eof THEN r
     ELSE Result([r.src EXCEPT !.buf = Drop(r.data, len)], Take(r.data, len))

\* SinkToSource::read(): the writer runs up to its next piece when the current one
\* is used up, at the beginning of a read or, so that a writer that has nothing
\* more to give gets to its end, already at the end of the one before.
ReadCoro(src, len) ==
  LET next(x) == [x EXCEPT !.cur = Head(x.todo), !.todo = Tail(x.todo)]
      resumed == IF src.cur = <<>> /\ src.todo # <<>> THEN next(src) ELSE src
      left == Drop(resumed.cur, len)
      ahead == IF left = <<>> /\ resumed.todo # <<>> THEN next(resumed) ELSE [resumed EXCEPT !.cur = left]
  \* At the end the coroutine is dropped: reading on would run the writer again.
  IN IF resumed.cur = <<>> THEN EndOfFile([src EXCEPT !.todo = src.all])
     ELSE Result(ahead, Take(resumed.cur, len))

RECURSIVE Read(_, _), ReadExactly(_, _), ReadMore(_, _), ReadChain(_, _), ChainRead(_, _, _), FrameRead(_, _, _)

\* Source::operator()(data, len): read() until there are len bytes.
ReadExactly(src, len) == IF len = 0 THEN Result(src, <<>>) ELSE ReadMore(Read(src, len), len)

Joined(data, more) == [more EXCEPT !.data = IF Threw(more) THEN <<>> ELSE data \o @]

ReadMore(r, len) == IF Threw(r) THEN r ELSE Joined(r.data, ReadExactly(r.src, len - Len(r.data)))

ReadChain(src, len) == ChainRead(src, Read(IF src.useSecond THEN src.second ELSE src.first, len), len)

\* Only EndOfFile is caught.
ChainRead(src, r, len) ==
  CASE src.useSecond -> [r EXCEPT !.src = [src EXCEPT !.second = r.src]]
    [] ~src.useSecond /\ r.eof -> ReadChain([src EXCEPT !.useSecond = TRUE, !.first = r.src], len)
    [] OTHER -> [r EXCEPT !.src = [src EXCEPT !.first = r.src]]

\* A source that stands before another one takes note of what is read through it.
Noted(src, r) ==
  [r EXCEPT !.src =
     CASE src.kind = "sized" -> [src EXCEPT !.orig = r.src, !.remain = @ - Len(r.data)]
       [] src.kind = "tee" -> [src EXCEPT !.orig = r.src, !.saved = @ \o r.data]
       [] src.kind = "length" -> [src EXCEPT !.orig = r.src, !.total = @ + Len(r.data)]
       [] src.kind = "ensure" -> [src EXCEPT !.orig = r.src, !.bytesRead = @ + Len(r.data)]]

RECURSIVE Number(_)
\* readLittleEndian().
Number(bytes) == IF bytes = <<>> THEN 0 ELSE Head(bytes) + ByteBase * Number(Tail(bytes))

\* What is left of a frame, or the next one: its length, and then its body.
FromFrame(src, data, len) == Result([src EXCEPT !.pending = Drop(data, len)], Take(data, len))

FrameBody(src, body, len) ==
  IF Threw(body) THEN [body EXCEPT !.src = [src EXCEPT !.from = body.src]]
  ELSE FromFrame([src EXCEPT !.from = body.src], body.data, len)

\* readInt() refuses a length that no unsigned int has.
FrameRead(src, n, len) ==
  CASE Threw(n) -> [n EXCEPT !.src = [src EXCEPT !.from = n.src]]
    [] ~Threw(n) /\ Number(n.data) > IntMax -> SerialisationError([src EXCEPT !.from = n.src])
    [] ~Threw(n) /\ Number(n.data) = 0 -> Result([src EXCEPT !.from = n.src, !.eof = TRUE], <<>>)
    [] OTHER -> FrameBody(src, ReadExactly(n.src, Number(n.data)), len)

ReadFramed(src, len) ==
  CASE src.eof -> EndOfFile(src)
    [] ~src.eof /\ src.pending # <<>> -> FromFrame(src, src.pending, len)
    [] OTHER -> FrameRead(src, ReadExactly(src.from, WordLen), len)

Read(src, len) ==
  CASE src.kind = "string" -> ReadString(src, len)
    [] src.kind = "fd" -> ReadBuffered(src, len)
    [] src.kind = "coro" -> ReadCoro(src, len)
    [] src.kind = "chain" -> ReadChain(src, len)
    [] src.kind = "framed" -> ReadFramed(src, len)
    [] src.kind = "sized" -> IF src.remain <= 0 THEN EndOfFile(src) ELSE Noted(src, Read(src.orig, Least(len, src.remain)))
    [] src.kind \in {"tee", "length", "ensure"} -> Noted(src, Read(src.orig, len))

RECURSIVE SkipByReading(_, _)
\* Source::skip().
SkipByReading(src, len) ==
  IF len = 0 THEN Result(src, <<>>)
  ELSE LET r == Read(src, Least(len, ChunkLen))
       IN IF Threw(r) THEN r ELSE SkipByReading(r.src, len - Len(r.data))

\* FdSource::skip(): the buffer first, then a seek, which may go past the end of
\* the file, or reads.
SkipFd(src, len) ==
  LET left == len - Least(len, Len(src.buf))
      kept == [src EXCEPT !.buf = Drop(@, len)]
  IN CASE left = 0 -> Result(kept, <<>>)
       [] left > 0 /\ src.seekable -> Result([kept EXCEPT !.rest = Drop(@, left)], <<>>)
       [] OTHER -> SkipByReading(kept, left)

\* StringSource::skip().
SkipString(src, len) ==
  IF len > Len(src.rest) THEN EndOfFile([src EXCEPT !.rest = <<>>])
  ELSE Result([src EXCEPT !.rest = Drop(@, len)], <<>>)

RECURSIVE SkipIn(_, _)
SkipIn(src, len) ==
  CASE src.kind = "string" -> SkipString(src, len)
    [] src.kind = "fd" -> SkipFd(src, len)
    [] src.kind = "ensure" ->
         LET r == SkipIn(src.orig, len)
         IN [r EXCEPT !.src = [src EXCEPT !.orig = r.src, !.bytesRead = IF Threw(r) THEN @ ELSE @ + len]]
    [] OTHER -> SkipByReading(src, len)

RECURSIVE Drain(_, _)
\* drainInto(sink): everything up to EndOfFile, which is caught.  FramedSource
\* returns an empty read before it throws.
Drain(src, got) ==
  LET r == Read(src, ChunkLen)
  IN IF Threw(r) THEN [r EXCEPT !.data = got, !.eof = FALSE] ELSE Drain(r.src, got \o r.data)

RECURSIVE DrainLen(_, _, _)
\* drainInto(sink, len).
DrainLen(src, len, got) ==
  IF len = 0 THEN Result(src, got)
  ELSE LET r == Read(src, Least(len, ChunkLen))
       IN IF Threw(r) THEN r ELSE DrainLen(r.src, len - Len(r.data), got \o r.data)

RECURSIVE ReadLineFrom(_, _, _, _)
\* BufferedSource::readLine(): up to the terminator, which is dropped.
ReadLineFrom(src, terminator, eofOk, line) ==
  LET stop == {i \in DOMAIN src.buf : src.buf[i] = terminator}
      r == readUnbuffered(src, BufSize)
  IN CASE stop # {} ->
            Result([src EXCEPT !.buf = Drop(@, Min(stop))], line \o Take(src.buf, Min(stop) - 1))
       [] stop = {} /\ src.buf # <<>> ->
            ReadLineFrom([src EXCEPT !.buf = <<>>], terminator, eofOk, line \o src.buf)
       [] OTHER -> IF r.eof THEN IF eofOk THEN Result(r.src, line) ELSE EndOfFile(r.src)
                   ELSE ReadLineFrom([r.src EXCEPT !.buf = r.data], terminator, eofOk, line)

readLine(src, terminator, eofOk) == ReadLineFrom(src, terminator, eofOk, <<>>)

\* EnsureRead::finish() and the destructor of FramedSource leave the stream
\* underneath where the data ends.
FinishEnsure(src) ==
  IF src.bytesRead < src.expected THEN SkipIn(src, src.expected - src.bytesRead).src.orig ELSE src.orig

RECURSIVE FinishFramed(_)
FinishFramed(src) ==
  LET n == ReadExactly(src.from, WordLen)
      last == Threw(n) \/ Number(n.data) = 0 \/ Number(n.data) > IntMax
      body == ReadExactly(n.src, Number(n.data))
  IN CASE src.eof -> src.from
       [] ~src.eof /\ last -> n.src
       [] OTHER -> IF Threw(body) THEN body.src ELSE FinishFramed([src EXCEPT !.from = body.src])

(***************************************************************************)
(* sourceToSink(): the pieces of a buffered sink feed a reader that runs   *)
(* as a coroutine.  The reader asks for r.sizes in turn and returns when   *)
(* it has r.want bytes, or at EndOfFile.                                   *)
(***************************************************************************)

Reader(want, sizes) == [want |-> want, sizes |-> sizes, got |-> <<>>, state |-> "waiting", aborted |-> FALSE]

RECURSIVE RunReader(_, _)
RunReader(r, cur) ==
  LET n == Least(Head(r.sizes), r.want - Len(r.got))
      fed == [r EXCEPT !.got = @ \o Take(cur, n), !.sizes = Append(Tail(@), Head(@))]
  IN CASE Len(r.got) = r.want -> [r EXCEPT !.state = "returned"]
       [] Len(r.got) # r.want /\ cur = <<>> -> r
       [] OTHER -> RunReader(fed, Drop(cur, n))

\* writeUnbuffered(): a reader that has returned cannot be resumed.
FeedReader(r, piece) ==
  IF r.state # "waiting" THEN [r EXCEPT !.aborted = TRUE] ELSE RunReader(r, piece)

\* The sink's writes, then finish(): flush, and EndOfFile for a reader that waits.
sourceToSink(writes, reader) ==
  LET r == FoldLeft(FeedReader, reader, Pieces(writes))
  IN IF r.state = "waiting" /\ Pieces(writes) # <<>> THEN [r EXCEPT !.state = "eof"] ELSE r

(***************************************************************************)
(* The wire format                                                         *)
(***************************************************************************)

\* operator<<(sink, uint64_t): little endian.
PutNum(n) == [i \in 1..WordLen |-> (n \div ByteBase^(i - 1)) % ByteBase]

PadLen(len) == IF len % WordLen = 0 THEN 0 ELSE WordLen - (len % WordLen)
writePadding(len) == [i \in 1..PadLen(len) |-> 0]

writeString(s) == PutNum(Len(s)) \o s \o writePadding(Len(s))
writeStrings(ss) == PutNum(Len(ss)) \o Concat([i \in DOMAIN ss |-> writeString(ss[i])])

\* The outcome of reading: "ok" with a value, "eof", or "bad" for a
\* SerialisationError.
Got(status, src, value) == [status |-> status, src |-> src, value |-> value]

PaddingIsZero(bytes) == \A i \in DOMAIN bytes : bytes[i] = 0

Raised(r, value) == Got(IF r.eof THEN "eof" ELSE "bad", r.src, value)

\* readNum<T>(); `max' is the largest value of T.
NumIn(r, max) ==
  IF Threw(r) THEN Raised(r, 0)
  ELSE LET n == Number(r.data) IN IF n > max THEN Got("bad", r.src, 0) ELSE Got("ok", r.src, n)

readNum(src, max) == NumIn(ReadExactly(src, WordLen), max)

\* `value' is what was read before the padding.
PaddingIn(r, value) ==
  CASE Threw(r) -> Raised(r, <<>>)
    [] ~Threw(r) /\ ~PaddingIsZero(r.data) -> Got("bad", r.src, <<>>)
    [] OTHER -> Got("ok", r.src, value)

readPadding(src, value) == PaddingIn(ReadExactly(src, PadLen(Len(value))), value)

SizeMax == ByteBase^WordLen - 1

\* The bytes of a string, and then its padding.
TextIn(body) == IF Threw(body) THEN Raised(body, <<>>) ELSE readPadding(body.src, body.data)

TextAfter(n, max) ==
  CASE n.status # "ok" -> [n EXCEPT !.value = <<>>]
    [] n.status = "ok" /\ n.value > max -> Got("bad", n.src, <<>>)
    [] OTHER -> TextIn(ReadExactly(n.src, n.value))

readString(src, max) == TextAfter(readNum(src, SizeMax), max)

RECURSIVE ReadList(_, _)
ReadList(g, count) ==
  IF count = 0 \/ g.status # "ok" THEN g
  ELSE LET s == readString(g.src, SizeMax)
       IN ReadList([s EXCEPT !.value = Append(g.value, s.value)], count - 1)

ListAfter(n) == ReadList([n EXCEPT !.value = <<>>], n.value)

\* readStrings() into a list; LengthPrefixedProtoHelper reads its vectors alike.
readStrings(src) == ListAfter(readNum(src, SizeMax))

\* LengthPrefixedProtoHelper for sets, written in their order and read back into a
\* set, where a duplicate or another order goes unnoticed.
TextBefore(s, t) ==
  \/ Len(s) < Len(t) /\ s = SubSeq(t, 1, Len(s))
  \/ \E i \in 1..Len(s) :
       /\ i <= Len(t) /\ s[i] < t[i]
       /\ SubSeq(s, 1, i - 1) = SubSeq(t, 1, i - 1)
WriteSet(S) == writeStrings(SetToSortSeq(S, TextBefore))
ReadSet(src) ==
  LET l == readStrings(src) IN [l EXCEPT !.value = ToSet(l.value)]

(***************************************************************************)
(* Errors on the wire: the tag, the level, a word that is no longer used,  *)
(* the message, no position, the traces with no position each.             *)
(***************************************************************************)

ErrorTag == <<1>>

PutError(e) ==
  writeString(ErrorTag) \o PutNum(e.level) \o writeString(ErrorTag) \o writeString(e.msg) \o PutNum(0)
    \o PutNum(Len(e.traces))
    \o Concat([i \in DOMAIN e.traces |-> PutNum(0) \o writeString(e.traces[i])])

\* The fields of an error, in the order of the wire; after the last one come, for
\* every trace, a position and a hint.
ErrorFields == <<"tag", "level", "name", "msg", "pos", "count">>

ReadField(src, field, maxLevel) ==
  CASE field \in {"tag", "name", "msg", "hint"} -> readString(src, SizeMax)
    [] field = "level" -> readNum(src, maxLevel)
    [] OTHER -> readNum(src, SizeMax)

\* A tag other than "Error" and a position other than 0 are refused.
Refused(field, value) == (field = "tag" /\ value # ErrorTag) \/ (field = "pos" /\ value # 0)

\* The error so far, with the field that was read.
WithField(e, field, read) ==
  CASE read.status # "ok" -> [read EXCEPT !.value = e]
    [] read.status = "ok" /\ Refused(field, read.value) -> Got("bad", read.src, e)
    [] OTHER -> Got("ok", read.src,
                    CASE field = "hint" -> [e EXCEPT !.traces = Append(@, read.value)]
                      [] field \in {"level", "msg", "count"} -> [e EXCEPT ![field] = read.value]
                      [] OTHER -> e)

ReadFields(g, fields, maxLevel) ==
  FoldLeft(LAMBDA h, field : IF h.status # "ok" THEN h
                             ELSE WithField(h.value, field, ReadField(h.src, field, maxLevel)),
           g, fields)

ReadTraces(g) ==
  ReadFields(g, FlattenSeq([i \in 1..g.value.count |-> <<"pos", "hint">>]), SizeMax)

readError(src, maxLevel) ==
  ReadTraces(ReadFields(Got("ok", src, [level |-> 0, msg |-> <<>>, traces |-> <<>>, count |-> 0]),
                        ErrorFields, maxLevel))

(***************************************************************************)
(* FramedSink: every piece with its length, and a zero at the end.  Its    *)
(* destructor writes the zero without a flush(): the caller has flushed.   *)
(***************************************************************************)
Framed(writes) == Concat([i \in DOMAIN Pieces(writes) |-> PutNum(Len(Pieces(writes)[i])) \o Pieces(writes)[i]])
                    \o PutNum(0)
=============================================================================
