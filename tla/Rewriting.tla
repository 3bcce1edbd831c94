----------------------------- MODULE Rewriting -----------------------------
(***************************************************************************)
(* RewritingSink and HashModuloSink (references.cc), and rewriteStrings()  *)
(* (util.cc): replacing a path's own hash in a stream that comes in        *)
(* pieces.  A rewrite is [from, to], two texts of one length.              *)
(***************************************************************************)
EXTENDS Streams

RewriteNul == 0

\* Where `from' is found in s, at position j or later.
Found(s, from, j) == {i \in j..(Len(s) - Len(from) + 1) : SubSeq(s, i, i + Len(from) - 1) = from}

RECURSIVE RewriteOne(_, _, _, _)
\* r is [s, matches].  A match is looked for again where the last one was replaced.
RewriteOne(r, rw, j, shift) ==
  LET at == Found(r.s, rw.from, j)
      i == Min(at)
  IN IF rw.from = rw.to \/ at = {} THEN r
     ELSE RewriteOne([s |-> SubSeq(r.s, 1, i - 1) \o rw.to \o SubSeq(r.s, i + Len(rw.from), Len(r.s)),
                      matches |-> r.matches \cup {i - 1 + shift}], rw, i, shift)

rewriteStrings(s, rewrites, shift) ==
  FoldLeft(LAMBDA r, rw : RewriteOne(r, rw, 1, shift), [s |-> s, matches |-> {}], rewrites)

\* What is held back after a write: a match may have begun in it.
HeldBack(s, max) ==
  CASE Len(s) < max -> Len(s)
    [] Len(s) >= max /\ max = 0 -> 0
    [] OTHER -> max - 1

maxRewriteSize(rewrites) == Max({0} \cup {Len(rewrites[i].from) : i \in DOMAIN rewrites})

NewRewriting == [prev |-> <<>>, pos |-> 0, matches |-> {}, out |-> <<>>]

RewriteWrite(sink, data, rewrites) ==
  LET r == rewriteStrings(sink.prev \o data, rewrites, sink.pos)
      consumed == Len(r.s) - HeldBack(r.s, maxRewriteSize(rewrites))
  IN [prev |-> Drop(r.s, consumed), pos |-> sink.pos + consumed,
      matches |-> sink.matches \cup r.matches, out |-> sink.out \o Take(r.s, consumed)]

RewriteFlush(sink) == [sink EXCEPT !.pos = @ + Len(sink.prev), !.out = @ \o sink.prev, !.prev = <<>>]

RewritingSink(writes, rewrites) ==
  RewriteFlush(FoldLeft(LAMBDA sink, data : RewriteWrite(sink, data, rewrites), NewRewriting, writes))

\* What is hashed: the text with the modulus zeroed out, and the positions where it
\* was, "|n" each.
HashModuloSink(writes, modulus) ==
  LET r == RewritingSink(writes, <<[from |-> modulus, to |-> [i \in DOMAIN modulus |-> RewriteNul]]>>)
      marks == SelectSeq([i \in 1..(r.pos + 1) |-> i - 1], LAMBDA p : p \in r.matches)
  IN [hashed |-> r.out \o FlattenSeq([k \in DOMAIN marks |-> <<"|", marks[k]>>]), bytes |-> r.pos]
=============================================================================
