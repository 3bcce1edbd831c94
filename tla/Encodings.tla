----------------------------- MODULE Encodings -----------------------------
(***************************************************************************)
(* Hashes and their text forms: base 16 and 64 (base-n.cc), Nix's base 32  *)
(* (base-nix-32.cc), and the parsing and printing of hashes (hash.cc).     *)
(*                                                                         *)
(* A character is its index among base64Chars ("A" is 0, "a" is 26, "0" is *)
(* 52), since base 64 knows the most; '=', a newline and every character   *)
(* that no encoding uses come after these.  A text is [algo, sep, body]:   *)
(* what stands before the first ':' or '-', that separator, and the rest.  *)
(***************************************************************************)
EXTENDS Streams, Functions, Bitwise

CONSTANTS
  HashAlgorithm,   \* their names
  HashSize         \* regularHashSize(): the bytes of a digest

Equals == 64
Newline == 65

b16Length(size) == 2 * size
n32Length(size) == (size * 8 - 1) \div 5 + 1
b64Length(size) == (((4 * size) \div 3 + 3) \div 4) * 4

\* The sizes the code has, 16, 20, 32 and 64, tell the formats apart; the model's
\* must too.
ASSUME HashAssumption ==
  \A a \in HashAlgorithm :
    /\ HashSize[a] \in Nat \ {0}
    /\ Cardinality({b16Length(HashSize[a]), n32Length(HashSize[a]), b64Length(HashSize[a])}) = 3

(***************************************************************************)
(* The encodings.  Decoding returns a sequence of at most one result:      *)
(* nothing when it throws a FormatError.                                   *)
(***************************************************************************)

base16Chars == [d \in 0..15 |-> IF d < 10 THEN 52 + d ELSE 26 + d - 10]

HexDigit(c) ==
  CASE c \in 52..61 -> c - 52
    [] c \in 0..5 -> c + 10
    [] c \in 26..31 -> c - 26 + 10
    [] OTHER -> -1

base16Encode(b) == FlattenSeq([i \in DOMAIN b |-> <<base16Chars[b[i] \div 16], base16Chars[b[i] % 16]>>])

\* Only texts of even length get here.
base16Decode(s) ==
  IF \E i \in DOMAIN s : HexDigit(s[i]) = -1 THEN <<>>
  ELSE <<[i \in 1..(Len(s) \div 2) |-> 16 * HexDigit(s[2 * i - 1]) + HexDigit(s[2 * i])]>>

\* Digits and small letters without e, o, u, t.
nix32Chars ==
  LET letters == SelectSeq([i \in 1..26 |-> 25 + i], LAMBDA c : c \notin {30, 40, 45, 46})
  IN [d \in 0..31 |-> IF d < 10 THEN 52 + d ELSE letters[d - 9]]

lookupReverse(c) ==
  IF \E d \in 0..31 : nix32Chars[d] = c THEN CHOOSE d \in 0..31 : nix32Chars[d] = c ELSE -1

\* Five bits at a time, from the last byte's highest ones down.
nix32Encode(b) ==
  LET len == n32Length(Len(b))
      at(i) == IF i < Len(b) THEN b[i + 1] ELSE 0
      digit(n) == ((at((5 * n) \div 8) + 256 * at((5 * n) \div 8 + 1)) \div 2^((5 * n) % 8)) % 32
  IN IF b = <<>> THEN <<>> ELSE [k \in 1..len |-> nix32Chars[digit(len - k)]]

\* The bits of a digit that belong to the next byte: the result grows by that byte
\* only if there are any.
Carry(res, i, high) == IF high = 0 THEN res ELSE Append(res, high)

nix32Decode(s) ==
  LET digit(n) == lookupReverse(s[Len(s) - n])
      step(res, n) ==
        LET i == (5 * n) \div 8
            j == (5 * n) % 8
            sized == IF Len(res) = i THEN Append(res, 0) ELSE res
            low == [sized EXCEPT ![i + 1] = @ + ((digit(n) * 2^j) % 256)]
        IN Carry(low, i, digit(n) \div 2^(8 - j))
  IN IF \E n \in 0..(Len(s) - 1) : digit(n) = -1 THEN <<>>
     ELSE <<FoldLeft(step, <<>>, [n \in 1..Len(s) |-> n - 1])>>

\* data holds the nbits bits that no character stands for yet.
base64Encode(b) ==
  LET byte(s, c) ==
        LET data == s.data * 256 + c
            n == s.nbits + 8
            left == n % 6
            new == [k \in 1..(n \div 6) |-> (data \div 2^(n - 6 * k)) % 64]
        IN [data |-> data % 2^left, nbits |-> left, res |-> s.res \o new]
      e == FoldLeft(byte, [data |-> 0, nbits |-> 0, res |-> <<>>], b)
      all == IF e.nbits = 0 THEN e.res ELSE Append(e.res, e.data * 2^(6 - e.nbits))
  IN all \o [k \in 1..((4 - (Len(all) % 4)) % 4) |-> Equals]

\* Up to the first '='; newlines do not count, and bits that do not make up a byte
\* are not looked at.
base64Decode(s) ==
  LET stop == {i \in DOMAIN s : s[i] = Equals}
      text == SelectSeq(IF stop = {} THEN s ELSE SubSeq(s, 1, Min(stop) - 1), LAMBDA c : c # Newline)
      char(r, c) ==
        LET d == (r.d * 64 + c) % 2^14
            bits == r.bits + 6
        IN IF bits >= 8 THEN [d |-> d, bits |-> bits - 8, res |-> Append(r.res, (d \div 2^(bits - 8)) % 256)]
           ELSE [d |-> d, bits |-> bits, res |-> r.res]
  IN IF \E i \in DOMAIN text : text[i] \notin 0..63 THEN <<>>
     ELSE <<FoldLeft(char, [d |-> 0, bits |-> 0, res |-> <<>>], text).res>>

(***************************************************************************)
(* Hashes                                                                  *)
(***************************************************************************)

MkHash(algo, bytes) == [algo |-> algo, bytes |-> bytes]
Zeros(algo) == MkHash(algo, [i \in 1..HashSize[algo] |-> 0])

Text(algo, sep, body) == [algo |-> algo, sep |-> sep, body |-> body]
Bare(body) == Text("", "", body)

HashFormat == {"base16", "nix32", "base64", "sri"}

\* The format a name stands for, or "none": "base32" is an older name.
parseHashFormat(name) ==
  CASE name \in HashFormat -> name [] name = "base32" -> "nix32" [] OTHER -> "none"

\* parseHashAlgoOpt(): algorithms are their own names.
IsHashAlgo(name) == name \in HashAlgorithm

Encode(format, bytes) ==
  CASE format = "base16" -> base16Encode(bytes)
    [] format = "nix32" -> nix32Encode(bytes)
    [] OTHER -> base64Encode(bytes)

to_string(h, format, includeAlgo) ==
  LET body == Encode(format, h.bytes)
  IN CASE format = "sri" -> Text(h.algo, "-", body)
       [] format # "sri" /\ includeAlgo -> Text(h.algo, ":", body)
       [] OTHER -> Bare(body)

baseExplicit(format, s) ==
  CASE format = "base16" -> base16Decode(s)
    [] format = "nix32" -> nix32Decode(s)
    [] OTHER -> base64Decode(s)

\* The format that a text of this length is in, or "none".
baseFromSize(s, algo) ==
  CASE Len(s) = b16Length(HashSize[algo]) -> "base16"
    [] Len(s) # b16Length(HashSize[algo]) /\ Len(s) = n32Length(HashSize[algo]) -> "nix32"
    [] Len(s) \notin {b16Length(HashSize[algo]), n32Length(HashSize[algo])}
         /\ Len(s) = b64Length(HashSize[algo]) -> "base64"
    [] OTHER -> "none"

\* What parsing gives: a hash and the format it was in, or the exception.
Parsed(h, format) == [status |-> "ok", hash |-> h, format |-> format]
Failed(status) == [status |-> status, hash |-> Zeros(CHOOSE a \in HashAlgorithm : TRUE), format |-> "none"]

\* The error of the decoder is swallowed: its empty result has the wrong length.
parseLowLevel(s, algo, format) ==
  LET d == baseExplicit(format, s)
      bytes == IF d = <<>> THEN <<>> ELSE d[1]
  IN IF Len(bytes) # HashSize[algo] THEN Failed("BadHash") ELSE Parsed(MkHash(algo, bytes), format)

parseSRI(text) ==
  CASE text.sep # "-" -> Failed("BadHash")
    [] text.sep = "-" /\ ~IsHashAlgo(text.algo) -> Failed("UsageError")
    [] OTHER -> parseLowLevel(text.body, text.algo, "sri")

\* A hash in JSON.
HashToJSON(h) == to_string(h, "sri", TRUE)
HashFromJSON(text) == parseSRI(text)

\* resolveAlgo() of the two callers: `known' is the algorithm the caller knows, or
\* "" for none.
parseAnyHelper(text, known) ==
  LET algo == IF text.sep # "" THEN text.algo ELSE known
      format == IF text.sep = "-" THEN "sri" ELSE baseFromSize(text.body, algo)
  IN CASE text.sep # "" /\ ~IsHashAlgo(text.algo) -> Failed("UsageError")
       [] text.sep = "" /\ known = "" -> Failed("BadHash")
       [] text.sep # "" /\ IsHashAlgo(text.algo) /\ known \notin {"", text.algo} -> Failed("BadHash")
       [] OTHER -> IF format = "none" THEN Failed("BadHash") ELSE parseLowLevel(text.body, algo, format)

parseAnyPrefixed(text) == parseAnyHelper(text, "")
parseAny(text, known) == parseAnyHelper(text, known)

parseNonSRIUnprefixed(s, algo) ==
  IF baseFromSize(s, algo) = "none" THEN Failed("BadHash")
  ELSE parseLowLevel(s, algo, baseFromSize(s, algo))

newHashAllowEmpty(text, known) ==
  CASE text = Bare(<<>>) /\ known = "" -> Failed("BadHash")
    [] text = Bare(<<>>) /\ known # "" -> Parsed(Zeros(known), "none")
    [] OTHER -> parseAny(text, known)

\* compressHash(): the bytes folded onto newSize of them.
compressHash(h, newSize) ==
  MkHash(h.algo, [k \in 1..newSize |->
    FoldLeft(LAMBDA acc, i : acc ^^ h.bytes[i], 0,
             SelectSeq([i \in DOMAIN h.bytes |-> i], LAMBDA i : (i - 1) % newSize = k - 1))])

\* Two hashes are equal whatever their algorithms; their order tells those apart.
HashEqual(g, h) == g.bytes = h.bytes

HashBefore(g, h) ==
  LET m == Len(g.bytes)
      differ == {i \in 1..m : g.bytes[i] # h.bytes[i]}
      rank(a) == CHOOSE i \in 1..Cardinality(HashAlgorithm) : SetToSeq(HashAlgorithm)[i] = a
  IN CASE m # Len(h.bytes) -> m < Len(h.bytes)
       [] m = Len(h.bytes) /\ differ # {} -> g.bytes[Min(differ)] < h.bytes[Min(differ)]
       [] OTHER -> rank(g.algo) < rank(h.algo)

(***************************************************************************)
(* HashSink: a buffered sink whose pieces update a context, here the bytes *)
(* seen so far.  currentHash() reads a copy of the context.                *)
(***************************************************************************)

\* A digest, as a name for what was hashed.
Digest(algo, data) == <<algo, data>>

HashResult(s, algo) == [hash |-> Digest(algo, Concat(flush(s).out)), bytes |-> Len(Concat(flush(s).out))]

\* The results of currentHash() after each write, and of finish() last.
RECURSIVE HashSink(_, _, _)
HashSink(s, writes, algo) ==
  IF writes = <<>> THEN <<HashResult(s, algo)>>
  ELSE LET w == flush(Write(s, Head(writes)))
       IN <<HashResult(w, algo)>> \o HashSink(w, Tail(writes), algo)
=============================================================================
