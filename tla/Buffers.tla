------------------------------ MODULE Buffers ------------------------------
(***************************************************************************)
(* buffer.js: text to bytes and back, and what Buffer's methods read, write, *)
(* find and compare.  A string is the sequence of its UTF-16 units; an       *)
(* argument that is not given is None.                                      *)
(***************************************************************************)
EXTENDS Computations, FiniteSets, SequencesExt

None == 1000
Radix == 4           \* of a byte of the numbers: two bits are as good as eight
Or(arg, default) == IF arg = None THEN default ELSE arg
AtLeast(x, y) == IF x < y THEN y ELSE x
AtMost(x, y)  == IF x > y THEN y ELSE x
High(u) == u >= 55296 /\ u <= 56319
Low(u)  == u >= 56320 /\ u <= 57343
Slice(b, from, to) == SubSeq(b, from + 1, AtMost(to, Len(b)))   \* 0-based, to excluded

-----------------------------------------------------------------------------
(* Text.                                                                   *)

\* Mutant: the two halves of a character count for themselves.
UnitBytesApart(s, i) == IF s[i] < 128 THEN 1 ELSE IF s[i] < 2048 THEN 2 ELSE 3

PairAt(s, i) == i >= 1 /\ i < Len(s) /\ High(s[i]) /\ Low(s[i + 1])

UnitBytes(s, i) ==
    IF PairAt(s, i - 1) THEN 0
    ELSE IF s[i] < 128 THEN 1 ELSE IF s[i] < 2048 THEN 2 ELSE IF PairAt(s, i) THEN 4 ELSE 3

_utf8ByteLength(s) == FoldLeft(LAMBDA n, k : n + k, 0, [i \in 1 .. Len(s) |-> UnitBytes(s, i)])

Cont(x, shift) == 128 + ((x \div 2 ^ shift) % 64)

_encodeUtf8(s) ==
    FlattenSeq([i \in 1 .. Len(s) |->
        LET c  == s[i]
            cp == 65536 + (c - 55296) * 1024 + (s[i + 1] - 56320)
        IN  CASE PairAt(s, i - 1) -> <<>>
              [] c < 128          -> <<c>>
              [] c >= 128 /\ c < 2048 -> <<192 + c \div 64, Cont(c, 0)>>
              [] PairAt(s, i)     -> <<240 + cp \div 2 ^ 18, Cont(cp, 12), Cont(cp, 6), Cont(cp, 0)>>
              [] OTHER            -> <<224 + c \div 4096, Cont(c, 6), Cont(c, 0)>>])

\* How long the sequence is that starts with b; zero for none.
LeadLength(b) == IF b < 128 THEN 1
                 ELSE IF b \div 32 = 6 THEN 2 ELSE IF b \div 16 = 14 THEN 3 ELSE IF b \div 8 = 30 THEN 4 ELSE 0

_decodeUtf8(b) ==
    LET from[i \in 1 .. Len(b) + 1] ==
            IF i > Len(b) THEN <<>>
            ELSE LET n  == LeadLength(b[i])
                     c2 == (b[i] % 32) * 64 + (b[i + 1] % 64)
                     c3 == ((b[i] % 16) * 64 + (b[i + 1] % 64)) * 64 + (b[i + 2] % 64)
                     cp == (((b[i] % 8) * 64 + (b[i + 1] % 64)) * 64 + (b[i + 2] % 64)) * 64 + (b[i + 3] % 64) - 65536
                 IN  IF n = 0 \/ i + n - 1 > Len(b) THEN <<65533>> \o from[i + 1]
                     ELSE (CASE n = 1 -> <<b[i]>> [] n = 2 -> <<c2>> [] n = 3 -> <<c3>>
                             [] n = 4 -> <<55296 + cp \div 1024, 56320 + (cp % 1024)>>) \o from[i + n]
    IN  from[1]

isUtf8(b) ==
    LET valid[i \in 1 .. Len(b) + 1] ==
            i > Len(b) \/ LET n == LeadLength(b[i])
                          IN  /\ n > 0 /\ i + n - 1 <= Len(b)
                              /\ \A k \in i + 1 .. i + n - 1 : b[k] \div 64 = 2
                              /\ valid[i + n]
    IN  valid[1]

\* A character of base64 is its value, PadChar when it is '=', SpaceChar when
\* it is white; one of hexadecimal is its value, or more than 15.
PadChar == 64
SpaceChar == 65

\* A byte is lost when the last group is not full.
_encodeBase64(s) ==
    LET clean == SelectSeq(s, LAMBDA c : c \notin {PadChar, SpaceChar})
        at(i) == IF i <= Len(clean) THEN clean[i] ELSE 0
        group(k) == LET i == 4 * k - 3
                    IN  <<(at(i) * 4 + at(i + 1) \div 16) % 256>>
                        \o (IF i + 2 <= Len(clean) THEN <<(at(i + 1) % 16) * 16 + at(i + 2) \div 4>> ELSE <<>>)
                        \o (IF i + 3 <= Len(clean) THEN <<(at(i + 2) % 4) * 64 + at(i + 3)>> ELSE <<>>)
    IN  FlattenSeq([k \in 1 .. (Len(clean) + 3) \div 4 |-> group(k)])

_decodeBase64(b, urlSafe) ==
    LET at(i) == IF i <= Len(b) THEN b[i] ELSE 0
        pad == IF urlSafe THEN <<>> ELSE <<PadChar>>
        group(k) == LET i == 3 * k - 2
                    IN  <<at(i) \div 4, (at(i) % 4) * 16 + at(i + 1) \div 16>>
                        \o (IF i + 1 <= Len(b) THEN <<(at(i + 1) % 16) * 4 + at(i + 2) \div 64>> ELSE pad)
                        \o (IF i + 2 <= Len(b) THEN <<at(i + 2) % 64>> ELSE pad)
    IN  FlattenSeq([k \in 1 .. (Len(b) + 2) \div 3 |-> group(k)])

\* Up to the first pair that is none.
_encodeHex(s) ==
    LET bad == {k \in 1 .. Len(s) \div 2 : s[2 * k - 1] > 15 \/ s[2 * k] > 15}
        n   == IF bad = {} THEN Len(s) \div 2 ELSE (CHOOSE k \in bad : \A j \in bad : k <= j) - 1
    IN  [k \in 1 .. n |-> s[2 * k - 1] * 16 + s[2 * k]]

_decodeHex(b) == FlattenSeq([i \in 1 .. Len(b) |-> <<b[i] \div 16, b[i] % 16>>])

_encodeUtf16le(s) == FlattenSeq([i \in 1 .. Len(s) |-> <<s[i] % 256, s[i] \div 256>>])

_strToBytes(s, enc) ==
    CASE enc = "utf8" -> _encodeUtf8(s) [] enc = "utf16le" -> _encodeUtf16le(s) [] enc = "hex" -> _encodeHex(s)
      [] enc = "base64" -> _encodeBase64(s) [] enc = "latin1" -> [i \in 1 .. Len(s) |-> s[i] % 256]

\* utf16le is read back a byte at a time, like latin1.
_bytesToStr(b, enc) ==
    CASE enc = "utf8" -> _decodeUtf8(b) [] enc = "hex" -> _decodeHex(b) [] enc = "base64" -> _decodeBase64(b, FALSE)
      [] enc \in {"latin1", "utf16le"} -> b

\* The constructor, and Buffer.from: of a string, of numbers cut to bytes, of bytes.
NewBuffer(x, enc) == IF enc = "array" THEN [i \in 1 .. Len(x) |-> x[i] % 256] ELSE _strToBytes(x, enc)

-----------------------------------------------------------------------------
(* Methods.                                                                *)

subarray(b, start, end) ==
    LET n == Len(b)
        s == IF start = None THEN 0 ELSE IF start < 0 THEN AtLeast(n + start, 0) ELSE AtMost(start, n)
        e == IF end = None THEN n ELSE IF end < 0 THEN AtLeast(n + end, 0) ELSE AtMost(end, n)
    IN  Slice(b, s, AtLeast(e, s))

\* write of bytes: as many as fit, the last character cut if need be.
write(b, bytes, offset, length) ==
    LET off == Or(offset, 0)
        n   == AtMost(Len(bytes), AtMost(Len(b) - off, Or(length, Len(b))))
    IN  [n |-> n, b |-> [k \in 1 .. Len(b) |-> IF k > off /\ k <= off + n THEN bytes[k - off] ELSE b[k]]]

copy(b, target, targetStart, sourceStart, sourceEnd) ==
    LET ts == Or(targetStart, 0)
        ss == Or(sourceStart, 0)
        n  == AtLeast(AtMost(Or(sourceEnd, Len(b)), Len(b)) - ss, 0)
    IN  [k \in 1 .. Len(target) |-> IF k > ts /\ k <= ts + n THEN b[ss + k - ts] ELSE target[k]]

fill(b, pattern, offset, end) ==
    LET s == AtLeast(Or(offset, 0), 0)
        e == AtMost(Or(end, Len(b)), Len(b))
    IN  [k \in 1 .. Len(b) |-> IF pattern = <<>> \/ k <= s \/ k > e THEN b[k] ELSE pattern[((k - 1 - s) % Len(pattern)) + 1]]

alloc(size, pattern) == fill([k \in 1 .. size |-> 0], pattern, 0, None)

MatchAt(b, needle, p) == \A k \in 1 .. Len(needle) : b[p + k] = needle[k]

\* Mutant: the last place is not looked at.
LastPlaceShort(b, needle) == Len(b) - Len(needle) - 1
LastPlace(b, needle) == Len(b) - Len(needle)

\* The places of the needle from `start` on, or up to it; -1 for none.
_indexOf(b, needle, byteOffset, fromEnd) ==
    LET start == LET o == Or(byteOffset, 0) IN AtLeast(IF o < 0 THEN Len(b) + o ELSE o, 0)
        last  == LastPlace(b, needle)
        places == {p \in 0 .. last : MatchAt(b, needle, p) /\ (IF fromEnd THEN p <= start ELSE p >= start)}
    IN  IF needle = <<>> THEN AtMost(start, Len(b))
        ELSE IF places = {} THEN -1
        ELSE CHOOSE p \in places : \A q \in places : IF fromEnd THEN q <= p ELSE p <= q

lastIndexOf(b, needle, byteOffset) ==
    LET o == Or(byteOffset, Len(b) - 1)
        s == IF o < 0 THEN Len(b) + o ELSE o
    IN  _indexOf(b, needle, AtLeast(AtMost(s, Len(b) - 1), 0), TRUE)

equals(a, b) == Len(a) = Len(b) /\ \A i \in 1 .. Len(a) : a[i] = b[i]

compare(a, b, targetStart, targetEnd, sourceStart, sourceEnd) ==
    LET x == Slice(a, Or(sourceStart, 0), Or(sourceEnd, Len(a)))
        y == Slice(b, Or(targetStart, 0), Or(targetEnd, Len(b)))
        differ == {i \in 1 .. AtMost(Len(x), Len(y)) : x[i] # y[i]}
        i == CHOOSE i \in differ : \A j \in differ : i <= j
        sign(m, n) == IF m < n THEN -1 ELSE IF m > n THEN 1 ELSE 0
    IN  IF differ # {} THEN sign(x[i], y[i]) ELSE sign(Len(x), Len(y))

\* Mutant: "`break` here abandoned every later buffer".
ConcatTakesBreak(list, j, total, pos) ==
    IF \E k \in 1 .. j : list[k] = <<>> THEN 0 ELSE AtLeast(AtMost(Len(list[j]), total - pos), 0)
ConcatTakes(list, j, total, pos) == AtLeast(AtMost(Len(list[j]), total - pos), 0)

concat(list, totalLength) ==
    LET before(j) == FoldLeft(LAMBDA n, b : n + Len(b), 0, SubSeq(list, 1, j - 1))
        total == Or(totalLength, before(Len(list) + 1))
        taken == FlattenSeq([j \in 1 .. Len(list) |-> SubSeq(list[j], 1, ConcatTakes(list, j, total, before(j)))])
    IN  [k \in 1 .. total |-> IF k <= Len(taken) THEN taken[k] ELSE 0]

-----------------------------------------------------------------------------
(* Numbers of w bytes, unsigned or signed.                                  *)

Span(w) == Radix ^ w
_checkOffset(offset, w, n) == Or(offset, 0) >= 0 /\ Or(offset, 0) <= n - w

\* The bytes of a value, the highest first unless `little`.
WriteNumber(b, value, w, little, offset) ==
    LET o == Or(offset, 0)
        digit(k) == ((value % Span(w)) \div Radix ^ (IF little THEN k - 1 ELSE w - k)) % Radix
    IN  [k \in 1 .. Len(b) |-> IF k > o /\ k <= o + w THEN digit(k - o) ELSE b[k]]

ReadNumber(b, w, little, signed, offset) ==
    LET o == Or(offset, 0)
        v == FoldLeft(LAMBDA n, d : n * Radix + d, 0,
                      LET s == Slice(b, o, o + w) IN IF little THEN Reverse(s) ELSE s)
    IN  IF signed /\ 2 * v >= Span(w) THEN v - Span(w) ELSE v

-----------------------------------------------------------------------------
(* text_codec.js: TextEncoder and TextDecoder, without the native shortcuts. *)

Invalid == 65533

_utf8EncodeString(s) == _encodeUtf8(s)

\* encode() into the destination: its first bytes.
encodeInto(s, room) ==
    LET bytes == _utf8EncodeString(s)
        n     == IF Len(bytes) < room THEN Len(bytes) ELSE room
    IN  [read |-> Len(s), written |-> n, bytes |-> SubSeq(bytes, 1, n)]

\* Mutant: a sequence that is longer than it need be passes.
ShortestAny(b, i) == TRUE
\* The first bytes of a sequence of two, three or four: the shortest for its
\* character, which is one there is.
Shortest(b, i) ==
    /\ b[i] \notin {192, 193}
    /\ b[i] = 224 => b[i + 1] >= 160
    /\ b[i] = 240 => b[i + 1] >= 144
    /\ b[i] = 244 => b[i + 1] <= 143
    /\ b[i] <= 244

\* U+FFFD for a byte that starts nothing, and one for the rest when it is cut
\* off; with fatal, nothing but an error.
_utf8DecodeBytes(b, fatal) ==
    LET bad == [ok |-> ~ fatal, s |-> <<Invalid>>]
        then(x, y) == [ok |-> x.ok /\ y.ok, s |-> x.s \o y.s]
        from[i \in 1 .. Len(b) + 1] ==
            IF i > Len(b) THEN [ok |-> TRUE, s |-> <<>>]
            ELSE LET n == LeadLength(b[i])
                 IN  IF n = 0 THEN then(bad, from[i + 1])
                     ELSE IF i + n - 1 > Len(b) THEN bad
                     ELSE IF (\E k \in i + 1 .. i + n - 1 : b[k] \div 64 # 2) \/ (n > 1 /\ ~ Shortest(b, i)) THEN then(bad, from[i + 1])
                     ELSE then([ok |-> TRUE, s |-> _decodeUtf8(SubSeq(b, i, i + n - 1))], from[i + n])
    IN  from[1]

-----------------------------------------------------------------------------
BuffersNext ==
    LET q == computed.q
    IN  \/ Computes("encode", _encodeUtf8(q.x))
        \/ Computes("decode", _decodeUtf8(q.x))
        \/ Computes("recode", NewBuffer(_bytesToStr(q.x, q.enc), q.enc))
        \/ Computes("subarray", subarray(q.x, q.from, q.to))
        \/ Computes("write", write(q.x, q.y, q.from, q.to))
        \/ Computes("copy", copy(q.x, q.y, q.at, q.from, q.to))
        \/ Computes("fill", IF q.x = <<>> THEN alloc(q.to, q.y) ELSE fill(q.x, q.y, q.from, q.to))
        \/ Computes("indexOf", _indexOf(q.x, q.y, q.from, FALSE))
        \/ Computes("lastIndexOf", lastIndexOf(q.x, q.y, q.from))
        \/ Computes("compare", <<compare(q.x, q.y, q.at, None, q.from, None), compare(q.y, q.x, q.from, None, q.at, None)>>)
        \/ Computes("concat", concat(q.x, q.to))
        \/ Computes("number", IF _checkOffset(q.at, q.w, Len(q.x)) THEN WriteNumber(q.x, q.v, q.w, q.little, q.at) ELSE <<>>)

\* Text comes back from its bytes, byteLength is the length of them, and what
\* isUtf8 accepts is what comes back from its text.
TextKept ==
    LET q == computed.q
    IN  /\ Asked("encode") =>
              /\ Len(computed.out) = _utf8ByteLength(q.x) /\ isUtf8(computed.out)
              /\ _decodeUtf8(computed.out) = q.x
        /\ Asked("decode") => (isUtf8(q.x) <=> _encodeUtf8(computed.out) = q.x)
        /\ Asked("recode") => computed.out = q.x

Within(k, from, to, n) ==
    /\ IF from < 0 THEN k > n + from ELSE k > Or(from, 0)
    /\ to = None \/ (IF to < 0 THEN k <= n + to ELSE k <= to)

\* A part is the bytes between its ends; joined buffers are their bytes one
\* after the other, cut or filled up to the length that was asked for; what is
\* written, copied or filled is written there and nowhere else.
BytesMoved ==
    LET q == computed.q
        n == Len(q.x)
        r == computed.out
    IN  /\ Asked("subarray") => r = LET in == SelectSeq([i \in 1 .. n |-> i], LAMBDA k : Within(k, q.from, q.to, n))
                                    IN  [i \in DOMAIN in |-> q.x[in[i]]]
        /\ Asked("concat") => LET all == FlattenSeq(q.x)
                              IN  /\ q.to = None => r = all
                                  /\ q.to # None => Len(r) = q.to /\ \A k \in 1 .. q.to : r[k] = IF k <= Len(all) THEN all[k] ELSE 0
        /\ Asked("fill") /\ n = 0 => Len(r) = q.to /\ (q.y # <<>> => \A k \in 1 .. q.to : r[k] = q.y[((k - 1) % Len(q.y)) + 1])
        /\ Asked("fill") /\ q.y # <<>> => \A k \in 1 .. n :
              IF k > q.from /\ (q.to = None \/ k <= q.to)
              THEN r[k] = (IF k - q.from <= Len(q.y) THEN q.y[k - q.from] ELSE r[k - Len(q.y)])
              ELSE r[k] = q.x[k]
        /\ Asked("copy") => Len(r) = Len(q.y) /\ \A k \in 1 .. Len(r) :
              r[k] = IF k > q.at /\ q.from + k - q.at <= AtMost(q.to, n) THEN q.x[q.from + k - q.at] ELSE q.y[k]
        /\ Asked("write") => /\ Slice(r.b, Or(q.from, 0), Or(q.from, 0) + r.n) = SubSeq(q.y, 1, r.n)
                             /\ Len(r.b) = n /\ (r.n < Len(q.y) => r.n = Or(q.to, n) \/ Or(q.from, 0) + r.n = n)

\* A search finds the first, or the last, place there is; the order of buffers
\* is total and its equality is theirs; a number is read as it was written,
\* and no byte beside it changes.
BytesFound ==
    LET q == computed.q
        n == Len(q.x)
        r == computed.out
        found(p) == p + Len(q.y) <= n /\ Slice(q.x, p, p + Len(q.y)) = q.y
    IN  /\ Asked("indexOf") /\ q.y # <<>> => \A p \in 0 .. n - 1 :
              /\ p = r => found(p)
              /\ found(p) /\ (IF q.from < 0 THEN p >= n + q.from ELSE p >= Or(q.from, 0)) => r >= 0 /\ r <= p
        /\ Asked("lastIndexOf") /\ q.y # <<>> => \A p \in 0 .. n - 1 :
              /\ p = r => found(p)
              /\ found(p) /\ (IF q.from < 0 THEN p <= n + q.from ELSE p <= q.from) => r >= p
        /\ Asked("compare") =>
              /\ r[1] = 0 - r[2]
              /\ q.at = None /\ q.from = None => (r[1] = 0 <=> equals(q.x, q.y))
              /\ r[1] = 0 => Len(q.x) - Or(q.from, 0) = Len(q.y) - Or(q.at, 0) \/ Or(q.from, 0) > Len(q.x) \/ Or(q.at, 0) > Len(q.y)
        /\ Asked("number") /\ r # <<>> =>
              /\ ReadNumber(r, q.w, q.little, q.v < 0, q.at) = q.v
              /\ \A k \in 1 .. n : k <= Or(q.at, 0) \/ k > Or(q.at, 0) + q.w => r[k] = q.x[k]

TextCodecNext ==
    \/ Computes("encodeInto", encodeInto(computed.q.x, computed.q.room))
    \/ Computes("decodeText", _utf8DecodeBytes(computed.q.x, computed.q.fatal))

\* Text comes back from its bytes, and what a fatal decoder takes is the bytes
\* of the text it returns and of no other; without `fatal` nothing is refused,
\* and U+FFFD stands only where there is no character.
DecoderRight ==
    LET q == computed.q
        r == computed.out
    IN  /\ Asked("encodeInto") => /\ r.written <= q.room
                                  /\ q.room >= r.written /\ r.bytes = SubSeq(_utf8EncodeString(q.x), 1, r.written)
                                  /\ _utf8DecodeBytes(_utf8EncodeString(q.x), TRUE) = [ok |-> TRUE, s |-> q.x]
        /\ Asked("decodeText") =>
              /\ r.ok /\ q.fatal => _utf8EncodeString(r.s) = q.x
              /\ ~ q.fatal => r.ok /\ (Invalid \in ToSet(r.s) <=> ~ _utf8DecodeBytes(q.x, TRUE).ok)
=============================================================================
