---------------------------- MODULE BinaryCodecs ----------------------------
(***************************************************************************)
(* binary_types.js: floats of 16 and 32 bits, clamped bytes, and base64 and *)
(* hexadecimal text of a Uint8Array.                                       *)
(*                                                                         *)
(* A positive number is <<m, e>>, for m * 2^e; a float is its exponent and  *)
(* fraction fields.  A character of base64 is its value, 0..63, or PadChar,     *)
(* SpaceChar or BadChar; one of hexadecimal is 0..15 or BadChar.                       *)
(***************************************************************************)
EXTENDS Computations, FiniteSets, SequencesExt

PadChar == 64
SpaceChar == 65
BadChar == 66
Refused == [ok |-> FALSE, bytes |-> <<>>, read |-> 0]

-----------------------------------------------------------------------------
(* Floats: f = [bias, frac, top] is the format, top its largest exponent field. *)

Half   == [bias |-> 15, frac |-> 10, top |-> 30]
Single == [bias |-> 127, frac |-> 23, top |-> 254]
Inf(f) == [exp |-> f.top + 1, frac |-> 0]

Log2(m) == CHOOSE k \in 0 .. 30 : 2 ^ k <= m /\ (k = 30 \/ m < 2 ^ (k + 1))

\* m * 2^s, an integer.
Scaled(m, s) == IF s >= 0 THEN m * 2 ^ s ELSE m \div 2 ^ (0 - s)

\* Mutant: halves are always rounded up.
TiesUp(m, s) ==
    IF s >= 0 THEN m * 2 ^ s
    ELSE LET q == m \div 2 ^ (0 - s)
             r == m % 2 ^ (0 - s)
         IN  IF 2 * r < 2 ^ (0 - s) THEN q ELSE q + 1

_roundTiesToEven(m, s) ==
    IF s >= 0 THEN m * 2 ^ s
    ELSE LET q == m \div 2 ^ (0 - s)
             r == m % 2 ^ (0 - s)
         IN  IF 2 * r < 2 ^ (0 - s) THEN q ELSE IF 2 * r > 2 ^ (0 - s) \/ q % 2 = 1 THEN q + 1 ELSE q

\* _f64ToF16Bits of a positive number.
ToBits(x, f) ==
    LET m == x[1]
        e == x[2] + Log2(m)
    IN  IF e < 1 - f.bias                                  \* subnormal, or rounded up to the least normal
        THEN LET n == _roundTiesToEven(m, x[2] + f.bias - 1 + f.frac)
             IN  [exp |-> n \div 2 ^ f.frac, frac |-> n % 2 ^ f.frac]
        ELSE LET n   == _roundTiesToEven(m, f.frac - Log2(m)) - 2 ^ f.frac
                 exp == e + f.bias + IF n = 2 ^ f.frac THEN 1 ELSE 0
             IN  IF exp > f.top THEN Inf(f) ELSE [exp |-> exp, frac |-> n % 2 ^ f.frac]

\* _f16BitsToF64 and _f32BitsToNumber of what is neither zero nor infinite.
FromBits(b, f) == IF b.exp = 0 THEN <<b.frac, 1 - f.bias - f.frac>>
                  ELSE <<2 ^ f.frac + b.frac, b.exp - f.bias - f.frac>>

\* _numberToF32Bits of a number that is a float already.
ToSingleBits(x) ==
    LET m == x[1]
        e == x[2] + Log2(m)
    IN  IF e >= 128 THEN Inf(Single)
        ELSE IF e < -126 THEN [exp |-> 0, frac |-> Scaled(m, x[2] + 149)]
        ELSE [exp |-> e + 127, frac |-> Scaled(m, 23 - Log2(m)) - 2 ^ 23]

\* _clampU8 of n halves.
_clampU8(n) == IF n <= 0 THEN 0 ELSE IF n >= 510 THEN 255 ELSE _roundTiesToEven(n, -1)

-----------------------------------------------------------------------------
(* Base64.                                                                 *)

_encodeBase64(b, pad) ==
    LET chunk(i) == LET x == b[i]
                        y == IF i + 1 <= Len(b) THEN b[i + 1] ELSE 0
                        z == IF i + 2 <= Len(b) THEN b[i + 2] ELSE 0
                        all == <<x \div 4, (x % 4) * 16 + y \div 16, (y % 16) * 4 + z \div 64, z % 64>>
                    IN  CASE i + 2 <= Len(b) -> all
                          [] i + 1 = Len(b) -> SubSeq(all, 1, 3) \o (IF pad THEN <<PadChar>> ELSE <<>>)
                          [] i = Len(b) -> SubSeq(all, 1, 2) \o (IF pad THEN <<PadChar, PadChar>> ELSE <<>>)
    IN  FlattenSeq([k \in 1 .. (Len(b) + 2) \div 3 |-> chunk(3 * k - 2)])

Sextet(c) == c < 64

\* Chunk by chunk; a chunk that is not whole is the last.
Chunks64(s, handling) ==
    LET n == Len(s)
        loose == handling = "loose"
        strict == handling = "strict"
        stop == handling = "stop-before-partial"
        at(i) == IF i <= n THEN s[i] ELSE BadChar
        two(i) == <<at(i) * 4 + at(i + 1) \div 16, (at(i + 1) % 16) * 16 + at(i + 2) \div 4>>
        failed == [ok |-> FALSE, bytes |-> <<>>, next |-> 0, stopped |-> FALSE]
        last(b, i) == [ok |-> TRUE, bytes |-> b, next |-> i, stopped |-> FALSE]
        stopped(i) == [ok |-> TRUE, bytes |-> <<>>, next |-> i, stopped |-> TRUE]
        f[i \in 1 .. n + 4] ==
            IF i > n \/ at(i) = PadChar THEN last(<<>>, i)
            ELSE IF i = n THEN IF stop THEN stopped(i) ELSE failed
            ELSE IF ~ Sextet(at(i)) \/ ~ Sextet(at(i + 1)) THEN failed
            ELSE IF i + 1 = n THEN IF stop THEN stopped(i) ELSE IF strict THEN failed
                                   ELSE last(SubSeq(two(i), 1, 1), i + 2)
            ELSE IF at(i + 2) = PadChar
                 THEN IF i + 3 > n \/ at(i + 3) # PadChar THEN IF stop THEN stopped(i) ELSE failed
                      ELSE IF strict /\ at(i + 1) % 16 # 0 THEN failed
                      ELSE last(SubSeq(two(i), 1, 1), i + 4)
            ELSE IF ~ Sextet(at(i + 2)) THEN failed
            ELSE IF i + 2 = n THEN IF stop THEN stopped(i) ELSE IF strict THEN failed ELSE last(two(i), i + 3)
            ELSE IF at(i + 3) = PadChar THEN IF strict /\ at(i + 2) % 4 # 0 THEN failed ELSE last(two(i), i + 4)
            ELSE IF ~ Sextet(at(i + 3)) THEN failed
            ELSE LET r == f[i + 4]
                 IN  [r EXCEPT !.bytes = two(i) \o <<(at(i + 2) % 4) * 64 + at(i + 3)>> \o @]
    IN  f[1]

\* _b64StripWs: where the characters that are kept were.
Kept(s, handling) == SelectSeq([i \in 1 .. Len(s) |-> i], LAMBDA i : handling = "strict" \/ s[i] # SpaceChar)

\* Mutant: what was read ends where decoding stopped, in the stripped text.
ReadUptoStripped(s, kept, r) == r.next - 1

\* How many characters were read: those up to the chunk it stopped at, or all.
ReadUpto(s, kept, r) ==
    IF r.stopped THEN IF r.next <= Len(kept) THEN kept[r.next] - 1 ELSE r.next - 1 ELSE Len(s)

_decodeBase64(s, handling) ==
    LET kept  == Kept(s, handling)
        clean == [i \in 1 .. Len(kept) |-> s[kept[i]]]
        r     == Chunks64(clean, handling)
    IN  IF ~ r.ok \/ (~ r.stopped /\ r.next <= Len(clean)) THEN Refused
        ELSE [ok |-> TRUE, bytes |-> r.bytes, read |-> ReadUpto(s, kept, r)]

\* setFromBase64 into room for n bytes.
SetFromBase64(s, handling, n) ==
    LET d == _decodeBase64(s, handling)
        written == IF Len(d.bytes) < n THEN Len(d.bytes) ELSE n
        need == (written \div 3) * 4 + (IF written % 3 = 0 THEN 0 ELSE (written % 3) + 1)
        short == written < Len(d.bytes) /\ handling = "stop-before-partial" /\ need < d.read
    IN  [d EXCEPT !.bytes = SubSeq(d.bytes, 1, written), !.read = IF short THEN need ELSE @]

_encodeHex(b) == FlattenSeq([i \in 1 .. Len(b) |-> <<b[i] \div 16, b[i] % 16>>])
_decodeHex(s) ==
    IF Len(s) % 2 # 0 \/ \E i \in 1 .. Len(s) : s[i] > 15 THEN Refused
    ELSE [ok |-> TRUE, bytes |-> [i \in 1 .. Len(s) \div 2 |-> s[2 * i - 1] * 16 + s[2 * i]], read |-> Len(s)]

-----------------------------------------------------------------------------
CodecsNext ==
    \/ Computes("half", ToBits(computed.q.x, Half))
    \/ Computes("single", ToSingleBits(FromBits(computed.q.x, Single)))
    \/ Computes("clamp", _clampU8(computed.q.x))
    \/ Computes("encode64", _encodeBase64(computed.q.x, computed.q.pad))
    \/ Computes("decode64", _decodeBase64(computed.q.x, computed.q.handling))
    \/ Computes("set64", SetFromBase64(computed.q.x, computed.q.handling, computed.q.room))
    \/ Computes("hex", _decodeHex(computed.q.x))

Distance(x, y) ==   \* of two numbers, in units of the smaller exponent
    LET e == IF x[2] < y[2] THEN x[2] ELSE y[2]
        d == Scaled(x[1], x[2] - e) - Scaled(y[1], y[2] - e)
    IN  <<IF d < 0 THEN 0 - d ELSE d, e>>
Nearer(x, y) == LET e == IF x[2] < y[2] THEN x[2] ELSE y[2] IN Scaled(x[1], x[2] - e) < Scaled(y[1], y[2] - e)
Around(b, f) ==
    {[exp |-> n \div 2 ^ f.frac, frac |-> n % 2 ^ f.frac] :
        n \in {k \in {b.exp * 2 ^ f.frac + b.frac + d : d \in {-1, 1}} : k > 0 /\ k <= f.top * 2 ^ f.frac + 2 ^ f.frac - 1}}

\* A float is the nearest to the number, of two as near the even one; what is
\* a float already comes back; a clamped byte is the nearest.
FloatsRight ==
    computed.done =>
        LET q == computed.q
            b == computed.out
        IN  /\ q.fn = "half" /\ b.exp <= Half.top => \A c \in Around(b, Half) :
                  LET near == Distance(FromBits(b, Half), q.x)
                      far  == Distance(FromBits(c, Half), q.x)
                  IN  ~ Nearer(far, near) /\ (~ Nearer(near, far) => b.frac % 2 = 0)
            /\ q.fn = "half" /\ b.exp > Half.top => q.x[2] >= -1 /\ q.x[1] * 2 ^ (q.x[2] + 1) >= 131040
            /\ q.fn = "single" => b = q.x
            /\ q.fn = "clamp" => b \in 0 .. 255 /\ (q.x \in 0 .. 510 => 2 * b - q.x \in {-1, 0, 1} /\ (q.x % 2 = 1 => b % 2 = 0 \/ b = 255))

\* Encoded text is decoded to the same bytes; strict decoding accepts no other
\* text for them; what is read of a text stands for what was decoded of it.
TextRight ==
    computed.done =>
        LET q == computed.q
            d == computed.out
        IN  /\ q.fn = "encode64" => \A h \in {"loose", "strict"} :
                  (h = "strict" => q.pad) => _decodeBase64(d, h) = [ok |-> TRUE, bytes |-> q.x, read |-> Len(d)]
            /\ q.fn = "decode64" /\ d.ok =>
                  /\ q.handling = "strict" => _encodeBase64(d.bytes, TRUE) = q.x
                  /\ d.read <= Len(q.x)
                  /\ _decodeBase64(SubSeq(q.x, 1, d.read), "loose").bytes = d.bytes
            /\ q.fn = "set64" /\ d.ok /\ q.handling = "stop-before-partial" /\ SpaceChar \notin ToSet(q.x) =>
                  _decodeBase64(SubSeq(q.x, 1, d.read), "loose").bytes = d.bytes
            /\ q.fn = "hex" /\ d.ok => _encodeHex(d.bytes) = q.x
=============================================================================
