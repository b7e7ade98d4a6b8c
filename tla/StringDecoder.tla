--------------------------- MODULE StringDecoder ---------------------------
(***************************************************************************)
(* string_decoder.js: a StringDecoder is given the bytes of a text in        *)
(* chunks cut anywhere, and keeps what does not yet make a character.        *)
(***************************************************************************)
EXTENDS Integers, Sequences, SequencesExt

VARIABLE decoder        \* [enc, bytes (left to be given), all, buf, charLen, out, ended]

decoderVars == <<decoder>>

B == INSTANCE Buffers WITH computed <- decoder

_utf8CharLength(b) == IF B!LeadLength(b) = 0 THEN 1 ELSE B!LeadLength(b)

_decodeUtf16le(b) == [i \in 1 .. Len(b) \div 2 |-> b[2 * i - 1] + 256 * b[2 * i]]

_decodeSlice(b, enc) ==
    CASE enc = "utf8"    -> B!_decodeUtf8(b)
      [] enc = "base64"  -> B!_decodeBase64(b, FALSE)
      [] enc = "utf16le" -> _decodeUtf16le(b)
      [] enc = "hex"     -> B!_decodeHex(b)

\* Mutant: two bytes back, not three.
IncompleteEndShort(b) ==
    LET back == {i \in 1 .. Len(b) : i > Len(b) - 2 /\ b[i] \div 64 # 2}
        last == CHOOSE i \in back : \A j \in back : j <= i
    IN  IF back = {} \/ Len(b) - last + 1 >= _utf8CharLength(b[last]) THEN 0 ELSE Len(b) - last + 1

\* How many bytes at the end belong to a character that is not all there.
_utf8IncompleteEnd(b) ==
    LET back == {i \in 1 .. Len(b) : i >= Len(b) - 3 /\ b[i] \div 64 # 2}
        last == CHOOSE i \in back : \A j \in back : j <= i
    IN  IF back = {} \/ Len(b) - last + 1 >= _utf8CharLength(b[last]) THEN 0 ELSE Len(b) - last + 1

First(b, n) == SubSeq(b, 1, n)
Rest(b, n)  == SubSeq(b, n + 1, Len(b))

\* A chunk completes the character that is kept, if it can, then what is whole
\* of it is decoded and the rest is kept.
_doWriteUtf8(d, chunk) ==
    LET want == IF d.buf = <<>> THEN 0 ELSE d.charLen - Len(d.buf)
        more == IF want > Len(chunk) THEN Len(chunk) ELSE want
        rest == Rest(chunk, more)
        keep == _utf8IncompleteEnd(rest)
        tail == Rest(rest, Len(rest) - keep)
    IN  IF more < want THEN [d EXCEPT !.buf = @ \o chunk]
        ELSE [d EXCEPT !.buf = tail, !.charLen = IF tail = <<>> THEN 0 ELSE _utf8CharLength(tail[1]),
                       !.out = @ \o B!_decodeUtf8(d.buf \o First(chunk, more)) \o B!_decodeUtf8(First(rest, Len(rest) - keep))]

_doWriteUtf16le(d, chunk) ==
    LET more == IF d.buf = <<>> THEN 0 ELSE 1
        rest == Rest(chunk, more)
        even == Len(rest) - (Len(rest) % 2)
    IN  [d EXCEPT !.buf = Rest(rest, even),
                  !.out = @ \o _decodeUtf16le(d.buf \o First(chunk, more)) \o _decodeUtf16le(First(rest, even))]

WriteBase64(d, chunk) ==
    LET merged == d.buf \o chunk
        usable == Len(merged) - (Len(merged) % 3)
    IN  [d EXCEPT !.buf = Rest(merged, usable), !.out = @ \o B!_decodeBase64(First(merged, usable), FALSE)]

Written(d, chunk) ==
    CASE chunk = <<>>      -> d
      [] chunk # <<>> /\ d.enc = "utf8"    -> _doWriteUtf8(d, chunk)
      [] chunk # <<>> /\ d.enc = "utf16le" -> _doWriteUtf16le(d, chunk)
      [] chunk # <<>> /\ d.enc = "base64"  -> WriteBase64(d, chunk)
      [] chunk # <<>> /\ d.enc = "hex"     -> [d EXCEPT !.out = @ \o _decodeSlice(chunk, "hex")]

\* What is kept at the end: U+FFFD for each byte, the byte, or a padded group.
Flushed(d) ==
    [d EXCEPT !.buf = <<>>, !.charLen = 0, !.ended = TRUE,
              !.out = @ \o (CASE d.enc = "utf8"    -> [i \in DOMAIN d.buf |-> 65533]
                              [] d.enc = "utf16le" -> d.buf
                              [] d.enc \in {"base64", "hex"} -> _decodeSlice(d.buf, d.enc))]

Taken(n) == [decoder EXCEPT !.bytes = Rest(@, n)]

Write == \E n \in 1 .. Len(decoder.bytes) :
    ~ decoder.ended /\ decoder' = Written(Taken(n), First(decoder.bytes, n))

\* end(), with the last chunk or without one.
End == ~ decoder.ended /\ decoder' = Flushed(Written(Taken(Len(decoder.bytes)), decoder.bytes))

DecoderInit(texts) ==       \* [enc, bytes]
    \E t \in texts : decoder = [enc |-> t.enc, bytes |-> t.bytes, all |-> t.bytes, buf |-> <<>>, charLen |-> 0,
                                out |-> <<>>, ended |-> FALSE]
DecoderIdle == decoder = [enc |-> "utf8", bytes |-> <<>>, all |-> <<>>, buf |-> <<>>, charLen |-> 0, out |-> <<>>, ended |-> TRUE]
DecoderNext == Write \/ End

-----------------------------------------------------------------------------
\* However a text is cut, its chunks decode to what the whole does, a
\* character that is cut off at the end to what _decodeUtf8 makes of its bytes.
SameAsWhole ==
    decoder.ended => decoder.out = _decodeSlice(decoder.all, decoder.enc)
                                   \o (IF decoder.enc = "utf16le" /\ Len(decoder.all) % 2 = 1 THEN <<Last(decoder.all)>> ELSE <<>>)

\* What is kept is less than a character, and the end of what was given.
KeepsLess ==
    LET given == First(decoder.all, Len(decoder.all) - Len(decoder.bytes))
    IN  ~ decoder.ended =>
            /\ Len(decoder.buf) < (CASE decoder.enc = "utf8" -> IF decoder.charLen = 0 THEN 1 ELSE decoder.charLen
                                     [] decoder.enc = "utf16le" -> 2 [] decoder.enc = "base64" -> 3 [] decoder.enc = "hex" -> 1)
            /\ decoder.buf = Rest(given, Len(given) - Len(decoder.buf))
=============================================================================
