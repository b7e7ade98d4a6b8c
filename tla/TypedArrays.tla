---------------------------- MODULE TypedArrays ----------------------------
(***************************************************************************)
(* binary_types.js: ArrayBuffer, the TypedArray methods and DataView over   *)
(* blocks of raw memory.  A method reads the length of its view, lets the   *)
(* program run (valueOf of an argument, a callback, a species getter), and  *)
(* goes on with a buffer the program may have resized or detached.          *)
(***************************************************************************)
EXTENDS Integers, Sequences, FiniteSets, SequencesExt

CONSTANTS BinaryCalls,   \* [taOp, args, size, max, off, len (or Tracking), bpe, immutable]
          BufferSizes,   \* what the program resizes to
          MaxMeddles,    \* times it resizes or detaches within one call
          BinaryFaults   \* "slice", "transfer": it shrinks the buffer while the
                         \* arguments of these two are converted

VARIABLES ab,       \* [ptr, len, max, detached, resizable, immutable] of the ArrayBuffer
          blocks,   \* the memory: blocks that are allocated, by address
          bin,      \* the call: its operation, where it is, what it has captured
          stray     \* a byte outside every allocated block was accessed

binaryVars == <<ab, blocks, bin, stray>>

Tracking == -1
Undefined == <<>>
Infinite == 99
ByteAt(i) == i            \* initial contents: each byte its own

Smaller(x, y) == IF x < y THEN x ELSE y
Larger(x, y)  == IF x > y THEN x ELSE y
taView    == bin.view
taOp   == bin.op
taArg(i) == bin.args[i]
FreeBlock(b)  == CHOOSE p \in 1 .. 9 : p \notin DOMAIN b
WithBlock(b, p, s) == [q \in DOMAIN b \cup {p} |-> IF q = p THEN s ELSE b[q]]
WithoutBlock(b, p) == [q \in DOMAIN b \ {p} |-> b[q]]
Reaches(p, at, n) == n <= 0 \/ (p \in DOMAIN blocks /\ at >= 0 /\ at + n <= Len(blocks[p]))

-----------------------------------------------------------------------------
(* Views of a buffer.                                                      *)

TaOutOfBounds(a, w) ==
    a.detached \/ w.off > a.len \/ (w.len # Tracking /\ w.off + w.len * w.bpe > a.len)

TaLength(a, w) ==
    IF TaOutOfBounds(a, w) THEN 0 ELSE IF w.len # Tracking THEN w.len ELSE (a.len - w.off) \div w.bpe

\* _revalidateWitness with 'throw'.
Lost == TaOutOfBounds(ab, taView)

\* _taRelativeStart and _taRelativeEnd, of converted arguments.
Relative(x, len) == IF x < 0 THEN Larger(len + x, 0) ELSE Smaller(x, len)
RelativeEnd(x, len) == IF x = Infinite THEN len ELSE Relative(x, len)

\* _readAt: an element that is not there any more is undefined.
ElementAt(a, b, w, i) ==
    IF i < 0 \/ i >= TaLength(a, w) THEN Undefined
    ELSE [k \in 1 .. w.bpe |-> b[a.ptr][w.off + i * w.bpe + k]]
ReadAt(i) == ElementAt(ab, blocks, taView, i)

PutBytes(b, p, at, s) == [b EXCEPT ![p] = [k \in DOMAIN @ |-> IF k > at /\ k <= at + Len(s) THEN s[k - at] ELSE @[k]]]

\* _writeAt: so is a write to it.
WrittenAt(b, i, e) == IF i < 0 \/ i >= TaLength(ab, taView) THEN b ELSE PutBytes(b, ab.ptr, taView.off + i * taView.bpe, e)

\* The bytes of block p from `at` on; what is not there reads as a zero.
Bytes(p, at, n) == [k \in 1 .. Larger(n, 0) |-> IF Reaches(p, at + k - 1, 1) THEN blocks[p][at + k] ELSE 0]

Zeros(n) == [k \in 1 .. n |-> 0]

\* The constructor of a view: alignment, then its place in the buffer.
Fits(a, w) ==
    /\ ~ a.detached /\ w.off % w.bpe = 0 /\ w.off <= a.len
    /\ IF w.len = Tracking THEN (a.len - w.off) % w.bpe = 0 ELSE w.off + w.len * w.bpe <= a.len

-----------------------------------------------------------------------------
(* The ends of a call, and the program.                                    *)

BinaryReturns(r) == bin' = [bin EXCEPT !.at = "done", !.result = r]
BinaryThrows     == bin' = [bin EXCEPT !.at = "thrown"]
BinaryGoes(at)    == bin' = [bin EXCEPT !.at = at]
PureStep      == UNCHANGED <<ab, blocks, stray>>
ProgramRuns   == bin.at \in {"coerce", "coerce2", "coerce3", "species", "callback"}

\* _detachArrayBuffer
Detached(a) == [a EXCEPT !.ptr = 0, !.len = 0, !.detached = TRUE]

ResizedBytes(old, n) == [k \in 1 .. n |-> IF k <= Len(old) THEN old[k] ELSE 0]

\* The program resizes the buffer: what it held is copied to a new block.
MeddleResize ==
    \E n \in BufferSizes :
        /\ ProgramRuns /\ bin.meddles < MaxMeddles /\ ab.resizable /\ ~ ab.detached /\ ~ ab.immutable
        /\ n <= ab.max /\ n # ab.len
        /\ taOp = "transfer" /\ "transfer" \notin BinaryFaults => n > ab.len
        /\ taOp = "abSlice" /\ "slice" \notin BinaryFaults => n > ab.len
        /\ blocks' = WithBlock(WithoutBlock(blocks, ab.ptr), FreeBlock(blocks), ResizedBytes(blocks[ab.ptr], n))
        /\ ab' = [ab EXCEPT !.ptr = FreeBlock(blocks), !.len = n]
        /\ bin' = [bin EXCEPT !.meddles = @ + 1] /\ UNCHANGED stray

MeddleDetach ==
    /\ ProgramRuns /\ bin.meddles < MaxMeddles /\ ~ ab.detached /\ ~ ab.immutable
    /\ ~ (taOp = "abSlice" /\ bin.at = "species" /\ "slice" \notin BinaryFaults)
    /\ blocks' = WithoutBlock(blocks, ab.ptr) /\ ab' = Detached(ab)
    /\ bin' = [bin EXCEPT !.meddles = @ + 1] /\ UNCHANGED stray

-----------------------------------------------------------------------------
(* TypedArray.prototype: each method from its first line to the first that  *)
(* runs the program.                                                       *)

Writers == {"set", "fill", "copyWithin", "reverse", "sort"}

\* _taValidate, and the length every method captures first.
BinaryBegin ==
    /\ bin.at = "begin" /\ taOp \notin {"resize", "transfer", "abSlice", "toImmutable", "dvGet", "dvSet", "view", "dataView"}
    /\ PureStep
    /\ IF TaOutOfBounds(ab, taView) \/ (taOp \in Writers /\ ab.immutable) THEN BinaryThrows
       ELSE LET n == TaLength(ab, taView)
            IN  IF taOp = "search" /\ n = 0 THEN BinaryReturns(-1)
                ELSE bin' = [bin EXCEPT !.n = n, !.i = IF taOp = "visitRight" THEN n - 1 ELSE 0,
                                        !.at = IF taOp \in {"visit", "visitRight", "sort", "toSorted", "reverse", "toReversed", "next"}
                                               THEN "loop" ELSE "coerce"]

\* A view of a part: the constructor looks at the buffer once more.
Subarray ==
    /\ taOp = "subarray" /\ PureStep
    /\ \/ bin.at = "coerce" /\ (IF Lost THEN BinaryThrows ELSE BinaryGoes("species"))
       \/ /\ bin.at = "species"
          /\ LET start == Relative(taArg(1), bin.n)
                 fin   == Smaller(RelativeEnd(taArg(2), bin.n), TaLength(ab, taView))
                 new   == [off |-> taView.off + start * taView.bpe, bpe |-> taView.bpe,
                           len |-> IF taView.len = Tracking /\ taArg(2) = Infinite THEN Tracking ELSE Larger(fin - start, 0)]
             IN  IF Lost \/ ~ Fits(ab, new) THEN BinaryThrows ELSE BinaryReturns(new)

\* Mutant: as many as there were.
StillThereAll(n, start) == n
StillThere(n, start) == Smaller(n, TaLength(ab, taView) - start)

\* A copy of a part: of those elements that are still there, the rest is zero.
Slice ==
    /\ taOp = "slice" /\ UNCHANGED <<ab, blocks>>
    /\ LET start == Relative(taArg(1), bin.n)
           n     == Larger(RelativeEnd(taArg(2), bin.n) - start, 0)
           live  == StillThere(n, start)
           at    == taView.off + start * taView.bpe
       IN  \/ bin.at = "coerce" /\ (IF Lost THEN BinaryThrows ELSE BinaryGoes("species")) /\ UNCHANGED stray
           \/ /\ bin.at = "species"
              /\ IF Lost THEN (IF n = 0 THEN BinaryReturns(<<>>) ELSE BinaryThrows) /\ UNCHANGED stray
                 ELSE /\ stray' = (stray \/ ~ Reaches(ab.ptr, at, live * taView.bpe))
                      /\ BinaryReturns(Bytes(ab.ptr, at, live * taView.bpe) \o Zeros((n - Larger(live, 0)) * taView.bpe))

\* Mutant: a source on the same buffer is read while it is overwritten.
StagedNot(source, b, k) == ElementAt(ab, b, source, k)
Staged(source, b, k) == ElementAt(ab, blocks, source, k)

\* set(): a source on the same buffer is staged first; an array-like is read
\* an element at a time, by getters of the program.
SetStart ==
    /\ taOp = "set" /\ bin.at = "coerce" /\ UNCHANGED <<ab, stray>>
    /\ LET source == [taView EXCEPT !.off = 0, !.len = IF @ = Tracking THEN 2 ELSE Smaller(@, 2)]
           n      == TaLength(ab, source)
           f[k \in 0 .. n] == IF k = 0 THEN blocks ELSE WrittenAt(f[k - 1], taArg(1) + k - 1, Staged(source, f[k - 1], k - 1))
       IN  IF Lost \/ taArg(1) < 0 THEN BinaryThrows /\ UNCHANGED blocks
           ELSE IF taArg(2) = "array" THEN BinaryGoes("coerce2") /\ UNCHANGED blocks
           ELSE IF taArg(1) + n > TaLength(ab, taView) THEN BinaryThrows /\ UNCHANGED blocks
           ELSE blocks' = f[n] /\ BinaryReturns(n)

\* The array-like has two elements; its length was a getter too.
SetFrom ==
    /\ taOp = "set" /\ UNCHANGED <<ab, stray>>
    /\ \/ /\ bin.at = "coerce2" /\ UNCHANGED blocks
          /\ IF Lost \/ taArg(1) + 2 > TaLength(ab, taView) THEN BinaryThrows ELSE BinaryGoes("callback")
       \/ /\ bin.at = "callback"
          /\ blocks' = WrittenAt(blocks, taArg(1) + bin.i, [k \in 1 .. taView.bpe |-> 9])
          /\ IF bin.i = 1 \/ taArg(1) + bin.i + 1 >= TaLength(ab, taView) THEN BinaryReturns(bin.i + 1)
             ELSE bin' = [bin EXCEPT !.i = @ + 1]

\* fill(): the value, the start and the end are converted, in that order.
Fill ==
    /\ taOp = "fill" /\ UNCHANGED ab
    /\ \/ bin.at = "coerce" /\ UNCHANGED <<blocks, stray>>
          /\ IF Lost THEN BinaryThrows ELSE bin' = [bin EXCEPT !.at = "coerce2", !.n = TaLength(ab, taView)]
       \/ bin.at = "coerce2" /\ UNCHANGED <<blocks, stray>> /\ (IF Lost THEN BinaryThrows ELSE BinaryGoes("coerce3"))
       \/ /\ bin.at = "coerce3"
          /\ LET from == Relative(taArg(1), bin.n)
                 upto == Smaller(RelativeEnd(taArg(2), bin.n), TaLength(ab, taView))
                 at   == taView.off + from * taView.bpe
                 n    == Larger(upto - from, 0) * taView.bpe
             IN  IF Lost THEN BinaryThrows /\ UNCHANGED <<blocks, stray>>
                 ELSE /\ stray' = (stray \/ ~ Reaches(ab.ptr, at, n)) /\ BinaryReturns(n)
                      /\ blocks' = IF n = 0 THEN blocks ELSE PutBytes(blocks, ab.ptr, at, [k \in 1 .. n |-> 9])

\* copyWithin(): the count is of before the conversion, cut to what is there after it.
CopyWithin ==
    /\ taOp = "copyWithin" /\ bin.at = "coerce" /\ UNCHANGED ab
    /\ LET to   == Relative(taArg(1), bin.n)
           from == Relative(taArg(2), bin.n)
           live == TaLength(ab, taView)
           want == Smaller(RelativeEnd(taArg(3), bin.n) - from, bin.n - to)
           n    == Smaller(want, Smaller(live - to, live - from)) * taView.bpe
       IN  IF Lost THEN BinaryThrows /\ UNCHANGED <<blocks, stray>>
           ELSE /\ BinaryReturns(n)
                /\ stray' = (stray \/ ~ Reaches(ab.ptr, taView.off + from * taView.bpe, n) \/ ~ Reaches(ab.ptr, taView.off + to * taView.bpe, n))
                /\ blocks' = IF n <= 0 THEN blocks
                             ELSE PutBytes(blocks, ab.ptr, taView.off + to * taView.bpe, Bytes(ab.ptr, taView.off + from * taView.bpe, n))

\* indexOf, includes (taArg(2)), lastIndexOf (taArg(3)): the length of before the conversion.
SearchMethod ==
    /\ taOp = "search" /\ bin.at = "coerce" /\ PureStep
    /\ LET n    == bin.n
           last == taArg(3)
           from == IF last THEN IF taArg(1) < 0 THEN n + taArg(1) ELSE Smaller(taArg(1), n - 1) ELSE Relative(taArg(1), n)
           hits == {i \in 0 .. n - 1 : (IF last THEN i <= from ELSE i >= from) /\ ReadAt(i) = bin.sought}
       IN  BinaryReturns(IF Lost \/ hits = {} THEN -1
                  ELSE IF last THEN CHOOSE i \in hits : \A j \in hits : j <= i
                  ELSE CHOOSE i \in hits : \A j \in hits : i <= j)

AtMethod == /\ taOp = "at" /\ bin.at = "coerce" /\ PureStep
      /\ LET k == IF taArg(1) < 0 THEN bin.n + taArg(1) ELSE taArg(1)
         IN  BinaryReturns(IF k < 0 \/ k >= bin.n THEN Undefined ELSE ReadAt(k))

\* with(): the index, then the value is converted; then all is copied.
WithMethod ==
    /\ taOp = "with" /\ PureStep
    /\ \/ /\ bin.at = "coerce"
          /\ LET n == TaLength(ab, taView)
                 k == IF taArg(1) < 0 THEN n + taArg(1) ELSE taArg(1)
             IN  IF Lost \/ k < 0 \/ k >= n THEN BinaryThrows ELSE bin' = [bin EXCEPT !.at = "coerce2", !.i = k]
       \/ /\ bin.at = "coerce2"
          /\ IF Lost THEN BinaryThrows
             ELSE BinaryReturns([k \in 1 .. TaLength(ab, taView) |-> IF k - 1 = bin.i THEN [j \in 1 .. taView.bpe |-> 9] ELSE ReadAt(k - 1)])

-----------------------------------------------------------------------------
(* The methods that take the elements one at a time.                       *)

\* forEach, map, reduce, some, find ...: as many as there were, what has gone
\* is undefined; some of them may stop.
VisitNext ==
    /\ taOp \in {"visit", "visitRight"} /\ bin.at = "loop" /\ PureStep
    /\ IF bin.i \notin 0 .. bin.n - 1 THEN BinaryReturns(bin.got)
       ELSE bin' = [bin EXCEPT !.at = "callback", !.got = Append(@, ReadAt(bin.i))]

Visited ==
    \E stop \in BOOLEAN :
        /\ taOp \in {"visit", "visitRight"} /\ bin.at = "callback" /\ PureStep
        /\ bin' = IF stop THEN [bin EXCEPT !.at = "done", !.result = bin.got, !.i = -9]
                  ELSE [bin EXCEPT !.at = "loop", !.i = @ + IF taOp = "visit" THEN 1 ELSE -1]

\* The iterator of keys(), values() and entries(): the live length each time.
IteratorNext ==
    /\ taOp = "next" /\ PureStep
    /\ \/ /\ bin.at = "loop" /\ bin.i < TaLength(ab, taView)
          /\ bin' = [bin EXCEPT !.at = "callback", !.i = @ + 1, !.got = Append(@, ReadAt(bin.i))]
       \/ bin.at = "loop" /\ bin.i >= TaLength(ab, taView) /\ BinaryReturns(bin.got)
       \/ bin.at = "callback" /\ BinaryGoes("loop")

\* The elements of the view, in their order, reversed or sorted.
ElementsNow == [k \in 1 .. TaLength(ab, taView) |-> ReadAt(k - 1)]
Ordered  == LET less(x, y) == x[1] > y[1] IN SortSeq(ElementsNow, less)

Reversing == /\ taOp \in {"reverse", "toReversed"} /\ bin.at = "loop" /\ UNCHANGED <<ab, stray>>
             /\ BinaryReturns(Reverse(ElementsNow))
             /\ blocks' = IF taOp = "toReversed" \/ ElementsNow = <<>> THEN blocks
                          ELSE PutBytes(blocks, ab.ptr, taView.off, FlattenSeq(Reverse(ElementsNow)))

\* sort() and toSorted() read all, then compare: the program runs in between.
SortReads == /\ taOp \in {"sort", "toSorted"} /\ bin.at = "loop" /\ PureStep
             /\ IF bin.n <= 1 THEN BinaryReturns(ElementsNow) ELSE bin' = [bin EXCEPT !.at = "callback", !.got = Ordered]

SortWrites ==
    /\ taOp \in {"sort", "toSorted"} /\ bin.at = "callback" /\ UNCHANGED <<ab, stray>>
    /\ LET f[k \in 0 .. Len(bin.got)] == IF k = 0 THEN blocks ELSE WrittenAt(f[k - 1], k - 1, bin.got[k])
       IN  IF taOp = "sort" /\ Lost THEN BinaryThrows /\ UNCHANGED blocks
           ELSE BinaryReturns(bin.got) /\ blocks' = IF taOp = "toSorted" THEN blocks ELSE f[Len(bin.got)]

-----------------------------------------------------------------------------
(* ArrayBuffer.                                                            *)

BufferBegin ==
    /\ bin.at = "begin" /\ taOp \in {"resize", "transfer", "abSlice", "toImmutable"} /\ PureStep
    /\ IF \/ taOp = "resize" /\ (ab.immutable \/ ~ ab.resizable)
          \/ taOp \in {"abSlice", "toImmutable"} /\ ab.detached
       THEN BinaryThrows ELSE bin' = [bin EXCEPT !.at = "coerce", !.n = ab.len]

\* resize(): nothing is captured before the new length is converted.
ResizeBuffer ==
    /\ taOp = "resize" /\ bin.at = "coerce" /\ UNCHANGED stray
    /\ IF ab.detached \/ taArg(1) > ab.max THEN BinaryThrows /\ UNCHANGED <<ab, blocks>>
       ELSE /\ BinaryReturns(taArg(1)) /\ ab' = [ab EXCEPT !.len = taArg(1), !.ptr = IF taArg(1) = ab.len THEN @ ELSE FreeBlock(blocks)]
            /\ blocks' = IF taArg(1) = ab.len THEN blocks
                         ELSE WithBlock(WithoutBlock(blocks, ab.ptr), FreeBlock(blocks), ResizedBytes(blocks[ab.ptr], taArg(1)))

\* transfer(): a new buffer gets the bytes, this one is detached.
TransferBuffer ==
    /\ taOp = "transfer" /\ bin.at = "coerce"
    /\ LET target == IF taArg(1) = Infinite THEN bin.n ELSE taArg(1)
           n      == Smaller(bin.n, target)
       IN  IF ab.detached \/ ab.immutable \/ (ab.resizable /\ target > ab.max)
           THEN BinaryThrows /\ UNCHANGED <<ab, blocks, stray>>
           ELSE /\ BinaryReturns(Bytes(ab.ptr, 0, n) \o Zeros(target - n)) /\ stray' = (stray \/ ~ Reaches(ab.ptr, 0, n))
                /\ blocks' = WithoutBlock(blocks, ab.ptr) /\ ab' = Detached(ab)

SliceBuffer ==
    /\ taOp = "abSlice" /\ UNCHANGED <<ab, blocks>>
    /\ LET start == Relative(taArg(1), bin.n)
           n     == Larger(RelativeEnd(taArg(2), bin.n) - start, 0)
       IN  \/ bin.at = "coerce" /\ (IF ab.detached THEN BinaryThrows ELSE BinaryGoes("species")) /\ UNCHANGED stray
           \/ bin.at = "species" /\ stray' = (stray \/ ~ Reaches(ab.ptr, start, n)) /\ BinaryReturns(Bytes(ab.ptr, start, n))

\* sliceToImmutable(): the end must still be there after the conversion.
SliceToImmutable ==
    /\ taOp = "toImmutable" /\ bin.at = "coerce" /\ UNCHANGED <<ab, blocks>>
    /\ LET start == Relative(taArg(1), bin.n)
           fin   == RelativeEnd(taArg(2), bin.n)
           n     == Larger(fin - start, 0)
       IN  IF ab.detached \/ ab.len < fin THEN BinaryThrows /\ UNCHANGED stray
           ELSE stray' = (stray \/ ~ Reaches(ab.ptr, start, n)) /\ BinaryReturns(Bytes(ab.ptr, start, n))

-----------------------------------------------------------------------------
(* DataView, and the constructors of views.                                *)

\* Mutant: the view's end is not looked at again after the conversion.
OutsideStale(off, size) == ab.detached \/ (taView.len # Tracking /\ off + size > taView.len)
Outside(off, size) == TaOutOfBounds(ab, taView) \/ off + size > (IF taView.len # Tracking THEN taView.len ELSE ab.len - taView.off)

\* The bytes of a value, the most significant first: as they lie in memory.
Endian(s, littleEndian) == IF littleEndian THEN Reverse(s) ELSE s

\* getInt8 ... getBigUint64: taArg(2) bytes, the least significant first if taArg(3).
DataViewGet ==
    /\ taOp = "dvGet" /\ UNCHANGED <<ab, blocks>>
    /\ \/ bin.at = "begin" /\ BinaryGoes("coerce") /\ UNCHANGED stray
       \/ /\ bin.at = "coerce"
          /\ IF Outside(taArg(1), taArg(2)) THEN BinaryThrows /\ UNCHANGED stray
             ELSE LET s == Bytes(ab.ptr, taView.off + taArg(1), taArg(2))
                  IN  /\ stray' = (stray \/ ~ Reaches(ab.ptr, taView.off + taArg(1), taArg(2)))
                      /\ BinaryReturns(Endian(s, taArg(3)))

\* setInt8 ...: the offset and the value are converted before anything is looked at.
DataViewSet ==
    /\ taOp = "dvSet" /\ UNCHANGED ab
    /\ \/ bin.at = "begin" /\ UNCHANGED <<blocks, stray>> /\ (IF ab.immutable THEN BinaryThrows ELSE BinaryGoes("coerce"))
       \/ bin.at = "coerce" /\ UNCHANGED <<blocks, stray>> /\ BinaryGoes("coerce2")
       \/ /\ bin.at = "coerce2"
          /\ IF Outside(taArg(1), taArg(2)) THEN BinaryThrows /\ UNCHANGED <<blocks, stray>>
             ELSE LET s == [k \in 1 .. taArg(2) |-> 10 + k]
                  IN  /\ stray' = (stray \/ ~ Reaches(ab.ptr, taView.off + taArg(1), taArg(2))) /\ BinaryReturns(s)
                      /\ blocks' = IF Reaches(ab.ptr, taView.off + taArg(1), taArg(2))
                                   THEN PutBytes(blocks, ab.ptr, taView.off + taArg(1), Endian(s, taArg(3))) ELSE blocks

NewView(bpe) == [off |-> taArg(1), bpe |-> bpe, len |-> IF taArg(2) = Infinite THEN Tracking ELSE taArg(2)]

\* new Uint16Array(buffer, offset, length)
ConstructView ==
    /\ taOp = "view" /\ PureStep
    /\ LET made == IF Fits(ab, NewView(taView.bpe)) THEN BinaryReturns(NewView(taView.bpe)) ELSE BinaryThrows
       IN  \/ bin.at = "begin" /\ BinaryGoes("coerce")
           \/ bin.at = "coerce" /\ (IF ab.detached \/ taArg(1) % taView.bpe # 0 \/ taArg(1) > ab.len THEN BinaryThrows
                                    ELSE IF taArg(2) = Infinite THEN made ELSE BinaryGoes("coerce2"))
           \/ bin.at = "coerce2" /\ made

\* new DataView(buffer, offset, length): once more after the prototype was asked for.
ConstructDataView ==
    /\ taOp = "dataView" /\ PureStep
    /\ \/ bin.at = "begin" /\ BinaryGoes("coerce")
       \/ bin.at = "coerce" /\ (IF ab.detached \/ taArg(1) > ab.len THEN BinaryThrows
                                ELSE BinaryGoes(IF taArg(2) = Infinite THEN "species" ELSE "coerce2"))
       \/ bin.at = "coerce2" /\ (IF Fits(ab, NewView(1)) THEN BinaryGoes("species") ELSE BinaryThrows)
       \/ bin.at = "species" /\ (IF Fits(ab, NewView(1)) THEN BinaryReturns(NewView(1)) ELSE BinaryThrows)

TypedArraysInit(calls) ==
    \E c \in calls :
        /\ ab = [ptr |-> 1, len |-> c.size, max |-> c.max, detached |-> FALSE, resizable |-> c.max > c.size,
                 immutable |-> c.immutable]
        /\ c.max > c.size \/ c.off + c.len * c.bpe <= c.size    \* a view that is out of bounds was not when it was made
        /\ blocks = [p \in {1} |-> [k \in 1 .. c.size |-> ByteAt(k)]]
        /\ bin = [op |-> c.op, at |-> "begin", args |-> c.args, view |-> [off |-> c.off, len |-> c.len, bpe |-> c.bpe],
                  sought |-> [k \in 1 .. c.bpe |-> c.off + c.bpe + k],
                  n |-> 0, i |-> 0, got |-> <<>>, meddles |-> 0, result |-> Undefined]
        /\ stray = FALSE

\* No call.
TypedArraysIdle ==
    /\ ab = [ptr |-> 0, len |-> 0, max |-> 0, detached |-> TRUE, resizable |-> FALSE, immutable |-> FALSE]
    /\ blocks = <<>> /\ stray = FALSE
    /\ bin = [op |-> "none", at |-> "thrown", view |-> [off |-> 0, len |-> 0, bpe |-> 1]]

TypedArraysNext ==
    \/ MeddleResize \/ MeddleDetach
    \/ BinaryBegin \/ Subarray \/ Slice \/ SetStart \/ SetFrom \/ Fill \/ CopyWithin \/ SearchMethod \/ AtMethod \/ WithMethod
    \/ VisitNext \/ Visited \/ IteratorNext \/ Reversing \/ SortReads \/ SortWrites
    \/ BufferBegin \/ ResizeBuffer \/ TransferBuffer \/ SliceBuffer \/ SliceToImmutable
    \/ DataViewGet \/ DataViewSet \/ ConstructView \/ ConstructDataView

-----------------------------------------------------------------------------
\* Whatever the program did to the buffer meanwhile, no method touches memory
\* the buffer does not have, and the buffer owns one block of its length.
MemoryKept ==
    /\ ~ stray
    /\ DOMAIN blocks = (IF ab.detached THEN {} ELSE {ab.ptr})
    /\ ~ ab.detached => Len(blocks[ab.ptr]) = ab.len /\ ab.len <= ab.max

\* A method that writes leaves the bytes outside of its view, and all of an immutable buffer.
OutsideUntouched ==
    ~ ab.detached => \A k \in 1 .. ab.len :
        ab.immutable \/ k <= taView.off \/ (taView.len # Tracking /\ k > taView.off + taView.len * taView.bpe)
        => blocks[ab.ptr][k] \in {ByteAt(k), 0}

\* A view that is made lies in its buffer.
ViewsFit ==
    bin.at = "done" /\ taOp \in {"subarray", "dataView"} =>
        /\ ~ TaOutOfBounds(ab, bin.result)
        /\ taOp = "subarray" => /\ bin.result.off >= taView.off
                                /\ bin.result.len # Tracking => TaLength(ab, bin.result) <= TaLength(ab, taView)

\* The element i of the view before the call, and the indices that a and b select.
OldElement(i)  == [k \in 1 .. taView.bpe |-> ByteAt(taView.off + i * taView.bpe + k)]
OldLength == bin.n
Selected(a, b) == {i \in 0 .. OldLength - 1 : (IF a < 0 THEN i >= OldLength + a ELSE i >= a)
                                               /\ (b = Infinite \/ (IF b < 0 THEN i < OldLength + b ELSE i < b))}
OldOf(s) == [k \in 1 .. Cardinality(s) |-> OldElement((CHOOSE i \in s : \A j \in s : i <= j) + k - 1)]

\* A call the program leaves alone does what Array's method of that name does.
LikeArray ==
    bin.at = "done" /\ bin.meddles = 0 =>
        /\ taOp = "slice" => bin.result = FlattenSeq(OldOf(Selected(taArg(1), taArg(2))))
        /\ taOp = "subarray" /\ Selected(taArg(1), taArg(2)) # {} =>
              ElementsNow # <<>> /\ [k \in 1 .. TaLength(ab, bin.result) |-> ElementAt(ab, blocks, bin.result, k - 1)]
                                = OldOf(Selected(taArg(1), taArg(2)))
        /\ taOp \in {"visit", "next"} /\ bin.i # -9 => bin.result = OldOf(0 .. OldLength - 1)
        /\ taOp = "visitRight" /\ bin.i # -9 => bin.result = Reverse(OldOf(0 .. OldLength - 1))
        /\ taOp = "reverse" => ElementsNow = Reverse(OldOf(0 .. OldLength - 1))
        /\ taOp = "sort" => ToSet(ElementsNow) = {OldElement(i) : i \in 0 .. OldLength - 1}
        /\ taOp = "set" /\ taArg(2) = "view" => \A i \in 0 .. bin.result - 1 :
              ReadAt(taArg(1) + i) = [k \in 1 .. taView.bpe |-> ByteAt(i * taView.bpe + k)]
        /\ taOp = "copyWithin" /\ bin.result > 0 => \A i \in 0 .. bin.result \div taView.bpe - 1 :
              ReadAt(Relative(taArg(1), OldLength) + i) = OldElement(Relative(taArg(2), OldLength) + i)

\* What a method finds or visits is what is there: not what was.
FoundIsThere ==
    bin.at = "done" =>
        /\ taOp = "search" /\ bin.result >= 0 => ReadAt(bin.result) = bin.sought
        /\ taOp = "at" /\ bin.result # Undefined => bin.result = ReadAt(IF taArg(1) < 0 THEN bin.n + taArg(1) ELSE taArg(1))
        /\ taOp \in {"visit", "visitRight"} /\ bin.i # -9 => Len(bin.result) = bin.n
=============================================================================
