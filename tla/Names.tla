------------------------------- MODULE Names -------------------------------
(***************************************************************************)
(* path.js (POSIX), querystring.js and punycode.js: what names things. A path *)
(* is a sequence of characters, "/", "." and others; so is a query, where an  *)
(* escaped character, of one to four "%XX", is one of its own, "%" and the   *)
(* character, and an object is the sequence of its keys, each with its values; *)
(* a label is a sequence of code points.                                     *)
(***************************************************************************)
EXTENDS Computations, FiniteSets, SequencesExt

CONSTANT Cwd       \* what process.cwd() returns

-----------------------------------------------------------------------------
(* path.js.                                                                *)

Dots == <<".", ".">>

_splitPath(p) ==
    LET cuts == <<0>> \o SelectSeq([i \in 1 .. Len(p) |-> i], LAMBDA i : p[i] = "/") \o <<Len(p) + 1>>
    IN  [k \in 1 .. Len(cuts) - 1 |-> SubSeq(p, cuts[k] + 1, cuts[k + 1] - 1)]

\* Mutant: ".." of a relative path goes above what it has gone up.
NormPartsPops(parts, isAbs) ==
    FoldLeft(LAMBDA r, seg : IF seg \in {<<>>, <<".">>} THEN r
                             ELSE IF seg # Dots THEN Append(r, seg)
                             ELSE IF r # <<>> THEN Front(r)
                             ELSE IF isAbs THEN r ELSE Append(r, Dots), <<>>, parts)

_normParts(parts, isAbs) ==
    FoldLeft(LAMBDA r, seg : IF seg \in {<<>>, <<".">>} THEN r
                             ELSE IF seg # Dots THEN Append(r, seg)
                             ELSE IF r # <<>> /\ Last(r) # Dots THEN Front(r)
                             ELSE IF isAbs THEN r ELSE Append(r, Dots), <<>>, parts)

_rejoin(parts) == FoldLeft(LAMBDA r, seg : IF r = <<>> THEN seg ELSE r \o <<"/">> \o seg, <<>>, parts)

LastIndex(p, c) == LET s == {i \in 1 .. Len(p) : p[i] = c} IN IF s = {} THEN 0 ELSE CHOOSE i \in s : \A j \in s : j <= i

\* A lone slash is kept.
_stripTrailing(p) ==
    LET ends == {n \in 1 .. Len(p) : (n = 1 \/ p[n] # "/") /\ \A j \in n + 1 .. Len(p) : p[j] = "/"}
    IN  IF p = <<>> THEN p ELSE SubSeq(p, 1, CHOOSE n \in ends : \A m \in ends : n <= m)

isAbsolute(p) == p # <<>> /\ p[1] = "/"

normalize(p) ==
    LET isAbs    == isAbsolute(p)
        trailing == IF p # <<>> /\ Last(p) = "/" THEN <<"/">> ELSE <<>>
        normed   == _normParts(_splitPath(p), isAbs)
    IN  IF p = <<>> THEN <<".">>
        ELSE IF normed = <<>> THEN IF isAbs THEN <<"/">> ELSE <<".">> \o trailing
        ELSE (IF isAbs THEN <<"/">> ELSE <<>>) \o _rejoin(normed) \o trailing

join(paths) ==
    LET joined == _rejoin(SelectSeq(paths, LAMBDA s : s # <<>>))
    IN  IF joined = <<>> THEN <<".">> ELSE normalize(joined)

\* From the last absolute argument on, else from the working directory.
resolve(paths) ==
    LET given  == SelectSeq(paths, LAMBDA s : s # <<>>)
        abs    == {i \in 1 .. Len(given) : isAbsolute(given[i])}
        used   == IF abs = {} THEN <<Cwd>> \o given
                  ELSE SubSeq(given, CHOOSE i \in abs : \A j \in abs : j <= i, Len(given))
    IN  <<"/">> \o _rejoin(_normParts(_splitPath(_rejoin(used)), TRUE))

dirname(path) ==
    LET p == _stripTrailing(path)
        slash == LastIndex(p, "/")
    IN  IF slash = 0 THEN <<".">> ELSE IF slash = 1 THEN <<"/">> ELSE SubSeq(p, 1, slash - 1)

basename(path, ext) ==
    LET p    == _stripTrailing(path)
        base == SubSeq(p, LastIndex(p, "/") + 1, Len(p))
    IN  IF ext # <<>> /\ Len(base) > Len(ext) /\ IsSuffix(ext, base) THEN SubSeq(base, 1, Len(base) - Len(ext)) ELSE base

extname(p) ==
    LET slash == LastIndex(p, "/")
        dot   == LastIndex(p, ".")
    IN  IF dot <= slash + 1 THEN <<>> ELSE SubSeq(p, dot, Len(p))

relative(from, to) ==
    LET f == _normParts(_splitPath(resolve(<<from>>)), TRUE)
        t == _normParts(_splitPath(resolve(<<to>>)), TRUE)
        same == {n \in 0 .. Len(f) : n <= Len(t) /\ SubSeq(f, 1, n) = SubSeq(t, 1, n)}
        common == CHOOSE n \in same : \A m \in same : m <= n
    IN  _rejoin([i \in 1 .. Len(f) - common |-> Dots] \o SubSeq(t, common + 1, Len(t)))

parse(p) ==
    LET root  == IF isAbsolute(p) THEN <<"/">> ELSE <<>>
        slash == LastIndex(p, "/")
        head  == SubSeq(p, 1, slash - 1)
        base  == SubSeq(p, slash + 1, Len(p))
        dot   == LastIndex(base, ".")
    IN  [root |-> root, dir |-> IF slash > 0 /\ head = <<>> THEN root ELSE head, base |-> base,
         ext |-> IF dot > 1 THEN SubSeq(base, dot, Len(base)) ELSE <<>>,
         name |-> IF dot > 1 THEN SubSeq(base, 1, dot - 1) ELSE base]

format(obj) ==
    LET base == IF obj.base = <<>> THEN obj.name \o obj.ext ELSE obj.base
    IN  IF obj.dir = <<>> THEN obj.root \o base
        ELSE obj.dir \o (IF Last(obj.dir) = "/" THEN <<>> ELSE <<"/">>) \o base

-----------------------------------------------------------------------------
(* querystring.js.                                                         *)

Safe  == {"a", "b"}                    \* letters, digits, - _ . ~ ! * ' ( )
Coded == {"&", "=", "+", "%"}          \* others
Escaped(c) == "%" \o c

\* Mutant: a plus is left as it is.
EscapeCharPlain(c) == IF c \in Safe \cup {"+"} THEN c ELSE IF c = " " THEN "+" ELSE Escaped(c)
EscapeChar(c) == IF c \in Safe THEN c ELSE IF c = " " THEN "+" ELSE Escaped(c)

escape(s) == [i \in DOMAIN s |-> EscapeChar(s[i])]

\* "Fallback: return as-is if malformed": a bare per cent sign.
unescape(s) ==
    IF \E i \in DOMAIN s : s[i] = "%" THEN s
    ELSE [i \in DOMAIN s |-> IF s[i] = "+" THEN " "
                             ELSE IF \E c \in Coded : s[i] = Escaped(c) THEN CHOOSE c \in Coded : s[i] = Escaped(c) ELSE s[i]]

Split(s, c) ==
    LET cuts == <<0>> \o SelectSeq([i \in 1 .. Len(s) |-> i], LAMBDA i : s[i] = c) \o <<Len(s) + 1>>
    IN  [k \in 1 .. Len(cuts) - 1 |-> SubSeq(s, cuts[k] + 1, cuts[k + 1] - 1)]

\* A pair without "=" is a key with an empty value.
Pair(s) ==
    LET eqs == {i \in 1 .. Len(s) : s[i] = "="}
        e   == CHOOSE i \in eqs : \A j \in eqs : i <= j
    IN  IF eqs = {} THEN [key |-> unescape(s), value |-> <<>>]
        ELSE [key |-> unescape(SubSeq(s, 1, e - 1)), value |-> unescape(SubSeq(s, e + 1, Len(s)))]

\* "Duplicate keys produce arrays."
Added(obj, pair) ==
    IF \E i \in DOMAIN obj : obj[i].key = pair.key
    THEN [i \in DOMAIN obj |-> IF obj[i].key = pair.key THEN [obj[i] EXCEPT !.values = Append(@, pair.value)] ELSE obj[i]]
    ELSE Append(obj, [key |-> pair.key, values |-> <<pair.value>>])

\* The first maxKeys pairs, all when it is 0; empty ones do not count.
parseQuery(s, maxKeys) ==
    LET pairs == SelectSeq(Split(s, "&"), LAMBDA p : p # <<>>)
        used  == IF maxKeys > 0 /\ Len(pairs) > maxKeys THEN SubSeq(pairs, 1, maxKeys) ELSE pairs
    IN  FoldLeft(LAMBDA obj, p : Added(obj, Pair(p)), <<>>, used)

stringify(obj) ==
    LET pairs == FlattenSeq([i \in DOMAIN obj |->
                     [v \in DOMAIN obj[i].values |-> escape(obj[i].key) \o <<"=">> \o escape(obj[i].values[v])]])
    IN  FoldLeft(LAMBDA s, p : IF s = <<>> THEN p ELSE s \o <<"&">> \o p, <<>>, pairs)

-----------------------------------------------------------------------------
(* punycode.js: RFC 3492 over sequences of code points.                    *)

BASE         == 36
TMIN         == 1
TMAX         == 26
SKEW         == 38
DAMP         == 700
INITIAL_BIAS == 72
INITIAL_N    == 128
Hyphen       == 45
MaxInt       == 2147483647
Rejected     == <<-1>>

_adapt(delta, numPoints, firstTime) ==
    LET d == delta \div (IF firstTime THEN DAMP ELSE 2)
        scaled[x \in 0 .. MaxInt] ==
            IF x > ((BASE - TMIN) * TMAX) \div 2 THEN BASE + scaled[x \div (BASE - TMIN)]
            ELSE ((BASE - TMIN + 1) * x) \div (x + SKEW)
    IN  scaled[d + d \div numPoints]

_basicToDigit(c) == IF c \in 48 .. 57 THEN c - 22 ELSE IF c \in 65 .. 90 THEN c - 65 ELSE IF c \in 97 .. 122 THEN c - 97 ELSE BASE
_digitToBasic(d) == IF d < 26 THEN d + 97 ELSE d - 26 + 48

High(u) == u >= 55296 /\ u <= 56319
Low(u)  == u >= 56320 /\ u <= 57343
_ucs2decode(s) ==
    FlattenSeq([i \in 1 .. Len(s) |->
        IF High(s[i]) /\ i < Len(s) /\ Low(s[i + 1]) THEN <<65536 + (s[i] - 55296) * 1024 + (s[i + 1] - 56320)>>
        ELSE IF Low(s[i]) /\ i > 1 /\ High(s[i - 1]) THEN <<>> ELSE <<s[i]>>])
_ucs2encode(cps) ==
    FlattenSeq([i \in 1 .. Len(cps) |-> LET c == cps[i] - 65536
                                        IN  IF c < 0 THEN <<cps[i]>> ELSE <<55296 + c \div 1024, 56320 + (c % 1024)>>])

Threshold(k, bias) == IF k <= bias THEN TMIN ELSE IF k >= bias + TMAX THEN TMAX ELSE k - bias

RECURSIVE Digits(_, _, _)
Digits(q, k, bias) ==
    LET t == Threshold(k, bias)
    IN  IF q < t THEN <<_digitToBasic(q)>>
        ELSE <<_digitToBasic(t + ((q - t) % (BASE - t)))>> \o Digits((q - t) \div (BASE - t), k + BASE, bias)

\* Mutant: what is smaller does not count.
PassOverFree(s) == s
PassOver(s) == [s EXCEPT !.delta = @ + 1]

\* A code point c of the input when n is what is encoded; s = [out, delta, bias, h].
PassOne(s, c, n, basic) ==
    IF c < n THEN PassOver(s)
    ELSE IF c # n THEN s
    ELSE [out |-> s.out \o Digits(s.delta, BASE, s.bias), bias |-> _adapt(s.delta, s.h + 1, s.h = basic), delta |-> 0, h |-> s.h + 1]

RECURSIVE EncodeFrom(_, _, _, _)
EncodeFrom(cps, s, n, basic) ==
    IF s.h >= Len(cps) THEN s.out
    ELSE LET m == CHOOSE c \in ToSet(cps) : c >= n /\ \A d \in ToSet(cps) : d >= n => c <= d
         IN  IF m - n > (MaxInt - s.delta) \div (s.h + 1) THEN Rejected
             ELSE LET t == FoldLeft(LAMBDA a, c : PassOne(a, c, m, basic), [s EXCEPT !.delta = @ + (m - n) * (s.h + 1)], cps)
                  IN  EncodeFrom(cps, [t EXCEPT !.delta = @ + 1], m + 1, basic)

encode(input) ==
    LET cps   == _ucs2decode(input)
        plain == SelectSeq(cps, LAMBDA c : c < 128)
    IN  EncodeFrom(cps, [out |-> IF plain = <<>> THEN <<>> ELSE Append(plain, Hyphen), delta |-> 0, bias |-> INITIAL_BIAS, h |-> Len(plain)],
                   INITIAL_N, Len(plain))

\* One number from s[index] on: [ok, i, index]; i counts from where it stood.
RECURSIVE Number(_, _, _, _, _, _)
Number(s, index, i, w, k, bias) ==
    LET digit == _basicToDigit(s[index])
        t     == Threshold(k, bias)
        j     == i + digit * w
    IN  IF index > Len(s) THEN [ok |-> FALSE, i |-> 0, index |-> 0]
        ELSE IF digit >= BASE \/ digit > (MaxInt - i) \div w THEN [ok |-> FALSE, i |-> 0, index |-> 0]
        ELSE IF digit < t THEN [ok |-> TRUE, i |-> j, index |-> index + 1]
        ELSE IF w > MaxInt \div (BASE - t) THEN [ok |-> FALSE, i |-> 0, index |-> 0]
        ELSE Number(s, index + 1, j, w * (BASE - t), k + BASE, bias)

RECURSIVE DecodeFrom(_, _, _, _, _, _)
DecodeFrom(s, index, output, i, n, bias) ==
    IF index > Len(s) THEN output
    ELSE LET r   == Number(s, index, i, 1, BASE, bias)
             out == Len(output) + 1
             m   == n + r.i \div out
             p   == r.i % out
         IN  IF ~ r.ok THEN Rejected
             ELSE IF r.i \div out > MaxInt - n THEN Rejected
             ELSE DecodeFrom(s, r.index, InsertAt(output, p + 1, m), p + 1, m, _adapt(r.i - i, out, i = 0))

decode(input) ==
    LET marks == {j \in 1 .. Len(input) : input[j] = Hyphen}
        basic == IF marks = {} THEN 0 ELSE (CHOOSE j \in marks : \A k \in marks : k <= j) - 1
        plain == SubSeq(input, 1, basic)
        cps   == DecodeFrom(input, IF basic > 0 THEN basic + 2 ELSE 1, plain, 0, INITIAL_N, INITIAL_BIAS)
    IN  IF \E j \in DOMAIN plain : plain[j] >= 128 THEN Rejected
        ELSE IF cps = Rejected THEN Rejected ELSE _ucs2encode(cps)

\* A label of a domain: "xn--" stands before an encoded one.
Xn == <<120, 110, 45, 45>>
toASCII(label) == IF \E i \in DOMAIN label : label[i] >= 128 THEN Xn \o encode(label) ELSE label
toUnicode(label) == IF Len(label) > 4 /\ SubSeq(label, 1, 4) = Xn THEN decode(SubSeq(label, 5, Len(label))) ELSE label

-----------------------------------------------------------------------------
PathsNext ==
    LET q == computed.q
    IN  \/ Computes("normalize", normalize(q.x))
        \/ Computes("resolve", resolve(<<q.x, q.y>>))
        \/ Computes("relative", relative(q.x, q.y))
        \/ Computes("parse", parse(q.x))

\* The place a path leads to: where its segments go from the working directory.
Place(p) == FoldLeft(LAMBDA at, seg : IF seg \in {<<>>, <<".">>} THEN at
                                      ELSE IF seg = Dots THEN (IF at = <<>> THEN at ELSE Front(at)) ELSE Append(at, seg),
                     IF isAbsolute(p) THEN <<>> ELSE Tail(_splitPath(Cwd)), _splitPath(p))

\* normalize, join, resolve, relative, dirname with basename, and parse with
\* format lead to the same place as what they were given; normalize leaves
\* nothing to normalize.
SamePlace ==
    LET q == computed.q
        r == computed.out
    IN  /\ Asked("normalize") =>
              /\ normalize(r) = r /\ Place(r) = Place(q.x) /\ isAbsolute(r) = isAbsolute(q.x)
              /\ q.x # <<>> => ((Last(r) = "/") <=> (Last(q.x) = "/" \/ r = <<"/">>))
        /\ Asked("resolve") =>
              /\ isAbsolute(r) /\ normalize(r) = r
              /\ Place(r) = Place(IF isAbsolute(q.y) THEN q.y ELSE IF q.x = <<>> THEN q.y ELSE q.x \o <<"/">> \o q.y)
              /\ ~ isAbsolute(q.y) => Place(join(<<q.x, q.y>>)) = Place(r)
        /\ Asked("relative") => ~ isAbsolute(r) /\ resolve(<<q.x, r>>) = resolve(<<q.y>>)
        /\ Asked("parse") =>
              /\ Place(format(r)) = Place(q.x)
              /\ Place(dirname(q.x) \o <<"/">> \o basename(q.x, <<>>)) = Place(q.x)
              /\ r.name \o r.ext = r.base /\ r.ext = extname(q.x)
              /\ Last(<<"a">> \o q.x) # "/" => basename(q.x, r.ext) = r.name /\ r.base = basename(q.x, <<>>)

QueryStringsNext ==
    \/ Computes("stringify", stringify(computed.q.x))
    \/ Computes("parseQuery", parseQuery(computed.q.x, computed.q.max))

Values(obj) == FoldLeft(LAMBDA n, e : n + Len(e.values), 0, obj)

\* What stringify writes is read back as it was, whatever its keys and values
\* hold; and of any string no more than maxKeys pairs are read, each once.
QueryKept ==
    LET q == computed.q
        r == computed.out
    IN  /\ Asked("stringify") => parseQuery(r, 0) = q.x
        /\ Asked("parseQuery") =>
              LET pairs == Len(SelectSeq(Split(q.x, "&"), LAMBDA p : p # <<>>))
              IN  /\ Values(r) = IF q.max > 0 /\ q.max < pairs THEN q.max ELSE pairs
                  /\ \A i, j \in DOMAIN r : r[i].key = r[j].key => i = j
                  /\ (\A i \in DOMAIN q.x : q.x[i] # "%") => parseQuery(stringify(r), 0) = r

PunycodeNext ==
    \/ Computes("toASCII", toASCII(computed.q.x))
    \/ Computes("punycode", decode(computed.q.x))

\* A label comes back from its ASCII form; what is decoded at all is the only
\* text with that code, written in lower case.
LabelsKept ==
    /\ Asked("toASCII") => /\ \A i \in DOMAIN computed.out : computed.out[i] < 128
                           /\ toUnicode(computed.out) = computed.q.x
    /\ Asked("punycode") /\ computed.out # Rejected => encode(computed.out) = computed.q.x
=============================================================================
