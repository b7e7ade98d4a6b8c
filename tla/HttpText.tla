------------------------------ MODULE HttpText ------------------------------
(***************************************************************************)
(* http_core.js and http_server.js: the text of HTTP/1.1, and the settings of *)
(* http2.js. A text is a sequence of characters, those of a header's name    *)
(* among them: "L" is content-length, "T" transfer-encoding, "K" what it says *)
(* of chunks.                                                                *)
(***************************************************************************)
EXTENDS Computations, Integers, FiniteSets, SequencesExt

CONSTANTS Singletons    \* DUPLICATE_DISCARD

CRLF == <<"CR", "LF">>
Null == [found |-> FALSE]
At(text, i, part) == i + Len(part) - 1 <= Len(text) /\ SubSeq(text, i, i + Len(part) - 1) = part
\* The first place of part from a place on, 0 if there is none.
Find(text, part, from) ==
    LET places == {i \in from .. Len(text) : At(text, i, part)}
    IN  IF places = {} THEN 0 ELSE CHOOSE i \in places : \A j \in places : i <= j
findCRLF(text, from) == Find(text, CRLF, from)

\* A last line that is empty is none.
splitHeaderLines(text) ==
    LET line[from \in 1 .. Len(text) + 1] ==
            IF from > Len(text) THEN <<>>
            ELSE IF findCRLF(text, from) = 0 THEN <<SubSeq(text, from, Len(text))>>
            ELSE <<SubSeq(text, from, findCRLF(text, from) - 1)>> \o line[findCRLF(text, from) + 2]
    IN  line[1]

Cases == [X |-> "x"]
Lower(name) == [i \in DOMAIN name |-> IF name[i] \in DOMAIN Cases THEN Cases[name[i]] ELSE name[i]]
Trimmed(value) == LET n == {i \in 1 .. Len(value) : value[i] # " "}
                  IN  IF n = {} THEN <<>> ELSE SubSeq(value, CHOOSE i \in n : \A j \in n : i <= j, Len(value))

\* A line without a colon, or that begins with one, is passed over.
RawHeaders(lines) ==
    LET with == SelectSeq(lines, LAMBDA l : Find(l, <<":">>, 1) > 1)
    IN  [k \in DOMAIN with |-> [name |-> SubSeq(with[k], 1, Find(with[k], <<":">>, 1) - 1),
                                value |-> Trimmed(SubSeq(with[k], Find(with[k], <<":">>, 1) + 1, Len(with[k])))]]

\* Mutant: of one that comes twice the later counts.
OneValueLast(all) == <<Last(all)>>
OneValue(all) == <<all[1]>>

\* headers and headersDistinct; a value is the sequence of those it joins.
finalizeHeaders(raw, join) ==
    LET names == {Lower(raw[i].name) : i \in DOMAIN raw}
        all(n) == LET mine == SelectSeq(raw, LAMBDA h : Lower(h.name) = n) IN [k \in DOMAIN mine |-> mine[k].value]
    IN  [headers |-> [n \in names |-> IF n \in Singletons /\ ~ join THEN OneValue(all(n)) ELSE all(n)],
         distinct |-> [n \in names |-> all(n)]]

\* parseRequestHead, and parseResponseHead, whose first line differs.
ParseHead(text, join) ==
    LET end   == Find(text, CRLF \o CRLF, 1)
        lines == splitHeaderLines(SubSeq(text, 1, end - 1))
        sp1   == Find(lines[1], <<" ">>, 1)
        sp2   == Find(lines[1], <<" ">>, sp1 + 1)
        raw   == RawHeaders(Tail(lines))
    IN  IF end = 0 THEN Null
        ELSE IF lines = <<>> THEN Null
        ELSE IF sp1 = 0 THEN Null
        ELSE IF sp2 = 0 THEN Null
        ELSE [found |-> TRUE, method |-> SubSeq(lines[1], 1, sp1 - 1), url |-> SubSeq(lines[1], sp1 + 1, sp2 - 1),
              rawHeaders |-> raw, size |-> end + 3] @@ finalizeHeaders(raw, join)

-----------------------------------------------------------------------------
(* Bodies.                                                                 *)

Digits == [d \in {"0", "1", "2"} |-> IF d = "0" THEN 0 ELSE IF d = "1" THEN 1 ELSE 2]
\* parseInt(text, 16); -1 is NaN.
ParseInt(text) ==
    LET n == {k \in 0 .. Len(text) : \A i \in 1 .. k : text[i] \in DOMAIN Digits}
        k == CHOOSE m \in n : \A j \in n : j <= m
    IN  IF k = 0 THEN -1 ELSE FoldLeft(LAMBDA v, d : 16 * v + Digits[d], 0, SubSeq(text, 1, k))

Fits(text, end) == end + 2 <= Len(text)
\* Mutant: the line after the last chunk is not waited for.
EndedEarly(text, nl) == Len(text) >= nl + 1
Ended(text, nl) == Len(text) >= nl + 3

Then(bytes, rest) == IF rest.found THEN [rest EXCEPT !.body = bytes \o @] ELSE Null
decodeChunkedSection(text) ==
    LET chunk[from \in 1 .. Len(text) + 3] ==
            LET nl   == findCRLF(text, from)
                size == ParseInt(SubSeq(text, from, nl - 1))
                end  == nl + 1 + size
            IN  IF nl = 0 THEN Null
                ELSE IF size = -1 THEN Null
                ELSE IF size = 0 THEN IF Ended(text, nl) THEN [found |-> TRUE, body |-> <<>>, consumed |-> nl + 3] ELSE Null
                ELSE IF Fits(text, end) THEN Then(SubSeq(text, nl + 2, end), chunk[end + 3])
                ELSE Null
    IN  chunk[1]

\* http_server.js: what ends the last chunk is not looked for.
_decodeChunked(text) ==
    LET chunk[from \in 1 .. Len(text) + 3] ==
            LET nl   == findCRLF(text, from)
                size == ParseInt(SubSeq(text, from, nl - 1))
                end  == nl + 1 + size
            IN  IF nl = 0 \/ from > Len(text) THEN Null
                ELSE IF size = -1 THEN Null
                ELSE IF size = 0 THEN [found |-> TRUE, body |-> <<>>]
                ELSE IF Fits(text, end) THEN Then(SubSeq(text, nl + 2, end), chunk[end + 3])
                ELSE Null
    IN  chunk[1]

Value(head, name) == IF name \in DOMAIN head.headers THEN head.headers[name][1] ELSE <<>>
Chunked(head)     == "K" \in ToSet(Value(head, <<"T">>))
Length(head)      == IF ParseInt(Value(head, <<"L">>)) = -1 THEN 0 ELSE ParseInt(Value(head, <<"L">>))

Shifted(d, size) == IF d.found THEN [d EXCEPT !.consumed = @ + size] ELSE Null
consumeIncomingBody(text, head) ==
    IF Chunked(head) THEN Shifted(decodeChunkedSection(SubSeq(text, head.size + 1, Len(text))), head.size)
    ELSE IF Len(text) < head.size + Length(head) THEN Null
    ELSE [found |-> TRUE, body |-> SubSeq(text, head.size + 1, head.size + Length(head)), consumed |-> head.size + Length(head)]

\* The first message of a text.
Consumed(text, head) == IF head.found THEN consumeIncomingBody(text, head) ELSE Null
Message(text) == Consumed(text, ParseHead(text, FALSE))

\* http_server.js asks for the length first.
BodyOf(text, head) ==
    IF ~ head.found THEN Null
    ELSE IF <<"L">> \in DOMAIN head.headers
    THEN IF Len(text) < head.size + Length(head) THEN Null
         ELSE [found |-> TRUE, body |-> SubSeq(text, head.size + 1, head.size + Length(head))]
    ELSE IF Chunked(head) THEN _decodeChunked(SubSeq(text, head.size + 1, Len(text)))
    ELSE [found |-> TRUE, body |-> <<>>]
_parseHTTPRequest(text) == BodyOf(text, ParseHead(text, TRUE))

-----------------------------------------------------------------------------
(* Heads that are written.                                                 *)

\* Mutant: a name may hold a colon.
NotInNamesBut == {" ", "CR", "LF", "wide"}
NotInNames == {":", " ", "CR", "LF", "wide"}

validateHeaderName(name)   == name # <<>> /\ ToSet(name) \cap NotInNames = {}
validateHeaderValue(value) == ToSet(value) \cap {"CR", "LF", "wide"} = {}

\* OutgoingMessage: setHeader, appendHeader and removeHeader.
Without(table, name) == SelectSeq(table, LAMBDA h : Lower(h.name) # Lower(name))
Has(table, name) == \E i \in DOMAIN table : Lower(table[i].name) = Lower(name)
Replaced(table, c) ==
    [i \in DOMAIN table |-> IF Lower(table[i].name) # Lower(c.name) THEN table[i]
                            ELSE IF c.op = "set" THEN [name |-> c.name, value |-> c.value]
                            ELSE [table[i] EXCEPT !.value = @ \o <<",", " ">> \o c.value]]
Allowed(c) == validateHeaderName(c.name) /\ validateHeaderValue(c.value)
Changed(table, c) ==
    IF c.op = "remove" THEN Without(table, c.name)
    ELSE IF ~ Allowed(c) THEN table
    ELSE IF Has(table, c.name) THEN Replaced(table, c)
    ELSE Append(table, [name |-> c.name, value |-> c.value])
Table(changes) == FoldLeft(Changed, <<>>, changes)

\* _sendHeaders.
Written(table) == FlattenSeq(<<<<"G", " ", "u", " ", "1">>>> \o [i \in DOMAIN table |-> CRLF \o table[i].name \o <<":", " ">> \o table[i].value] \o <<CRLF \o CRLF>>)

-----------------------------------------------------------------------------
(* Proxies.                                                                *)

EndsWith(host, part) == Len(part) <= Len(host) /\ SubSeq(host, Len(host) - Len(part) + 1, Len(host)) = part
\* Mutant: the boundary of a label is not looked at.
CoversAny(host, name) == EndsWith(host, name)
Covers(host, name) == host = name \/ EndsWith(host, <<".">> \o name)

Undotted(pattern) == IF pattern[1] = "." THEN Tail(pattern) ELSE pattern
shouldBypassProxy(host, entries) ==
    \/ entries = <<<<"*">>>>
    \/ \E i \in DOMAIN entries :
          /\ entries[i] # <<>>
          /\ LET p == Undotted(entries[i])
             IN  IF p # <<>> /\ p[1] = "*" THEN EndsWith(host, Tail(p)) \/ (Len(p) > 1 /\ host = SubSeq(p, 3, Len(p))) ELSE Covers(host, p)

-----------------------------------------------------------------------------
(* Redirects within an origin.                                             *)

\* Mutant: the directory loses its slash.
DirectoryBare(path) == SubSeq(path, 1, Max({i \in 1 .. Len(path) : path[i] = "/"}) - 1)
Directory(path) == SubSeq(path, 1, Max({i \in 1 .. Len(path) : path[i] = "/"}))

resolveRedirectLocation(path, location) == IF location[1] = "/" THEN location ELSE Directory(path) \o location

-----------------------------------------------------------------------------
(* http2.js: settings packed into the bytes of a frame. A number is its two  *)
(* halves of 16 bits; the high half of one out of range is so too.          *)

Infinite   == <<65537, 0>>
NotFinite  == <<-65537, 0>>        \* NaN and -Infinity
Most       == <<65535, 65535>>

\* _SETTINGS_IDS.
Names == <<"headerTableSize", "enablePush", "maxConcurrentStreams", "initialWindowSize", "maxFrameSize", "maxHeaderListSize", "none", "enableConnectProtocol">>
getDefaultSettings ==
    [n \in ToSet(Names) \ {"none"} |->
        CASE n = "enablePush" -> <<0, 1>> [] n = "enableConnectProtocol" -> <<0, 0>> [] n = "maxConcurrentStreams" -> Infinite
          [] n = "headerTableSize" -> <<0, 4096>> [] n = "maxFrameSize" -> <<0, 16384>> [] OTHER -> <<0, 65535>>]
Defaults == getDefaultSettings @@ [maxHeaderSize |-> <<0, 65535>>]

Leq(a, b) == a[1] < b[1] \/ (a[1] = b[1] /\ a[2] <= b[2])
Least(name) == IF name = "maxFrameSize" THEN <<0, 16384>> ELSE <<0, 0>>
\* Mutant: a window may be as large as any number.
LimitWide(name) == IF name = "maxFrameSize" THEN <<255, 65535>> ELSE Most
Limit(name) == CASE name = "initialWindowSize" -> <<32767, 65535>> [] name = "maxFrameSize" -> <<255, 65535>> [] OTHER -> Most

\* What cannot be sent is left out; what is out of range is an error.
_packSettingValue(name, v) == IF v = Infinite THEN Most ELSE v
Refused(name, v) == v \notin {Infinite, NotFinite} /\ ~ (Leq(Least(name), v) /\ Leq(v, Limit(name)))

Entry(id, v) == [id |-> id, value |-> v]
\* maxHeaderSize stands for maxHeaderListSize where that is not given.
Aliased(s) == IF "maxHeaderSize" \in DOMAIN s THEN s @@ [maxHeaderListSize |-> s["maxHeaderSize"]] ELSE s
Given(s) == SelectSeq([i \in 1 .. 8 |-> i], LAMBDA i : Names[i] \in DOMAIN Aliased(s) /\ Aliased(s)[Names[i]] # NotFinite)
Entries(s, custom) == [k \in DOMAIN Given(s) |-> Entry(Given(s)[k], _packSettingValue(Names[Given(s)[k]], Aliased(s)[Names[Given(s)[k]]]))] \o custom
RefusedCustom(custom) == Len(custom) > 10 \/ \E i \in DOMAIN custom : custom[i].id \notin 0 .. 65535 \/ ~ (Leq(<<0, 0>>, custom[i].value) /\ Leq(custom[i].value, Most))

\* Mutant: the low half goes first.
BytesSwapped(e) == <<e.id \div 256, e.id % 256, e.value[2] \div 256, e.value[2] % 256, e.value[1] \div 256, e.value[1] % 256>>
Bytes(e) == <<e.id \div 256, e.id % 256, e.value[1] \div 256, e.value[1] % 256, e.value[2] \div 256, e.value[2] % 256>>

Error == <<-1>>
getPackedSettings(s, custom) ==
    IF (\E n \in DOMAIN s : Refused(n, s[n]) /\ (n = "maxHeaderSize" => "maxHeaderListSize" \notin DOMAIN s)) \/ RefusedCustom(custom) THEN Error
    ELSE FlattenSeq([i \in DOMAIN Entries(s, custom) |-> Bytes(Entries(s, custom)[i])])

EntryAt(b, off) == Entry(256 * b[off + 1] + b[off + 2], <<256 * b[off + 3] + b[off + 4], 256 * b[off + 5] + b[off + 6]>>)
NameOf(id) == IF id \in 1 .. 8 THEN Names[id] ELSE "none"
Unpacked(out, e) ==
    CASE NameOf(e.id) = "none"              -> [out EXCEPT !.custom = (e.id :> e.value) @@ @]
      [] NameOf(e.id) = "maxHeaderListSize" -> [out EXCEPT !.named["maxHeaderListSize"] = e.value, !.named["maxHeaderSize"] = e.value]
      [] NameOf(e.id) \in {"enablePush", "enableConnectProtocol"} -> [out EXCEPT !.named[NameOf(e.id)] = IF e.value = <<0, 0>> THEN <<0, 0>> ELSE <<0, 1>>]
      [] OTHER                              -> [out EXCEPT !.named[NameOf(e.id)] = e.value]
getUnpackedSettings(b) ==
    FoldLeft(LAMBDA out, k : Unpacked(out, EntryAt(b, 6 * (k - 1))), [named |-> Defaults, custom |-> <<>>], [k \in 1 .. Len(b) \div 6 |-> k])

-----------------------------------------------------------------------------
HttpTextNext ==
    \/ Computes("message", Message(computed.q.x))
    \/ Computes("headers", Table(computed.q.x))
    \/ Computes("redirect", resolveRedirectLocation(computed.q.x, computed.q.y))
    \/ Computes("bypass", shouldBypassProxy(computed.q.x, computed.q.y))

\* A message is found once all of it has come, and stays what it was however
\* much comes after it; both parsers see the same body.
MessagesCut ==
    Asked("message") =>
        \A k \in 0 .. Len(computed.q.x) :
            LET m == Message(SubSeq(computed.q.x, 1, k))
                s == _parseHTTPRequest(SubSeq(computed.q.x, 1, k))
            IN  m.found => /\ m.consumed <= k
                           /\ m.consumed = k => ~ Message(SubSeq(computed.q.x, 1, k - 1)).found
                           /\ m = computed.out
                           /\ s.found /\ s.body = m.body

\* A head that was accepted is read back as it was given: for every name the
\* value it was last set to, with what was appended since.
HeadersKept ==
    Asked("headers") =>
        LET table  == computed.out
            parsed == ParseHead(Written(table), FALSE)
            mine(n) == SelectSeq(computed.q.x, LAMBDA c : Lower(c.name) = Lower(n) /\ (c.op = "remove" \/ Allowed(c)))
        IN  /\ parsed.found /\ parsed.size = Len(Written(table))
            /\ Len(parsed.rawHeaders) = Len(table) /\ Cardinality(DOMAIN parsed.headers) = Len(table)
            /\ \A i \in DOMAIN table :
                  /\ parsed.rawHeaders[i] = [table[i] EXCEPT !.value = Trimmed(@)]
                  /\ Last(mine(table[i].name)).op # "remove"
                  /\ EndsWith(table[i].value, Last(mine(table[i].name)).value)

Pieces(text, c) ==
    LET cuts == <<0>> \o SelectSeq([i \in 1 .. Len(text) |-> i], LAMBDA i : text[i] = c) \o <<Len(text) + 1>>
    IN  [k \in 1 .. Len(cuts) - 1 |-> SubSeq(text, cuts[k] + 1, cuts[k + 1] - 1)]
Labels(name) == SelectSeq(Pieces(name, "."), LAMBDA l : l \notin {<<>>, <<"*">>})
\* A host goes past the proxy just when the labels of an entry are the last of
\* its own; and a redirect leads beside the page it came from.
RoutesRight ==
    /\ Asked("redirect") =>
          Pieces(computed.out, "/") = (IF computed.q.y[1] = "/" THEN <<>> ELSE Front(Pieces(computed.q.x, "/"))) \o Pieces(computed.q.y, "/")
    /\ Asked("bypass") => (computed.out <=> \E i \in DOMAIN computed.q.y : computed.q.y[i] # <<>> /\ IsSuffix(Labels(computed.q.y[i]), Labels(computed.q.x)))

SettingsNext == Computes("settings", getPackedSettings(computed.q.x, computed.q.custom))

\* Settings that are sent are the ones that are read, with the defaults for the
\* rest; none that the protocol forbids is sent.
SettingsKept ==
    Asked("settings") =>
        LET s    == computed.q.x
            read == getUnpackedSettings(computed.out)
            said(n) == IF n \in DOMAIN s /\ s[n] # NotFinite THEN {s[n]} ELSE {}
            sent(n) == IF n \in {"maxHeaderListSize", "maxHeaderSize"}
                       THEN IF "maxHeaderListSize" \in DOMAIN s THEN said("maxHeaderListSize") ELSE said("maxHeaderSize") ELSE said(n)
            ids  == {computed.q.custom[i].id : i \in DOMAIN computed.q.custom}
        IN  computed.out # Error =>
              /\ \A n \in DOMAIN Defaults : (\A i \in ids : NameOf(i) # n) =>
                    read.named[n] = (IF sent(n) = {} THEN Defaults[n] ELSE IF sent(n) = {Infinite} THEN Most ELSE CHOOSE v \in sent(n) : TRUE)
              /\ \A i \in DOMAIN computed.q.custom : NameOf(computed.q.custom[i].id) = "none" => read.custom[computed.q.custom[i].id] = computed.q.custom[i].value
              /\ DOMAIN read.custom \subseteq ids
              /\ read.named["initialWindowSize"][1] < 32768 /\ read.named["maxFrameSize"][1] \in 0 .. 255 /\ Len(computed.out) % 6 = 0
=============================================================================
