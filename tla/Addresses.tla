----------------------------- MODULE Addresses -----------------------------
(***************************************************************************)
(* net.js: isIP and the BlockList. A text is a sequence of fields and of the *)
(* ":" and "." between them. An address is its bytes, the highest first,     *)
(* which compare as the number does.                                        *)
(***************************************************************************)
EXTENDS Computations, Integers, Sequences, SequencesExt, FiniteSetsExt

\* A field as hexadecimal and as Number() reads it, -1 if it is neither.
Field(hex, num, digits, chars) == [sep |-> "", hex |-> hex, num |-> num, digits |-> digits, chars |-> chars]
Sep(s) == [sep |-> s, hex |-> -1, num |-> -1, digits |-> FALSE, chars |-> FALSE]
Colon  == Sep(":")
Dot    == Sep(".")
Hex(n) == Field(n, -1, FALSE, TRUE)
Dec(n) == Field(-1, n, TRUE, FALSE)

None == <<>>
Split(text, sep) ==
    LET cuts == <<0>> \o SelectSeq([i \in 1 .. Len(text) |-> i], LAMBDA i : text[i].sep = sep) \o <<Len(text) + 1>>
    IN  [k \in 1 .. Len(cuts) - 1 |-> SubSeq(text, cuts[k] + 1, cuts[k + 1] - 1)]
LastColon(text) == Max({0} \cup {i \in DOMAIN text : text[i].sep = ":"})
Dotted(text) == LastColon(text) > 0 /\ \E i \in LastColon(text) .. Len(text) : text[i].sep = "."

-----------------------------------------------------------------------------
(* isIP.                                                                   *)

Octet(part) == Len(part) = 1 /\ part[1].digits /\ part[1].num \in 0 .. 255
isIPv4(text) == Len(Split(text, ".")) = 4 /\ \A p \in ToSet(Split(text, ".")) : Octet(p)

\* Groups are not counted; of a dotted text the colon before the tail is not.
Core(text) == IF Dotted(text) THEN SubSeq(text, 1, LastColon(text) - 1) ELSE text
isIP(text) ==
    IF isIPv4(text) THEN 4
    ELSE IF LastColon(text) = 0 \/ (Dotted(text) /\ ~ isIPv4(SubSeq(text, LastColon(text) + 1, Len(text)))) THEN 0
    ELSE IF /\ \A i \in DOMAIN Core(text) : Core(text)[i].sep = ":" \/ Core(text)[i].chars
            /\ Cardinality({i \in DOMAIN Core(text) : Core(text)[i].sep = ":"}) >= 2 THEN 6
    ELSE 0

-----------------------------------------------------------------------------
(* Reading and writing addresses.                                          *)

_ipv4ToInt(text) ==
    LET parts == Split(text, ".")
    IN  IF Len(parts) = 4 /\ \A p \in ToSet(parts) : Len(p) = 1 /\ p[1].num \in 0 .. 255
        THEN [i \in 1 .. 4 |-> parts[i][1].num] ELSE None
_intToIpv4(n) == <<Dec(n[1]), Dot, Dec(n[2]), Dot, Dec(n[3]), Dot, Dec(n[4])>>

Doubled(text) == {i \in 1 .. Len(text) - 1 : text[i].sep = ":" /\ text[i + 1].sep = ":"}
\* split("::"): the halves do not overlap.
Halves(text) ==
    IF Doubled(text) = {} THEN <<text>>
    ELSE LET i == Min(Doubled(text))
         IN  <<SubSeq(text, 1, i - 1), SubSeq(text, i + 2, Len(text))>>
Groups(half) == IF half = <<>> THEN <<>> ELSE Split(half, ":")
Zeros(n) == [i \in 1 .. n |-> <<Hex(0)>>]
\* Mutant: of nothing between two colons no group is left out.
FilledShort(head, tail) == head \o Zeros(7 - Len(head) - Len(tail)) \o tail
Filled(head, tail) == head \o Zeros(8 - Len(head) - Len(tail)) \o tail

Undotted(text, v4) == SubSeq(text, 1, LastColon(text)) \o <<Hex(256 * v4[1] + v4[2]), Colon, Hex(256 * v4[3] + v4[4])>>
Tail4(text) == IF Dotted(text) THEN _ipv4ToInt(SubSeq(text, LastColon(text) + 1, Len(text))) ELSE None
Parts(text) ==
    LET halves == Halves(text)
        groups == IF Len(halves) = 1 THEN Groups(text) ELSE Filled(Groups(halves[1]), Groups(halves[2]))
    IN  IF Len(halves) = 2 /\ Doubled(halves[2]) # {} THEN None
        ELSE IF Len(groups) = 8 /\ \A g \in ToSet(groups) : Len(g) = 1 /\ g[1].hex >= 0
        THEN [i \in 1 .. 8 |-> groups[i][1].hex] ELSE None
_parseIpv6Parts(text) ==
    IF ~ Dotted(text) THEN Parts(text)
    ELSE IF Tail4(text) = None THEN None ELSE Parts(Undotted(text, Tail4(text)))

Bytes(parts) == [i \in 1 .. 16 |-> IF i % 2 = 1 THEN parts[(i + 1) \div 2] \div 256 ELSE parts[i \div 2] % 256]
_ipv6ToBytes(text) == IF _parseIpv6Parts(text) = None THEN None ELSE Bytes(_parseIpv6Parts(text))

\* The first of the longest runs of zeros, [start, length].
Runs(parts) == {r \in (1 .. 8) \X (1 .. 8) : r[1] + r[2] <= 9 /\ \A i \in r[1] .. r[1] + r[2] - 1 : parts[i] = 0}
Longest(parts) == CHOOSE r \in Runs(parts) : \A o \in Runs(parts) : o[2] < r[2] \/ (o[2] = r[2] /\ r[1] <= o[1])
Joined(parts) == FlattenSeq([i \in DOMAIN parts |-> IF i = 1 THEN <<Hex(parts[i])>> ELSE <<Colon, Hex(parts[i])>>])
_formatIpv6(parts) ==
    IF \A r \in Runs(parts) : r[2] < 2 THEN Joined(parts)
    ELSE LET r == Longest(parts)
         IN  Joined(SubSeq(parts, 1, r[1] - 1)) \o <<Colon, Colon>> \o Joined(SubSeq(parts, r[1] + r[2], 8))

-----------------------------------------------------------------------------
(* Rules: [kind, type, start, end, mapped, label].                          *)

Leq(a, b) == \A i \in DOMAIN a : a[i] > b[i] => \E j \in 1 .. i - 1 : a[j] < b[j]
Read(text, type) == IF type = "ipv4" THEN _ipv4ToInt(text) ELSE _ipv6ToBytes(text)
Rule(add, start, end, label) == [kind |-> add.kind, type |-> add.type, start |-> start, end |-> end, label |-> label, mapped |-> None]

addAddress(rules, add) ==
    LET n == Read(add.text, add.type)
    IN  IF n = None THEN rules
        ELSE Append(rules, [Rule(add, n, n, add) EXCEPT !.mapped = IF add.type = "ipv6" THEN Tail4(add.text) ELSE None])

addRange(rules, add) ==
    LET s == Read(add.text, add.type)
        e == Read(add.end, add.type)
    IN  IF s = None \/ e = None THEN rules ELSE IF ~ Leq(s, e) THEN rules ELSE Append(rules, Rule(add, s, e, add))

\* How many bits of the i-th byte a prefix leaves free.
\* Mutant: the byte the prefix ends in is left free.
FreeWhole(prefix, i) == IF 8 * i <= prefix THEN 0 ELSE 8
Free(prefix, i) == IF 8 * i <= prefix THEN 0 ELSE IF 8 * (i - 1) >= prefix THEN 8 ELSE 8 * i - prefix

addSubnet(rules, add) ==
    LET n     == Read(add.text, add.type)
        start == [i \in DOMAIN n |-> n[i] - (n[i] % 2^Free(add.prefix, i))]
        end   == [i \in DOMAIN n |-> start[i] + 2^Free(add.prefix, i) - 1]
        text  == IF add.type = "ipv4" THEN _intToIpv4(start) ELSE _formatIpv6([p \in 1 .. 8 |-> 256 * start[2 * p - 1] + start[2 * p]])
    IN  IF n = None \/ add.prefix \notin 0 .. (IF add.type = "ipv4" THEN 32 ELSE 128) THEN rules
        ELSE Append(rules, Rule(add, start, end, [add EXCEPT !.text = text]))

Added(rules, add) ==
    CASE add.kind = "address" -> addAddress(rules, add)
      [] add.kind = "range"   -> addRange(rules, add)
      [] add.kind = "subnet"  -> addSubnet(rules, add)
BlockList(adds) == FoldLeft(Added, <<>>, adds)
\* toJSON: the rules' labels; fromJSON adds them.
toJSON(rules) == [i \in DOMAIN rules |-> rules[i].label]
fromJSON(labels) == FoldLeft(Added, <<>>, labels)

\* Mutant: an address of version 4 within one of version 6 is not looked for.
MappedNever(bytes) == None
Mapped(bytes) == IF bytes # None /\ (\A i \in 1 .. 10 : bytes[i] = 0) /\ bytes[11] = 255 /\ bytes[12] = 255 THEN SubSeq(bytes, 13, 16) ELSE None

check(rules, text, type) ==
    LET n  == Read(text, type)
        v4 == IF type = "ipv4" THEN n ELSE Mapped(n)
    IN  /\ n # None
        /\ \E i \in DOMAIN rules :
              LET r == rules[i]
              IN  \/ r.type = "ipv4" /\ v4 # None /\ Leq(r.start, v4) /\ Leq(v4, r.end)
                  \/ r.type = "ipv6" /\ type = "ipv6" /\ Leq(r.start, n) /\ Leq(n, r.end)
                  \/ type = "ipv4" /\ r.type = "ipv6" /\ r.kind = "address" /\ r.mapped = n

-----------------------------------------------------------------------------
AddressesNext ==
    \/ Computes("isIP", isIP(computed.q.x))
    \/ Computes("formatIp", _formatIpv6(computed.q.x))
    \/ Computes("blocklist", BlockList(computed.q.x))

Bits(bytes) == [k \in 1 .. 8 * Len(bytes) |-> (bytes[(k + 7) \div 8] \div 2^((8 * Len(bytes) - k) % 8)) % 2]
Covered(add, n) ==
    LET s == Read(add.text, add.type)
    IN  CASE add.kind = "address" -> n = s
          [] add.kind = "range"   -> \A k \in DOMAIN Bits(n) :
                /\ (Bits(n)[k] < Bits(s)[k]) => \E j \in 1 .. k - 1 : Bits(n)[j] > Bits(s)[j]
                /\ (Bits(n)[k] > Bits(Read(add.end, add.type))[k]) => \E j \in 1 .. k - 1 : Bits(n)[j] < Bits(Read(add.end, add.type))[j]
          [] add.kind = "subnet"  -> SubSeq(Bits(n), 1, add.prefix) = SubSeq(Bits(s), 1, add.prefix)

\* An address is blocked just when one of the rules covers it, bit for bit, an
\* address of version 4 being one of version 6 too; and so it is by the list
\* written out and read back.
AddressesBlocked(checks) ==
    Asked("blocklist") => \A c \in checks :
        LET n    == Read(c.text, c.type)
            four == IF c.type = "ipv4" THEN n ELSE Mapped(n)
            list == computed.out
        IN  /\ check(list, c.text, c.type) = check(fromJSON(toJSON(list)), c.text, c.type)
            /\ n # None => (check(list, c.text, c.type) <=>
                  \E a \in ToSet(computed.q.x) :
                      /\ Added(<<>>, a) # <<>>
                      /\ IF a.type = c.type THEN Covered(a, n)
                         ELSE IF a.type = "ipv4" THEN four # None /\ Covered(a, four)
                         ELSE a.kind = "address" /\ Dotted(a.text) /\ Mapped(Read(a.text, "ipv6")) = n)

\* What an address is written as is read as it; what is read of a text without
\* dots is an address to isIP too.
AddressesRead ==
    /\ Asked("formatIp") => _parseIpv6Parts(computed.out) = computed.q.x
    /\ Asked("isIP") => LET t == computed.q.x
                        IN  /\ computed.out = 4 => _ipv4ToInt(t) # None /\ _parseIpv6Parts(t) = None
                            /\ ~ Dotted(t) /\ _parseIpv6Parts(t) # None => computed.out = 6
=============================================================================
