----------------------------- MODULE MCPlatform -----------------------------
(***************************************************************************)
(* Modules of the engine's Node API, one at a time: the others are idle.     *)
(***************************************************************************)
EXTENDS Integers, MCStreams, Computations

VARIABLE  part                                                           \* the part at work
VARIABLE  decoder                                                        \* StringDecoder
VARIABLES url, params, answer                                            \* Urls
VARIABLES arrays, table, frames, history                                 \* Emitters
VARIABLES listeners, signal, dispatches, seen                            \* EventTargets
VARIABLES trace, subscribers                                             \* Channels
VARIABLES current, stores, enabled, scopes, resources, hooked            \* AsyncContext
VARIABLE  pt                                                             \* Ports

urlVars     == <<url, params, answer>>
emitterVars == <<arrays, table, frames, history>>
targetVars  == <<listeners, signal, dispatches, seen>>
channelVars == <<trace, subscribers>>
contextVars == <<current, stores, enabled, scopes, resources, hooked>>

Seqs(chars, n) == UNION {[1 .. k -> chars] : k \in 0 .. n}

-----------------------------------------------------------------------------
(* Text and names.                                                         *)

B == INSTANCE Buffers
D == INSTANCE StringDecoder
N == INSTANCE Names WITH Cwd <- <<"/", "w">>

Units == {65, 233, 8364, 55357, 56832}
Paired(s) == \A i \in 1 .. Len(s) : /\ B!High(s[i]) => i < Len(s) /\ B!Low(s[i + 1])
                                    /\ B!Low(s[i]) => i > 1 /\ B!High(s[i - 1])
Small == Seqs({1, 2}, 3)
Ends  == {-2, -1, 0, 1, 2, 3, B!None}
BufferQuestions ==
    \/ ComputationsInit([fn : {"encode"}, x : {s \in Seqs(Units, 4) : Paired(s)}])
    \/ ComputationsInit([fn : {"decode"}, x : Seqs({65, 195, 226, 240, 159}, 4)])
    \/ ComputationsInit([fn : {"recode"}, x : Seqs({0, 18, 255}, 4), enc : {"latin1", "hex", "base64"}])
    \/ ComputationsInit([fn : {"subarray"}, x : {<<1, 2, 3>>}, from : Ends, to : Ends])
    \/ ComputationsInit([fn : {"write"}, x : {<<0, 0, 0>>}, y : Small, from : {B!None, 0, 1, 2, 3}, to : {0, 1, 2, B!None}])
    \/ ComputationsInit([fn : {"copy"}, x : Small, y : {<<7, 8, 9>>}, at : 0 .. 2, from : 0 .. 2, to : 0 .. 4])
    \/ ComputationsInit([fn : {"fill"}, x : {<<7, 8, 9, 10>>}, y : Small, from : 0 .. 4, to : {0, 1, 2, 3, B!None}])
    \/ ComputationsInit([fn : {"fill"}, x : {<<>>}, y : Small, from : {0}, to : 0 .. 4])
    \/ ComputationsInit([fn : {"indexOf", "lastIndexOf"}, x : Seqs({1, 2}, 4), y : Small, from : Ends])
    \/ ComputationsInit([fn : {"compare"}, x : Small, y : Small, at : {B!None, 1}, from : {B!None, 0}])
    \/ ComputationsInit([fn : {"concat"}, x : Seqs({<<>>, <<1>>, <<2, 3>>}, 3), to : {B!None, 0, 1, 3, 5}])
    \/ ComputationsInit([fn : {"number"}, x : {<<9, 9, 9, 9, 9>>}, w : {1, 2, 4}, little : BOOLEAN, at : {B!None, -1, 0, 1, 2, 4}, v : -2 .. 3])
    \/ ComputationsInit([fn : {"number"}, x : {<<9, 9, 9, 9, 9>>}, w : {4}, little : BOOLEAN, at : {0, 1, 2}, v : {-128, 127, 254, 255, 100}])

PathChars == {"/", ".", "a"}
Keys == {<<>>, <<"a">>, <<"&">>, <<"+", "=">>, <<"%">>}
NameQuestions ==
    \/ ComputationsInit([fn : {"normalize", "parse"}, x : Seqs(PathChars, 5)])
    \/ ComputationsInit([fn : {"resolve", "relative"}, x : Seqs(PathChars, 3), y : Seqs(PathChars, 3)])
    \/ ComputationsInit([fn : {"stringify"},
            x : {o \in Seqs([key : Keys, values : {<<k>> : k \in Keys} \cup {<<<<"a">>, <<" ">>>>}], 2) : Len(o) = 2 => o[1].key # o[2].key}])
    \/ ComputationsInit([fn : {"parseQuery"}, x : Seqs({"a", "&", "=", "+", "%"}, 4), max : 0 .. 2])
    \/ ComputationsInit([fn : {"toASCII"}, x : {s \in Seqs({97, 45, 252, 8364, 55357, 56832}, 4) : Paired(s)}])
    \/ ComputationsInit([fn : {"punycode"}, x : Seqs({97, 45, 48, 122, 107}, 4)])
    \/ ComputationsInit([fn : {"encodeInto"}, x : {s \in Seqs(Units, 3) : Paired(s)}, room : 0 .. 6])
    \/ ComputationsInit([fn : {"decodeText"}, x : Seqs({65, 192, 195, 226, 240, 159, 169}, 4), fatal : BOOLEAN])

\* UTF-8 that may end in the middle of a character, and any bytes of the rest.
CutText(b) == \E k \in 0 .. Len(b) :
    /\ B!isUtf8(SubSeq(b, 1, k))
    /\ k = Len(b) \/ (Len(b) - k < B!LeadLength(b[k + 1]) /\ \A j \in k + 2 .. Len(b) : b[j] \div 64 = 2)
Decoded == [enc : {"utf8"}, bytes : {b \in Seqs({65, 195, 226, 240, 159}, 5) : CutText(b)}]
           \cup [enc : {"utf16le", "base64", "hex"}, bytes : Seqs({3, 216}, 5)]

-----------------------------------------------------------------------------
(* Addresses.                                                              *)

J == INSTANCE Addresses
X == INSTANCE HttpText WITH Singletons <- {<<"h">>, <<"L">>}

Fields == [f \in {"0", "1", "255", "256", "1e2", "ffff", "12345", "g", ":", "."} |->
    CASE f = "0" -> J!Field(0, 0, TRUE, TRUE) [] f = "1" -> J!Field(1, 1, TRUE, TRUE) [] f = "255" -> J!Field(597, 255, TRUE, TRUE)
      [] f = "256" -> J!Field(598, 256, TRUE, TRUE) [] f = "1e2" -> J!Field(482, 100, FALSE, TRUE) [] f = "ffff" -> J!Field(65535, -1, FALSE, TRUE)
      [] f = "12345" -> J!Field(-1, 12345, TRUE, TRUE) [] f = "g" -> J!Field(-1, -1, FALSE, FALSE) [] f = ":" -> J!Colon [] f = "." -> J!Dot]
Ip(ss) == {[i \in DOMAIN s |-> Fields[s[i]]] : s \in ss}
IPv4s == Ip({<<"1", ".", "0", ".", "1", ".", "0">>, <<"1", ".", "0", ".", "1", ".", "1e2">>, <<"1", ".", "255", ".", "1", ".", "0">>, <<"1", ".", "256", ".", "1", ".", "0">>})
InIPv6 == Ip({<<":", ":", "ffff", ":", "1", ".", "0", ".", "1", ".", "0">>})
IPv6s == InIPv6 \cup Ip({<<":", ":">>, <<"1", ":", "0", ":", ":", "ffff">>, <<":", ":", "ffff", ":", "256", ":", "256">>, <<"1", ":", ":", "1", ":", ":">>,
                         <<"1", ":", "255", ":", "0", ":", "0", ":", "0", ":", "0", ":", "0", ":", "1">>})
IpTexts == IPv4s \cup IPv6s \cup Ip({<<":", ":", "12345">>, <<":", ":", "ffff", ":", "1", ".", "256", ".", "0", ".", "0">>})
           \cup Ip({s \in Seqs({":", ".", "1", "g"}, 6) : \A i \in 1 .. Len(s) - 1 : {s[i], s[i + 1]} \cap {":", "."} # {}})
Rules(texts, type, prefixes) ==
    [kind : {"address"}, type : {type}, text : texts] \cup [kind : {"range"}, type : {type}, text : texts, end : texts]
    \cup [kind : {"subnet"}, type : {type}, text : texts, prefix : prefixes]
Lists == {<<r>> : r \in Rules(IPv4s, "ipv4", {0, 12, 32, 33}) \cup Rules(IPv6s, "ipv6", {0, 17, 96, 127, 129})}
         \cup {<<r, q>> : r \in Rules(IPv4s, "ipv4", {12}), q \in Rules(InIPv6, "ipv6", {104})}
Checked == [type : {"ipv4"}, text : IPv4s] \cup [type : {"ipv6"}, text : IPv6s]

Sizes == {<<-1, 65535>>, <<0, 16383>>, <<0, 65535>>, <<256, 0>>, <<32768, 7>>, <<65536, 0>>, X!NotFinite}
Given == [{"initialWindowSize", "maxFrameSize"} -> Sizes] \cup [{"maxHeaderSize", "maxHeaderListSize"} -> Sizes]
         \cup [{"maxHeaderSize", "enablePush"} -> {<<0, 0>>, <<0, 1>>}] \cup [{"maxConcurrentStreams"} -> Sizes \cup {X!Infinite}]
Custom == Seqs([id : {4, 7, 300, 65536}, value : {<<1, 2>>}], 2)
AddressQuestions ==
    \/ ComputationsInit([fn : {"isIP"}, x : IpTexts])
    \/ ComputationsInit([fn : {"formatIp"}, x : [1 .. 8 -> {0, 65535}]])
    \/ ComputationsInit([fn : {"blocklist"}, x : Lists])
    \/ ComputationsInit([fn : {"settings"}, x : Given, custom : {c \in Custom : Len(c) = 2 => c[1].id # c[2].id}])

-----------------------------------------------------------------------------
(* HTTP.                                                                   *)

Line   == <<"CR", "LF">>
Heads  == {<<>>, <<"L", ":", " ", "2">> \o Line, <<"x", ":">> \o Line \o <<"L", ":", "1">> \o Line \o <<"L", ":", "0">> \o Line, <<"CR">>, <<"LF", ":">>}
Text(head, body) == <<"G", " ", "u", " ", "1">> \o Line \o head \o Line \o FlattenSeq(body)
Texts == {Text(h, b) : h \in Heads, b \in Seqs({<<"1">>, <<"0">>, Line}, 2)}
         \cup {Text(<<"T", ":", "K">> \o Line, b) : b \in Seqs({<<"1">> \o Line, <<"0">> \o Line, Line, <<"1">>}, 5)}
         \cup {FlattenSeq(s) : s \in Seqs({<<"G">>, <<" ">>, <<"CR">>, Line, <<":">>}, 4)}
Changes == [op : {"set", "append"}, name : {<<"x">>, <<"X">>, <<"h">>, <<"x", ":">>}, value : {<<"a">>, <<" ", "1">>, <<"LF">>, <<"a", "CR">>}]
           \cup [op : {"remove"}, name : {<<"X">>}, value : {<<>>}]
Hosts   == {<<"a">>, <<"b", "a">>, <<"b", ".", "a">>, <<"a", "b", ".", "a">>, <<"b", ".", "b", ".", "a">>, <<"a", ".", "b">>}
Entries == {<<"a">>, <<"b", "a">>, <<"b", ".", "a">>, <<".", "a">>, <<"*", ".", "b", ".", "a">>, <<"*", ".", "a">>, <<"*">>, <<>>}
HttpQuestions ==
    \/ ComputationsInit([fn : {"message"}, x : Texts])
    \/ ComputationsInit([fn : {"headers"}, x : Seqs(Changes, 2)])
    \/ ComputationsInit([fn : {"redirect"}, x : {<<"/">> \o s : s \in Seqs({"a", "/"}, 3)}, y : Seqs({"a", "/", "?"}, 3) \ {<<>>}])
    \/ ComputationsInit([fn : {"bypass"}, x : Hosts, y : Seqs(Entries, 2) \ {<<>>}])

-----------------------------------------------------------------------------
(* URLs.                                                                   *)

Full(protos, auths, hosts, ports, paths, queries, hashes) ==
    {FlattenSeq(<<p[1], IF p[2] THEN <<"/", "/">> \o a \o h \o o ELSE <<>>, t, q, f>>) :
        p \in protos, a \in auths, h \in hosts, o \in ports, t \in paths, q \in queries, f \in hashes}
Bare == {<<>>}
Inputs ==
    Full({<<<<"h", ":">>, TRUE>>}, {<<>>, <<"u", ":", "p", "@">>, <<":", "p", "@">>}, {<<"A">>, <<"[", ":", "]">>},
         {<<>>, <<":">>, <<":", "8">>, <<":", "9">>}, {<<>>, <<"/", "p">>}, {<<>>, <<"?">>, <<"?", "q", "&", "a", "=">>}, {<<>>, <<"#", "f">>})
    \cup Full({<<<<"m", ":">>, FALSE>>}, Bare, Bare, Bare, {<<"p">>, <<"/", "p">>}, {<<>>, <<"?", "q", "&", "a", "=">>}, {<<>>, <<"#", "f">>})
Hrefs == {<<"h", ":", "/", "/", "a">>, <<"m", ":", "p", "?", "q">>, <<"h", ":", "/", "/", "u", "@", "b", ":", "9", "/", "p", "?", "a", "=", "#", "f">>}
Bases ==
    Full({<<<<"h", ":">>, TRUE>>}, {<<>>, <<"u", "@">>}, {<<"a">>}, {<<":", "9">>}, {<<>>, <<"/">>, <<"/", "p", "/", "q">>}, {<<>>, <<"?", "q">>}, {<<>>, <<"#", "f">>})
    \cup Full({<<<<"h", ":">>, FALSE>>, <<<<"m", ":">>, FALSE>>, <<<<>>, FALSE>>}, Bare, Bare, Bare, {<<"p">>, <<"/", "p">>}, {<<>>, <<"?", "q">>}, Bare)
Refs == Seqs({"/", ".", "a", "?", "#"}, 3)
        \cup {<<".", ".", "/", "a">>, <<".", ".", "?", "a">>, <<"a", "/", ".", ".">>, <<".", "/", "a", "?", "#">>,
              <<"m", "a", ":", "p">>, <<"h", ":", "/", "/", "b">>, <<"h", ":", "p">>}

U == INSTANCE Urls WITH Inputs <- Inputs, Hrefs <- Hrefs, MaxCalls <- 2, UrlFaults <- {}
\* A path before a query or a fragment: what follows has neither "/" nor ".".
Followed(r) == LET k == U!Cut(r)
               IN  k.path = <<>> \/ \A i \in 1 .. Len(k.search \o k.hash) : (k.search \o k.hash)[i] \notin {"/", "."}
UrlQuestions == [fn : {"resolve"}, base : {b \in Bases : U!Cut(b).slashes}, ref : {r \in Refs : Followed(r)}]
            \cup [fn : {"format"}, base : Bases, ref : {<<>>}]

-----------------------------------------------------------------------------
(* Calling back.                                                           *)

E == INSTANCE Emitters WITH MaxAdds <- 2, MaxEmits <- 2, EmitterFaults <- {}
G == INSTANCE EventTargets WITH TargetListeners <- {1, 2}, MaxTargetAdds <- 2, MaxDispatches <- 2, TargetFaults <- {}
C == INSTANCE Channels WITH MaxCallbacks <- 2
A == INSTANCE AsyncContext WITH MaxResources <- 2, MaxDepth <- 2, Stores <- {1, 2}, MaxCalls <- 1, ContextFaults <- {}
K == INSTANCE Ports WITH MaxPosts <- [p |-> 1, w |-> 2, cast |-> 2], MaxListeners <- [p |-> 2, w |-> 1], Casts <- {1, 2, 3}, PortFaults <- {}

-----------------------------------------------------------------------------
NothingComputed == ComputationsInit({NoQuestion})

\* Every part but one is idle, and stays so.
OthersIdle(but) ==
    /\ part = but
    /\ IF but = "computed" THEN TRUE ELSE NothingComputed
    /\ IF but = "decoder" THEN TRUE ELSE D!DecoderIdle
    /\ IF but = "url" THEN TRUE ELSE U!UrlsIdle
    /\ IF but = "emitter" THEN TRUE ELSE E!EmittersIdle
    /\ IF but = "target" THEN TRUE ELSE G!TargetsIdle
    /\ IF but = "channel" THEN TRUE ELSE C!ChannelsIdle
    /\ IF but = "context" THEN TRUE ELSE A!ContextIdle
    /\ IF but = "ports" THEN TRUE ELSE K!PortsIdle
    /\ IF but = "streams" THEN TRUE ELSE StreamsIdle

Still(but) ==
    /\ UNCHANGED part
    /\ IF but = "computed" THEN TRUE ELSE UNCHANGED computed
    /\ IF but = "decoder" THEN TRUE ELSE UNCHANGED decoder
    /\ IF but = "url" THEN TRUE ELSE UNCHANGED urlVars
    /\ IF but = "emitter" THEN TRUE ELSE UNCHANGED emitterVars
    /\ IF but = "target" THEN TRUE ELSE UNCHANGED targetVars
    /\ IF but = "channel" THEN TRUE ELSE UNCHANGED channelVars
    /\ IF but = "context" THEN TRUE ELSE UNCHANGED contextVars
    /\ IF but = "ports" THEN TRUE ELSE UNCHANGED pt
    /\ IF but = "streams" THEN TRUE ELSE UNCHANGED streamVars

MCInit ==
    \/ (BufferQuestions \/ NameQuestions \/ AddressQuestions \/ HttpQuestions) /\ OthersIdle("computed")
    \/ D!DecoderInit(Decoded) /\ OthersIdle("decoder")
    \/ (U!UrlsInit \/ U!UrlsAsked(UrlQuestions)) /\ OthersIdle("url")
    \/ E!EmittersInit /\ OthersIdle("emitter")
    \/ G!TargetsInit /\ OthersIdle("target")
    \/ C!ChannelsInit /\ OthersIdle("channel")
    \/ A!ContextInit /\ OthersIdle("context")
    \/ K!PortsInit /\ OthersIdle("ports")
    \/ StreamsInit /\ OthersIdle("streams")

MCNext ==
    \/ part = "computed" /\ (B!BuffersNext \/ B!TextCodecNext \/ N!PunycodeNext \/ N!PathsNext \/ N!QueryStringsNext \/ J!AddressesNext \/ X!SettingsNext \/ X!HttpTextNext) /\ Still("computed")
    \/ part = "decoder" /\ D!DecoderNext /\ Still("decoder")
    \/ part = "url" /\ U!UrlsNext /\ Still("url")
    \/ part = "emitter" /\ E!EmittersNext /\ Still("emitter")
    \/ part = "target" /\ G!TargetsNext /\ Still("target")
    \/ part = "channel" /\ C!ChannelsNext /\ Still("channel")
    \/ part = "context" /\ A!ContextNext /\ Still("context")
    \/ part = "ports" /\ K!PortsNext /\ Still("ports")
    \/ part = "streams" /\ StreamsNext /\ Still("streams")

vars == <<part, computed, decoder, urlVars, emitterVars, targetVars, channelVars, contextVars, pt, streamVars>>
MCSpec == MCInit /\ [][MCNext]_vars /\ StreamsFair

\* Text and bytes are turned into one another and moved about.
TextRight ==
    /\ part = "computed" => B!TextKept /\ B!BytesMoved /\ B!BytesFound /\ B!DecoderRight /\ X!SettingsKept /\ X!MessagesCut /\ X!HeadersKept
    /\ part = "decoder"  => D!SameAsWhole /\ D!KeepsLess
\* Names lead where they led before they were rewritten.
NamesRight ==
    /\ part = "computed" => N!SamePlace /\ N!QueryKept /\ N!LabelsKept /\ X!RoutesRight /\ J!AddressesBlocked(Checked) /\ J!AddressesRead
    /\ part = "url"      => U!UrlInStep /\ U!RefsLead
\* Listeners, subscribers and hooks are called when they are due, and as often.
CalledBack ==
    /\ part = "emitter" => E!ListenersKept /\ E!OnceLeaves
    /\ part = "target"  => G!TargetKept
    /\ part = "channel" => C!TracesWhole
    /\ part = "context" => A!ContextKept /\ A!HookTold
    /\ part = "ports" => K!MessagesHeard /\ K!WorkersExit /\ K!CastsHeard
=============================================================================
