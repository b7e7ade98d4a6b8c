---------------------------- MODULE MCBuiltins ----------------------------
(* builtins_stubs.js, binary_types.js and net.js, one part at a time: the    *)
(* others have nothing to do.                                              *)
EXTENDS Iterators, Combinators, Waiters, Disposables, Regex, SetMethods, TypedArrays, BinaryCodecs

VARIABLES sock, now, wq, ticks, kernel, calls, events, peer, server     \* Sockets
socketVars == <<sock, now, wq, ticks, kernel, calls, events, peer, server>>

Net == INSTANCE Sockets WITH Sizes <- <<2, 1>>, HighWaterMark <- 2, Chunks <- 1, SocketFaults <- {}, Peers <- 2

Task(kinds, faults) == [kind : kinds, faults : {faults}]
MCTasks ==
    Task({"map", "filter", "take", "drop", "toArray", "forEach", "find", "some", "every", "concat"},
         {"next", "callback", "return"})
    \cup Task(Modes, {"next", "return"}) \cup Task({"reduce", "keys"}, {"callback", "return"})
    \cup Task({"flatMap"}, {"callback", "flatten"}) \cup Task({"longest"}, {"return", "padding"})

Input(kinds, n, thenable, faults) ==
    [kind : kinds, size : {n}, thenable : {thenable}, faults : {faults}]
Kinds    == {"all", "allSettled", "any", "race", "allKeyed", "allSettledKeyed"}
MCInputs == UNION {Input(Kinds, n, {}, {}) : n \in 0 .. 3} \cup Input(Kinds, 3, {1, 2}, {})
            \cup Input(Kinds, 2, {1}, {"next", "resolve", "then"})

Strings == {<<>>, <<"c">>, <<"h">>, <<"h", "l">>, <<"c", "h", "l">>, <<"h", "l", "c">>, <<"c", "c", "c">>}
Tables(s, unicode) ==
    {t \in [0 .. Len(s) -> -1 .. 2] : \A i \in 0 .. Len(s) : t[i] # NoMatch =>
        /\ i + t[i] <= Len(s)
        /\ unicode => ~ MidPair(s, i) /\ ~ MidPair(s, i + t[i])}
RegexCall(kinds, s, globals, unicode, tables, limits, own) ==
    [kind : kinds, s : {s}, global : globals, unicode : {unicode}, table : tables,
     lastIndex : {1}, before : {1}, limit : limits, own : {own}]
MCCalls ==
    UNION {RegexCall({"match", "matchAll", "search", "replace"}, s, BOOLEAN, u, Tables(s, u), {-1}, FALSE)
           \cup RegexCall({"split"}, s, {FALSE}, u, Tables(s, u), {-1, 0, 2}, FALSE)
              : s \in Strings, u \in BOOLEAN}
    \cup RegexCall({"replace", "search"}, <<"c", "c">>, {TRUE}, FALSE, {<<>>}, {-1}, TRUE)
    \cup UNION {RegexCall({"template"}, s, {FALSE}, FALSE, {<<>>}, {-1}, FALSE)
              : s \in UNION {[1 .. n -> {"$", "&", "d0", "d1", "d2", "x"}] : n \in 0 .. 4}}

MCSetCalls ==
    [kind : {"union", "intersection", "difference", "symmetricDifference", "isSubsetOf", "isSupersetOf",
             "isDisjointFrom"},
     base : {<<>>, <<1>>, <<1, 2>>}, size : 0 .. 2,
     other : {<<1, 1, 2>>, <<3, 1, 3>>} \cup UNION {[1 .. n -> 1 .. 3] : n \in 0 .. 2}]

Bin(ops, args, bpes) ==
    [op : ops, args : args, size : {4}, max : {4, 6}, off : {0, 2}, len : {1, 2, Tracking}, bpe : bpes, immutable : {FALSE}]
MCBinaryCalls ==
    Bin({"subarray", "slice", "abSlice", "toImmutable"}, {-1, 0, 1} \X {-1, 1, 2, Infinite}, {1, 2})
    \cup Bin({"set"}, {0, 1} \X {"view", "array"}, {1, 2}) \cup Bin({"fill"}, {-1, 0, 1} \X {2, Infinite}, {1, 2})
    \cup Bin({"copyWithin"}, {0, 1, 2} \X {0, 1, -1} \X {2, Infinite}, {1, 2})
    \cup Bin({"search"}, {<<a, FALSE, l>> : a \in {-1, 0, 1}, l \in BOOLEAN}, {1, 2})
    \cup Bin({"at", "with"}, {<<a>> : a \in {-1, 0, 1}}, {1, 2})
    \cup Bin({"visit", "visitRight", "next", "sort", "toSorted", "reverse", "toReversed"}, {<<>>}, {1, 2})
    \cup Bin({"resize", "transfer"}, {<<a>> : a \in {0, 2, 5, 7, Infinite}}, {1})
    \cup Bin({"dvGet", "dvSet"}, {0, 1} \X {1, 2} \X BOOLEAN, {1})
    \cup Bin({"view", "dataView"}, {0, 1, 2, 4, 5} \X {1, 2, Infinite}, {1, 2})
    \cup [op : {"set", "fill", "copyWithin", "sort", "reverse", "resize", "transfer", "dvSet"}, args : {<<0, 1, 2>>},
          size : {2}, max : {2}, off : {0}, len : {2}, bpe : {1}, immutable : {TRUE}]

Texts(chars, n) == UNION {[1 .. k -> chars] : k \in 0 .. n}
Handlings == {"loose", "strict", "stop-before-partial"}
Halves    == ({1, 3, 5, 1023, 1024, 1025, 2046, 2047, 2048, 2049, 2050, 2051, 4095, 4097, 4099} \X {-27, -26, -25, -24, -14, -1, 4})
             \cup ((65503 .. 65522) \X {0}) \cup {<<131009, -1>>, <<131039, -1>>, <<131041, -1>>}

NoTask  == IteratorsInit(Task({"none"}, {}))
NoInput == comb = [input |-> [kind |-> "race", size |-> 0, thenable |-> {}, faults |-> {}], at |-> "over",
                   index |-> 0, remaining |-> 1, closed |-> 0, outcomes |-> <<>>, values |-> <<>>]
           /\ elems = <<>>
NoCall  == RegexInit(RegexCall({"none"}, <<>>, {FALSE}, FALSE, {<<>>}, {-1}, FALSE))

NoSet   == /\ setCall = [kind |-> "none", base |-> <<>>, size |-> 0, other |-> <<>>]
           /\ base = <<>> /\ gone = 0 /\ asked = {} /\ result = {} /\ verdict = NotDone
           /\ stage = "none" /\ changes = 0

NoBytes == TypedArraysIdle
NoQuery == ComputationsInit({NoQuestion})

StubsOff == NoTask /\ NoInput /\ WaitersIdle /\ DisposablesInit({}) /\ NoCall /\ NoSet

MCInit ==
    \/ /\ NoBytes /\ NoQuery /\ Net!SocketsIdle
       /\ \/ IteratorsInit(Tasks) /\ NoInput /\ WaitersIdle /\ DisposablesInit({}) /\ NoCall /\ NoSet
          \/ NoTask /\ CombinatorsInit(Inputs) /\ WaitersIdle /\ DisposablesInit({}) /\ NoCall /\ NoSet
          \/ NoTask /\ NoInput /\ WaitersInit /\ DisposablesInit({}) /\ NoCall /\ NoSet
          \/ NoTask /\ NoInput /\ WaitersIdle /\ DisposablesInit({1}) /\ NoCall /\ NoSet
          \/ NoTask /\ NoInput /\ WaitersIdle /\ DisposablesInit({}) /\ RegexInit(Calls) /\ NoSet
          \/ NoTask /\ NoInput /\ WaitersIdle /\ DisposablesInit({}) /\ NoCall /\ SetMethodsInit(SetCalls)
    \/ StubsOff /\ TypedArraysInit(BinaryCalls) /\ NoQuery /\ Net!SocketsIdle
    \/ StubsOff /\ NoBytes /\ NoQuery /\ Net!SocketsInit({"socket", "server"})
    \/ /\ StubsOff /\ NoBytes /\ Net!SocketsIdle
       /\ \/ ComputationsInit([fn : {"half"}, x : Halves])
          \/ ComputationsInit([fn : {"single"}, x : [exp : {0, 1, 127, 253, 254}, frac : {1, 2, 3, 4194304, 8388606}]])
          \/ ComputationsInit([fn : {"clamp"}, x : -2 .. 9 \cup 500 .. 513])
          \/ ComputationsInit([fn : {"encode64"}, x : Texts({0, 18, 255}, 4), pad : BOOLEAN])
          \/ ComputationsInit([fn : {"decode64"}, x : Texts({0, 17, PadChar, SpaceChar, BadChar}, 5), handling : Handlings])
          \/ ComputationsInit([fn : {"set64"}, x : Texts({0, 17, PadChar, SpaceChar}, 5), handling : Handlings, room : 0 .. 3])
          \/ ComputationsInit([fn : {"hex"}, x : Texts({0, 10, 15, BadChar}, 4)])

stubVars == <<iterVars, combVars, waiterVars, disposeVars, regexVars, setVars>>

MCNext ==
    \/ /\ UNCHANGED <<binaryVars, computedVars, socketVars>>
       /\ \/ IteratorsNext /\ UNCHANGED <<combVars, waiterVars, disposeVars, regexVars, setVars>>
          \/ CombinatorsNext /\ UNCHANGED <<iterVars, waiterVars, disposeVars, regexVars, setVars>>
          \/ WaitersNext /\ UNCHANGED <<iterVars, combVars, disposeVars, regexVars, setVars>>
          \/ DisposablesNext /\ UNCHANGED <<iterVars, combVars, waiterVars, regexVars, setVars>>
          \/ RegexNext /\ UNCHANGED <<iterVars, combVars, waiterVars, disposeVars, setVars>>
          \/ SetMethodsNext /\ UNCHANGED <<iterVars, combVars, waiterVars, disposeVars, regexVars>>
    \/ TypedArraysNext /\ UNCHANGED <<stubVars, computedVars, socketVars>>
    \/ CodecsNext /\ UNCHANGED <<stubVars, binaryVars, socketVars>>
    \/ Net!SocketsNext /\ UNCHANGED <<stubVars, binaryVars, computedVars>>

MCSpec ==
    /\ MCInit /\ [][MCNext]_<<stubVars, binaryVars, computedVars, socketVars>>
    /\ CombinatorsFair /\ WaitersFair /\ DisposablesFair /\ Net!SocketsFair

-----------------------------------------------------------------------------
\* An iterator is closed when the method that uses it stops before its end,
\* exactly once and never after it has ended or thrown.
IteratorsClose == ClosedOnce /\ NothingLeft

\* The program is called back, and its answers are used, once each and in the
\* promised order: by the combinators, by notify and the timers of waitAsync,
\* by the disposable stacks; and the set methods ask about all there is.
CallbacksKept ==
    /\ RightResult /\ IteratorClosed
    /\ Listed /\ NeverEarly /\ InOrder
    /\ OneStack /\ ReverseOrder
    /\ SetAlgebra /\ AskedAboutAll

\* The RegExp methods find all matches, keep what is between them, cut the
\* string apart and put lastIndex back; numbers and text come out of a
\* conversion as they went in, rounded to the nearest.
AnswersRight ==
    /\ FloatsRight /\ TextRight
    /\ MatchesAll /\ KeepsTheRest /\ CutsApart /\ DollarEscapes /\ LastIndexKept

\* No method of a view touches memory outside of its buffer, or bytes outside
\* of the view, whatever the program does to the buffer while it runs.
BuffersSafe == MemoryKept /\ OutsideUntouched /\ ViewsFit

\* What a method of a view finds, copies or sorts is what is there.
ViewsRight == LikeArray /\ FoundIsThere

\* A socket's writes are called back in order and once, what is due at its end
\* comes once and last, and a server counts what it has accepted.
SocketsKept == Net!WritesKept /\ Net!EventsInOrder /\ Net!OneRead /\ Net!HandleClosed /\ Net!ServerCounts

\* What a promise or a callback of the library waits for comes: combinators,
\* waits, disposals, the writes and the end of a socket.
LibraryPending == CombinatorPending \/ WaitPending \/ DisposalPending \/ Net!SocketPending
LibrarySettles == LibraryPending ~> ~ LibraryPending
=============================================================================
