-------------------------------- MODULE Urls --------------------------------
(***************************************************************************)
(* url.js: a URL, its parts and its searchParams under a sequence of calls;  *)
(* references against a base; and the older parse, format and resolve.       *)
(*                                                                         *)
(* A string is a sequence of characters.  "h" and "m" stand for protocols    *)
(* with slashes and without, "8" for the default port of "h", "A" is "a" in   *)
(* upper case; an escaped character is one of its own, "%" and the character. *)
(***************************************************************************)
EXTENDS Integers, Sequences, TLC, SequencesExt

CONSTANTS Inputs,       \* what URLs are made of
          Hrefs,        \* and what href is set to
          MaxCalls,     \* on a URL
          UrlFaults     \* "href": href is set to what lacks a part the URL has;
                        \* "old": a searchParams that search has replaced is used

VARIABLES url,          \* the fields of the URL, and the calls made
          params,       \* the lists of its searchParams, the current one last
          answer        \* of a function that keeps no state

urlVars == <<url, params, answer>>

None == <<"none">>
SlashProtocol(p) == p = <<"h", ":">>
DefaultPort(p)   == IF p = <<"h", ":">> THEN <<"8">> ELSE None
Lower(s) == [i \in DOMAIN s |-> IF s[i] = "A" THEN "a" ELSE s[i]]
Indices(s, c) == {i \in 1 .. Len(s) : s[i] = c}
IndexOf(s, c) == LET x == Indices(s, c) IN IF x = {} THEN 0 ELSE CHOOSE i \in x : \A j \in x : i <= j
LastIndexOf(s, c) == LET x == Indices(s, c) IN IF x = {} THEN 0 ELSE CHOOSE i \in x : \A j \in x : j <= i
Upto(s, i) == SubSeq(s, 1, i)
From(s, i) == SubSeq(s, i, Len(s))
StartsWith(s, c) == s # <<>> /\ s[1] = c
Split(s, c) ==
    LET cuts == <<0>> \o SelectSeq([i \in 1 .. Len(s) |-> i], LAMBDA i : s[i] = c) \o <<Len(s) + 1>>
    IN  [k \in 1 .. Len(cuts) - 1 |-> SubSeq(s, cuts[k] + 1, cuts[k + 1] - 1)]
Joined(parts, c) == FoldLeft(LAMBDA r, p : IF r = None THEN p ELSE r \o <<c>> \o p, None, parts)

-----------------------------------------------------------------------------
(* URLSearchParams.                                                        *)

Plain == {"a", "b", "f", "h", "m", "p", "q", "u", "v", "8", "9"}
Special == {"&", "=", "+", "%", "#", "?", "/", ":", "@"}

\* Mutant: "&" is left as it is.
SpCharBare(c) == IF c \in Plain \cup {"&"} THEN c ELSE IF c = " " THEN "+" ELSE "%" \o c
SpChar(c) == IF c \in Plain THEN c ELSE IF c = " " THEN "+" ELSE "%" \o c

_sp_encode(s) == [i \in DOMAIN s |-> SpChar(s[i])]
_sp_decode(s) ==
    IF \E i \in DOMAIN s : s[i] = "%" THEN s
    ELSE [i \in DOMAIN s |-> IF s[i] = "+" THEN " "
                             ELSE IF \E c \in Special : s[i] = "%" \o c THEN CHOOSE c \in Special : s[i] = "%" \o c ELSE s[i]]

_parseString(s) ==
    LET pairs == SelectSeq(Split(IF StartsWith(s, "?") THEN Tail(s) ELSE s, "&"), LAMBDA p : p # <<>>)
        pair(p) == LET e == IndexOf(p, "=")
                   IN  IF e = 0 THEN <<_sp_decode(p), <<>>>> ELSE <<_sp_decode(Upto(p, e - 1)), _sp_decode(From(p, e + 1))>>
    IN  [i \in DOMAIN pairs |-> pair(pairs[i])]

ParamsToString(list) ==
    LET s == Joined([i \in DOMAIN list |-> _sp_encode(list[i][1]) \o <<"=">> \o _sp_encode(list[i][2])], "&")
    IN  IF s = None THEN <<>> ELSE s

Without(list, name, value) == SelectSeq(list, LAMBDA e : e[1] # name \/ (value # None /\ e[2] # value))

\* set: the first of that name takes the value, the others go.
WithValue(list, name, value) ==
    LET at == {i \in DOMAIN list : list[i][1] = name}
        first == CHOOSE i \in at : \A j \in at : i <= j
        kept == SelectSeq([i \in DOMAIN list |-> i], LAMBDA i : i \notin at \/ i = first)
    IN  IF at = {} THEN Append(list, <<name, value>>)
        ELSE [k \in DOMAIN kept |-> IF kept[k] = first THEN <<name, value>> ELSE list[kept[k]]]

\* By exchanges, names compared by their first character.
Rank(name) == IF name = <<>> THEN 0 ELSE IF name[1] = "a" THEN 1 ELSE IF name[1] = "q" THEN 2 ELSE 3
SortedParams(list) ==
    LET n == Len(list)
        swap(l, i, j) == [l EXCEPT ![i] = l[j], ![j] = l[i]]
        steps == SelectSeq([k \in 1 .. n * n |-> <<((k - 1) \div n) + 1, ((k - 1) % n) + 1>>], LAMBDA s : s[1] < s[2])
    IN  FoldLeft(LAMBDA l, s : IF Rank(l[s[2]][1]) < Rank(l[s[1]][1]) THEN swap(l, s[1], s[2]) ELSE l, list, steps)

-----------------------------------------------------------------------------
(* _parse and _serialize.                                                  *)

IsProtocol(s) == Len(s) > 1 /\ s[1] \in {"h", "m", "a", "A"}      \* _isValidProtocol: it starts with a letter

\* What comes before place i of x, and the rest; nothing is cut off at 0.
CutAt(x, i) == [before |-> IF i = 0 THEN x ELSE Upto(x, i - 1), rest |-> IF i = 0 THEN <<>> ELSE From(x, i)]

\* Fragment, query, protocol, authority and path, cut off one after the other.
CutPath(hash, search, protocol, auth, x) ==
    LET p == CutAt(x, IndexOf(x, "/"))
    IN  [hash |-> hash, search |-> search, protocol |-> protocol, slashes |-> auth,
         authority |-> IF auth THEN p.before ELSE <<>>, path |-> IF auth THEN p.rest ELSE x]
CutAuthority(hash, search, protocol, x) ==
    LET auth == Len(x) >= 2 /\ x[1] = "/" /\ x[2] = "/"
    IN  CutPath(hash, search, protocol, auth, IF auth THEN From(x, 3) ELSE x)
CutProtocol(hash, search, x, c) ==
    LET prot == c > 1 /\ IsProtocol(Upto(x, c))
    IN  CutAuthority(hash, search, IF prot THEN Lower(Upto(x, c)) ELSE <<>>, IF prot THEN From(x, c + 1) ELSE x)
CutQuery(hash, q) == CutProtocol(hash, q.rest, q.before, IndexOf(q.before, ":"))
CutHash(f) == CutQuery(f.rest, CutAt(f.before, IndexOf(f.before, "?")))
Cut(x) == CutHash(CutAt(x, IndexOf(x, "#")))

\* [hostname, port] of an authority without its user: b is the place of "]", c of the last ":".
HostPortAt(a, b, c) ==
    IF StartsWith(a, "[")
    THEN IF b = 0 THEN [hostname |-> a, port |-> <<>>]
         ELSE [hostname |-> Upto(a, b), port |-> IF StartsWith(From(a, b + 1), ":") THEN From(a, b + 2) ELSE <<>>]
    ELSE IF c = 0 THEN [hostname |-> Lower(a), port |-> <<>>]
         ELSE [hostname |-> Lower(Upto(a, c - 1)), port |-> From(a, c + 1)]
HostPort(a) == HostPortAt(a, IndexOf(a, "]"), LastIndexOf(a, ":"))

User(who, c) == [username |-> IF c = 0 THEN who ELSE Upto(who, c - 1), password |-> IF c = 0 THEN <<>> ELSE From(who, c + 1)]

\* k = Cut(x), its authority cut at "@".
ParsedParts(k, user, hp) ==
    [ok |-> k.protocol # <<>>, protocol |-> k.protocol, search |-> k.search, hash |-> k.hash,
     username |-> user.username, password |-> user.password,
     hostname |-> hp.hostname, port |-> IF hp.port = DefaultPort(k.protocol) THEN <<>> ELSE hp.port,
     pathname |-> IF k.path = <<>> /\ SlashProtocol(k.protocol) THEN <<"/">> ELSE k.path]
ParsedAuthority(k, at) ==
    LET who == Upto(k.authority, at - 1)
    IN  ParsedParts(k, User(who, IndexOf(who, ":")), HostPort(From(k.authority, at + 1)))
ParsedCut(k) == ParsedAuthority(k, LastIndexOf(k.authority, "@"))
Parsed(x) == ParsedCut(Cut(x))

\* Mutant: a password without a user name is left out.
CredentialsNamed(u) == IF u.username = <<>> THEN <<>>
                       ELSE u.username \o (IF u.password # <<>> THEN <<":">> \o u.password ELSE <<>>) \o <<"@">>
Credentials(u) == IF u.username = <<>> /\ u.password = <<>> THEN <<>>
                  ELSE u.username \o (IF u.password # <<>> THEN <<":">> \o u.password ELSE <<>>) \o <<"@">>

host(u) == u.hostname \o (IF u.port # <<>> THEN <<":">> \o u.port ELSE <<>>)

_serialize(u) ==
    u.protocol \o (IF SlashProtocol(u.protocol) THEN <<"/", "/">> \o Credentials(u) \o host(u) ELSE <<>>)
    \o u.pathname \o u.search \o u.hash

-----------------------------------------------------------------------------
(* The calls on a URL.                                                     *)

Called(u) == url.calls < MaxCalls /\ url' = [u EXCEPT !.calls = @ + 1] /\ UNCHANGED answer

With(u, p) == [u EXCEPT !.hash = p.hash, !.search = p.search, !.protocol = p.protocol, !.username = p.username,
                        !.password = p.password, !.hostname = p.hostname, !.port = p.port, !.pathname = p.pathname]

\* href: parts the new one lacks stay as they were.
SetHref == url.ok /\ \E p \in {Parsed(x) : x \in Hrefs} :
    LET kept(new, old) == IF new = <<>> THEN old ELSE new
        u    == With(url, [p EXCEPT !.hash = kept(p.hash, url.hash), !.search = kept(p.search, url.search),
                                    !.username = kept(p.username, url.username), !.password = kept(p.password, url.password)])
    IN  /\ p.ok /\ ("href" \in UrlFaults \/ u = With(url, p))
        /\ Called(u) /\ params' = Append(params, _parseString(u.search))

\* search: a new searchParams is made of it.
SetSearch == url.ok /\ \E x \in {<<>>, <<"?">>, <<"a", "=", "v">>, <<"?", "q">>} :
    LET s == IF x # <<>> /\ x[1] # "?" THEN <<"?">> \o x ELSE IF x = <<"?">> THEN <<>> ELSE x
    IN  Called([url EXCEPT !.search = s]) /\ params' = Append(params, _parseString(s))

SetHash == url.ok /\ \E x \in {<<>>, <<"#">>, <<"f">>} :
    Called([url EXCEPT !.hash = IF x # <<>> /\ x[1] # "#" THEN <<"#">> \o x ELSE IF x = <<"#">> THEN <<>> ELSE x])
    /\ UNCHANGED params

\* port: what is no number is ignored, the default port left out.
SetPort == url.ok /\ \E x \in {<<>>, <<"8">>, <<"9">>, <<"p">>} :
    Called([url EXCEPT !.port = IF x = <<"p">> THEN @ ELSE IF x = DefaultPort(url.protocol) THEN <<>> ELSE x])
    /\ SlashProtocol(url.protocol) /\ UNCHANGED params

SetHost == url.ok /\ \E x \in {<<"b">>, <<"A", ":", "9">>} :
    Called([url EXCEPT !.hostname = HostPort(x).hostname, !.port = HostPort(x).port])
    /\ SlashProtocol(url.protocol) /\ UNCHANGED params

SetUser == url.ok /\ \E x \in {<<>>, <<"u">>} :
    (Called([url EXCEPT !.username = x]) \/ Called([url EXCEPT !.password = x]))
    /\ SlashProtocol(url.protocol) /\ UNCHANGED params

\* append, delete, set and sort, and _updateUrl: the URL's search is written anew.
ChangeParams == url.ok /\ \E k \in DOMAIN params, name \in {<<"a">>, <<"&">>}, value \in {<<"v">>, <<" ", "%">>} :
    \E list \in {Append(params[k], <<name, value>>), Without(params[k], name, None), Without(params[k], name, value),
                 WithValue(params[k], name, value), SortedParams(params[k])} :
        LET s == ParamsToString(list)
        IN  /\ k = Len(params) \/ "old" \in UrlFaults
            /\ Called([url EXCEPT !.search = IF s = <<>> THEN <<>> ELSE <<"?">> \o s])
            /\ params' = [params EXCEPT ![k] = list]

-----------------------------------------------------------------------------
(* References.                                                             *)

\* _legacyParse: nothing is left out or in lower case but protocol and host; auth is one part.
LegacyParts(k, at, hp) ==
    [protocol |-> k.protocol, slashes |-> k.slashes, auth |-> Upto(k.authority, at - 1),
     host |-> host(hp), hash |-> k.hash, search |-> k.search,
     pathname |-> IF k.path = <<>> /\ k.slashes THEN <<"/">> ELSE k.path]
LegacyCut(k, at) == LegacyParts(k, at, HostPort(From(k.authority, at + 1)))
_legacyParse(x) == LegacyCut(Cut(x), LastIndexOf(Cut(x).authority, "@"))

_legacyFormat(r) ==
    r.protocol \o (IF r.slashes \/ SlashProtocol(r.protocol) THEN <<"/", "/">> ELSE <<>>)
    \o (IF r.auth # <<>> THEN r.auth \o <<"@">> ELSE <<>>) \o r.host \o r.pathname \o r.search \o r.hash

_normalizePath(path) ==
    LET out == FoldLeft(LAMBDA o, s : IF s = <<".">> THEN o
                                      ELSE IF s = <<".", ".">> THEN (IF Len(o) > 1 THEN Front(o) ELSE o) ELSE Append(o, s),
                        <<>>, Split(path, "/"))
        s == Joined(out, "/")
    IN  IF StartsWith(s, "/") THEN s ELSE <<"/">> \o (IF s = None THEN <<>> ELSE s)

\* b is the base, href what it is written as, c the place of ":" in the reference.
ResolveUrl(base, b, href, ref, c) ==
    LET origin == b.protocol \o <<"/", "/">> \o b.host
        path   == IF b.pathname = <<>> THEN <<"/">> ELSE b.pathname
        upto(i) == IF i > 0 THEN Upto(href, i - 1) ELSE href
    IN  IF c > 1 /\ IsProtocol(Upto(ref, c)) /\ (c # 2 \/ (Len(ref) > c + 1 /\ ref[c + 1] = "/" /\ ref[c + 2] = "/")) THEN ref
        ELSE IF ref = <<>> THEN base
        ELSE IF Len(ref) > 1 /\ ref[1] = "/" /\ ref[2] = "/" THEN b.protocol \o ref
        ELSE IF ref[1] = "/" THEN origin \o ref
        ELSE IF ref[1] = "?" /\ "?" \in ToSet(href) THEN upto(IndexOf(href, "?")) \o ref
        ELSE IF ref[1] \in {"?", "#"} THEN upto(IndexOf(href, "#")) \o ref
        ELSE origin \o _normalizePath(Upto(path, LastIndexOf(path, "/")) \o ref)
ResolveParsed(base, b, ref) == ResolveUrl(base, b, _legacyFormat(b), ref, IndexOf(ref, ":"))
_resolveUrl(base, ref) == ResolveParsed(base, _legacyParse(base), ref)

-----------------------------------------------------------------------------
NoUrl == [ok |-> FALSE]
NoAnswer == [fn |-> "none"]

UrlsInit == \E x \in Inputs : /\ url = [calls |-> 0] @@ Parsed(x)
                              /\ params = <<_parseString(url.search)>> /\ answer = NoAnswer
\* [fn, base, ref], asked of the functions that keep no state.
UrlsAsked(questions) == \E q \in questions : url = NoUrl /\ params = <<>> /\ answer = [done |-> FALSE, out |-> <<>>] @@ q
UrlsIdle == url = NoUrl /\ params = <<>> /\ answer = NoAnswer

Answer(fn, out) ==
    answer.fn = fn /\ ~ answer.done /\ answer' = [answer EXCEPT !.done = TRUE, !.out = out] /\ UNCHANGED <<url, params>>

UrlsNext ==
    \/ SetHref \/ SetSearch \/ SetHash \/ SetPort \/ SetHost \/ SetUser \/ ChangeParams
    \/ Answer("resolve", _resolveUrl(answer.base, answer.ref))
    \/ Answer("format", _legacyFormat(_legacyParse(answer.base)))

-----------------------------------------------------------------------------
\* Whatever is called, a URL's search is the text of its searchParams, and its
\* href is read as the parts it has.
UrlInStep ==
    url.ok => /\ _parseString(url.search) = Last(params)
              /\ With(url, Parsed(_serialize(url))) = url

Answered(fn) == answer.fn = fn /\ answer.done

\* Where a reference leads: the segments of the path, "." and ".." followed.
Walk(path) == FoldLeft(LAMBDA at, s : IF s \in {<<".">>, <<>>} THEN at
                                      ELSE IF s = <<".", ".">> THEN (IF at = <<>> THEN at ELSE Front(at)) ELSE Append(at, s),
                       <<>>, Split(path, "/"))

\* A relative reference keeps the base's host and leads where its path goes
\* from the base's directory; a query or a fragment replaces its own kind; and
\* what format writes is parsed as it was.
RefersTo(b, r, ref, cut) ==
    /\ ref = <<>> \/ ref[1] # "/" => r.ok /\ r.protocol = b.protocol /\ r.hostname = b.hostname /\ r.port = b.port
    /\ ref # <<>> /\ ref[1] \notin {"/", "?", "#"} =>
          /\ Walk(r.pathname) = Walk(Upto(b.pathname, LastIndexOf(b.pathname, "/")) \o cut.path)
          /\ r.search = cut.search
    /\ StartsWith(ref, "?") => r.search = cut.search /\ r.pathname = b.pathname
    /\ StartsWith(ref, "#") => r.hash = ref /\ r.search = b.search /\ r.pathname = b.pathname
FormatKept(c) == c.slashes \/ ~ SlashProtocol(c.protocol) => _legacyParse(answer.out) = _legacyParse(answer.base)
RefsLead ==
    /\ Answered("resolve") /\ ":" \notin ToSet(answer.ref) =>
          RefersTo(Parsed(answer.base), Parsed(answer.out), answer.ref, Cut(answer.ref))
    /\ Answered("format") => FormatKept(Cut(answer.base))
=============================================================================
