------------------------------ MODULE HttpHead ------------------------------
(***************************************************************************)
(* HeadImpl: the head of one HTTP message, an unordered_multimap from the  *)
(* names of heads to their values, with setters and getters for the heads  *)
(* the library knows.                                                      *)
(*                                                                         *)
(* The values of one name are a sequence: they are next to each other in   *)
(* the map's order, and a new one is put before or behind them.  In which  *)
(* order the names come is up to the hash table; it is chosen where an     *)
(* operation depends on it.                                                *)
(***************************************************************************)
EXTENDS HttpAuth, FiniteSets

CONSTANTS
    Received,      \* the heads a peer may have sent, functions on Keys
    FreeTexts,     \* values for heads the library does not know
    Numbers,       \* numbers for add_head_int64 and add_head_uint64
    RangeArgs,     \* arguments of set_range and set_content_range
    Exts,          \* file extensions, those of MimeExts are known to http_mime
    MimeExts,
    Cookies,       \* arguments of set_cookie: [key, value]
    SetCookies,    \* arguments of set_setcookie
    Challenges,    \* arguments of set_www_authenticate
    AuthArgs,      \* arguments of set_authorization
    Methods,       \* the methods of requests
    Passwords,     \* passwords a server compares with
    Others,        \* heads merged into this one: [head, put]
    MaxHeads,      \* bound on the lines of a head
    MaxText        \* bound on the tokens of a cookie text

Managed == {"Range", "Content-Range", "Cookie", "Connection", "WWW-Authenticate", "Authorization"}
Keys == Managed \cup {"Content-Type", "Set-Cookie", "X-Number", "X-Text"}
NoHeads == [k \in Keys |-> <<>>]

IsSeq(s) == s \in Seq(Range(s))

ASSUME HeadAssumption ==
    /\ Word \in Nat \ {0} /\ RangeBuf \in Nat /\ MaxHeads \in Nat /\ MaxText \in Nat
    /\ RangeArgs \subseteq Ranges /\ MimeExts \subseteq Exts
    /\ \A h \in Received \cup {o.head : o \in Others} :
           DOMAIN h = Keys /\ \A k \in Keys : IsSeq(h[k])
    /\ \A h \in Received, k \in Keys : Len(h[k]) <= MaxHeads
    /\ \A o \in Others : DOMAIN o.put = Keys /\ \A k \in Keys : IsSeq(o.put[k])

VARIABLES
    head,     \* head_
    put,      \* history: what the setters put under each name and nobody removed
    spoiled,  \* history: the names of cookies that lines of other heads read like
    hung      \* an operation does not return

vars == <<head, put, spoiled, hung>>

\* One more line with this name: on one of the two sides of the old ones.
Added(h, key, value) ==
    {[h EXCEPT ![key] = <<value>> \o @], [h EXCEPT ![key] = Append(@, value)]}

\* Mutant: the old lines stay.
ReplacedKeepsOld(h, key, value) == [h EXCEPT ![key] = Append(@, value)]

\* del_head followed by add_head.
Replaced(h, key, value) == [h EXCEPT ![key] = <<value>>]

Lines(h) == Cardinality(UNION {{k} \X DOMAIN h[k] : k \in Keys})
Room == ~hung /\ Lines(head) < MaxHeads

\* get_heads walks from the first line of a name to the end of the whole map:
\* through the lines of this name and of any others that come behind it.
Walks(h, key) ==
    IF h[key] = <<>> THEN {<<>>}
    ELSE {h[key] \o FlattenSeq([i \in DOMAIN behind |-> h[behind[i]]]) :
             behind \in SetToAllKPermutations({k \in Keys \ {key} : h[k] # <<>>})}

\* get_head: some value of a name that has one.
First(h, key, notfind) == IF h[key] = <<>> THEN notfind ELSE h[key][1]

\* A number that is not one, or does not fit, is not found.
GetInt64(h, key, notfind) ==
    LET text == First(h, key, <<>>)
    IN  IF IsNumber(text) /\ Head(Trim(text)).n \in (-(Word \div 2))..(Word \div 2 - 1)
        THEN Head(Trim(text)).n ELSE notfind
GetUint64(h, key, notfind) ==
    LET text == First(h, key, <<>>) IN IF IsNumber(text) THEN Stoull(text) ELSE notfind

\* The cookies in use that a line of one of these heads would be read as.
CookieNames(h, keys) ==
    {name \in {c.key : c \in Cookies} :
        \E k \in keys : \E line \in Range(h[k]) :
            \E c \in Range(ReadCookies(line)) : c.key = name}
Foreign(h) == CookieNames(h, Keys \ {"Cookie"})

\* What every operation that returns leaves behind.
Returns ==
    /\ hung' = hung
    /\ spoiled' = spoiled \cup Foreign(head')

\* The cookies a peer has sent are not of this side's making either.
Init ==
    /\ head \in Received
    /\ put = NoHeads /\ spoiled = CookieNames(head, Keys) /\ hung = FALSE

----------------------------------------------------------------------------
\* The map itself.
AddHead(value) ==
    /\ Room
    /\ head' \in Added(head, "X-Text", value)
    /\ put' = [put EXCEPT !["X-Text"] = Append(@, value)]
    /\ Returns

\* Mutant: an uint64 is written as if it were an int64.
AddNumberSigned(n) ==
    /\ Room
    /\ head' \in Added(head, "X-Number", Num(IF n < Word \div 2 THEN n ELSE n - Word))
    /\ put' = [put EXCEPT !["X-Number"] = Append(@, n)]
    /\ Returns

AddNumber(n) ==
    /\ Room
    /\ head' \in Added(head, "X-Number", Num(n))
    /\ put' = [put EXCEPT !["X-Number"] = Append(@, n)]
    /\ Returns

DelHead(key) ==
    /\ ~hung
    /\ head' = [head EXCEPT ![key] = <<>>]
    /\ put' = [put EXCEPT ![key] = <<>>]
    /\ Returns

\* Mutant: a name that was deleted to be replaced is skipped as well.
MergedSkips(own, other, cover) ==
    IF other = <<>> \/ (own # <<>> /\ ~cover) THEN own
    ELSE IF own # <<>> THEN <<>> ELSE <<other[1]>>

\* merge adds the lines of the other head one by one.  A name this head has is
\* replaced (cover) or left alone, also if it comes from an earlier line of the
\* other head: of several lines the last or the first is taken.
Merged(own, other, cover) ==
    IF other = <<>> \/ (own # <<>> /\ ~cover) THEN own
    ELSE <<other[IF cover THEN Len(other) ELSE 1]>>

\* Which setter wrote a line of the other head is known if it has no other of
\* that name.
Known(o, key) == IF Len(o.head[key]) = 1 THEN o.put[key] ELSE <<>>

Merge(o, cover) ==
    /\ ~hung
    /\ head' = [k \in Keys |-> Merged(head[k], o.head[k], cover)]
    /\ Lines(head') <= MaxHeads
    /\ put' = [k \in Keys |-> IF o.head[k] # <<>> /\ (head[k] = <<>> \/ cover)
                              THEN Known(o, k) ELSE put[k]]
    /\ Returns

----------------------------------------------------------------------------
\* Setters of one line: the old line is replaced.
SetLine(key, value, arg) ==
    /\ ~hung /\ (head[key] = <<>> => Lines(head) < MaxHeads)
    /\ head' = Replaced(head, key, value)
    /\ put' = [put EXCEPT ![key] = <<arg>>]
    /\ Returns

\* Mutant: the result of snprintf is not looked at, the text is cut off.
SetRangeTruncates(r) ==
    SetLine("Range",
            IF RangeChars(r) < RangeBuf THEN RangeText(r)
            ELSE SubSeq(RangeText(r), 1, Len(RangeText(r)) - 1), r)

\* A range that does not fit into the buffer is refused.
SetRange(r) == RangeChars(r) < RangeBuf /\ SetLine("Range", RangeText(r), r)

SetContentRange(r) == SetLine("Content-Range", ContentRangeText(r), r)

\* Connection: Keep-Alive or Close; without the head it is Close.
SetKeepAlive(alive) == SetLine("Connection", Chr(IF alive THEN "Keep-Alive" ELSE "Close"), alive)
KeepAlive(h) == First(h, "Connection", Chr("Close")) # Chr("Close")

SetWwwAuthenticate(c) == c.method # NoAuth /\ SetLine("WWW-Authenticate", ChallengeText(c), c)
SetAuthorization(a, method) ==
    /\ a.method # NoAuth
    /\ SetLine("Authorization", AuthText(a, method), [auth |-> a, method |-> method])

\* Content-Type is added without removing the old one.
Mime(ext) == IF ext \in MimeExts THEN Chr(ext) ELSE <<>>
SetContentTypeByExt(ext) ==
    /\ Room /\ Mime(ext) # <<>>
    /\ head' \in Added(head, "Content-Type", Mime(ext))
    /\ put' = [put EXCEPT !["Content-Type"] = Append(@, ext)]
    /\ Returns

----------------------------------------------------------------------------
\* The cookies of a request are kept in one line.
GetCookies(walk) == FlattenSeq([i \in DOMAIN walk |-> ReadCookies(walk[i])])

\* get_cookie: the first of this name, as a sequence of at most one cookie.
FirstOf(cookies, name) ==
    LET i == SelectInSeq(cookies, LAMBDA c : c.key = name)
    IN  IF i = 0 THEN <<>> ELSE <<cookies[i]>>

Without(cookies, name) ==
    FlattenSeq([i \in DOMAIN cookies |-> IF cookies[i].key = name THEN <<>> ELSE <<cookies[i]>>])

SetCookieLine(cookies, jar) ==
    /\ ~hung /\ (head["Cookie"] = <<>> => Lines(head) < MaxHeads)
    /\ Len(CookieText(cookies)) <= MaxText
    /\ head' = Replaced(head, "Cookie", CookieText(cookies))
    /\ put' = [put EXCEPT !["Cookie"] = jar]
    /\ Returns

SetCookie(c) ==
    \E walk \in Walks(head, "Cookie") :
        SetCookieLine(Append(GetCookies(walk), c), Append(put["Cookie"], c))

\* Mutant: only the first cookie of the name is deleted.
DelCookieOnce(name) ==
    \E walk \in Walks(head, "Cookie") :
        LET cookies == GetCookies(walk)
            i == SelectInSeq(cookies, LAMBDA c : c.key = name)
        IN  SetCookieLine(IF i = 0 THEN cookies ELSE RemoveAt(cookies, i), Without(put["Cookie"], name))

DelCookie(name) ==
    \E walk \in Walks(head, "Cookie") :
        SetCookieLine(Without(GetCookies(walk), name), Without(put["Cookie"], name))

\* The cookies of a response have a line each.
SetSetCookie(c) ==
    /\ Room
    /\ head' \in Added(head, "Set-Cookie", SetCookieText(c))
    /\ put' = [put EXCEPT !["Set-Cookie"] = Append(@, c)]
    /\ Returns

GetSetCookies(walk) == [i \in DOMAIN walk |-> ReadSetCookie(walk[i])]

\* The history without the argument of this line.
Forget(args, line) == RemoveFirstMatch(args, LAMBDA c : SetCookieText(c) = line)

\* del_setcookie looks at the first line for ever unless it has this name; a
\* line that makes it read past the end of a vector may end it, too.
DelSetCookie(name) ==
    /\ ~hung /\ head["Set-Cookie"] # <<>>
    /\ LET line == head["Set-Cookie"][1]
       IN  \/ /\ ReadSetCookie(line).key # name \/ Overruns(line)
              /\ hung' = TRUE /\ UNCHANGED <<head, put, spoiled>>
           \/ /\ ReadSetCookie(line).key = name
              /\ head' = [head EXCEPT !["Set-Cookie"] = Tail(@)]
              /\ put' = [put EXCEPT !["Set-Cookie"] = Forget(@, line)]
              /\ Returns

----------------------------------------------------------------------------
\* The line a setter writes for its argument.
LineOf(key, arg) ==
    CASE key = "Range" -> RangeText(arg)
      [] key = "Content-Range" -> ContentRangeText(arg)
      [] key = "Connection" -> Chr(IF arg THEN "Keep-Alive" ELSE "Close")
      [] key = "WWW-Authenticate" -> ChallengeText(arg)
      [] key = "Authorization" -> AuthText(arg.auth, arg.method)
      [] key = "Content-Type" -> Mime(arg)
      [] key = "Set-Cookie" -> SetCookieText(arg)
      [] key = "X-Number" -> Num(arg)
      [] OTHER -> arg

\* The arguments whose lines can be read back.  Nothing is escaped: a field of
\* a challenge or of credentials has no quotes and no blanks at its ends, an
\* unquoted one has no comma, and a Basic user and password have no colon.
Holds(text, tokens) == \E i \in DOMAIN text : text[i].t \in tokens
Clean(text) == IsSeq(text) /\ Trim(text) = text /\ ~Holds(text, Quotes)

IsChallenge(c) ==
    /\ c = [method |-> c.method, realm |-> c.realm, qop |-> c.qop, nonce |-> c.nonce, opaque |-> c.opaque]
    /\ c.method \in {"Basic", "Digest"}
    /\ Clean(c.realm) /\ Clean(c.qop) /\ Clean(c.nonce) /\ Clean(c.opaque)

IsCredentials(a) ==
    /\ a.method \in {"Basic", "Digest"} /\ IsSeq(a.username) /\ IsSeq(a.password)
    /\ a.method = "Basic" => ~Holds(a.username, {":"}) /\ ~Holds(a.password, {":"})
    /\ a.method = "Digest" =>
          /\ Clean(a.username) /\ Clean(a.realm) /\ Clean(a.nonce) /\ Clean(a.uri)
          /\ Clean(a.qop) /\ Clean(a.nc) /\ Clean(a.cnonce) /\ Clean(a.opaque)
          /\ ~Holds(a.qop, {"comma"}) /\ ~Holds(a.nc, {"comma"})

IsArg(key, arg) ==
    /\ key \in {"Range", "Content-Range"} => arg \in Ranges
    /\ key = "WWW-Authenticate" => IsChallenge(arg)
    /\ key = "Authorization" => IsCredentials(arg.auth) /\ IsSeq(arg.method)
    /\ key = "X-Number" => arg \in (-(Word \div 2))..(Word - 1)

ASSUME ArgsAssumption ==
    /\ \A c \in Challenges : c.method # NoAuth => IsChallenge(c)
    /\ \A a \in AuthArgs : a.method # NoAuth => IsCredentials(a)
    /\ \A text \in Methods \cup Passwords : IsSeq(text)
    /\ \A n \in Numbers : IsArg("X-Number", n)

\* What is merged was written by the same setters, and X-Number is a name only
\* they use.
ASSUME OthersAssumption ==
    /\ \A o \in Others, k \in Keys \ {"Cookie"} :
          Len(o.head[k]) = 1 /\ o.put[k] # <<>> =>
             /\ Len(o.put[k]) = 1 /\ IsArg(k, o.put[k][1])
             /\ o.head[k] = <<LineOf(k, o.put[k][1])>>
    /\ \A o \in Others : o.head["X-Number"] # <<>> => Len(o.head["X-Number"]) = 1 /\ o.put["X-Number"] # <<>>
    /\ \A h \in Received : h["X-Number"] = <<>>
    /\ \A o \in Others : o.head["Cookie"] # <<>> =>
          o.put["Cookie"] # <<>> /\ o.head["Cookie"] = <<CookieText(o.put["Cookie"])>>

Next ==
    \/ \E value \in FreeTexts : AddHead(value)
    \/ \E n \in Numbers : AddNumber(n)
    \/ \E key \in Keys : DelHead(key)
    \/ \E o \in Others, cover \in BOOLEAN : Merge(o, cover)
    \/ \E r \in RangeArgs : SetRange(r) \/ SetContentRange(r)
    \/ \E alive \in BOOLEAN : SetKeepAlive(alive)
    \/ \E c \in Challenges : SetWwwAuthenticate(c)
    \/ \E a \in AuthArgs, method \in Methods : SetAuthorization(a, method)
    \/ \E ext \in Exts : SetContentTypeByExt(ext)
    \/ \E c \in Cookies : SetCookie(c) \/ DelCookie(c.key)
    \/ \E c \in SetCookies : SetSetCookie(c) \/ DelSetCookie(c.key)

Spec == Init /\ [][Next]_vars

----------------------------------------------------------------------------
TypeOK ==
    /\ DOMAIN head = Keys /\ DOMAIN put = Keys /\ hung \in BOOLEAN
    /\ \A k \in Keys : Len(head[k]) <= MaxHeads
    /\ \A k \in Keys \ {"Cookie"} : Len(put[k]) <= Len(head[k])
    /\ Foreign(head) \subseteq spoiled

\* A head that was set with a setter of its own is on exactly one line, also
\* when a peer had sent several and whatever was merged since: a reader that
\* takes the first line never gets another range, user or connection mode than
\* one that takes the last.
OneLine == \A k \in Managed : put[k] # <<>> => Len(head[k]) = 1

\* The range that was asked for is the one the other side reads out of the
\* text: first and last byte, and "to the end" if that was asked for.
RangeReadBack ==
    \A i \in DOMAIN put["Range"] :
        LET r == put["Range"][i]
            got == ReadRange(head["Range"][1], [r EXCEPT !.useEnd = ~@])
        IN  /\ got.ok
            /\ SectionStart(got.range) = SectionStart(r)
            /\ got.range.useEnd = r.useEnd
            /\ ~r.useEnd => SectionEnd(got.range) = r.end

\* The section and the total of a Content-Range are read back as they were
\* set, also with the resource's ends.
ContentRangeReadBack ==
    \A i \in DOMAIN put["Content-Range"] :
        LET r == put["Content-Range"][i]
            got == ReadContentRange(head["Content-Range"][1], [r EXCEPT !.total = 0, !.useEnd = TRUE])
        IN  /\ got.ok /\ got.range.total = r.total
            /\ SectionStart(got.range) = SectionStart(r)
            /\ SectionEnd(got.range) = SectionEnd(r)

\* A download's request and its answer: the sections of both heads survive the
\* way through the text.
RangesReadBack == RangeReadBack /\ ContentRangeReadBack

\* What get_head_int64 and get_head_uint64 return was added as a number, and a
\* negative one comes back as an uint64 the way C++ converts it.
NumbersReadBack ==
    put["X-Number"] # <<>> =>
        \E i \in DOMAIN put["X-Number"] :
            LET n == put["X-Number"][i]
            IN  /\ GetUint64(head, "X-Number", -1) = n % Word
                /\ GetInt64(head, "X-Number", Word) =
                      IF n < Word \div 2 THEN n ELSE Word

\* A server reads the challenge it set, commas between quotes included.
ChallengeReadBack ==
    \A i \in DOMAIN put["WWW-Authenticate"] :
        LET c == put["WWW-Authenticate"][i]
            got == ReadChallenge(head["WWW-Authenticate"][1])
        IN  /\ got.method = c.method /\ got.realm = c.realm
            /\ c.method = "Digest" => got = c

\* check_auth accepts exactly the password the credentials were made with and,
\* for Digest, only for the method they were made for.
CheckAuthExact ==
    \A i \in DOMAIN put["Authorization"], password \in Passwords, method \in Methods :
        LET a == put["Authorization"][i]
        IN  CheckAuth(ReadAuth(head["Authorization"][1]), password, method)
            <=> /\ password = a.auth.password
                /\ a.auth.method = "Digest" => method = a.method

\* However often the Cookie line was read and written again, get_cookie finds
\* every name that was set and not deleted since.  It finds no other name, and
\* the value that was set first, unless the name is spoiled: get_heads runs on
\* into the lines of other heads, and set_cookie writes what they read like
\* into the Cookie line, where it comes first.
CookieFirstWins ==
    \A c \in Cookies, walk \in Walks(head, "Cookie") :
        LET got == FirstOf(GetCookies(walk), c.key)
            own == FirstOf(put["Cookie"], c.key)
        IN  /\ own # <<>> => got # <<>>
            /\ c.key \notin spoiled => got = own

\* Every cookie of a response is found by its name, if no line makes the search
\* read past the end of a vector; its value was set for that name, unless the
\* response came with a line of the same name.
SetCookieFound ==
    \A i \in DOMAIN put["Set-Cookie"], walk \in Walks(head, "Set-Cookie") :
        LET name == put["Set-Cookie"][i].key
            got == FirstOf(GetSetCookies(walk), name)
            own == {j \in DOMAIN put["Set-Cookie"] : put["Set-Cookie"][j].key = name}
            sent == Range(head["Set-Cookie"]) \ {SetCookieText(put["Set-Cookie"][j]) : j \in own}
        IN  (\A line \in Range(walk) : ~Overruns(line)) =>
                /\ got # <<>>
                /\ \/ \E j \in own : put["Set-Cookie"][j].value = got[1].value
                   \/ \E line \in sent : ReadSetCookie(line).key = name

\* Cookies are found by their names on both sides.
CookiesFound == CookieFirstWins /\ SetCookieFound
=============================================================================
