----------------------------- MODULE MCHttpHead -----------------------------
(***************************************************************************)
(* Small inputs for HttpHead.                                              *)
(***************************************************************************)
EXTENDS HttpHead

\* What peers send: nothing; several sections; a range without a start; a text
\* that is no range, with the connection mode on two lines.
MCReceived ==
    {NoHeads,
     [NoHeads EXCEPT !["Range"] = <<Chr("bytes") \o Chr("=") \o Num(0) \o Chr("-") \o Num(4)
                                    \o Chr("semicolon") \o Num(6) \o Chr("-") \o Num(8)>>],
     [NoHeads EXCEPT !["Range"] = <<Chr("bytes") \o Chr("=") \o Chr("-") \o Num(5)>>,
                     !["Set-Cookie"] = <<Chr("sid") \o Chr("=") \o Chr("0") \o Chr("semicolon")
                                         \o Chr("Path")>>],
     [NoHeads EXCEPT !["Range"] = <<Chr("all")>>, !["Connection"] = <<Chr("Keep-Alive"), Chr("Close")>>]}

\* One of them reads like a cookie.
MCFreeTexts == {Chr("text"), Chr("id") \o Chr("=") \o Chr("text")}
MCNumbers == {-1, 0, Word \div 2, Word - 1}

RangeArg(useStart, useEnd, start, end, total) ==
    [useStart |-> useStart, useEnd |-> useEnd, start |-> start, end |-> end, total |-> total]
MCRangeArgs ==
    {RangeArg(FALSE, FALSE, 3, 9, 10), RangeArg(TRUE, FALSE, 3, 99, 100), RangeArg(FALSE, TRUE, 10, 0, 100),
     RangeArg(TRUE, TRUE, 0, 0, 0), RangeArg(FALSE, FALSE, 999, Word - 1, Word - 1)}

MCExts == {".css", ".none"}
MCMimeExts == {".css"}

CookieArg(key, value) == [key |-> Chr(key), value |-> Chr(value)]
MCCookies == {CookieArg("id", "1"), CookieArg("user", "1"), CookieArg("user", "2")}
SetCookieArg(key, path, secure) ==
    [key |-> Chr(key), value |-> Chr("1"), domain |-> <<>>, path |-> path, expires |-> <<>>,
     secure |-> secure]
MCSetCookies == {SetCookieArg("sid", <<>>, TRUE), SetCookieArg("theme", Chr("/"), FALSE)}

MCChallenges ==
    {[method |-> NoAuth, realm |-> <<>>, qop |-> <<>>, nonce |-> <<>>, opaque |-> <<>>],
     [method |-> "Basic", realm |-> Chr("files"), qop |-> <<>>, nonce |-> <<>>, opaque |-> <<>>],
     [method |-> "Digest", realm |-> Chr("my") \o Chr("blank") \o Chr("files"),
      qop |-> Chr("auth") \o Chr("comma") \o Chr("auth-int"), nonce |-> Chr("n1"), opaque |-> Chr("o1")]}

MCPasswords == {Chr("secret"), Chr("other")}
AuthArg(method, password) ==
    Credentials(method, [name \in Fields |-> Chr(name)], Chr("mufasa"), Chr(password))
MCAuthArgs ==
    {AuthArg(NoAuth, "secret"), AuthArg("Basic", "secret"), AuthArg("Digest", "secret"),
     AuthArg("Digest", "other")}
MCMethods == {Chr("GET"), Chr("POST")}

\* Heads whose range and whose cookie were set, each with two lines of some name.
MCOthers ==
    LET r == RangeArg(FALSE, TRUE, 7, 0, 8)
        c == CookieArg("user", "3")
    IN  {[head |-> [NoHeads EXCEPT !["Range"] = <<RangeText(r)>>, !["X-Text"] = <<Chr("a"), Chr("b")>>],
          put |-> [NoHeads EXCEPT !["Range"] = <<r>>]],
         [head |-> [NoHeads EXCEPT !["Connection"] = <<Chr("Close"), Chr("Keep-Alive")>>,
                                   !["Cookie"] = <<CookieText(<<c>>)>>],
          put |-> [NoHeads EXCEPT !["Cookie"] = <<c>>]]}
=============================================================================
