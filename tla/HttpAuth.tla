------------------------------ MODULE HttpAuth ------------------------------
(***************************************************************************)
(* The authentication heads of HeadImpl: WWW-Authenticate, with which a    *)
(* server asks for credentials, and Authorization, with which a client     *)
(* gives them, in the Basic and the Digest scheme.                         *)
(*                                                                         *)
(* A challenge is [method, realm, qop, nonce, opaque]; credentials are     *)
(* [method, username, password, realm, nonce, uri, qop, nc, cnonce,        *)
(* response, opaque].  All fields but method are texts.                    *)
(***************************************************************************)
EXTENDS HttpText

\* split_ky reads "key=value, key=value" symbol by symbol: a separator between
\* quotes belongs to the value.
Quotes == {"quote", "'"}
SetKey(m, key, value) ==
    [k \in DOMAIN m \cup {Trim(key)} |-> IF k = Trim(key) THEN Trim(value) ELSE m[k]]

\* Mutant: a separator ends the value between quotes as well.
SplitStepUnquoted(s, c) ==
    CASE s.at = "key" /\ c.t = "=" -> [s EXCEPT !.at = "value"]
      [] s.at = "key" -> [s EXCEPT !.key = Append(@, c)]
      [] s.at # "key" /\ c.t \in Quotes -> s
      [] s.at # "key" /\ c.t = "comma" ->
            [at |-> "key", key |-> <<>>, value |-> <<>>, map |-> SetKey(s.map, s.key, s.value)]
      [] OTHER -> [s EXCEPT !.value = Append(@, c)]

SplitStep(s, c) ==
    CASE s.at = "key" /\ c.t = "=" -> [s EXCEPT !.at = "value"]
      [] s.at = "key" /\ c.t # "=" -> [s EXCEPT !.key = Append(@, c)]
      [] s.at = "value" /\ c.t \in Quotes -> [s EXCEPT !.at = "string"]
      [] s.at = "string" /\ c.t \in Quotes -> [s EXCEPT !.at = "value"]
      [] s.at = "value" /\ c.t = "comma" ->
            [at |-> "key", key |-> <<>>, value |-> <<>>, map |-> SetKey(s.map, s.key, s.value)]
      [] OTHER -> [s EXCEPT !.value = Append(@, c)]

Scan(text) ==
    LET empty == [at |-> "key", key |-> <<>>, value |-> <<>>, map |-> [k \in {} |-> <<>>]]
        scan[i \in 0..Len(text)] ==
            IF i = 0 THEN empty ELSE SplitStep(scan[i - 1], text[i])
    IN  scan

SplitKy(text) ==
    LET end == Scan(text)[Len(text)]
    IN  IF end.key = <<>> THEN end.map ELSE SetKey(end.map, end.key, end.value)

\* GET_VALUE_FOR_MAP with the default "".
Value(m, name) == IF Chr(name) \in DOMAIN m THEN m[Chr(name)] ELSE <<>>

Quoted(name, value) == Chr(name) \o Chr("=") \o Chr("quote") \o value \o Chr("quote")
Plain(name, value) == Chr(name) \o Chr("=") \o value

----------------------------------------------------------------------------
\* A head "Scheme data" without data is not read.
NoAuth == "NoneAuth"
Scheme(text) == IF Len(text) < 3 \/ text[2].t # "blank" THEN NoAuth ELSE text[1].t
Data(text) == SubSeq(text, 3, Len(text))

ChallengeText(c) ==
    IF c.method = "Basic"
    THEN Chr("Basic") \o Chr("blank") \o Quoted("realm", c.realm)
    ELSE Chr("Digest") \o Chr("blank")
         \o (Quoted("realm", c.realm) \o Chr("comma") \o Quoted("qop", c.qop) \o Chr("comma")
             \o Quoted("nonce", c.nonce) \o Chr("comma") \o Quoted("opaque", c.opaque))

\* What a method's record holds that is not in the text has its default.
ReadChallenge(text) ==
    LET m == SplitKy(Data(text))
        digest == Scheme(text) = "Digest"
        field(name) == IF digest THEN Value(m, name) ELSE <<>>
    IN  [method |-> IF Scheme(text) \in {"Basic", "Digest"} THEN Scheme(text) ELSE NoAuth,
         realm |-> IF Scheme(text) \in {"Basic", "Digest"} THEN Value(m, "realm") ELSE <<>>,
         qop |-> IF digest THEN Value(m, "qop") ELSE Chr("auth"),
         nonce |-> field("nonce"), opaque |-> field("opaque")]

----------------------------------------------------------------------------
\* get_auth_info: user:password in base64, or the response of RFC 2617.
Join(a, b) == a \o Chr(":") \o b

\* Mutant: the method of the request is left out of the digest.
AuthInfoNoMethod(a, method) ==
    IF a.method = "Basic" THEN Base64(Join(a.username, a.password))
    ELSE Md5(Join(Join(a.username, a.realm), Join(a.password, a.uri)))

AuthInfo(a, method) ==
    IF a.method = "Basic" THEN Base64(Join(a.username, a.password))
    ELSE Md5(Join(Md5(Join(Join(a.username, a.realm), a.password)),
                  Join(Join(Join(Join(a.nonce, a.nc), a.cnonce), a.qop), Md5(Join(method, a.uri)))))

\* qop and nc are not quoted, and the last field is followed by ",".
AuthText(a, method) ==
    IF a.method = "Basic"
    THEN Chr("Basic") \o Chr("blank") \o AuthInfo(a, method)
    ELSE Chr("Digest") \o Chr("blank")
         \o (Quoted("username", a.username) \o Chr("comma") \o Quoted("realm", a.realm) \o Chr("comma")
             \o Quoted("nonce", a.nonce) \o Chr("comma") \o Quoted("uri", a.uri) \o Chr("comma")
             \o Plain("qop", a.qop) \o Chr("comma") \o Plain("nc", a.nc) \o Chr("comma")
             \o Quoted("cnonce", a.cnonce) \o Chr("comma")
             \o Quoted("response", AuthInfo(a, method)) \o Chr("comma")
             \o Quoted("opaque", a.opaque) \o Chr("comma"))

\* The other fields are given as a record.
Fields == {"realm", "nonce", "uri", "qop", "nc", "cnonce", "response", "opaque"}
Credentials(method, fields, username, password) ==
    [name \in Fields \cup {"method", "username", "password"} |->
        CASE name = "method" -> method
          [] name = "username" -> username
          [] name = "password" -> password
          [] OTHER -> fields[name]]

\* A Basic password ends at its first ":".
ReadAuth(text) ==
    LET m == SplitKy(Data(text))
        fields == [name \in Fields |-> Value(m, name)]
        nothing == [name \in Fields |-> <<>>]
        userPass == Split(Unbase64(Data(text)), ":")
    IN  IF Scheme(text) = "Digest" THEN Credentials("Digest", fields, Value(m, "username"), <<>>)
        ELSE IF Scheme(text) = "Basic" /\ Len(userPass) >= 2
        THEN Credentials("Basic", nothing, userPass[1], userPass[2])
        ELSE Credentials(NoAuth, nothing, <<>>, <<>>)

CheckAuth(a, password, method) ==
    CASE a.method = "Basic" -> a.password = password
      [] a.method = "Digest" -> AuthInfo([a EXCEPT !.password = password], method) = a.response
      [] OTHER -> FALSE
=============================================================================
