------------------------------ MODULE HttpText ------------------------------
(***************************************************************************)
(* The text formats of HeadImpl: what its setters write into the value of  *)
(* a head and what its getters read out of one.                            *)
(*                                                                         *)
(* A text is a sequence of tokens [t, n, of].  A token is a word or a      *)
(* separator (t), a number in decimal ("num", n), or the base64 form or    *)
(* the md5 digest of a text ("b64" or "md5", of); md5 is taken to be       *)
(* injective.  Words hold no separator.  The separators are "=", "-", "/", *)
(* ":", "'" and "blank", "comma", "semicolon" and "quote" for the symbols  *)
(* of these names.                                                         *)
(***************************************************************************)
EXTENDS HttpRange, Sequences, SequencesExt

CONSTANT RangeBuf   \* the characters set_range has room for (32)

Token(t, n, of) == [t |-> t, n |-> n, of |-> of]
Chr(t) == <<Token(t, 0, <<>>)>>
Num(n) == <<Token("num", n, <<>>)>>
Md5(text) == IF text = <<>> THEN <<>> ELSE <<Token("md5", 0, text)>>

\* encode_base64 and decode_base64; what is no base64 decodes to nothing.
Base64(text) == IF text = <<>> THEN <<>> ELSE <<Token("b64", 0, text)>>
Unbase64(text) ==
    IF text # <<>> /\ Head(text).t = "b64" THEN Head(text).of ELSE <<>>

\* The pieces of a text between the separators c; there is one more of them
\* than of separators, and any of them may be empty.
PieceStep(pieces, x, c) ==
    IF x.t = c THEN Append(pieces, <<>>)
    ELSE [pieces EXCEPT ![Len(pieces)] = Append(@, x)]

Pieces(text, c) ==
    LET pieces[i \in 0..Len(text)] ==
            IF i = 0 THEN <<<<>>>> ELSE PieceStep(pieces[i - 1], text[i], c)
    IN  pieces

Split(text, c) == Pieces(text, c)[Len(text)]

\* Without the blanks at both ends.
Trim(text) ==
    LET solid == {i \in DOMAIN text : text[i].t # "blank"}
    IN  IF solid = {} THEN <<>> ELSE SubSeq(text, Min(solid), Max(solid))

\* std::stoull throws (IsNumber is false) unless the text begins with a number.
IsNumber(text) == Trim(text) # <<>> /\ Head(Trim(text)).t = "num"

Stoull(text) == Head(Trim(text)).n % Word

----------------------------------------------------------------------------
\* Range: bytes=start-end and Content-Range: bytes start-end/total.  A getter
\* returns [ok, range]: an error may leave the range half read.
Digits[n \in Nat] == IF n < 10 THEN 1 ELSE 1 + Digits[n \div 10]

RangeText(r) ==
    Chr("bytes") \o Chr("=") \o Num(SectionStart(r)) \o Chr("-")
    \o IF r.useEnd THEN <<>> ELSE Num(r.end)

\* snprintf's result: "bytes=", the numbers and "-".
RangeChars(r) ==
    7 + Digits[SectionStart(r)] + IF r.useEnd THEN 0 ELSE Digits[r.end]

ContentRangeText(r) ==
    Chr("bytes") \o Chr("blank") \o Num(SectionStart(r)) \o Chr("-")
    \o Num(SectionEnd(r)) \o Chr("/") \o Num(r.total)

\* The start and the end of a section "start-end".  Either may be missing, and
\* without "-" the end is left as it is.
ReadStart(r, text) ==
    IF text = <<>> THEN [r EXCEPT !.useStart = TRUE]
    ELSE [r EXCEPT !.useStart = FALSE, !.start = Stoull(text)]
ReadEnd(r, text) ==
    IF text = <<>> THEN [r EXCEPT !.useEnd = TRUE]
    ELSE [r EXCEPT !.useEnd = FALSE, !.end = Stoull(text)]

ReadSection(r, section) ==
    LET ends == Split(section, "-")
        started == ReadStart(r, ends[1])
    IN  IF ends[1] # <<>> /\ ~IsNumber(ends[1]) THEN [ok |-> FALSE, range |-> [r EXCEPT !.useStart = FALSE]]
        ELSE IF Len(ends) < 2 THEN [ok |-> TRUE, range |-> started]
        ELSE IF ends[2] # <<>> /\ ~IsNumber(ends[2]) THEN [ok |-> FALSE, range |-> [started EXCEPT !.useEnd = FALSE]]
        ELSE [ok |-> TRUE, range |-> ReadEnd(started, ends[2])]

IsBytes(text) == \E i \in DOMAIN text : text[i].t = "bytes"

\* Of several sections only the first is read.
ReadRange(text, r) ==
    LET unit == Split(text, "=")
    IN  IF Len(unit) # 2 \/ ~IsBytes(unit[1]) THEN [ok |-> FALSE, range |-> r]
        ELSE ReadSection(r, Split(unit[2], "semicolon")[1])

ReadContentRange(text, r) ==
    LET unit == Split(text, "blank")
        parts == Split(unit[2], "/")
        section == ReadSection(r, parts[1])
    IN  IF Len(unit) # 2 \/ ~IsBytes(unit[1]) \/ Len(parts) # 2 THEN [ok |-> FALSE, range |-> r]
        ELSE IF ~section.ok \/ ~IsNumber(parts[2]) THEN [section EXCEPT !.ok = FALSE]
        ELSE [ok |-> TRUE, range |-> [section.range EXCEPT !.total = Stoull(parts[2])]]

----------------------------------------------------------------------------
\* Cookie: key=value;key=value; and Set-Cookie: key=value; Path=path ...
\* Every text ends with ";", so reading one back adds an empty cookie.
CookieText(cookies) ==
    FlattenSeq([i \in DOMAIN cookies |->
        cookies[i].key \o Chr("=") \o cookies[i].value \o Chr("semicolon")])

KeyValue(text) ==
    LET kv == Split(text, "=")
    IN  [key |-> kv[1], value |-> IF Len(kv) >= 2 THEN kv[2] ELSE <<>>]

ReadCookies(text) ==
    LET items == Split(text, "semicolon") IN [i \in DOMAIN items |-> KeyValue(items[i])]

\* Every attribute is preceded by "; ", and HttpOnly stands for ~secure.
Attribute(name, value) ==
    IF value = <<>> THEN <<>> ELSE Chr("semicolon") \o Chr("blank") \o Chr(name) \o Chr("=") \o value

SetCookieText(c) ==
    c.key \o Chr("=") \o c.value
    \o Attribute("Domain", c.domain) \o Attribute("Path", c.path) \o Attribute("Expires", c.expires)
    \o IF c.secure THEN <<>> ELSE Chr("semicolon") \o Chr("blank") \o Chr("HttpOnly")

\* An attribute of a peer without "=": its value is read behind the end of the
\* vector of its parts.
Overruns(text) ==
    LET items == Split(text, "semicolon")
    IN  \E i \in 2..Len(items) :
            items[i] \in {Chr("Domain"), Chr("Path"), Chr("Expires")}

\* The names of attributes are compared with the blank before them, so those
\* SetCookieText wrote are not recognised.  Of a text that overruns only key
\* and value have a meaning.
ReadSetCookie(text) ==
    LET items == ReadCookies(text)
        named(name) == {i \in 2..Len(items) : items[i].key = Chr(name)}
        attr(name) == IF named(name) = {} THEN <<>> ELSE items[Max(named(name))].value
    IN  [key |-> items[1].key, value |-> items[1].value, domain |-> attr("Domain"),
         path |-> attr("Path"), expires |-> attr("Expires"), secure |-> FALSE]
=============================================================================
