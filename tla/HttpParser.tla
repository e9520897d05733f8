----------------------------- MODULE HttpParser -----------------------------
(***************************************************************************)
(* ParserBase::input_data with HttpRequestParser or HttpResponseParser:    *)
(* the bytes a connection delivers, in chunks cut anywhere, are turned     *)
(* back into messages.  input_data works through one chunk before the next *)
(* arrives (one read is outstanding per connection).                       *)
(*                                                                         *)
(* The input is a sequence of symbols [t, n].  A line is made of texts: a  *)
(* "word" of a start line, a "key" (a head field), a "len" (the field      *)
(* Content-Length: n), a "range" (Range or Content-Range with the first n  *)
(* bytes of a resource) or "junk" (text without the separator ": "); "CR"  *)
(* and "LF" end it; a body holds any symbols.                              *)
(***************************************************************************)
EXTENDS HttpBody, FiniteSets

CONSTANTS
    Kinds,          \* the parsers: a subset of {"request", "response"}
    Messages,       \* the messages a peer may send
    MaxMessages,    \* bound on the messages of one connection
    ToFiles,        \* the files an application may receive a body into
    AutoMax,        \* the largest body kept in memory (10 MB)
    Total           \* the size of the resource a Content-Range is a section of

\* A message as the peer means it: `words' texts are in its start line, its
\* fields are texts, and len is -1 when it has no Content-Length.
Meaning == [words : Nat, fields : Seq([t : {"key", "range", "junk"}, n : Nat]),
            len : Nat \cup {-1}, body : Seq(Bytes)]

\* get_head_int64(Content-Length, 0).
Length(m) == IF m.len < 0 THEN 0 ELSE m.len

ASSUME ParserAssumption ==
    /\ Kinds \subseteq {"request", "response"}
    /\ \A m \in Messages : m \in Meaning /\ Len(m.body) = Length(m)
    /\ \A f \in ToFiles : f.content \in Seq(Bytes)
    /\ AutoMax \in Nat /\ MaxMessages \in Nat /\ Total \in Nat

VARIABLES
    kind,    \* which parser this is
    creates, \* create_null_file can create files (Windows; not Linux)
    sent,    \* the messages the peer has sent
    stream,  \* their symbols, one message after the other
    read,    \* how many of them have arrived
    chunk,   \* what input_data still has to look at
    status,  \* parser_status_
    cache,   \* parser_cache1_
    tmp,     \* tmp_: the message being put together
    got,     \* history: the messages given to the application
    broken,  \* history: the number of the message at which input_data first
             \* returned an error or took a body of another length, or 0
    misfit   \* history: a body of another length was taken

vars == <<kind, creates, sent, stream, read, chunk, status, cache, tmp, got, broken, misfit>>
peerVars == <<kind, creates, sent, stream, read>>

Sym(t, n) == [t |-> t, n |-> n]
EndOfLine == <<Sym("CR", 0), Sym("LF", 0)>>

\* A message as the peer writes it: the start line, a line for every field and
\* for Content-Length, an empty line and the body.
Line(m) == [i \in 1..m.words |-> Sym("word", i)]
LenField(m) == IF m.len < 0 THEN <<>> ELSE <<Sym("len", m.len)>>
Texts(m) == m.fields \o LenField(m)
FieldLines(m) ==
    [j \in 1..(3 * Len(Texts(m))) |->
        IF j % 3 = 1 THEN Texts(m)[(j + 2) \div 3] ELSE Sym(IF j % 3 = 2 THEN "CR" ELSE "LF", 0)]
Encoded(m) == (Line(m) \o EndOfLine) \o (FieldLines(m) \o EndOfLine) \o m.body

\* RequestImpl starts with a growing raw body, ResponseImpl with none.
Fresh(k) == [line |-> <<>>, fields |-> <<>>, len |-> -1,
             body |-> IF k = "request" THEN GrowingBody ELSE NoBody]

Init ==
    /\ kind \in Kinds /\ creates \in BOOLEAN
    /\ sent = <<>> /\ stream = <<>> /\ read = 0
    /\ chunk = <<>> /\ status = "START_LINE" /\ cache = <<>>
    /\ tmp = Fresh(kind) /\ got = <<>>
    /\ broken = 0 /\ misfit = FALSE

----------------------------------------------------------------------------
\* The peer writes a message.
PeerSends(m) ==
    /\ Len(sent) < MaxMessages
    /\ sent' = Append(sent, m)
    /\ stream' = stream \o Encoded(m)
    /\ UNCHANGED <<kind, creates, read, chunk, status, cache, tmp, got, broken, misfit>>

\* A read completes with the next n symbols: recv_data calls input_data.
Arrive(n) ==
    /\ chunk = <<>> /\ read + n <= Len(stream)
    /\ chunk' = SubSeq(stream, read + 1, read + n)
    /\ read' = read + n
    /\ UNCHANGED <<kind, creates, sent, stream, status, cache, tmp, got, broken, misfit>>

\* From here on nothing is promised.
Breaks == broken' = IF broken = 0 THEN Len(got) + 1 ELSE broken

\* input_data returns an error: what is left of the chunk is dropped, and the
\* parser stays as it is.  The ERROR event some errors raise goes straight to
\* the application (HttpRequest has what that does to a one-shot call).
Fail ==
    /\ chunk' = <<>> /\ Breaks
    /\ UNCHANGED <<status, cache, tmp, got, misfit>>

\* push and reset.
Push(m) ==
    /\ got' = Append(got, m)
    /\ status' = "START_LINE" /\ cache' = <<>> /\ tmp' = Fresh(kind)

\* on_start_line and on_head look at one symbol.
NextIs(t) == status \in {"START_LINE", "HEAD"} /\ chunk # <<>> /\ Head(chunk).t = t

SkipCR ==
    /\ NextIs("CR")
    /\ chunk' = Tail(chunk)
    /\ UNCHANGED <<peerVars, status, cache, tmp, got, broken, misfit>>

Collect ==
    /\ status \in {"START_LINE", "HEAD"} /\ chunk # <<>>
    /\ Head(chunk).t \notin {"CR", "LF"}
    /\ cache' = Append(cache, Head(chunk))
    /\ chunk' = Tail(chunk)
    /\ UNCHANGED <<peerVars, status, tmp, got, broken, misfit>>

\* How many pieces util::split cuts a line into.
Words(line) == Cardinality({i \in DOMAIN line : line[i].t = "word"})

\* What on_start_line keeps of a line: of a reason of several words only the
\* first.
FirstThree(line) == SubSeq(line, 1, 3)

\* on_start_line at the end of a line: fewer than three words are an error.
EndStartLine ==
    /\ status = "START_LINE" /\ NextIs("LF")
    /\ IF Words(cache) < 3
       THEN Fail
       ELSE /\ tmp' = [tmp EXCEPT !.line = FirstThree(cache)]
            /\ status' = "HEAD" /\ cache' = <<>> /\ chunk' = Tail(chunk)
            /\ UNCHANGED <<got, broken, misfit>>
    /\ UNCHANGED peerVars

HasSeparator(line) == \E i \in DOMAIN line : line[i].t \in {"key", "len", "range"}

\* add_head.  Only a field that is all of its line is Content-Length.
AddHead(m, line) ==
    IF Len(line) = 1 /\ line[1].t = "len"
    THEN [m EXCEPT !.len = line[1].n]
    ELSE [m EXCEPT !.fields = Append(@, line)]

\* Mutant: the cached line is not cleared.
EndFieldKeepsCache ==
    /\ status = "HEAD" /\ NextIs("LF") /\ cache # <<>>
    /\ tmp' = AddHead(tmp, cache)
    /\ chunk' = Tail(chunk)
    /\ UNCHANGED <<peerVars, status, cache, got, broken, misfit>>

\* on_head at the end of a field: without a separator it is an error.
EndField ==
    /\ status = "HEAD" /\ NextIs("LF") /\ cache # <<>>
    /\ IF HasSeparator(cache)
       THEN /\ tmp' = AddHead(tmp, cache)
            /\ cache' = <<>> /\ chunk' = Tail(chunk)
            /\ UNCHANGED <<status, got, broken, misfit>>
       ELSE Fail
    /\ UNCHANGED peerVars

\* get_range and get_content_range find the first such field, if any.
IsRange(field) == Len(field) = 1 /\ field[1].t = "range"
RangeAt(m) ==
    {i \in DOMAIN m.fields : IsRange(m.fields[i]) /\ \A j \in 1..(i - 1) : ~IsRange(m.fields[j])}

\* recv_file_request and recv_file_response: the length of the file comes from
\* Content-Length or else from a Content-Range (a Range says nothing of it);
\* without either, the body stays what it was.
RecvFile(f) ==
    IF tmp.len >= 0 THEN {FileBody(f, tmp.len, -1, creates)}
    ELSE IF RangeAt(tmp) = {} THEN {tmp.body}
    ELSE {FileBody(f, IF kind = "request" THEN 0 ELSE Total, tmp.fields[i][1].n, creates) : i \in RangeAt(tmp)}

\* What the HEAD event leaves in tmp_->body: the application does nothing, or
\* has the body received into a file.
Offered == {tmp.body} \cup UNION {RecvFile(f) : f \in ToFiles}

\* auto_create_body: a large response goes to a temporary file, a large
\* request has no body.
AutoBody ==
    IF Length(tmp) <= AutoMax THEN RawBody(Length(tmp))
    ELSE IF kind = "request" THEN NoBody
    ELSE FileBody([flags |-> {"CREATE", "DELETE"}, exists |-> FALSE, content |-> <<>>],
                  Length(tmp), -1, creates)

\* A body that takes the n bytes of a message and is complete then.
Fits(b, n) ==
    IF b.type = "raw" THEN IF b.inc THEN n = 0 ELSE b.max = n
    ELSE b.writable /\ b.size = n /\ Len(b.data) = n

\* on_head at the empty line: the HEAD event, the body, and the message
\* itself if its body is complete already.
EndHead ==
    /\ status = "HEAD" /\ NextIs("LF") /\ cache = <<>>
    /\ \E offered \in Offered :
          LET body == IF offered = NoBody THEN AutoBody ELSE offered
              m == [tmp EXCEPT !.body = body]
          IN  IF body = NoBody THEN Fail
              ELSE /\ chunk' = Tail(chunk)
                   /\ IF IsComplete(body)
                      THEN Push(m)
                      ELSE tmp' = m /\ status' = "BODY" /\ UNCHANGED <<cache, got>>
                   /\ IF Fits(body, Length(tmp))
                      THEN UNCHANGED <<broken, misfit>>
                      ELSE Breaks /\ misfit' = TRUE
    /\ UNCHANGED peerVars

\* on_body: the body takes what it can of the chunk.
OnBody ==
    /\ status = "BODY" /\ chunk # <<>>
    /\ LET body == WriteBody(tmp.body, chunk)
           m == [tmp EXCEPT !.body = body]
       IN  /\ chunk' = SubSeq(chunk, WriteLen(tmp.body, Len(chunk)) + 1, Len(chunk))
           /\ IF IsComplete(body)
              THEN Push(m)
              ELSE tmp' = m /\ UNCHANGED <<status, cache, got>>
    /\ UNCHANGED <<peerVars, broken, misfit>>

\* One turn of the loop in input_data.
InputData == SkipCR \/ Collect \/ EndStartLine \/ EndField \/ EndHead \/ OnBody

Next ==
    \/ \E m \in Messages : PeerSends(m)
    \/ \E n \in 1..Len(stream) : Arrive(n)
    \/ InputData

Spec == Init /\ [][Next]_vars

\* The thread inside input_data goes on; nothing makes the peer send.
FairSpec == Spec /\ WF_vars(InputData)

----------------------------------------------------------------------------
\* Messages as the parser puts them together.
Parsed == [line : Seq(Bytes), fields : Seq(Seq(Bytes)), len : Nat \cup {-1},
           body : {b \in Bodies : BodyOK(b)}]

TypeOK ==
    /\ kind \in Kinds /\ creates \in BOOLEAN /\ sent \in Seq(Messages)
    /\ stream \in Seq(Bytes) /\ read \in 0..Len(stream)
    /\ chunk \in Seq(Bytes) /\ cache \in Seq(Bytes)
    /\ status \in {"START_LINE", "HEAD", "BODY"}
    /\ tmp \in Parsed /\ got \in Seq(Parsed)
    /\ broken \in Nat /\ misfit \in BOOLEAN

\* A message the application was given, and one that was sent, as content.
Given(m) == [line |-> m.line, fields |-> m.fields, len |-> m.len, body |-> Content(m.body)]
Meant(m) == [line |-> FirstThree(Line(m)),
             fields |-> [i \in DOMAIN m.fields |-> <<m.fields[i]>>],
             len |-> m.len, body |-> m.body]

\* What input_data may refuse: a start line without three words, a field
\* without a separator, a body too large to be kept in memory, which only a
\* response has a file for, and only where files can be created.
Refusable(m) ==
    \/ m.words < 3
    \/ \E i \in DOMAIN m.fields : m.fields[i].t = "junk"
    \/ m.len > AutoMax /\ (kind = "request" \/ ~creates)

\* The messages that may meet a body of another length: a request whose body
\* is left to the growing one it starts with, and what goes to a file that is
\* there already or, without a Content-Length, to a section of a file.
Misfittable(m) ==
    \/ kind = "request" /\ m.len > 0
    \/ \E f \in ToFiles : f.exists /\ "CREATE_NEW" \notin f.flags
    \/ m.len = -1 /\ \E i \in DOMAIN m.fields : m.fields[i].t = "range"

\* However the input is cut into chunks, the application is given the messages
\* that were sent: the first three words of the start line, all the fields and
\* the whole body, in order, each once.  An error or a body of another length
\* ends that, and only a message that may be refused or may meet such a body
\* causes one.
MessagesAsSent ==
    LET whole == IF broken = 0 THEN Len(got) ELSE broken - 1
    IN  /\ whole <= Len(sent)
        /\ \A i \in 1..whole : Given(got[i]) = Meant(sent[i])
        /\ broken # 0 => /\ broken <= Len(sent)
                         /\ Refusable(sent[broken]) \/ Misfittable(sent[broken])
        /\ broken = 0 /\ read = Len(stream) /\ chunk = <<>> => Len(got) = Len(sent)

\* input_data returns: every chunk is used up, and the thread that runs the
\* connection's reads is free again, unless a body of another length was taken:
\* a file that cannot be written, or a section that was overrun, takes nothing.
InputUsedUp == chunk # <<>> ~> chunk = <<>> \/ misfit
=============================================================================
