------------------------------ MODULE HttpBody ------------------------------
(***************************************************************************)
(* The bodies of HTTP messages as values: RawBodyImpl (a string) and       *)
(* FileBodyImpl (a range of a mapped file) behind BaseBodyImpl, which      *)
(* keeps the write position.  A body is a record                           *)
(*   [type, inc, max, size, writable, data, pos]                           *)
(* of which inc and max (increment_, maximum_capacity_) belong to "raw"    *)
(* bodies, size and writable (the bytes of the range, FLAG_WRITE) to       *)
(* "file" bodies, whose data is the whole file.  The ranges are those that *)
(* recv_file_request and recv_file_response ask for: the whole file or a   *)
(* section from its start.                                                 *)
(***************************************************************************)
EXTENDS Integers, Sequences

\* What messages are made of: the symbols of HttpParser, and zeros.
Bytes == [t : {"word", "key", "len", "range", "junk", "CR", "LF", "byte", "zero"}, n : Nat]

Body(type, inc, max, size, writable, data, pos) ==
    [type |-> type, inc |-> inc, max |-> max, size |-> size,
     writable |-> writable, data |-> data, pos |-> pos]

\* A null pointer.
NoBody == Body("none", FALSE, 0, 0, FALSE, <<>>, 0)

\* RawBodyImpl::generate() grows, RawBodyImpl::generate(n) holds n bytes.
GrowingBody == Body("raw", TRUE, 0, 0, FALSE, <<>>, 0)
RawBody(n) == Body("raw", FALSE, n, 0, FALSE, <<>>, 0)

\* A file as FileBodyImpl::init finds it is [flags, exists, content]: the
\* flags it is opened with, whether it exists, and its content.
Creates(f) == f.flags \cap {"CREATE", "CREATE_NEW"} # {}

\* create_null_file makes a file of n zeros, unless n is 0.  On Linux it makes
\* nothing (`creates' is FALSE there).
Zero == [t |-> "zero", n |-> 0]
NullFile(n) == [i \in 1..n |-> Zero]

\* FileBodyImpl::generate(name, range, flags), where range.total is total and
\* the range is the whole file or, if n is not -1, its first n bytes: a null
\* pointer if there is nothing to open or the range is not in the file.
FileBody(f, total, n, creates) ==
    LET new == ~f.exists \/ "CREATE_NEW" \in f.flags
        content == IF new THEN NullFile(total) ELSE f.content
        size == IF n = -1 THEN Len(content) ELSE n
    IN  IF (~f.exists /\ ~Creates(f)) \/ (new /\ ~creates) \/ size \notin 1..Len(content)
        THEN NoBody
        ELSE Body("file", FALSE, 0, size, Creates(f) \/ "WRITE" \in f.flags, content, 0)

IsComplete(b) ==
    IF b.type = "raw" THEN b.inc \/ b.max = Len(b.data) ELSE b.pos = b.size

\* Mutants of WriteLen: the capacity of a raw body is not looked at; its last
\* byte is not used.
WriteLenUncapped(b, n) ==
    IF b.type = "raw" THEN n
    ELSE IF ~b.writable \/ b.pos >= b.size THEN 0
    ELSE IF b.pos + n >= Len(b.data) THEN b.size - b.pos ELSE n
WriteLenShort(b, n) ==
    LET room == IF b.type = "raw" THEN b.max ELSE b.size
    IN  IF ~b.inc /\ b.pos + n >= room THEN room - b.pos - 1 ELSE n

\* How many of n bytes write_body_cb takes at the write position.  A section is
\* left only at the end of the file.
WriteLen(b, n) ==
    IF b.type = "raw"
    THEN IF ~b.inc /\ b.pos + n >= b.max THEN b.max - b.pos ELSE n
    ELSE IF ~b.writable \/ b.pos >= b.size THEN 0
    ELSE IF b.pos + n >= Len(b.data) THEN b.size - b.pos ELSE n

\* write_body: the bytes are put at the write position, which moves on.  A raw
\* body is cut off there, a file is overwritten in place.
WriteBody(b, bytes) ==
    LET k == WriteLen(b, Len(bytes))
        taken == SubSeq(bytes, 1, k)
        kept == SubSeq(b.data, 1, b.pos)
        after == IF b.type = "raw" THEN <<>> ELSE SubSeq(b.data, b.pos + k + 1, Len(b.data))
    IN  Body(b.type, b.inc, b.max, b.size, b.writable, kept \o taken \o after, b.pos + k)

\* What read_body gives out from the beginning to the end.
Content(b) == IF b.type = "file" THEN SubSeq(b.data, 1, b.size) ELSE b.data

Bodies == {NoBody} \cup
          [type : {"raw", "file"}, inc : BOOLEAN, max : Nat, size : Nat,
           writable : BOOLEAN, data : Seq(Bytes), pos : Nat]

\* The write position is inside the data, and the data within its bounds.
BodyOK(b) ==
    /\ b.pos <= Len(b.data)
    /\ b.type = "raw" /\ ~b.inc => Len(b.data) <= b.max
    /\ b.type = "file" => b.size <= Len(b.data)
=============================================================================
