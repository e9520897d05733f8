---------------------------- MODULE MCHttpParser ----------------------------
(***************************************************************************)
(* HttpParser for up to two messages on one connection.                    *)
(***************************************************************************)
EXTENDS HttpParser

Message(words, fields, len, body) ==
    [words |-> words, fields |-> fields, len |-> len, body |-> body]

A == Sym("byte", 1)
B == Sym("byte", 2)
Key == Sym("key", 0)
CR == Sym("CR", 0)
LF == Sym("LF", 0)

\* Without Content-Length, empty, in memory, too large for memory (AutoMax is
\* 2 here); bodies may contain what looks like the end of a line.
Good ==
    {Message(3, <<>>, -1, <<>>), Message(3, <<>>, 0, <<>>),
     Message(3, <<Key>>, 2, <<A, LF>>), Message(4, <<>>, 3, <<A, CR, B>>)}

Bad ==
    {Message(2, <<>>, 1, <<A>>), Message(3, <<Sym("junk", 0)>>, -1, <<>>)}

\* A section without Content-Length.
Section == {Message(3, <<Sym("range", 2)>>, -1, <<>>)}

AllMessages == Good \cup Bad \cup Section

\* A new file, a file replaced by a new one, one that cannot be opened, one
\* that is written over and one that cannot be written.
Files ==
    {[flags |-> {"CREATE"}, exists |-> FALSE, content |-> <<>>],
     [flags |-> {"CREATE_NEW"}, exists |-> TRUE, content |-> <<A, A, A, A>>],
     [flags |-> {}, exists |-> FALSE, content |-> <<>>],
     [flags |-> {"WRITE"}, exists |-> TRUE, content |-> <<A, A, A>>],
     [flags |-> {}, exists |-> TRUE, content |-> <<A, B>>]}
=============================================================================
