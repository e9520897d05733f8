----------------------------- MODULE HttpRange ------------------------------
(***************************************************************************)
(* struct HttpRange of hnw_http.h: [useStart, useEnd, start, end, total].  *)
(* Its arithmetic is that of std::uint64_t, whose modulus is Word.         *)
(***************************************************************************)
EXTENDS Integers

CONSTANT Word     \* 2^64

Ranges == [useStart : BOOLEAN, useEnd : BOOLEAN,
           start : 0..(Word - 1), end : 0..(Word - 1), total : 0..(Word - 1)]

SectionStart(r) == IF r.useStart THEN 0 ELSE r.start
SectionEnd(r) == IF r.useEnd THEN (r.total - 1) % Word ELSE r.end

SectionSize(r) ==
    IF r.total = 0 /\ r.useEnd THEN 0
    ELSE (SectionEnd(r) - SectionStart(r) + 1) % Word
=============================================================================
