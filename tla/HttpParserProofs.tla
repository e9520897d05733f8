-------------------------- MODULE HttpParserProofs --------------------------
(***************************************************************************)
(* What holds of HttpParser for all messages, of any number and size, and  *)
(* all ways to cut their symbols into chunks.                              *)
(***************************************************************************)
EXTENDS HttpParser, FiniteSetTheorems, TLAPS

----------------------------------------------------------------------------
(* Sequences                                                               *)

\* r is s followed by c.
Joins(r, s, c) ==
    /\ Len(s) \in Nat /\ Len(c) \in Nat /\ Len(r) = Len(s) + Len(c)
    /\ \A i \in 1..Len(s) : r[i] = s[i]
    /\ \A i \in 1..Len(c) : r[Len(s) + i] = c[i]

LEMMA ConcatFacts ==
    ASSUME NEW S, NEW s \in Seq(S), NEW c \in Seq(S)
    PROVE  s \o c \in Seq(S) /\ Joins(s \o c, s, c)
BY DEF Joins

LEMMA TailFacts ==
    ASSUME NEW S, NEW s \in Seq(S), s # <<>>
    PROVE  /\ Head(s) = s[1] /\ Head(s) \in S /\ Tail(s) \in Seq(S)
           /\ Len(s) \in Nat /\ Len(s) > 0 /\ Len(Tail(s)) = Len(s) - 1
           /\ \A i \in 1..Len(Tail(s)) : Tail(s)[i] = s[i + 1]
OBVIOUS

LEMMA SubSeqFacts ==
    ASSUME NEW S, NEW s \in Seq(S), NEW a \in Nat, NEW b \in Nat, a <= b, b <= Len(s)
    PROVE  /\ SubSeq(s, a + 1, b) \in Seq(S) /\ Len(SubSeq(s, a + 1, b)) = b - a
           /\ \A i \in 1..(b - a) : SubSeq(s, a + 1, b)[i] = s[a + i]
OBVIOUS

LEMMA PrefixFacts ==
    ASSUME NEW S, NEW s \in Seq(S), NEW b \in Nat, b <= Len(s)
    PROVE  /\ SubSeq(s, 1, b) \in Seq(S) /\ Len(SubSeq(s, 1, b)) = b
           /\ \A i \in 1..b : SubSeq(s, 1, b)[i] = s[i]
OBVIOUS

LEMMA SuffixFacts ==
    ASSUME NEW S, NEW s \in Seq(S), NEW a \in Nat, a <= Len(s)
    PROVE  /\ SubSeq(s, a + 1, Len(s)) \in Seq(S) /\ Len(SubSeq(s, a + 1, Len(s))) = Len(s) - a
           /\ \A i \in 1..(Len(s) - a) : SubSeq(s, a + 1, Len(s))[i] = s[a + i]
OBVIOUS

LEMMA SeqAt ==
    ASSUME NEW S, NEW s \in Seq(S), NEW i \in 1..Len(s)
    PROVE  s[i] \in S /\ i \in DOMAIN s
OBVIOUS

LEMMA IsASeq ==
    ASSUME NEW S, NEW n \in Nat, NEW f \in [1..n -> S]
    PROVE  f \in Seq(S) /\ Len(f) = n
OBVIOUS

LEMMA SeqSubset ==
    ASSUME NEW S, NEW R, S \subseteq R, NEW s \in Seq(S)
    PROVE  s \in Seq(R)
OBVIOUS

LEMMA SameSeq ==
    ASSUME NEW S, NEW s \in Seq(S), NEW r \in Seq(S), Len(s) = Len(r),
           \A i \in 1..Len(s) : s[i] = r[i]
    PROVE  s = r
OBVIOUS

----------------------------------------------------------------------------
(* The encoding of a message                                               *)

HeadLen(m) == m.words + 2 + 3 * Len(Texts(m)) + 2

LEMMA MessageFacts ==
    ASSUME NEW m \in Messages
    PROVE  /\ m.words \in Nat /\ m.len \in Nat \cup {-1} /\ m.body \in Seq(Bytes)
           /\ m.fields \in Seq([t : {"key", "range", "junk"}, n : Nat]) /\ Len(m.body) = Length(m)
BY ParserAssumption DEF Meaning

LEMMA LineFacts ==
    ASSUME NEW m \in Messages
    PROVE  /\ Line(m) \in Seq(Bytes) /\ Len(Line(m)) = m.words
           /\ \A i \in 1..m.words : Line(m)[i] = Sym("word", i)
<1>1. m.words \in Nat
  BY MessageFacts
<1>2. Line(m) \in [1..m.words -> Bytes]
  BY <1>1 DEF Line, Sym, Bytes
<1>3. Line(m) \in Seq(Bytes) /\ Len(Line(m)) = m.words
  BY <1>1, <1>2, IsASeq
<1> QED BY <1>3 DEF Line

\* The texts of head lines.
TextSyms == [t : {"key", "range", "junk", "len"}, n : Nat]

LEMMA TextsFacts ==
    ASSUME NEW m \in Messages
    PROVE  /\ Texts(m) \in Seq(TextSyms) /\ Len(m.fields) \in Nat
           /\ m.len < 0 => Len(Texts(m)) = Len(m.fields)
           /\ m.len >= 0 => /\ Len(Texts(m)) = Len(m.fields) + 1
                            /\ Texts(m)[Len(m.fields) + 1] = Sym("len", m.len)
           /\ \A i \in 1..Len(m.fields) : Texts(m)[i] = m.fields[i]
<1>1. m.fields \in Seq(TextSyms) /\ Len(m.fields) \in Nat
  <2>1. m.fields \in Seq([t : {"key", "range", "junk"}, n : Nat])
    BY MessageFacts
  <2>2. [t : {"key", "range", "junk"}, n : Nat] \subseteq TextSyms
    BY DEF TextSyms
  <2>3. m.fields \in Seq(TextSyms)
    BY <2>1, <2>2, SeqSubset
  <2> QED BY <2>3
<1>2. m.len \in Nat \cup {-1}
  BY MessageFacts
<1>3. CASE m.len < 0
  <2>1. LenField(m) = <<>>
    BY <1>3 DEF LenField
  <2>2. Texts(m) = m.fields
    BY <1>1, <2>1 DEF Texts
  <2> QED BY <1>1, <1>2, <1>3, <2>2
<1>4. CASE m.len >= 0
  <2>0. m.len \in Nat /\ ~(m.len < 0)
    BY <1>2, <1>4
  <2>a. LenField(m) = <<Sym("len", m.len)>>
    BY <2>0, Zenon DEF LenField
  <2>b. Sym("len", m.len) \in TextSyms
    BY <2>0 DEF Sym, TextSyms
  <2>1. LenField(m) = <<Sym("len", m.len)>> /\ Sym("len", m.len) \in TextSyms
    BY <2>a, <2>b
  <2>2. LenField(m) \in Seq(TextSyms) /\ Len(LenField(m)) = 1 /\ LenField(m)[1] = Sym("len", m.len)
    BY <2>1
  <2>3. /\ Texts(m) \in Seq(TextSyms) /\ Len(Texts(m)) = Len(m.fields) + Len(LenField(m))
        /\ \A i \in 1..Len(m.fields) : Texts(m)[i] = m.fields[i]
        /\ \A i \in 1..Len(LenField(m)) : Texts(m)[Len(m.fields) + i] = LenField(m)[i]
    <3>1. Texts(m) \in Seq(TextSyms) /\ Joins(Texts(m), m.fields, LenField(m))
      BY <1>1, <2>2, ConcatFacts DEF Texts
    <3> QED BY <3>1 DEF Joins
  <2>4. 1 \in 1..Len(LenField(m))
    BY <2>2
  <2> QED BY <1>1, <1>2, <1>4, <2>2, <2>3, <2>4
<1> QED BY <1>2, <1>3, <1>4

LEMMA FieldLinesFacts ==
    ASSUME NEW m \in Messages
    PROVE  /\ FieldLines(m) \in Seq(Bytes) /\ Len(FieldLines(m)) = 3 * Len(Texts(m))
           /\ \A f \in 0..(Len(Texts(m)) - 1) :
                 /\ FieldLines(m)[3 * f + 1] = Texts(m)[f + 1]
                 /\ FieldLines(m)[3 * f + 2] = Sym("CR", 0)
                 /\ FieldLines(m)[3 * f + 3] = Sym("LF", 0)
<1> DEFINE n == Len(Texts(m))
<1>0. TextSyms \subseteq Bytes
  BY DEF TextSyms, Bytes
<1>1. n \in Nat /\ 3 * n \in Nat /\ \A i \in 1..n : Texts(m)[i] \in Bytes
  <2>1. Texts(m) \in Seq(TextSyms)
    BY TextsFacts
  <2> QED BY <1>0, <2>1
<1>2. \A j \in 1..(3 * n) : j % 3 = 1 => (j + 2) \div 3 \in 1..n
  BY <1>1
<1>3. FieldLines(m) \in [1..(3 * n) -> Bytes]
  BY <1>1, <1>2 DEF FieldLines, Sym, Bytes
<1>4. FieldLines(m) \in Seq(Bytes) /\ Len(FieldLines(m)) = 3 * n
  BY <1>1, <1>3, IsASeq
<1>5. ASSUME NEW f \in 0..(n - 1)
      PROVE  /\ FieldLines(m)[3 * f + 1] = Texts(m)[f + 1]
             /\ FieldLines(m)[3 * f + 2] = Sym("CR", 0)
             /\ FieldLines(m)[3 * f + 3] = Sym("LF", 0)
  <2>1. /\ 3 * f + 1 \in 1..(3 * n) /\ 3 * f + 2 \in 1..(3 * n) /\ 3 * f + 3 \in 1..(3 * n)
    BY <1>1
  <2>2. /\ (3 * f + 1) % 3 = 1 /\ (3 * f + 2) % 3 = 2 /\ (3 * f + 3) % 3 = 0
        /\ ((3 * f + 1) + 2) \div 3 = f + 1
    BY <1>1
  <2> QED BY <2>1, <2>2 DEF FieldLines
<1> QED BY <1>4, <1>5

\* The symbols of a message: of its start line, its head lines and its body.
LEMMA EncodedFacts ==
    ASSUME NEW m \in Messages
    PROVE  LET w == m.words  n == Len(Texts(m))
           IN  /\ Encoded(m) \in Seq(Bytes)
               /\ HeadLen(m) \in Nat /\ Len(Encoded(m)) = HeadLen(m) + Len(m.body)
               /\ \A i \in 1..w : Encoded(m)[i] = Sym("word", i)
               /\ Encoded(m)[w + 1] = Sym("CR", 0) /\ Encoded(m)[w + 2] = Sym("LF", 0)
               /\ \A f \in 0..(n - 1) :
                     /\ Encoded(m)[w + 2 + 3 * f + 1] = Texts(m)[f + 1]
                     /\ Encoded(m)[w + 2 + 3 * f + 2] = Sym("CR", 0)
                     /\ Encoded(m)[w + 2 + 3 * f + 3] = Sym("LF", 0)
               /\ Encoded(m)[w + 2 + 3 * n + 1] = Sym("CR", 0)
               /\ Encoded(m)[w + 2 + 3 * n + 2] = Sym("LF", 0)
               /\ \A i \in 1..Len(m.body) : Encoded(m)[HeadLen(m) + i] = m.body[i]
<1> DEFINE w == m.words
           n == Len(Texts(m))
           a == Line(m) \o EndOfLine
           b == FieldLines(m) \o EndOfLine
           h == a \o b
<1>1. w \in Nat /\ n \in Nat /\ 3 * n \in Nat /\ m.body \in Seq(Bytes) /\ Len(m.body) \in Nat
  <2>1. Texts(m) \in Seq(TextSyms)
    BY TextsFacts
  <2> QED BY <2>1, MessageFacts
<1>2. /\ EndOfLine \in Seq(Bytes) /\ Len(EndOfLine) = 2
      /\ EndOfLine[1] = Sym("CR", 0) /\ EndOfLine[2] = Sym("LF", 0)
  BY DEF EndOfLine, Sym, Bytes
<1>a. a = Line(m) \o EndOfLine /\ b = FieldLines(m) \o EndOfLine /\ h = a \o b
  OBVIOUS
<1> HIDE DEF a, b, h
<1>3. /\ a \in Seq(Bytes) /\ Len(a) = w + 2 /\ \A i \in 1..w : a[i] = Sym("word", i)
      /\ a[w + 1] = Sym("CR", 0) /\ a[w + 2] = Sym("LF", 0)
  <2>1. /\ Line(m) \in Seq(Bytes) /\ Len(Line(m)) = w /\ \A i \in 1..w : Line(m)[i] = Sym("word", i)
    BY LineFacts
  <2>2. /\ a \in Seq(Bytes) /\ Len(a) = Len(Line(m)) + Len(EndOfLine)
        /\ \A i \in 1..Len(Line(m)) : a[i] = Line(m)[i]
        /\ \A i \in 1..Len(EndOfLine) : a[Len(Line(m)) + i] = EndOfLine[i]
    <3>1. a \in Seq(Bytes) /\ Joins(a, Line(m), EndOfLine)
      BY <1>a, <1>2, <2>1, ConcatFacts
    <3> QED BY <3>1 DEF Joins
  <2> QED BY <1>1, <1>2, <2>1, <2>2, SMTT(30)
<1>4. /\ b \in Seq(Bytes) /\ Len(b) = 3 * n + 2
      /\ \A i \in 1..(3 * n) : b[i] = FieldLines(m)[i]
      /\ b[3 * n + 1] = Sym("CR", 0) /\ b[3 * n + 2] = Sym("LF", 0)
  <2>1. FieldLines(m) \in Seq(Bytes) /\ Len(FieldLines(m)) = 3 * n
    BY FieldLinesFacts
  <2>2. /\ b \in Seq(Bytes) /\ Len(b) = Len(FieldLines(m)) + Len(EndOfLine)
        /\ \A i \in 1..Len(FieldLines(m)) : b[i] = FieldLines(m)[i]
        /\ \A i \in 1..Len(EndOfLine) : b[Len(FieldLines(m)) + i] = EndOfLine[i]
    <3>1. b \in Seq(Bytes) /\ Joins(b, FieldLines(m), EndOfLine)
      BY <1>a, <1>2, <2>1, ConcatFacts
    <3> QED BY <3>1 DEF Joins
  <2> QED BY <1>1, <1>2, <2>1, <2>2
<1> HIDE DEF w, n
<1>5. /\ h \in Seq(Bytes) /\ Len(h) = w + 2 + (3 * n + 2)
      /\ \A i \in 1..(w + 2) : h[i] = a[i]
      /\ \A i \in 1..(3 * n + 2) : h[w + 2 + i] = b[i]
  <2>1. /\ h \in Seq(Bytes) /\ Len(h) = Len(a) + Len(b)
        /\ \A i \in 1..Len(a) : h[i] = a[i]
        /\ \A i \in 1..Len(b) : h[Len(a) + i] = b[i]
    <3>1. h \in Seq(Bytes) /\ Joins(h, a, b)
      BY <1>a, <1>3, <1>4, ConcatFacts
    <3> QED BY <3>1 DEF Joins
  <2> QED BY <1>1, <1>3, <1>4, <2>1
<1>6. Encoded(m) = h \o m.body
  BY DEF Encoded, h, a, b
<1>7. HeadLen(m) \in Nat /\ HeadLen(m) = Len(h)
  BY <1>1, <1>5 DEF HeadLen, w, n
<1>8. /\ Encoded(m) \in Seq(Bytes) /\ Len(Encoded(m)) = Len(h) + Len(m.body)
      /\ \A i \in 1..Len(h) : Encoded(m)[i] = h[i]
      /\ \A i \in 1..Len(m.body) : Encoded(m)[Len(h) + i] = m.body[i]
  <2>1. Encoded(m) \in Seq(Bytes) /\ Joins(Encoded(m), h, m.body)
    BY <1>1, <1>5, <1>6, ConcatFacts
  <2> QED BY <2>1 DEF Joins
<1>9. ASSUME NEW i \in 1..(w + 2) PROVE Encoded(m)[i] = a[i]
  <2>1. i \in 1..Len(h)
    BY <1>1, <1>5
  <2> QED BY <2>1, <1>5, <1>8
<1>10. ASSUME NEW i \in 1..(3 * n + 2) PROVE Encoded(m)[w + 2 + i] = b[i]
  <2>1. w + 2 + i \in 1..Len(h)
    BY <1>1, <1>5
  <2> QED BY <2>1, <1>5, <1>8
<1>11. ASSUME NEW f \in 0..(n - 1)
       PROVE  /\ Encoded(m)[w + 2 + 3 * f + 1] = Texts(m)[f + 1]
              /\ Encoded(m)[w + 2 + 3 * f + 2] = Sym("CR", 0)
              /\ Encoded(m)[w + 2 + 3 * f + 3] = Sym("LF", 0)
  <2>1. ASSUME NEW r \in 1..3 PROVE Encoded(m)[w + 2 + 3 * f + r] = FieldLines(m)[3 * f + r]
    <3>1. 3 * f + r \in 1..(3 * n) /\ w + 2 + 3 * f + r = w + 2 + (3 * f + r)
      BY <1>1
    <3>2. 3 * f + r \in 1..(3 * n + 2)
      BY <1>1, <3>1
    <3> QED BY <3>1, <3>2, <1>4, <1>10
  <2>2. /\ FieldLines(m)[3 * f + 1] = Texts(m)[f + 1]
        /\ FieldLines(m)[3 * f + 2] = Sym("CR", 0)
        /\ FieldLines(m)[3 * f + 3] = Sym("LF", 0)
    BY FieldLinesFacts DEF n
  <2> QED BY <2>1, <2>2
<1>12. Encoded(m)[w + 2 + 3 * n + 1] = Sym("CR", 0) /\ Encoded(m)[w + 2 + 3 * n + 2] = Sym("LF", 0)
  <2>1. /\ 3 * n + 1 \in 1..(3 * n + 2) /\ 3 * n + 2 \in 1..(3 * n + 2)
        /\ w + 2 + 3 * n + 1 = w + 2 + (3 * n + 1) /\ w + 2 + 3 * n + 2 = w + 2 + (3 * n + 2)
    BY <1>1
  <2> QED BY <2>1, <1>4, <1>10
<1>13. \A i \in 1..w : Encoded(m)[i] = Sym("word", i)
  BY <1>1, <1>3, <1>9
<1>14. Encoded(m)[w + 1] = Sym("CR", 0) /\ Encoded(m)[w + 2] = Sym("LF", 0)
  BY <1>1, <1>3, <1>9
<1> QED BY <1>7, <1>8, <1>11, <1>12, <1>13, <1>14 DEF w, n

----------------------------------------------------------------------------
(* Bodies                                                                  *)

RealBodies ==
    [type : {"raw", "file"}, inc : BOOLEAN, max : Nat, size : Nat,
     writable : BOOLEAN, data : Seq(Bytes), pos : Nat]

\* What write_body takes: no more than it is given, and than there is room for.
LEMMA WriteLenFacts ==
    ASSUME NEW b \in RealBodies, BodyOK(b), NEW n \in Nat
    PROVE  /\ WriteLen(b, n) \in 0..n
           /\ b.type = "raw" /\ ~b.inc =>
                 /\ b.pos + WriteLen(b, n) <= b.max
                 /\ WriteLen(b, n) < n => b.pos + WriteLen(b, n) = b.max
           /\ b.type = "file" => b.pos + WriteLen(b, n) <= Len(b.data)
           /\ b.type = "file" /\ b.writable /\ Len(b.data) = b.size /\ WriteLen(b, n) < n =>
                 b.pos + WriteLen(b, n) = b.size
<1>1. /\ b.pos \in Nat /\ b.max \in Nat /\ b.size \in Nat /\ b.type \in {"raw", "file"}
      /\ Len(b.data) \in Nat /\ b.pos <= Len(b.data)
  BY DEF RealBodies, BodyOK
<1>2. CASE b.type = "raw" /\ b.inc
  BY <1>1, <1>2 DEF WriteLen
<1>3. CASE b.type = "raw" /\ ~b.inc
  <2>1. b.pos <= b.max
    BY <1>1, <1>3 DEF BodyOK
  <2>2. WriteLen(b, n) = IF b.pos + n >= b.max THEN b.max - b.pos ELSE n
    BY <1>3 DEF WriteLen
  <2> QED BY <1>1, <1>3, <2>1, <2>2
<1>4. CASE b.type = "file"
  <2>1. b.size <= Len(b.data)
    BY <1>1, <1>4 DEF BodyOK
  <2>2. WriteLen(b, n) = IF ~b.writable \/ b.pos >= b.size THEN 0
                         ELSE IF b.pos + n >= Len(b.data) THEN b.size - b.pos ELSE n
    BY <1>4 DEF WriteLen
  <2> QED BY <1>1, <1>4, <2>1, <2>2
<1> QED BY <1>1, <1>2, <1>3, <1>4

\* write_body puts what it takes after the bytes already written; a file keeps
\* its length.
LEMMA WriteBodyFacts ==
    ASSUME NEW b \in RealBodies, BodyOK(b), NEW s \in Seq(Bytes)
    PROVE  LET k == WriteLen(b, Len(s))
               w == WriteBody(b, s)
           IN  /\ w \in RealBodies /\ BodyOK(w)
               /\ w.type = b.type /\ w.inc = b.inc /\ w.max = b.max /\ w.size = b.size
               /\ w.writable = b.writable /\ w.pos = b.pos + k
               /\ b.type = "raw" => Len(w.data) = w.pos
               /\ b.type = "file" => Len(w.data) = Len(b.data)
               /\ \A i \in 1..b.pos : w.data[i] = b.data[i]
               /\ \A i \in 1..k : w.data[b.pos + i] = s[i]
<1> DEFINE k == WriteLen(b, Len(s))
           w == WriteBody(b, s)
           taken == SubSeq(s, 1, k)
           kept == SubSeq(b.data, 1, b.pos)
           after == IF b.type = "raw" THEN <<>> ELSE SubSeq(b.data, b.pos + k + 1, Len(b.data))
           start == kept \o taken
           all == start \o after
<1>1. /\ b.data \in Seq(Bytes) /\ b.pos \in Nat /\ b.pos <= Len(b.data) /\ b.max \in Nat
      /\ b.size \in Nat /\ b.type \in {"raw", "file"} /\ b.inc \in BOOLEAN
      /\ b.writable \in BOOLEAN /\ Len(s) \in Nat /\ Len(b.data) \in Nat
  BY DEF RealBodies, BodyOK
<1>2. k \in 0..Len(s) /\ (b.type = "file" => b.pos + k <= Len(b.data))
  BY <1>1, WriteLenFacts DEF BodyOK
<1> HIDE DEF k
<1>3. taken \in Seq(Bytes) /\ Len(taken) = k /\ \A i \in 1..k : taken[i] = s[i]
  BY <1>2, PrefixFacts
<1>4. kept \in Seq(Bytes) /\ Len(kept) = b.pos /\ \A i \in 1..b.pos : kept[i] = b.data[i]
  BY <1>1, PrefixFacts
<1>5. /\ after \in Seq(Bytes)
      /\ b.type = "raw" => Len(after) = 0
      /\ b.type = "file" => Len(after) = Len(b.data) - (b.pos + k)
  <2>1. CASE b.type = "raw"
    BY <2>1
  <2>2. CASE b.type = "file"
    <3>1. after = SubSeq(b.data, (b.pos + k) + 1, Len(b.data))
      BY <2>2
    <3>2. b.pos + k \in Nat /\ b.pos + k <= Len(b.data)
      BY <1>1, <1>2, <2>2
    <3>3. after \in Seq(Bytes) /\ Len(after) = Len(b.data) - (b.pos + k)
      <4> HIDE DEF after
      <4> QED BY <3>1, <3>2, <1>1, SuffixFacts, Zenon
    <3> QED BY <3>3, <2>2
  <2> QED BY <1>1, <2>1, <2>2
<1> HIDE DEF taken, kept, after
<1>6. start \in Seq(Bytes) /\ Joins(start, kept, taken)
  BY <1>3, <1>4, ConcatFacts
<1> HIDE DEF start
<1>7. all \in Seq(Bytes) /\ Joins(all, start, after)
  BY <1>5, <1>6, ConcatFacts
<1> HIDE DEF all
<1>8. /\ Len(start) = b.pos + k /\ \A i \in 1..b.pos : start[i] = b.data[i]
      /\ \A i \in 1..k : start[b.pos + i] = s[i]
  BY <1>3, <1>4, <1>6 DEF Joins
<1>9. Len(all) = b.pos + k + Len(after) /\ Len(after) \in Nat
  BY <1>7, <1>8 DEF Joins
<1>10. \A i \in 1..b.pos : all[i] = b.data[i]
  <2> TAKE i \in 1..b.pos
  <2>1. i \in 1..Len(start)
    BY <1>1, <1>2, <1>8
  <2> QED BY <2>1, <1>7, <1>8 DEF Joins
<1>11. \A i \in 1..k : all[b.pos + i] = s[i]
  <2> TAKE i \in 1..k
  <2>1. b.pos + i \in 1..Len(start)
    BY <1>1, <1>2, <1>8
  <2> QED BY <2>1, <1>7, <1>8 DEF Joins
<1>12. w = Body(b.type, b.inc, b.max, b.size, b.writable, all, b.pos + k)
  BY DEF WriteBody, all, start, taken, kept, after, k
<1>13. /\ w.type = b.type /\ w.inc = b.inc /\ w.max = b.max /\ w.size = b.size
       /\ w.writable = b.writable /\ w.data = all /\ w.pos = b.pos + k
  BY <1>12 DEF Body
<1>14. w \in RealBodies
  BY <1>1, <1>2, <1>7, <1>12 DEF Body, RealBodies
<1> HIDE DEF w
<1>15. b.type = "raw" => Len(w.data) = w.pos
  BY <1>1, <1>2, <1>5, <1>9, <1>13
<1>16. b.type = "file" => Len(w.data) = Len(b.data)
  BY <1>1, <1>2, <1>5, <1>9, <1>13
<1>17. BodyOK(w)
  <2>1. w.pos <= Len(w.data)
    BY <1>1, <1>2, <1>9, <1>13
  <2>2. w.type = "raw" /\ ~w.inc => Len(w.data) <= w.max
    BY <1>1, <1>13, <1>15, WriteLenFacts DEF k
  <2>3. w.type = "file" => w.size <= Len(w.data)
    BY <1>13, <1>16 DEF BodyOK
  <2> QED BY <2>1, <2>2, <2>3 DEF BodyOK
<1> QED BY <1>10, <1>11, <1>13, <1>14, <1>15, <1>16, <1>17 DEF w, k

\* The bodies FileBodyImpl makes: nothing, or a file written from its start; a
\* new file is as long as was asked for.
LEMMA FileBodyFacts ==
    ASSUME NEW f, f.content \in Seq(Bytes), NEW total \in Nat, NEW n \in Nat \cup {-1}, NEW c
    PROVE  LET b == FileBody(f, total, n, c)
           IN  /\ b \in Bodies /\ BodyOK(b)
               /\ b # NoBody =>
                     /\ b.type = "file" /\ b.pos = 0 /\ b.size # 0
                     /\ (~f.exists \/ "CREATE_NEW" \in f.flags) /\ n = -1 =>
                           b.writable /\ b.size = total /\ Len(b.data) = total
               /\ ~f.exists /\ Creates(f) /\ c /\ total # 0 /\ n = -1 => b # NoBody
<1> DEFINE new == ~f.exists \/ "CREATE_NEW" \in f.flags
           content == IF new THEN NullFile(total) ELSE f.content
           size == IF n = -1 THEN Len(content) ELSE n
           refused == (~f.exists /\ ~Creates(f)) \/ (new /\ ~c) \/ size \notin 1..Len(content)
           file == Body("file", FALSE, 0, size, Creates(f) \/ "WRITE" \in f.flags, content, 0)
           b == FileBody(f, total, n, c)
<1>1. NullFile(total) \in Seq(Bytes) /\ Len(NullFile(total)) = total
  <2>1. NullFile(total) \in [1..total -> Bytes]
    BY DEF NullFile, Zero, Bytes
  <2> QED BY <2>1, IsASeq
<1>2. content \in Seq(Bytes) /\ Len(content) \in Nat /\ (new => Len(content) = total)
  BY <1>1
<1>3. new /\ ~(~f.exists /\ ~Creates(f)) => Creates(f)
  BY DEF Creates
<1>4. b = IF refused THEN NoBody ELSE file
  BY DEF FileBody
<1>5. NoBody \in Bodies /\ BodyOK(NoBody)
  BY DEF Bodies, NoBody, Body, BodyOK
<1>6. /\ ~f.exists \/ "CREATE_NEW" \in f.flags <=> new
      /\ n = -1 => size = Len(content)
      /\ refused <=> (~f.exists /\ ~Creates(f)) \/ (new /\ ~c) \/ size \notin 1..Len(content)
  OBVIOUS
<1> HIDE DEF content, new, size, b
<1>7. /\ file.type = "file" /\ file.pos = 0 /\ file.size = size /\ file.data = content
      /\ file.writable = (Creates(f) \/ "WRITE" \in f.flags)
  BY DEF Body
<1>8. file # NoBody
  BY <1>7 DEF NoBody, Body
<1>9. CASE refused
  <2>1. b = NoBody
    BY <1>4, <1>9
  <2>2. ~(~f.exists /\ Creates(f) /\ c /\ total # 0 /\ n = -1)
    BY <1>2, <1>6, <1>9
  <2> QED BY <1>5, <2>1, <2>2 DEF b
<1>10. CASE ~refused
  <2>1. b = file /\ size \in 1..Len(content) /\ (new => Creates(f))
    BY <1>3, <1>4, <1>6, <1>10
  <2>2. (Creates(f) \/ "WRITE" \in f.flags) \in BOOLEAN /\ size \in Nat /\ size # 0
    BY <1>2, <2>1 DEF Creates
  <2>3. file \in Bodies
    BY <1>2, <2>2 DEF Body, Bodies
  <2> HIDE DEF file, refused
  <2>4. BodyOK(file)
    BY <1>2, <1>7, <2>1 DEF BodyOK
  <2>5. new /\ n = -1 => file.writable /\ file.size = total /\ Len(file.data) = total
    BY <1>2, <1>6, <1>7, <2>1
  <2> QED BY <1>6, <1>7, <1>8, <2>1, <2>2, <2>3, <2>4, <2>5 DEF b
<1> QED BY <1>9, <1>10

----------------------------------------------------------------------------
(* Type correctness                                                        *)

GoodBodies == {b \in Bodies : BodyOK(b)}

LEMMA BodyKinds ==
    /\ NoBody \in GoodBodies /\ GrowingBody \in GoodBodies
    /\ \A n \in Nat : RawBody(n) \in GoodBodies
    /\ \A b \in GoodBodies : b = NoBody \/ (b \in RealBodies /\ BodyOK(b))
    /\ \A b \in RealBodies : BodyOK(b) => b \in GoodBodies
<1>1. NoBody \in GoodBodies
  BY DEF GoodBodies, Bodies, BodyOK, NoBody, Body
<1>2. GrowingBody \in GoodBodies
  BY DEF GoodBodies, Bodies, BodyOK, GrowingBody, Body
<1>3. \A n \in Nat : RawBody(n) \in GoodBodies
  BY DEF GoodBodies, Bodies, BodyOK, RawBody, Body
<1> QED BY <1>1, <1>2, <1>3 DEF GoodBodies, Bodies, RealBodies

\* write_body keeps a body within its bounds.
LEMMA WriteBodyOK ==
    ASSUME NEW b \in GoodBodies, NEW s \in Seq(Bytes)
    PROVE  WriteBody(b, s) \in GoodBodies /\ WriteLen(b, Len(s)) \in 0..Len(s)
<1>1. CASE b = NoBody
  <2>1. WriteLen(NoBody, Len(s)) = 0
    BY DEF WriteLen, NoBody, Body
  <2>2. SubSeq(s, 1, 0) = <<>> /\ SubSeq(<<>>, 1, 0) = <<>> /\ <<>> \o <<>> = <<>>
    OBVIOUS
  <2>3. WriteBody(NoBody, s) = NoBody
    <3>1. /\ NoBody.type = "none" /\ NoBody.inc = FALSE /\ NoBody.max = 0 /\ NoBody.size = 0
          /\ NoBody.writable = FALSE /\ NoBody.data = <<>> /\ NoBody.pos = 0
      BY DEF NoBody, Body
    <3>2. /\ 0 + 0 = 0 /\ Len(<<>>) = 0 /\ 0 + 0 + 1 = 1 /\ "none" # "raw"
      OBVIOUS
    <3>3. WriteBody(NoBody, s) = Body("none", FALSE, 0, 0, FALSE, (<<>> \o <<>>) \o <<>>, 0)
      BY <2>1, <2>2, <3>1, <3>2, Zenon DEF WriteBody
    <3> QED BY <2>2, <3>3, Zenon DEF NoBody
  <2> QED BY <1>1, <2>1, <2>3
<1>2. CASE b \in RealBodies /\ BodyOK(b)
  <2>1. WriteBody(b, s) \in RealBodies /\ BodyOK(WriteBody(b, s))
    BY <1>2, WriteBodyFacts
  <2>2. WriteLen(b, Len(s)) \in 0..Len(s)
    BY <1>2, WriteLenFacts
  <2> QED BY <2>1, <2>2, BodyKinds
<1> QED BY <1>1, <1>2, BodyKinds

LEMMA ParsedFacts ==
    ASSUME NEW m \in Parsed
    PROVE  /\ m.line \in Seq(Bytes) /\ m.fields \in Seq(Seq(Bytes)) /\ m.len \in Nat \cup {-1}
           /\ m.body \in GoodBodies
           /\ \A b \in GoodBodies : [m EXCEPT !.body = b] \in Parsed
           /\ \A l \in Seq(Bytes) : [m EXCEPT !.line = l] \in Parsed /\ AddHead(m, l) \in Parsed
<1>1. /\ m.line \in Seq(Bytes) /\ m.fields \in Seq(Seq(Bytes)) /\ m.len \in Nat \cup {-1}
      /\ m.body \in GoodBodies
  BY DEF Parsed, GoodBodies
<1>2. ASSUME NEW b \in GoodBodies PROVE [m EXCEPT !.body = b] \in Parsed
  BY DEF Parsed, GoodBodies
<1>3. ASSUME NEW l \in Seq(Bytes) PROVE [m EXCEPT !.line = l] \in Parsed
  BY DEF Parsed
<1>4. ASSUME NEW l \in Seq(Bytes) PROVE AddHead(m, l) \in Parsed
  <2>1. CASE Len(l) = 1 /\ l[1].t = "len"
    <3>1. l[1] \in Bytes
      BY <2>1
    <3>2. l[1].n \in Nat
      BY <3>1 DEF Bytes
    <3>3. AddHead(m, l) = [m EXCEPT !.len = l[1].n]
      BY <2>1 DEF AddHead
    <3> QED BY <3>2, <3>3 DEF Parsed
  <2>2. CASE ~(Len(l) = 1 /\ l[1].t = "len")
    <3>1. AddHead(m, l) = [m EXCEPT !.fields = Append(m.fields, l)]
      BY <2>2 DEF AddHead
    <3>2. Append(m.fields, l) \in Seq(Seq(Bytes))
      BY <1>1
    <3> QED BY <3>1, <3>2 DEF Parsed
  <2> QED BY <2>1, <2>2
<1> QED BY <1>1, <1>2, <1>3, <1>4

LEMMA FreshParsed ==
    ASSUME NEW k \in Kinds
    PROVE  Fresh(k) \in Parsed
BY BodyKinds DEF Fresh, Parsed, GoodBodies

\* What the body can be at the end of the head.
LEMMA EndHeadBodies ==
    ASSUME TypeOK
    PROVE  Length(tmp) \in Nat /\ Offered \subseteq GoodBodies /\ AutoBody \in GoodBodies
<1>1. tmp.len \in Nat \cup {-1} /\ tmp.body \in GoodBodies
  BY ParsedFacts DEF TypeOK
<1>2. Length(tmp) \in Nat
  BY <1>1 DEF Length
<1>3. ASSUME NEW f, f.content \in Seq(Bytes), NEW total \in Nat, NEW n \in Nat \cup {-1}
      PROVE  FileBody(f, total, n, creates) \in GoodBodies
  BY <1>3, FileBodyFacts DEF GoodBodies
<1>4. ASSUME NEW f \in ToFiles
      PROVE  RecvFile(f) \subseteq GoodBodies
  <2>1. f.content \in Seq(Bytes)
    BY ParserAssumption
  <2>2. CASE tmp.len >= 0
    <3>1. tmp.len \in Nat
      BY <1>1, <2>2
    <3>2. FileBody(f, tmp.len, -1, creates) \in GoodBodies
      BY <2>1, <3>1, <1>3
    <3> QED BY <2>2, <3>2 DEF RecvFile
  <2>3. CASE ~(tmp.len >= 0) /\ RangeAt(tmp) = {}
    BY <2>3, <1>1 DEF RecvFile
  <2>4. CASE ~(tmp.len >= 0) /\ RangeAt(tmp) # {}
    <3> DEFINE total == IF kind = "request" THEN 0 ELSE Total
    <3>1. total \in Nat
      BY ParserAssumption
    <3>2. ASSUME NEW i \in RangeAt(tmp) PROVE tmp.fields[i][1].n \in Nat
      <4>1. tmp.fields \in Seq(Seq(Bytes))
        BY ParsedFacts DEF TypeOK
      <4>2. i \in DOMAIN tmp.fields /\ Len(tmp.fields[i]) = 1
        BY DEF RangeAt, IsRange
      <4>3. tmp.fields[i] \in Seq(Bytes)
        BY <4>1, <4>2
      <4>4. tmp.fields[i][1] \in Bytes
        BY <4>2, <4>3
      <4> QED BY <4>4 DEF Bytes
    <3> HIDE DEF total
    <3>3. ASSUME NEW i \in RangeAt(tmp)
          PROVE  FileBody(f, total, tmp.fields[i][1].n, creates) \in GoodBodies
      BY <1>3, <2>1, <3>1, <3>2
    <3>4. RecvFile(f) = {FileBody(f, total, tmp.fields[i][1].n, creates) : i \in RangeAt(tmp)}
      BY <2>4, Zenon DEF RecvFile, total
    <3> QED BY <3>3, <3>4
  <2> QED BY <2>2, <2>3, <2>4
<1>5. Offered \subseteq GoodBodies
  BY <1>1, <1>4 DEF Offered
<1>6. AutoBody \in GoodBodies
  <2> DEFINE f == [flags |-> {"CREATE", "DELETE"}, exists |-> FALSE, content |-> <<>>]
  <2>1. f.content \in Seq(Bytes)
    OBVIOUS
  <2>2. FileBody(f, Length(tmp), -1, creates) \in GoodBodies
    BY <1>2, <1>3, <2>1
  <2>3. RawBody(Length(tmp)) \in GoodBodies
    BY <1>2, BodyKinds
  <2> QED BY <2>2, <2>3, BodyKinds DEF AutoBody
<1> QED BY <1>2, <1>5, <1>6

\* A line of three words has three symbols to keep.
LEMMA KeptLine ==
    ASSUME NEW line \in Seq(Bytes), ~(Words(line) < 3)
    PROVE  FirstThree(line) \in Seq(Bytes)
<1> DEFINE W == {i \in DOMAIN line : line[i].t = "word"}
<1>1. Len(line) \in Nat /\ DOMAIN line = 1..Len(line)
  OBVIOUS
<1>2. IsFiniteSet(1..Len(line)) /\ Cardinality(1..Len(line)) = Len(line)
  BY <1>1, FS_Interval, SMTT(30)
<1>3. W \subseteq 1..Len(line)
  BY <1>1
<1>4. Cardinality(W) \in Nat /\ Cardinality(W) <= Len(line)
  <2>1. IsFiniteSet(W) /\ Cardinality(W) <= Cardinality(1..Len(line))
    BY <1>2, <1>3, FS_Subset
  <2> QED BY <1>2, <2>1, FS_CardinalityType
<1>5. 3 <= Len(line)
  BY <1>1, <1>4 DEF Words
<1> QED BY <1>5, PrefixFacts DEF FirstThree

LEMMA TypeStep ==
    ASSUME TypeOK, [Next]_vars
    PROVE  TypeOK'
<1> USE DEF TypeOK
<1>0. /\ kind \in Kinds /\ sent \in Seq(Messages) /\ stream \in Seq(Bytes) /\ read \in 0..Len(stream)
      /\ chunk \in Seq(Bytes) /\ cache \in Seq(Bytes) /\ tmp \in Parsed /\ got \in Seq(Parsed)
      /\ broken \in Nat /\ Len(stream) \in Nat /\ creates \in BOOLEAN /\ misfit \in BOOLEAN
  OBVIOUS
<1>a. chunk # <<>> => Tail(chunk) \in Seq(Bytes) /\ Head(chunk) \in Bytes
  BY <1>0, TailFacts
<1>b. Fresh(kind) \in Parsed
  BY <1>0, FreshParsed
<1>c. ASSUME Fail PROVE /\ chunk' \in Seq(Bytes) /\ broken' \in Nat /\ status' = status /\ cache' = cache
                        /\ tmp' = tmp /\ got' = got /\ misfit' = misfit
  BY <1>c, <1>0 DEF Fail, Breaks
<1>d. ASSUME NEW m \in Parsed, Push(m)
      PROVE  /\ got' \in Seq(Parsed) /\ status' = "START_LINE" /\ cache' = <<>> /\ tmp' \in Parsed
  BY <1>d, <1>0, <1>b DEF Push
<1>e. <<>> \in Seq(Bytes)
  OBVIOUS
<1>1. ASSUME NEW m \in Messages, PeerSends(m) PROVE TypeOK'
  <2>1. Encoded(m) \in Seq(Bytes)
    BY EncodedFacts
  <2>2. stream' \in Seq(Bytes) /\ Joins(stream', stream, Encoded(m))
    BY <1>0, <1>1, <2>1, ConcatFacts DEF PeerSends
  <2>3. Len(stream') >= Len(stream) /\ Len(stream') \in Nat
    BY <1>0, <2>1, <2>2 DEF Joins
  <2>4. sent' \in Seq(Messages)
    BY <1>0, <1>1 DEF PeerSends
  <2> QED BY <1>0, <1>1, <2>2, <2>3, <2>4 DEF PeerSends
<1>2. ASSUME NEW n \in 1..Len(stream), Arrive(n) PROVE TypeOK'
  <2>1. read + n \in Nat /\ read \in Nat /\ read <= read + n /\ read + n <= Len(stream)
    BY <1>0, <1>2 DEF Arrive
  <2>2. SubSeq(stream, read + 1, read + n) \in Seq(Bytes)
    BY <1>0, <2>1, SubSeqFacts, Zenon
  <2> QED BY <1>0, <1>2, <2>1, <2>2 DEF Arrive
<1>3. CASE SkipCR
  BY <1>0, <1>3, <1>a DEF SkipCR, NextIs, peerVars
<1>4. CASE Collect
  <2>1. Append(cache, Head(chunk)) \in Seq(Bytes)
    BY <1>0, <1>4, <1>a DEF Collect
  <2> QED BY <1>0, <1>4, <1>a, <2>1 DEF Collect, peerVars
<1>5. CASE EndStartLine
  <2>1. CASE Words(cache) < 3
    BY <1>0, <1>5, <1>c, <2>1 DEF EndStartLine, peerVars
  <2>2. CASE ~(Words(cache) < 3)
    <3>1. [tmp EXCEPT !.line = FirstThree(cache)] \in Parsed
      BY <1>0, <2>2, KeptLine, ParsedFacts
    <3>2. /\ tmp' = [tmp EXCEPT !.line = FirstThree(cache)] /\ status' = "HEAD" /\ cache' = <<>>
          /\ chunk' = Tail(chunk) /\ chunk # <<>> /\ UNCHANGED <<peerVars, got, broken, misfit>>
      BY <1>5, <2>2 DEF EndStartLine, NextIs
    <3> QED BY <1>0, <1>a, <1>e, <3>1, <3>2 DEF peerVars
  <2> QED BY <2>1, <2>2
<1>6. CASE EndField
  <2>1. CASE HasSeparator(cache)
    <3>1. AddHead(tmp, cache) \in Parsed
      BY <1>0, ParsedFacts
    <3>2. /\ tmp' = AddHead(tmp, cache) /\ cache' = <<>> /\ chunk' = Tail(chunk) /\ chunk # <<>>
          /\ UNCHANGED <<peerVars, status, got, broken, misfit>>
      BY <1>6, <2>1 DEF EndField, NextIs
    <3> QED BY <1>0, <1>a, <1>e, <3>1, <3>2 DEF peerVars
  <2>2. CASE ~HasSeparator(cache)
    BY <1>0, <1>6, <1>c, <2>2 DEF EndField, peerVars
  <2> QED BY <2>1, <2>2
<1>7. CASE EndHead
  <2>1. PICK offered \in Offered :
          LET body == IF offered = NoBody THEN AutoBody ELSE offered
              m == [tmp EXCEPT !.body = body]
          IN  IF body = NoBody THEN Fail
              ELSE /\ chunk' = Tail(chunk)
                   /\ IF IsComplete(body)
                      THEN Push(m)
                      ELSE tmp' = m /\ status' = "BODY" /\ UNCHANGED <<cache, got>>
                   /\ IF Fits(body, Length(tmp))
                      THEN UNCHANGED <<broken, misfit>>
                      ELSE Breaks /\ misfit' = TRUE
    BY <1>7, Zenon DEF EndHead
  <2> DEFINE body == IF offered = NoBody THEN AutoBody ELSE offered
             m == [tmp EXCEPT !.body = body]
  <2>2. body \in GoodBodies
    BY EndHeadBodies
  <2>3. m \in Parsed
    BY <1>0, <2>2, ParsedFacts
  <2>4. UNCHANGED peerVars /\ chunk # <<>>
    BY <1>7 DEF EndHead, NextIs
  <2> HIDE DEF body, m
  <2>5. \/ Fail
        \/ /\ chunk' = Tail(chunk)
           /\ UNCHANGED <<broken, misfit>> \/ (Breaks /\ misfit' = TRUE)
           /\ Push(m) \/ (tmp' = m /\ status' = "BODY" /\ UNCHANGED <<cache, got>>)
    BY <2>1 DEF m, body
  <2>a. UNCHANGED <<broken, misfit>> \/ (Breaks /\ misfit' = TRUE) =>
           broken' \in Nat /\ misfit' \in BOOLEAN
    <3>1. Len(got) + 1 \in Nat
      BY <1>0
    <3>2. Breaks => broken' \in Nat
      BY <1>0, <3>1 DEF Breaks
    <3> QED BY <1>0, <3>2
  <2>6. CASE Fail
    BY <1>0, <1>c, <2>4, <2>6 DEF peerVars
  <2>7. CASE chunk' = Tail(chunk) /\ Push(m) /\ broken' \in Nat /\ misfit' \in BOOLEAN
    BY <1>0, <1>a, <1>d, <1>e, <2>3, <2>4, <2>7 DEF peerVars
  <2>8. CASE /\ chunk' = Tail(chunk) /\ tmp' = m /\ status' = "BODY" /\ UNCHANGED <<cache, got>>
             /\ broken' \in Nat /\ misfit' \in BOOLEAN
    BY <1>0, <1>a, <2>3, <2>4, <2>8 DEF peerVars
  <2> QED BY <2>5, <2>6, <2>7, <2>8, <2>a
<1>8. CASE OnBody
  <2> DEFINE body == WriteBody(tmp.body, chunk)
             m == [tmp EXCEPT !.body = body]
             k == WriteLen(tmp.body, Len(chunk))
  <2>1. body \in GoodBodies /\ k \in 0..Len(chunk)
    BY <1>0, ParsedFacts, WriteBodyOK
  <2>2. m \in Parsed
    BY <1>0, <2>1, ParsedFacts
  <2> HIDE DEF body, k
  <2>3. k \in Nat /\ k <= Len(chunk)
    BY <1>0, <2>1
  <2>4. SubSeq(chunk, k + 1, Len(chunk)) \in Seq(Bytes)
    BY <1>0, <2>3, SuffixFacts, Zenon
  <2>5. /\ UNCHANGED <<peerVars, broken, misfit>> /\ chunk' = SubSeq(chunk, k + 1, Len(chunk))
        /\ Push(m) \/ (tmp' = m /\ UNCHANGED <<status, cache, got>>)
    BY <1>8 DEF OnBody, m, body, k
  <2> HIDE DEF m
  <2>6. CASE Push(m)
    BY <1>0, <1>d, <1>e, <2>2, <2>4, <2>5, <2>6 DEF peerVars
  <2>7. CASE tmp' = m /\ UNCHANGED <<status, cache, got>>
    BY <1>0, <2>2, <2>4, <2>5, <2>7 DEF peerVars
  <2> QED BY <2>5, <2>6, <2>7
<1>9. CASE UNCHANGED vars
  BY <1>0, <1>9 DEF vars
<1> QED BY <1>1, <1>2, <1>3, <1>4, <1>5, <1>6, <1>7, <1>8, <1>9 DEF Next, InputData

LEMMA InitType ==
    ASSUME Init
    PROVE  TypeOK
<1>1. /\ kind \in Kinds /\ creates \in BOOLEAN /\ misfit = FALSE /\ tmp = Fresh(kind)
      /\ sent = <<>> /\ stream = <<>> /\ read = 0 /\ chunk = <<>> /\ cache = <<>>
      /\ status = "START_LINE" /\ got = <<>> /\ broken = 0
  BY DEF Init
<1>2. tmp \in Parsed
  BY <1>1, FreshParsed
<1>3. /\ sent \in Seq(Messages) /\ stream \in Seq(Bytes) /\ read \in 0..Len(stream)
      /\ chunk \in Seq(Bytes) /\ cache \in Seq(Bytes) /\ got \in Seq(Parsed)
  BY <1>1
<1>4. misfit \in BOOLEAN
  BY <1>1
<1> QED BY <1>1, <1>2, <1>3, <1>4, Zenon DEF TypeOK

\* Every value stays in its type; above all, no body gets more bytes than its
\* memory or its file has (write_body_cb), whatever the input is and also after
\* an error.
THEOREM ParserTypeCorrect == Spec => []TypeOK
<1>1. Init => TypeOK
  BY InitType
<1>2. TypeOK /\ [Next]_vars => TypeOK'
  BY TypeStep
<1> QED BY <1>1, <1>2, PTL DEF Spec

----------------------------------------------------------------------------
(* The inductive invariant                                                 *)

\* What may break the reading of m.
MayBreak(m) == Refusable(m) \/ Misfittable(m)

\* The message m is in the stream after its first `base' symbols.
InStream(m, base) ==
    /\ base + Len(Encoded(m)) <= Len(stream)
    /\ \A j \in 1..Len(Encoded(m)) : stream[base + j] = Encoded(m)[j]

\* The messages sent make up the stream: the k-th ends at ends[k].
Laid(ends) ==
    /\ ends[0] = 0 /\ ends[Len(sent)] = Len(stream)
    /\ \A k \in 1..Len(sent) :
          /\ ends[k] = ends[k - 1] + Len(Encoded(sent[k]))
          /\ InStream(sent[k], ends[k - 1])

\* How many symbols input_data is through with; the chunk follows them.
At == read - Len(chunk)
ChunkFollows == At >= 0 /\ \A i \in 1..Len(chunk) : chunk[i] = stream[At + i]

\* What tmp_ is after f head lines of m.
HeadTmp(m, f) ==
    [line |-> FirstThree(Line(m)),
     fields |-> [i \in 1..(IF f > Len(m.fields) THEN Len(m.fields) ELSE f) |-> <<m.fields[i]>>],
     len |-> IF f > Len(m.fields) THEN m.len ELSE -1,
     body |-> Fresh(kind).body]

\* Inside m, o of its symbols are used up: in the start line, ...
InStart(m, o) ==
    /\ status = "START_LINE" /\ tmp = Fresh(kind)
    /\ Len(cache) <= m.words /\ \A i \in 1..Len(cache) : cache[i] = Sym("word", i)
    /\ o = Len(cache) \/ (o = m.words + 1 /\ Len(cache) = m.words)

\* ... in the head, after f of its lines, ...
InHead(m, o) ==
    /\ status = "HEAD"
    /\ \E f \in 0..Len(Texts(m)) :
          LET start == m.words + 2 + 3 * f
          IN  /\ tmp = HeadTmp(m, f)
              /\ \/ cache = <<>> /\ o = start
                 \/ /\ f < Len(Texts(m)) /\ cache = <<Texts(m)[f + 1]>>
                    /\ o \in {start + 1, start + 2}
                 \/ f = Len(Texts(m)) /\ cache = <<>> /\ o = start + 1

\* ... or in the body: b has been given the first symbols of `body'.
Sink(b, body) ==
    /\ \/ b.type = "raw" /\ ~b.inc /\ b.max = Len(body) /\ Len(b.data) = b.pos
       \/ b.type = "file" /\ b.writable /\ b.size = Len(body) /\ Len(b.data) = b.size
    /\ b.pos <= Len(body) /\ \A i \in 1..b.pos : b.data[i] = body[i]

InBody(m, o) ==
    /\ status = "BODY" /\ cache = <<>>
    /\ tmp = [HeadTmp(m, Len(Texts(m))) EXCEPT !.body = tmp.body]
    /\ Sink(tmp.body, m.body)
    /\ tmp.body.pos < Len(m.body) /\ o = HeadLen(m) + tmp.body.pos

InMessage(m, o) == InStart(m, o) \/ InHead(m, o) \/ InBody(m, o)

\* Where input_data is before any error: it waits for the next message, or is
\* inside one.
Waits == status = "START_LINE" /\ cache = <<>> /\ tmp = Fresh(kind)

Place(ends) ==
    \/ Len(got) = Len(sent) /\ Waits /\ At = ends[Len(got)]
    \/ /\ Len(got) < Len(sent)
       /\ \E m \in Messages, o \in Nat :
             m = sent[Len(got) + 1] /\ At = ends[Len(got)] + o /\ InMessage(m, o)

Unbroken ==
    /\ ChunkFollows
    /\ \A i \in 1..Len(got) : Given(got[i]) = Meant(sent[i])
    /\ \E ends \in [0..Len(sent) -> Nat] : Laid(ends) /\ Place(ends)

Broken ==
    /\ broken <= Len(sent) /\ broken <= Len(got) + 1
    /\ \A i \in 1..(broken - 1) : Given(got[i]) = Meant(sent[i])
    /\ MayBreak(sent[broken])

ParserInv == TypeOK /\ IF broken = 0 THEN Unbroken ELSE Broken

----------------------------------------------------------------------------
(* One turn of the loop in input_data, inside a message                    *)

\* The next symbol in a start line ...
LEMMA StartSymbol ==
    ASSUME NEW m \in Messages, NEW o, TypeOK, InStart(m, o)
    PROVE  /\ o \in Nat /\ m.words \in Nat
           /\ \/ o = Len(cache) /\ o < m.words /\ Encoded(m)[o + 1] = Sym("word", o + 1)
              \/ o = m.words /\ Len(cache) = m.words /\ Encoded(m)[o + 1] = Sym("CR", 0)
              \/ o = m.words + 1 /\ Len(cache) = m.words /\ Encoded(m)[o + 1] = Sym("LF", 0)
<1>1. m.words \in Nat
  BY MessageFacts
<1>2. Len(cache) \in Nat /\ Len(cache) <= m.words /\ (o = Len(cache) \/ (o = m.words + 1 /\ Len(cache) = m.words))
  BY DEF TypeOK, InStart
<1>3. /\ \A i \in 1..m.words : Encoded(m)[i] = Sym("word", i)
      /\ Encoded(m)[m.words + 1] = Sym("CR", 0) /\ Encoded(m)[m.words + 2] = Sym("LF", 0)
  BY EncodedFacts
<1>4. CASE o = Len(cache) /\ o < m.words
  <2>1. o + 1 \in 1..m.words
    BY <1>1, <1>2, <1>4
  <2> QED BY <1>1, <1>2, <1>3, <1>4, <2>1
<1>5. CASE o = Len(cache) /\ o = m.words
  BY <1>1, <1>2, <1>3, <1>5
<1>6. CASE o = m.words + 1 /\ Len(cache) = m.words
  <2>1. o + 1 = m.words + 2
    BY <1>1, <1>6
  <2> QED BY <1>1, <1>3, <1>6, <2>1
<1> QED BY <1>1, <1>2, <1>4, <1>5, <1>6

\* ... and in the head, after f of its lines.
InHeadAt(m, o, f) ==
    LET start == m.words + 2 + 3 * f
    IN  /\ tmp = HeadTmp(m, f)
        /\ \/ cache = <<>> /\ o = start
           \/ /\ f < Len(Texts(m)) /\ cache = <<Texts(m)[f + 1]>>
              /\ o \in {start + 1, start + 2}
           \/ f = Len(Texts(m)) /\ cache = <<>> /\ o = start + 1

LEMMA HeadSymbol ==
    ASSUME NEW m \in Messages, NEW o, NEW f \in 0..Len(Texts(m)), InHeadAt(m, o, f)
    PROVE  LET start == m.words + 2 + 3 * f
               n == Len(Texts(m))
               s == Encoded(m)[o + 1]
           IN  /\ n \in Nat /\ start \in Nat
               /\ \/ f < n /\ cache = <<>> /\ o = start /\ s = Texts(m)[f + 1]
                  \/ f < n /\ cache = <<Texts(m)[f + 1]>> /\ o = start + 1 /\ s = Sym("CR", 0)
                  \/ f < n /\ cache = <<Texts(m)[f + 1]>> /\ o = start + 2 /\ s = Sym("LF", 0)
                  \/ f = n /\ cache = <<>> /\ o = start /\ s = Sym("CR", 0)
                  \/ f = n /\ cache = <<>> /\ o = start + 1 /\ s = Sym("LF", 0)
<1> DEFINE n == Len(Texts(m))
           start == m.words + 2 + 3 * f
<1>1. n \in Nat /\ start \in Nat
  <2>1. Texts(m) \in Seq(TextSyms) /\ m.words \in Nat
    BY TextsFacts, MessageFacts
  <2> QED BY <2>1
<1>2. f < n => /\ Encoded(m)[start + 1] = Texts(m)[f + 1]
               /\ Encoded(m)[start + 2] = Sym("CR", 0)
               /\ Encoded(m)[start + 3] = Sym("LF", 0)
  <2>1. SUFFICES ASSUME f < n
                 PROVE  /\ Encoded(m)[start + 1] = Texts(m)[f + 1]
                        /\ Encoded(m)[start + 2] = Sym("CR", 0)
                        /\ Encoded(m)[start + 3] = Sym("LF", 0)
    OBVIOUS
  <2>2. f \in 0..(n - 1)
    BY <1>1, <2>1
  <2> QED BY <2>2, EncodedFacts
<1>3. f = n => Encoded(m)[start + 1] = Sym("CR", 0) /\ Encoded(m)[start + 2] = Sym("LF", 0)
  BY EncodedFacts
<1>4. f < n \/ f = n
  BY <1>1
<1>5. start + 1 + 1 = start + 2 /\ start + 2 + 1 = start + 3
  BY <1>1
<1>6. \/ cache = <<>> /\ o = start
      \/ f < n /\ cache = <<Texts(m)[f + 1]>> /\ o \in {start + 1, start + 2}
      \/ f = n /\ cache = <<>> /\ o = start + 1
  BY DEF InHeadAt
<1> HIDE DEF n, start
<1>7. /\ n \in Nat /\ start \in Nat
      /\ \/ f < n /\ cache = <<>> /\ o = start /\ Encoded(m)[o + 1] = Texts(m)[f + 1]
         \/ f < n /\ cache = <<Texts(m)[f + 1]>> /\ o = start + 1 /\ Encoded(m)[o + 1] = Sym("CR", 0)
         \/ f < n /\ cache = <<Texts(m)[f + 1]>> /\ o = start + 2 /\ Encoded(m)[o + 1] = Sym("LF", 0)
         \/ f = n /\ cache = <<>> /\ o = start /\ Encoded(m)[o + 1] = Sym("CR", 0)
         \/ f = n /\ cache = <<>> /\ o = start + 1 /\ Encoded(m)[o + 1] = Sym("LF", 0)
  BY <1>1, <1>2, <1>3, <1>4, <1>5, <1>6
<1> QED BY <1>7 DEF n, start

\* The first k symbols of the chunk are used up.
Moved(k) ==
    /\ chunk' \in Seq(Bytes) /\ Len(chunk') = Len(chunk) - k
    /\ \A i \in 1..Len(chunk') : chunk'[i] = chunk[k + i]

\* What a turn of the loop may do inside m: refuse it or take another body for
\* it, go on in it, finish it.
Outcome(m, o) ==
    \/ /\ Breaks /\ MayBreak(m)
       /\ got' = got \/ \E g \in Parsed : got' = Append(got, g)
    \/ \E k \in 1..Len(chunk) : Moved(k) /\ UNCHANGED <<got, broken>> /\ InMessage(m, o + k)'
    \/ \E k \in 1..Len(chunk) : /\ Moved(k) /\ o + k = Len(Encoded(m))
                                /\ \E g \in Parsed : Push(g) /\ Given(g) = Meant(m)
                                /\ UNCHANGED broken

LEMMA TailMoved ==
    ASSUME TypeOK, chunk # <<>>, chunk' = Tail(chunk)
    PROVE  1 \in 1..Len(chunk) /\ Moved(1)
<1>1. /\ Tail(chunk) \in Seq(Bytes) /\ Len(chunk) \in Nat /\ Len(chunk) > 0
      /\ Len(Tail(chunk)) = Len(chunk) - 1
      /\ \A i \in 1..Len(Tail(chunk)) : Tail(chunk)[i] = chunk[i + 1]
  BY TailFacts DEF TypeOK
<1>2. \A i \in 1..Len(Tail(chunk)) : i + 1 = 1 + i
  BY <1>1
<1> QED BY <1>1, <1>2 DEF Moved

LEMMA SymTypes ==
    /\ \A i : Sym("word", i).t = "word"
    /\ Sym("CR", 0).t = "CR" /\ Sym("LF", 0).t = "LF"
BY DEF Sym

\* The texts of head lines are neither CR nor LF; without a separator is only
\* a field of the message.
LEMMA TextAt ==
    ASSUME NEW m \in Messages, NEW f \in Nat, f < Len(Texts(m))
    PROVE  /\ Texts(m)[f + 1] \in TextSyms /\ Texts(m)[f + 1].t \in {"key", "range", "junk", "len"}
           /\ Len(m.fields) \in Nat
           /\ f < Len(m.fields) => /\ Texts(m)[f + 1] = m.fields[f + 1]
                                   /\ m.fields[f + 1].t \in {"key", "range", "junk"}
                                   /\ f + 1 \in DOMAIN m.fields
           /\ f >= Len(m.fields) => /\ m.len >= 0 /\ f = Len(m.fields) /\ f + 1 = Len(Texts(m))
                                    /\ Texts(m)[f + 1] = Sym("len", m.len)
<1>1. Texts(m) \in Seq(TextSyms) /\ Len(m.fields) \in Nat /\ m.len \in Nat \cup {-1}
  BY TextsFacts, MessageFacts
<1>2. f + 1 \in 1..Len(Texts(m))
  BY <1>1
<1>3. Texts(m)[f + 1] \in TextSyms
  BY <1>1, <1>2
<1>4. Texts(m)[f + 1].t \in {"key", "range", "junk", "len"}
  BY <1>3 DEF TextSyms
<1>5. ASSUME f < Len(m.fields)
      PROVE  /\ Texts(m)[f + 1] = m.fields[f + 1] /\ m.fields[f + 1].t \in {"key", "range", "junk"}
             /\ f + 1 \in DOMAIN m.fields
  <2>1. f + 1 \in 1..Len(m.fields)
    BY <1>1, <1>5
  <2>2. m.fields \in Seq([t : {"key", "range", "junk"}, n : Nat])
    BY MessageFacts
  <2>3. m.fields[f + 1] \in [t : {"key", "range", "junk"}, n : Nat] /\ f + 1 \in DOMAIN m.fields
    BY <2>1, <2>2, SeqAt, Zenon
  <2>4. m.fields[f + 1].t \in {"key", "range", "junk"}
    BY <2>3
  <2> QED BY <2>1, <2>3, <2>4, TextsFacts
<1>6. ASSUME f >= Len(m.fields)
      PROVE  /\ m.len >= 0 /\ f = Len(m.fields) /\ f + 1 = Len(Texts(m))
             /\ Texts(m)[f + 1] = Sym("len", m.len)
  <2>1. m.len >= 0
    BY <1>1, <1>6, TextsFacts
  <2>2. /\ Len(Texts(m)) = Len(m.fields) + 1
        /\ Texts(m)[Len(m.fields) + 1] = Sym("len", m.len)
    BY <2>1, TextsFacts
  <2>3. f = Len(m.fields)
    BY <1>1, <1>6, <2>2
  <2> QED BY <2>1, <2>2, <2>3
<1> QED BY <1>1, <1>3, <1>4, <1>5, <1>6

LEMMA SkipCRInside ==
    ASSUME NEW m \in Messages, NEW o, TypeOK, InMessage(m, o), SkipCR,
           Head(chunk) = Encoded(m)[o + 1]
    PROVE  Outcome(m, o)
<1>1. /\ status \in {"START_LINE", "HEAD"} /\ chunk # <<>> /\ Head(chunk).t = "CR"
      /\ chunk' = Tail(chunk) /\ UNCHANGED <<kind, status, cache, tmp, got, broken>>
  BY DEF SkipCR, NextIs, peerVars
<1>2. 1 \in 1..Len(chunk) /\ Moved(1)
  BY <1>1, TailMoved
<1>3. SUFFICES InMessage(m, o + 1)'
  BY <1>1, <1>2 DEF Outcome
<1>4. CASE InStart(m, o)
  <2>1. o = m.words /\ Len(cache) = m.words
    BY <1>1, <1>4, StartSymbol, SymTypes
  <2>2. InStart(m, o + 1)'
    BY <1>1, <1>4, <2>1 DEF InStart, Fresh
  <2> QED BY <2>2 DEF InMessage
<1>5. CASE InHead(m, o)
  <2>1. PICK f \in 0..Len(Texts(m)) : InHeadAt(m, o, f)
    BY <1>5 DEF InHead, InHeadAt
  <2> DEFINE start == m.words + 2 + 3 * f
             n == Len(Texts(m))
  <2>2. n \in Nat /\ start \in Nat /\ f \in Nat
    BY <2>1, HeadSymbol
  <2>3. f < n => Texts(m)[f + 1].t \in {"key", "range", "junk", "len"}
    BY <2>2, TextAt
  <2>4. \/ f < n /\ cache = <<Texts(m)[f + 1]>> /\ o = start + 1
        \/ f = n /\ cache = <<>> /\ o = start
    BY <1>1, <2>1, <2>3, HeadSymbol, SymTypes
  <2>5. HeadTmp(m, f)' = HeadTmp(m, f) /\ tmp = HeadTmp(m, f) /\ status = "HEAD"
    BY <1>1, <1>5, <2>1 DEF HeadTmp, Fresh, InHeadAt, InHead
  <2>6. InHead(m, o + 1)'
    BY <1>1, <2>2, <2>4, <2>5 DEF InHead
  <2> QED BY <2>6 DEF InMessage
<1>6. CASE InBody(m, o)
  BY <1>1, <1>6 DEF InBody
<1> QED BY <1>4, <1>5, <1>6 DEF InMessage

LEMMA CollectInside ==
    ASSUME NEW m \in Messages, NEW o, TypeOK, InMessage(m, o), Collect,
           Head(chunk) = Encoded(m)[o + 1]
    PROVE  Outcome(m, o)
<1>1. /\ status \in {"START_LINE", "HEAD"} /\ chunk # <<>> /\ Head(chunk).t \notin {"CR", "LF"}
      /\ chunk' = Tail(chunk) /\ cache' = Append(cache, Head(chunk))
      /\ UNCHANGED <<kind, status, tmp, got, broken>>
  BY DEF Collect, peerVars
<1>2. 1 \in 1..Len(chunk) /\ Moved(1)
  BY <1>1, TailMoved
<1>3. SUFFICES InMessage(m, o + 1)'
  BY <1>1, <1>2 DEF Outcome
<1>4. CASE InStart(m, o)
  <2>1. /\ o \in Nat /\ o = Len(cache) /\ o < m.words /\ m.words \in Nat
        /\ Head(chunk) = Sym("word", o + 1)
    BY <1>1, <1>4, StartSymbol, SymTypes
  <2>2. cache \in Seq(Bytes) /\ Head(chunk) \in Bytes
    BY <1>1, TailFacts DEF TypeOK
  <2>3. Len(cache') = o + 1 /\ \A i \in 1..(o + 1) : cache'[i] = Sym("word", i)
    <3>1. Len(cache') = Len(cache) + 1 /\ cache'[Len(cache) + 1] = Head(chunk)
          /\ \A i \in 1..Len(cache) : cache'[i] = cache[i]
      BY <1>1, <2>2
    <3>2. \A i \in 1..Len(cache) : cache[i] = Sym("word", i)
      BY <1>4 DEF InStart
    <3> QED BY <2>1, <3>1, <3>2
  <2>4. InStart(m, o + 1)'
    BY <1>1, <1>4, <2>1, <2>3 DEF InStart, Fresh
  <2> QED BY <2>4 DEF InMessage
<1>5. CASE InHead(m, o)
  <2>1. PICK f \in 0..Len(Texts(m)) : InHeadAt(m, o, f)
    BY <1>5 DEF InHead, InHeadAt
  <2> DEFINE start == m.words + 2 + 3 * f
             n == Len(Texts(m))
  <2>2. n \in Nat /\ start \in Nat
    BY <2>1, HeadSymbol
  <2>3. f < n /\ cache = <<>> /\ o = start /\ Head(chunk) = Texts(m)[f + 1]
    BY <1>1, <2>1, HeadSymbol, SymTypes
  <2>4. cache' = <<Texts(m)[f + 1]>>
    BY <1>1, <2>3
  <2>5. HeadTmp(m, f)' = HeadTmp(m, f) /\ tmp = HeadTmp(m, f) /\ status = "HEAD"
    BY <1>1, <1>5, <2>1 DEF HeadTmp, Fresh, InHeadAt, InHead
  <2>6. InHead(m, o + 1)'
    BY <1>1, <2>2, <2>3, <2>4, <2>5 DEF InHead
  <2> QED BY <2>6 DEF InMessage
<1>6. CASE InBody(m, o)
  BY <1>1, <1>6 DEF InBody
<1> QED BY <1>4, <1>5, <1>6 DEF InMessage

\* The line of m has as many pieces as it has words.
LEMMA LineWords ==
    ASSUME NEW m \in Messages
    PROVE  Words(Line(m)) = m.words
<1>1. m.words \in Nat /\ Line(m) \in Seq(Bytes) /\ Len(Line(m)) = m.words
  BY LineFacts, MessageFacts
<1>2. DOMAIN Line(m) = 1..m.words
  BY <1>1
<1>3. \A i \in 1..m.words : Line(m)[i].t = "word"
  BY LineFacts, SymTypes
<1>4. {i \in DOMAIN Line(m) : Line(m)[i].t = "word"} = 1..m.words
  BY <1>2, <1>3
<1>5. Cardinality(1..m.words) = m.words
  BY <1>1, FS_Interval
<1> QED BY <1>4, <1>5 DEF Words

LEMMA EndStartLineInside ==
    ASSUME NEW m \in Messages, NEW o, TypeOK, InMessage(m, o), EndStartLine,
           Head(chunk) = Encoded(m)[o + 1]
    PROVE  Outcome(m, o)
<1>1. status = "START_LINE" /\ chunk # <<>> /\ Head(chunk).t = "LF" /\ kind' = kind
  BY DEF EndStartLine, NextIs, peerVars
<1>2. InStart(m, o)
  BY <1>1 DEF InMessage, InHead, InBody
<1>3. /\ o = m.words + 1 /\ Len(cache) = m.words /\ m.words \in Nat
  BY <1>1, <1>2, StartSymbol, SymTypes
<1>4. cache = Line(m)
  <2>1. cache \in Seq(Bytes) /\ \A i \in 1..Len(cache) : cache[i] = Sym("word", i)
    BY <1>2 DEF InStart, TypeOK
  <2>2. /\ Line(m) \in Seq(Bytes) /\ Len(Line(m)) = m.words
        /\ \A i \in 1..m.words : Line(m)[i] = Sym("word", i)
    BY LineFacts
  <2> QED BY <1>3, <2>1, <2>2, SameSeq
<1>5. CASE m.words < 3
  <2>1. Fail
    BY <1>4, <1>5, LineWords DEF EndStartLine
  <2> QED BY <2>1, <1>5 DEF Outcome, MayBreak, Refusable, Fail
<1>6. CASE ~(m.words < 3)
  <2>1. /\ tmp' = [tmp EXCEPT !.line = FirstThree(cache)] /\ status' = "HEAD" /\ cache' = <<>>
        /\ chunk' = Tail(chunk) /\ UNCHANGED <<got, broken>>
    BY <1>4, <1>6, LineWords DEF EndStartLine
  <2>2. 1 \in 1..Len(chunk) /\ Moved(1)
    BY <1>1, <2>1, TailMoved
  <2>3. tmp' = HeadTmp(m, 0)'
    <3>1. tmp = Fresh(kind)
      BY <1>2 DEF InStart
    <3>2. Len(m.fields) \in Nat
      BY TextsFacts
    <3>3. [i \in 1..0 |-> <<m.fields[i]>>] = <<>>
      OBVIOUS
    <3> QED BY <1>1, <1>4, <2>1, <3>1, <3>2, <3>3 DEF HeadTmp, Fresh
  <2>4. Len(Texts(m)) \in Nat
    <3>1. Texts(m) \in Seq(TextSyms)
      BY TextsFacts
    <3> QED BY <3>1
  <2>5. InHead(m, o + 1)'
    <3>1. 0 \in 0..Len(Texts(m)) /\ o + 1 = m.words + 2 + 3 * 0
      BY <1>3, <2>4
    <3> QED BY <2>1, <2>3, <3>1 DEF InHead
  <2> QED BY <2>1, <2>2, <2>5 DEF Outcome, InMessage
<1> QED BY <1>5, <1>6

\* add_head of the next head line of m.
LEMMA NextHeadTmp ==
    ASSUME NEW m \in Messages, NEW f \in Nat, f < Len(Texts(m)), Texts(m)[f + 1].t # "junk"
    PROVE  AddHead(HeadTmp(m, f), <<Texts(m)[f + 1]>>) = HeadTmp(m, f + 1)
<1> DEFINE x == Texts(m)[f + 1]
           old == HeadTmp(m, f)
<1>1. Len(m.fields) \in Nat /\ Len(<<x>>) = 1 /\ <<x>>[1] = x
  BY TextsFacts
<1>2. CASE f < Len(m.fields)
  <2>1. x = m.fields[f + 1] /\ x.t # "len"
    BY <1>2, TextAt
  <2>2. /\ ~(f > Len(m.fields)) /\ ~(f + 1 > Len(m.fields))
    BY <1>1, <1>2
  <2>3. AddHead(old, <<x>>) = [old EXCEPT !.fields = Append(old.fields, <<x>>)]
    BY <1>1, <2>1 DEF AddHead
  <2>4. Append([i \in 1..f |-> <<m.fields[i]>>], <<m.fields[f + 1]>>) = [i \in 1..(f + 1) |-> <<m.fields[i]>>]
    OBVIOUS
  <2>5. old = [line |-> FirstThree(Line(m)), fields |-> [i \in 1..f |-> <<m.fields[i]>>], len |-> -1,
               body |-> Fresh(kind).body]
    BY <2>2 DEF HeadTmp
  <2>6. HeadTmp(m, f + 1) = [line |-> FirstThree(Line(m)), fields |-> [i \in 1..(f + 1) |-> <<m.fields[i]>>],
                             len |-> -1, body |-> Fresh(kind).body]
    BY <2>2 DEF HeadTmp
  <2> DEFINE F == [i \in 1..f |-> <<m.fields[i]>>]
             G == [i \in 1..(f + 1) |-> <<m.fields[i]>>]
             lm == FirstThree(Line(m))
             fb == Fresh(kind).body
  <2> HIDE DEF old
  <2>7. /\ Append(F, <<x>>) = G /\ AddHead(old, <<x>>) = [old EXCEPT !.fields = Append(old.fields, <<x>>)]
        /\ old = [line |-> lm, fields |-> F, len |-> -1, body |-> fb]
        /\ HeadTmp(m, f + 1) = [line |-> lm, fields |-> G, len |-> -1, body |-> fb]
    BY <2>1, <2>3, <2>4, <2>5, <2>6, Zenon
  <2> HIDE DEF F, G, lm, fb, x
  <2>8. [old EXCEPT !.fields = Append(old.fields, <<x>>)] = HeadTmp(m, f + 1)
    BY <2>7
  <2> QED BY <2>7, <2>8, Zenon DEF x, old
<1>3. CASE f >= Len(m.fields)
  <2>1. f = Len(m.fields) /\ x = Sym("len", m.len)
    BY <1>3, TextAt
  <2>2. ~(f > Len(m.fields)) /\ f + 1 > Len(m.fields)
    BY <1>1, <2>1
  <2>3. x.t = "len" /\ x.n = m.len
    BY <2>1 DEF Sym
  <2>4. AddHead(old, <<x>>) = [old EXCEPT !.len = m.len]
    BY <1>1, <2>3 DEF AddHead
  <2>5. old = [line |-> FirstThree(Line(m)), fields |-> [i \in 1..Len(m.fields) |-> <<m.fields[i]>>],
               len |-> -1, body |-> Fresh(kind).body]
    BY <2>1, <2>2 DEF HeadTmp
  <2>6. HeadTmp(m, f + 1) = [line |-> FirstThree(Line(m)), fields |-> [i \in 1..Len(m.fields) |-> <<m.fields[i]>>],
                             len |-> m.len, body |-> Fresh(kind).body]
    BY <2>2 DEF HeadTmp
  <2> DEFINE F == [i \in 1..Len(m.fields) |-> <<m.fields[i]>>]
             lm == FirstThree(Line(m))
             fb == Fresh(kind).body
  <2> HIDE DEF old
  <2>7. /\ AddHead(old, <<x>>) = [old EXCEPT !.len = m.len]
        /\ old = [line |-> lm, fields |-> F, len |-> -1, body |-> fb]
        /\ HeadTmp(m, f + 1) = [line |-> lm, fields |-> F, len |-> m.len, body |-> fb]
    BY <2>4, <2>5, <2>6, Zenon
  <2> HIDE DEF F, lm, fb, x
  <2>8. [old EXCEPT !.len = m.len] = HeadTmp(m, f + 1)
    BY <2>7
  <2> QED BY <2>7, <2>8, Zenon DEF x, old
<1> QED BY <1>1, <1>2, <1>3

LEMMA EndFieldInside ==
    ASSUME NEW m \in Messages, NEW o, TypeOK, InMessage(m, o), EndField,
           Head(chunk) = Encoded(m)[o + 1]
    PROVE  Outcome(m, o)
<1>1. status = "HEAD" /\ chunk # <<>> /\ Head(chunk).t = "LF" /\ cache # <<>> /\ kind' = kind
  BY DEF EndField, NextIs, peerVars
<1>2. InHead(m, o)
  BY <1>1 DEF InMessage, InStart, InBody
<1>3. PICK f \in 0..Len(Texts(m)) : InHeadAt(m, o, f)
  BY <1>2 DEF InHead, InHeadAt
<1> DEFINE start == m.words + 2 + 3 * f
           n == Len(Texts(m))
           x == Texts(m)[f + 1]
<1>4. n \in Nat /\ start \in Nat /\ f \in Nat /\ m.words \in Nat
  BY <1>3, HeadSymbol, MessageFacts
<1>5. f < n => x.t \in {"key", "range", "junk", "len"}
  BY <1>4, TextAt
<1>6. f < n /\ cache = <<x>> /\ o = start + 2
  BY <1>1, <1>3, <1>5, HeadSymbol, SymTypes
<1>7. HasSeparator(cache) <=> x.t \in {"key", "len", "range"}
  <2>1. DOMAIN cache = {1} /\ cache[1] = x
    BY <1>6
  <2> QED BY <2>1 DEF HasSeparator
<1>8. CASE x.t = "junk"
  <2>1. Fail
    BY <1>7, <1>8 DEF EndField
  <2>2. f < Len(m.fields)
    <3>1. Len(m.fields) \in Nat
      BY TextsFacts
    <3>2. ASSUME f >= Len(m.fields) PROVE FALSE
      <4>1. x = Sym("len", m.len)
        BY <1>4, <1>6, <3>2, TextAt
      <4> QED BY <1>8, <4>1 DEF Sym
    <3> QED BY <1>4, <3>1, <3>2
  <2>3. f + 1 \in DOMAIN m.fields /\ m.fields[f + 1] = x
    BY <1>4, <1>6, <2>2, TextAt
  <2>4. Refusable(m)
    BY <1>8, <2>3 DEF Refusable
  <2> QED BY <2>1, <2>4 DEF Outcome, MayBreak, Fail
<1>9. CASE x.t # "junk"
  <2>1. /\ tmp' = AddHead(tmp, cache) /\ cache' = <<>> /\ chunk' = Tail(chunk)
        /\ UNCHANGED <<status, got, broken>>
    BY <1>5, <1>6, <1>7, <1>9 DEF EndField
  <2>2. 1 \in 1..Len(chunk) /\ Moved(1)
    BY <1>1, <2>1, TailMoved
  <2>3. tmp' = HeadTmp(m, f + 1)
    <3>1. tmp = HeadTmp(m, f)
      BY <1>3, Zenon DEF InHeadAt
    <3>2. AddHead(HeadTmp(m, f), <<x>>) = HeadTmp(m, f + 1)
      BY <1>4, <1>6, <1>9, NextHeadTmp
    <3> QED BY <1>6, <2>1, <3>1, <3>2, Zenon
  <2>4. HeadTmp(m, f + 1)' = HeadTmp(m, f + 1)
    BY <1>1 DEF HeadTmp, Fresh
  <2>5. f + 1 \in 0..n /\ o + 1 = m.words + 2 + 3 * (f + 1)
    <3>1. f < n /\ o = m.words + 2 + 3 * f + 2
      BY <1>6
    <3> HIDE DEF n, x, start
    <3> QED BY <1>4, <3>1
  <2>6. InHead(m, o + 1)'
    BY <1>1, <2>1, <2>3, <2>4, <2>5 DEF InHead
  <2> QED BY <2>1, <2>2, <2>6 DEF Outcome, InMessage
<1> QED BY <1>8, <1>9

\* After all head lines tmp_ has everything but the body.
LEMMA FullHead ==
    ASSUME NEW m \in Messages
    PROVE  /\ HeadTmp(m, Len(Texts(m))).line = FirstThree(Line(m))
           /\ HeadTmp(m, Len(Texts(m))).fields = [i \in DOMAIN m.fields |-> <<m.fields[i]>>]
           /\ HeadTmp(m, Len(Texts(m))).len = m.len
           /\ HeadTmp(m, Len(Texts(m))).body = Fresh(kind).body
           /\ \A b : Given([HeadTmp(m, Len(Texts(m))) EXCEPT !.body = b]) =
                        [Meant(m) EXCEPT !.body = Content(b)]
<1> DEFINE n == Len(Texts(m))
           h == HeadTmp(m, n)
<1>1. Len(m.fields) \in Nat /\ DOMAIN m.fields = 1..Len(m.fields) /\ m.len \in Nat \cup {-1}
  BY MessageFacts
<1>2. m.len < 0 => n = Len(m.fields) /\ m.len = -1
  BY <1>1, TextsFacts
<1>3. m.len >= 0 => n = Len(m.fields) + 1
  BY TextsFacts
<1> HIDE DEF n
<1>4. h = [line |-> FirstThree(Line(m)), fields |-> [i \in DOMAIN m.fields |-> <<m.fields[i]>>],
           len |-> m.len, body |-> Fresh(kind).body]
  <2>1. CASE m.len < 0
    BY <1>1, <1>2, <2>1 DEF HeadTmp
  <2>2. CASE m.len >= 0
    <3>1. n > Len(m.fields)
      BY <1>1, <1>3, <2>2
    <3> QED BY <1>1, <3>1 DEF HeadTmp
  <2> QED BY <1>1, <2>1, <2>2
<1> HIDE DEF h
<1>5. /\ h.line = FirstThree(Line(m)) /\ h.fields = [i \in DOMAIN m.fields |-> <<m.fields[i]>>]
      /\ h.len = m.len /\ h.body = Fresh(kind).body
  BY <1>4
<1>6. ASSUME NEW b PROVE Given([h EXCEPT !.body = b]) = [Meant(m) EXCEPT !.body = Content(b)]
  <2> DEFINE F == [i \in DOMAIN m.fields |-> <<m.fields[i]>>]
             lm == FirstThree(Line(m))
             fb == Fresh(kind).body
             mb == m.body
             ml == m.len
  <2>1. /\ h = [line |-> lm, fields |-> F, len |-> ml, body |-> fb]
        /\ Meant(m) = [line |-> lm, fields |-> F, len |-> ml, body |-> mb]
    BY <1>4, Zenon DEF Meant
  <2> HIDE DEF F, lm, fb, mb, ml
  <2>2. [h EXCEPT !.body = b] = [line |-> lm, fields |-> F, len |-> ml, body |-> b]
    BY <2>1
  <2>3. Given([line |-> lm, fields |-> F, len |-> ml, body |-> b]) =
           [line |-> lm, fields |-> F, len |-> ml, body |-> Content(b)]
    BY DEF Given
  <2>4. [Meant(m) EXCEPT !.body = Content(b)] = [line |-> lm, fields |-> F, len |-> ml, body |-> Content(b)]
    BY <2>1
  <2> QED BY <2>2, <2>3, <2>4
<1> QED BY <1>5, <1>6 DEF h, n

\* What EndHead makes of the body of m: a body too large for memory may have no
\* place; one that fits is complete if m's body is empty, and else can take it;
\* any other was to be expected of m.
LEMMA EndHeadBody ==
    ASSUME NEW m \in Messages, TypeOK, tmp = HeadTmp(m, Len(Texts(m))),
           NEW offered \in Offered, NEW body, body = IF offered = NoBody THEN AutoBody ELSE offered
    PROVE  /\ body = NoBody => Refusable(m)
           /\ body # NoBody /\ ~Fits(body, Length(tmp)) => Misfittable(m)
           /\ body # NoBody /\ Fits(body, Length(tmp)) /\ IsComplete(body) =>
                 Content(body) = m.body /\ Len(m.body) = 0
           /\ body # NoBody /\ Fits(body, Length(tmp)) /\ ~IsComplete(body) =>
                 Sink(body, m.body) /\ body.pos = 0 /\ Len(m.body) > 0
<1> DEFINE L == Len(m.body)
           Filed(b) == /\ b # NoBody /\ b.type = "file" /\ b.pos = 0 /\ b.size # 0
                       /\ (b.writable /\ b.size = L /\ Len(b.data) = L) \/ Misfittable(m)
<1>1. /\ m.body \in Seq(Bytes) /\ L \in Nat /\ m.len \in Nat \cup {-1} /\ tmp.len = m.len
      /\ tmp.body = Fresh(kind).body /\ L = Length(m) /\ Length(tmp) = L
  <2>1. m.body \in Seq(Bytes) /\ m.len \in Nat \cup {-1} /\ L = Length(m)
    BY MessageFacts
  <2>2. tmp.len = m.len /\ tmp.body = Fresh(kind).body
    BY FullHead
  <2> QED BY <2>1, <2>2 DEF Length
<1>2. kind \in {"request", "response"} /\ AutoMax \in Nat /\ Total \in Nat
  BY ParserAssumption DEF TypeOK
<1>3. tmp.body = IF kind = "request" THEN GrowingBody ELSE NoBody
  BY <1>1 DEF Fresh
<1>4. L # 0 => m.len = L /\ m.len > 0
  BY <1>1 DEF Length
<1>5. ASSUME NEW b, b = tmp.body
      PROVE  b = NoBody \/ (b = GrowingBody /\ (L # 0 => Misfittable(m)))
  BY <1>2, <1>3, <1>4, <1>5 DEF Misfittable
<1>6. offered = NoBody \/ (offered = GrowingBody /\ (L # 0 => Misfittable(m))) \/ Filed(offered)
  <2>1. offered = tmp.body \/ \E f \in ToFiles : offered \in RecvFile(f)
    BY DEF Offered
  <2>2. ASSUME NEW f \in ToFiles, offered \in RecvFile(f), offered # tmp.body, offered # NoBody
        PROVE  Filed(offered)
    <3>1. f.content \in Seq(Bytes)
      BY ParserAssumption
    <3>2. CASE tmp.len >= 0
      <4>1. tmp.len \in Nat /\ tmp.len = L /\ offered = FileBody(f, tmp.len, -1, creates)
        BY <1>1, <2>2, <3>2 DEF Length, RecvFile
      <4>2. PICK c : c = creates
        OBVIOUS
      <4>3. PICK t \in Nat : t = tmp.len
        BY <4>1
      <4>4. /\ offered.type = "file" /\ offered.pos = 0 /\ offered.size # 0
            /\ ~f.exists \/ "CREATE_NEW" \in f.flags =>
                  offered.writable /\ offered.size = t /\ Len(offered.data) = t
        BY <2>2, <3>1, <4>1, <4>2, <4>3, FileBodyFacts
      <4>5. ~(~f.exists \/ "CREATE_NEW" \in f.flags) => Misfittable(m)
        BY DEF Misfittable
      <4> QED BY <2>2, <4>1, <4>3, <4>4, <4>5
    <3>3. CASE ~(tmp.len >= 0)
      <4>1. RangeAt(tmp) # {}
        BY <2>2, <3>3 DEF RecvFile
      <4>2. PICK t \in Nat : t = IF kind = "request" THEN 0 ELSE Total
        BY <1>2
      <4>3. RecvFile(f) = {FileBody(f, t, tmp.fields[i][1].n, creates) : i \in RangeAt(tmp)}
        BY <3>3, <4>1, <4>2, Zenon DEF RecvFile
      <4>4. PICK i \in RangeAt(tmp) : offered = FileBody(f, t, tmp.fields[i][1].n, creates)
        BY <2>2, <4>3
      <4>5. i \in DOMAIN tmp.fields /\ Len(tmp.fields[i]) = 1 /\ tmp.fields[i][1].t = "range"
        BY DEF RangeAt, IsRange
      <4>6. tmp.fields[i] \in Seq(Bytes)
        <5>1. tmp.fields \in Seq(Seq(Bytes))
          BY ParsedFacts DEF TypeOK
        <5> QED BY <4>5, <5>1
      <4>7. PICK n \in Nat : n = tmp.fields[i][1].n
        <5>1. tmp.fields[i][1] \in Bytes
          BY <4>5, <4>6
        <5> QED BY <5>1 DEF Bytes
      <4>8. PICK c : c = creates
        OBVIOUS
      <4>9. offered.type = "file" /\ offered.pos = 0 /\ offered.size # 0
        BY <2>2, <3>1, <4>4, <4>7, <4>8, FileBodyFacts
      <4>10. Misfittable(m)
        <5>1. tmp.fields = [j \in DOMAIN m.fields |-> <<m.fields[j]>>]
          BY FullHead
        <5>2. i \in DOMAIN m.fields /\ tmp.fields[i] = <<m.fields[i]>>
          BY <4>5, <5>1
        <5>3. m.fields[i].t = "range"
          BY <4>5, <5>2
        <5>4. m.len = -1
          BY <1>1, <3>3
        <5> QED BY <5>2, <5>3, <5>4 DEF Misfittable
      <4> QED BY <2>2, <4>9, <4>10
    <3> QED BY <3>2, <3>3
  <2> QED BY <1>5, <2>1, <2>2
<1>7. \/ AutoBody = RawBody(L)
      \/ AutoBody = NoBody /\ Refusable(m)
      \/ Filed(AutoBody)
  <2>1. CASE L <= AutoMax
    BY <1>1, <2>1 DEF AutoBody
  <2>2. CASE ~(L <= AutoMax)
    <3>1. L # 0 /\ m.len > AutoMax
      BY <1>1, <1>2, <1>4, <2>2
    <3>2. CASE kind = "request"
      BY <1>1, <2>2, <3>1, <3>2 DEF AutoBody, Refusable
    <3>3. CASE kind # "request"
      <4>1. PICK f : f = [flags |-> {"CREATE", "DELETE"}, exists |-> FALSE, content |-> <<>>]
        OBVIOUS
      <4>2. f.content \in Seq(Bytes) /\ ~f.exists /\ Creates(f)
        BY <4>1 DEF Creates
      <4>3. PICK t \in Nat : t = L
        BY <1>1
      <4>4. PICK c : c = creates
        OBVIOUS
      <4>5. PICK a : a = FileBody(f, t, -1, c)
        OBVIOUS
      <4>6. AutoBody = a
        <5>1. AutoBody = FileBody(f, L, -1, creates)
          BY <1>1, <2>2, <3>3, <4>1 DEF AutoBody
        <5> QED BY <5>1, <4>3, <4>4, <4>5
      <4>7. /\ a # NoBody => /\ a.type = "file" /\ a.pos = 0 /\ a.size # 0
                             /\ a.writable /\ a.size = t /\ Len(a.data) = t
            /\ c => a # NoBody
        BY <3>1, <4>2, <4>3, <4>5, FileBodyFacts
      <4>8. ~c => Refusable(m)
        BY <3>1, <4>4 DEF Refusable
      <4> QED BY <4>3, <4>6, <4>7, <4>8
    <3> QED BY <3>2, <3>3
  <2> QED BY <2>1, <2>2
<1>8. \/ body = GrowingBody /\ (L # 0 => Misfittable(m))
      \/ body = RawBody(L)
      \/ body = NoBody /\ Refusable(m)
      \/ Filed(body)
  BY <1>6, <1>7
<1>9. CASE body = GrowingBody /\ (L # 0 => Misfittable(m))
  <2>1. /\ body # NoBody /\ IsComplete(body) /\ Content(body) = <<>>
        /\ Fits(body, Length(tmp)) <=> Length(tmp) = 0
    BY <1>9 DEF GrowingBody, NoBody, Body, IsComplete, Content, Fits
  <2>2. L = 0 => m.body = <<>>
    BY <1>1
  <2> QED BY <1>1, <1>9, <2>1, <2>2
<1>10. CASE body = RawBody(L)
  <2>1. /\ body # NoBody /\ body.type = "raw" /\ ~body.inc /\ body.max = L /\ body.data = <<>>
        /\ body.pos = 0
    BY <1>10 DEF RawBody, NoBody, Body
  <2>2. IsComplete(body) <=> L = 0
    BY <1>1, <2>1 DEF IsComplete
  <2>3. L = 0 => m.body = <<>>
    BY <1>1
  <2>4. Sink(body, m.body)
    BY <1>1, <2>1 DEF Sink
  <2>5. Fits(body, Length(tmp)) /\ Content(body) = <<>>
    BY <1>1, <2>1 DEF Fits, Content
  <2> QED BY <1>1, <2>1, <2>2, <2>3, <2>4, <2>5
<1>11. CASE body = NoBody /\ Refusable(m)
  BY <1>11
<1>12. CASE Filed(body)
  <2>1. ~IsComplete(body)
    BY <1>12 DEF IsComplete
  <2>2. Fits(body, Length(tmp)) <=> body.writable /\ body.size = L /\ Len(body.data) = L
    BY <1>1, <1>12 DEF Fits
  <2>3. body.writable /\ body.size = L /\ Len(body.data) = L => Sink(body, m.body) /\ L > 0
    BY <1>1, <1>12 DEF Sink
  <2> QED BY <1>12, <2>1, <2>2, <2>3
<1> QED BY <1>8, <1>9, <1>10, <1>11, <1>12

LEMMA EndHeadInside ==
    ASSUME NEW m \in Messages, NEW o, TypeOK, InMessage(m, o), EndHead,
           Head(chunk) = Encoded(m)[o + 1]
    PROVE  Outcome(m, o)
<1>1. /\ status = "HEAD" /\ chunk # <<>> /\ Head(chunk).t = "LF" /\ cache = <<>> /\ kind' = kind
  BY DEF EndHead, NextIs, peerVars
<1>2. InHead(m, o)
  BY <1>1 DEF InMessage, InStart, InBody
<1>3. PICK f \in 0..Len(Texts(m)) : InHeadAt(m, o, f)
  BY <1>2 DEF InHead, InHeadAt
<1> DEFINE start == m.words + 2 + 3 * f
           n == Len(Texts(m))
           h == HeadTmp(m, n)
<1>4. n \in Nat /\ start \in Nat /\ f \in Nat /\ m.words \in Nat
  BY <1>3, HeadSymbol, MessageFacts
<1>5. f < n => Texts(m)[f + 1].t \in {"key", "range", "junk", "len"}
  BY <1>4, TextAt
<1>6. f = n /\ o = start + 1
  BY <1>1, <1>3, <1>5, HeadSymbol, SymTypes
<1>7. tmp = h /\ o + 1 = HeadLen(m)
  <2>1. tmp = h
    BY <1>3, <1>6 DEF InHeadAt
  <2>2. o + 1 = HeadLen(m)
    BY <1>4, <1>6 DEF HeadLen
  <2> QED BY <2>1, <2>2
<1>8. PICK offered \in Offered :
        LET body == IF offered = NoBody THEN AutoBody ELSE offered
            g == [tmp EXCEPT !.body = body]
        IN  IF body = NoBody THEN Fail
            ELSE /\ chunk' = Tail(chunk)
                 /\ IF IsComplete(body)
                    THEN Push(g)
                    ELSE tmp' = g /\ status' = "BODY" /\ UNCHANGED <<cache, got>>
                 /\ IF Fits(body, Length(tmp))
                    THEN UNCHANGED <<broken, misfit>>
                    ELSE Breaks /\ misfit' = TRUE
  BY Zenon DEF EndHead
<1> DEFINE B == IF offered = NoBody THEN AutoBody ELSE offered
<1>9. PICK body : body = B
  OBVIOUS
<1> DEFINE g == [tmp EXCEPT !.body = body]
           fits == Fits(body, Length(tmp))
<1>10. \/ body = NoBody /\ Fail
       \/ body # NoBody /\ ~fits /\ Breaks /\ (Push(g) \/ UNCHANGED got)
       \/ /\ body # NoBody /\ fits /\ chunk' = Tail(chunk) /\ IsComplete(body) /\ Push(g)
          /\ UNCHANGED broken
       \/ /\ body # NoBody /\ fits /\ chunk' = Tail(chunk) /\ ~IsComplete(body)
          /\ tmp' = g /\ status' = "BODY" /\ UNCHANGED <<cache, got, broken>>
  <2> HIDE DEF g, B, fits
  <2>1. IF body = NoBody THEN Fail
        ELSE /\ chunk' = Tail(chunk)
             /\ IF IsComplete(body)
                THEN Push(g)
                ELSE tmp' = g /\ status' = "BODY" /\ UNCHANGED <<cache, got>>
             /\ IF fits THEN UNCHANGED <<broken, misfit>> ELSE Breaks /\ misfit' = TRUE
    BY <1>8, <1>9, Zenon DEF g, B, fits
  <2> QED BY <2>1
<1>11. /\ body = NoBody => Refusable(m)
       /\ body # NoBody /\ ~fits => Misfittable(m)
       /\ body # NoBody /\ fits /\ IsComplete(body) => Content(body) = m.body /\ Len(m.body) = 0
       /\ body # NoBody /\ fits /\ ~IsComplete(body) =>
             Sink(body, m.body) /\ body.pos = 0 /\ Len(m.body) > 0
  BY <1>7, <1>9, EndHeadBody
<1>12. body \in GoodBodies
  BY <1>9, EndHeadBodies
<1>a. g \in Parsed
  BY <1>12, ParsedFacts DEF TypeOK
<1> HIDE DEF fits
<1>b. CASE body # NoBody /\ ~fits /\ Breaks /\ (Push(g) \/ UNCHANGED got)
  <2>1. got' = got \/ got' = Append(got, g)
    BY <1>b DEF Push
  <2>2. got' = got \/ \E z \in Parsed : got' = Append(got, z)
    <3> HIDE DEF g
    <3> QED BY <1>a, <2>1
  <2> QED BY <1>11, <1>b, <2>2 DEF Outcome, MayBreak
<1>13. CASE body = NoBody /\ Fail
  BY <1>11, <1>13 DEF Outcome, MayBreak, Fail
<1>14. CASE /\ body # NoBody /\ fits /\ chunk' = Tail(chunk) /\ IsComplete(body) /\ Push(g)
            /\ UNCHANGED broken
  <2>1. 1 \in 1..Len(chunk) /\ Moved(1)
    BY <1>1, <1>14, TailMoved
  <2>2. g \in Parsed
    BY <1>a
  <2>3. Given(g) = Meant(m)
    <3>1. Given(g) = [Meant(m) EXCEPT !.body = Content(body)]
      BY <1>7, FullHead
    <3>2. Content(body) = m.body
      BY <1>11, <1>14
    <3> QED BY <3>1, <3>2 DEF Meant
  <2>4. o + 1 = Len(Encoded(m))
    <3>1. Len(Encoded(m)) = HeadLen(m) + Len(m.body) /\ HeadLen(m) \in Nat
      BY EncodedFacts
    <3>2. Len(m.body) = 0
      BY <1>11, <1>14
    <3> QED BY <1>7, <3>1, <3>2
  <2> HIDE DEF g
  <2> QED BY <1>14, <2>1, <2>2, <2>3, <2>4 DEF Outcome
<1>15. CASE /\ body # NoBody /\ fits /\ chunk' = Tail(chunk) /\ ~IsComplete(body)
            /\ tmp' = g /\ status' = "BODY" /\ UNCHANGED <<cache, got, broken>>
  <2>1. 1 \in 1..Len(chunk) /\ Moved(1)
    BY <1>1, <1>15, TailMoved
  <2>2. Sink(body, m.body) /\ body.pos = 0 /\ Len(m.body) > 0
    BY <1>11, <1>15
  <2>3. tmp'.body = body
    <3>1. tmp \in Parsed
      BY DEF TypeOK
    <3> QED BY <3>1, <1>15 DEF Parsed
  <2>4. HeadTmp(m, Len(Texts(m)))' = h
    BY <1>1 DEF HeadTmp, Fresh
  <2>5. InBody(m, o + 1)'
    <3>1. tmp' = [h EXCEPT !.body = body]
      BY <1>7, <1>15
    <3>2. o + 1 = HeadLen(m) + 0
      <4>1. HeadLen(m) \in Nat
        BY EncodedFacts
      <4> QED BY <1>7, <4>1
    <3> HIDE DEF h, g
    <3> QED BY <1>1, <1>15, <2>2, <2>3, <2>4, <3>1, <3>2 DEF InBody
  <2> QED BY <1>15, <2>1, <2>5 DEF Outcome, InMessage
<1> QED BY <1>10, <1>13, <1>14, <1>15, <1>b

\* o stays inside m.
LEMMA OffsetInside ==
    ASSUME NEW m \in Messages, NEW o, TypeOK, InMessage(m, o)
    PROVE  o \in Nat /\ o < Len(Encoded(m)) /\ Len(Encoded(m)) \in Nat
<1>1. /\ Len(Encoded(m)) = HeadLen(m) + Len(m.body) /\ HeadLen(m) \in Nat
  BY EncodedFacts
<1>2. m.words \in Nat /\ Len(Texts(m)) \in Nat /\ Len(m.body) \in Nat
  <2>1. Texts(m) \in Seq(TextSyms) /\ m.words \in Nat /\ m.body \in Seq(Bytes)
    BY TextsFacts, MessageFacts
  <2> QED BY <2>1
<1>3. CASE InStart(m, o)
  <2>1. o \in Nat /\ o <= m.words + 1
    BY <1>2, <1>3, StartSymbol
  <2>2. HeadLen(m) = m.words + 3 * Len(Texts(m)) + 4
    BY <1>2 DEF HeadLen
  <2> QED BY <1>1, <1>2, <2>1, <2>2, SMTT(30)
<1>4. CASE InHead(m, o)
  <2>1. PICK f \in 0..Len(Texts(m)) : InHeadAt(m, o, f)
    BY <1>4 DEF InHead, InHeadAt
  <2> DEFINE start == m.words + 2 + 3 * f
  <2>2. /\ start \in Nat
        /\ \/ f < Len(Texts(m)) /\ o = start
           \/ f < Len(Texts(m)) /\ o = start + 1
           \/ f < Len(Texts(m)) /\ o = start + 2
           \/ f = Len(Texts(m)) /\ o = start
           \/ f = Len(Texts(m)) /\ o = start + 1
    BY <2>1, HeadSymbol
  <2>3. HeadLen(m) = m.words + 2 + 3 * Len(Texts(m)) + 2
    BY DEF HeadLen
  <2>4. PICK n \in Nat : n = Len(Texts(m))
    BY <1>2
  <2>5. o \in Nat /\ o < HeadLen(m)
    <3>1. CASE f < n /\ o <= start + 2 /\ o \in Nat
      BY <1>2, <2>3, <2>4, <3>1
    <3>2. CASE f = n /\ o <= start + 1 /\ o \in Nat
      BY <1>2, <2>3, <2>4, <3>2
    <3> QED BY <2>2, <2>4, <3>1, <3>2
  <2> QED BY <1>1, <1>2, <2>5
<1>5. CASE InBody(m, o)
  <2>1. tmp.body.pos \in Nat
    <3>1. tmp.body \in GoodBodies
      BY ParsedFacts DEF TypeOK
    <3> QED BY <3>1 DEF GoodBodies, Bodies, NoBody, Body
  <2> QED BY <1>1, <1>2, <1>5, <2>1 DEF InBody
<1> QED BY <1>1, <1>2, <1>3, <1>4, <1>5 DEF InMessage

\* write_body_cb takes the next bytes of the body out of the chunk.
LEMMA OnBodyInside ==
    ASSUME NEW m \in Messages, NEW o, TypeOK, InMessage(m, o), OnBody,
           \A i \in 1..Len(chunk) : o + i <= Len(Encoded(m)) => chunk[i] = Encoded(m)[o + i]
    PROVE  Outcome(m, o)
<1>1. InBody(m, o)
  BY DEF OnBody, InMessage, InStart, InHead
<1>2. PICK b : b = tmp.body
  OBVIOUS
<1>3. PICK k : k = WriteLen(b, Len(chunk))
  OBVIOUS
<1>4. PICK w : w = WriteBody(b, chunk)
  OBVIOUS
<1> DEFINE h == HeadTmp(m, Len(Texts(m)))
           g == [tmp EXCEPT !.body = w]
<1>5. /\ status = "BODY" /\ chunk # <<>> /\ kind' = kind
      /\ chunk' = SubSeq(chunk, k + 1, Len(chunk))
      /\ \/ IsComplete(w) /\ Push(g)
         \/ ~IsComplete(w) /\ tmp' = g /\ UNCHANGED <<status, cache, got>>
      /\ UNCHANGED broken
  BY <1>2, <1>3, <1>4 DEF OnBody, peerVars
<1>6. /\ cache = <<>> /\ tmp = [h EXCEPT !.body = b] /\ Sink(b, m.body)
      /\ b.pos < Len(m.body) /\ o = HeadLen(m) + b.pos
  BY <1>1, <1>2 DEF InBody
<1>7. /\ chunk \in Seq(Bytes) /\ Len(chunk) \in Nat /\ Len(chunk) > 0
      /\ m.body \in Seq(Bytes) /\ Len(m.body) \in Nat /\ tmp \in Parsed
  BY <1>5, MessageFacts DEF TypeOK
<1>8. b \in RealBodies /\ BodyOK(b) /\ b.type \in {"raw", "file"} /\ b.pos \in Nat /\ b.max \in Nat /\ b.size \in Nat
  <2>1. b \in GoodBodies
    BY <1>2, <1>7, ParsedFacts
  <2>2. b # NoBody
    BY <1>6 DEF Sink, NoBody, Body
  <2>3. b \in RealBodies /\ BodyOK(b)
    BY <2>1, <2>2, BodyKinds
  <2> QED BY <2>3 DEF RealBodies
<1>9. k \in 1..Len(chunk) /\ b.pos + k <= Len(m.body)
  <2>1. /\ k \in 0..Len(chunk)
        /\ b.type = "raw" /\ ~b.inc => /\ b.pos + k <= b.max
                                       /\ k < Len(chunk) => b.pos + k = b.max
        /\ b.type = "file" => b.pos + k <= Len(b.data)
        /\ b.type = "file" /\ b.writable /\ Len(b.data) = b.size /\ k < Len(chunk) =>
              b.pos + k = b.size
    BY <1>3, <1>7, <1>8, WriteLenFacts
  <2>2. \/ b.type = "raw" /\ ~b.inc /\ b.max = Len(m.body)
        \/ b.type = "file" /\ b.writable /\ b.size = Len(m.body) /\ Len(b.data) = b.size
    BY <1>6 DEF Sink
  <2> QED BY <1>6, <1>7, <1>8, <2>1, <2>2
<1>10. Moved(k)
  <2>1. k \in Nat /\ k <= Len(chunk)
    BY <1>7, <1>9
  <2>2. /\ chunk' \in Seq(Bytes) /\ Len(chunk') = Len(chunk) - k
        /\ \A i \in 1..(Len(chunk) - k) : chunk'[i] = chunk[k + i]
    BY <1>5, <1>7, <2>1, SuffixFacts
  <2> QED BY <2>2 DEF Moved
<1>11. /\ w \in RealBodies /\ BodyOK(w) /\ w.type = b.type /\ w.inc = b.inc /\ w.max = b.max
       /\ w.size = b.size /\ w.writable = b.writable /\ w.pos = b.pos + k
       /\ b.type = "raw" => Len(w.data) = w.pos
       /\ b.type = "file" => Len(w.data) = Len(b.data)
       /\ \A i \in 1..b.pos : w.data[i] = b.data[i]
       /\ \A i \in 1..k : w.data[b.pos + i] = chunk[i]
  BY <1>3, <1>4, <1>7, <1>8, WriteBodyFacts
<1>a. /\ b.pos \in Nat /\ k \in Nat /\ w.pos = b.pos + k /\ w.pos <= Len(m.body)
      /\ k <= Len(chunk) /\ w.pos \in Nat /\ Len(chunk) \in Nat /\ Len(m.body) \in Nat
  <2>1. w.pos = b.pos + k
    BY <1>11
  <2> QED BY <1>7, <1>8, <1>9, <2>1
<1>12. \A i \in 1..w.pos : w.data[i] = m.body[i]
  <2> TAKE i \in 1..w.pos
  <2>1. CASE i <= b.pos
    <3>1. i \in 1..b.pos
      BY <1>8, <1>9, <1>11, <2>1
    <3>2. b.data[i] = m.body[i]
      BY <1>6, <3>1 DEF Sink
    <3> QED BY <1>11, <3>1, <3>2
  <2>2. CASE ~(i <= b.pos)
    <3> DEFINE j == i - b.pos
    <3>1. j \in 1..k /\ i = b.pos + j /\ j \in 1..Len(chunk) /\ i \in 1..Len(m.body)
      BY <1>a, <2>2
    <3>2. /\ HeadLen(m) \in Nat /\ Len(Encoded(m)) = HeadLen(m) + Len(m.body)
          /\ Encoded(m)[HeadLen(m) + i] = m.body[i]
      BY <3>1, EncodedFacts
    <3>3. o + j = HeadLen(m) + i /\ o + j <= Len(Encoded(m))
      <4>1. o = HeadLen(m) + b.pos
        BY <1>6
      <4>2. i \in Nat /\ i <= Len(m.body) /\ HeadLen(m) \in Nat /\ Len(Encoded(m)) = HeadLen(m) + Len(m.body)
        BY <1>a, <3>1, <3>2
      <4>3. b.pos \in Nat
        BY <1>a
      <4> QED BY <4>1, <4>2, <4>3
    <3> HIDE DEF j
    <3>4. chunk[j] = Encoded(m)[o + j]
      BY <3>1, <3>3
    <3> QED BY <1>11, <3>1, <3>2, <3>3, <3>4
  <2> QED BY <2>1, <2>2
<1>13. Sink(w, m.body)
  <2>1. \/ b.type = "raw" /\ ~b.inc /\ b.max = Len(m.body)
        \/ b.type = "file" /\ b.writable /\ b.size = Len(m.body) /\ Len(b.data) = b.size
    BY <1>6 DEF Sink
  <2>2. \/ w.type = "raw" /\ ~w.inc /\ w.max = Len(m.body) /\ Len(w.data) = w.pos
        \/ w.type = "file" /\ w.writable /\ w.size = Len(m.body) /\ Len(w.data) = w.size
    BY <1>11, <2>1
  <2> QED BY <1>9, <1>11, <1>12, <2>2 DEF Sink
<1>14. IsComplete(w) <=> w.pos = Len(m.body)
  <2>1. w.type = "raw" => ~w.inc /\ w.max = Len(m.body) /\ Len(w.data) = w.pos
    BY <1>13 DEF Sink
  <2>2. w.type # "raw" => w.size = Len(m.body)
    BY <1>13 DEF Sink
  <2> QED BY <2>1, <2>2 DEF IsComplete
<1>15. /\ o + k = HeadLen(m) + w.pos /\ HeadLen(m) \in Nat
       /\ Len(Encoded(m)) = HeadLen(m) + Len(m.body)
  <2>1. HeadLen(m) \in Nat /\ Len(Encoded(m)) = HeadLen(m) + Len(m.body)
    BY EncodedFacts
  <2> QED BY <1>6, <1>8, <1>9, <1>11, <2>1
<1>16. CASE IsComplete(w) /\ Push(g)
  <2>1. w.data = m.body
    <3>1. w.pos = Len(m.body)
      BY <1>14, <1>16
    <3>2. w.data \in Seq(Bytes)
      BY <1>11 DEF RealBodies
    <3>3. Len(w.data) = Len(m.body)
      BY <1>13, <3>1 DEF Sink
    <3> QED BY <1>7, <1>12, <3>1, <3>2, <3>3, SameSeq
  <2>a. Content(w) = m.body
    <3>1. w.type = "file" => w.size = Len(w.data)
      BY <1>13 DEF Sink
    <3>2. SubSeq(m.body, 1, Len(m.body)) = m.body
      BY <1>7
    <3> QED BY <2>1, <3>1, <3>2 DEF Content
  <2>2. w \in GoodBodies
    BY <1>11, BodyKinds
  <2>3. g \in Parsed
    BY <1>7, <2>2, ParsedFacts
  <2>4. Given(g) = Meant(m)
    <3>1. g = [h EXCEPT !.body = w]
      <4> HIDE DEF h
      <4> QED BY <1>6
    <3>2. Given([h EXCEPT !.body = w]) = [Meant(m) EXCEPT !.body = Content(w)]
      BY FullHead
    <3>3. [Meant(m) EXCEPT !.body = m.body] = Meant(m)
      BY DEF Meant
    <3> HIDE DEF g, h
    <3> QED BY <2>a, <3>1, <3>2, <3>3
  <2>5. o + k = Len(Encoded(m))
    BY <1>14, <1>15, <1>16
  <2> HIDE DEF g
  <2> QED BY <1>5, <1>9, <1>10, <1>16, <2>3, <2>4, <2>5 DEF Outcome
<1>17. CASE ~IsComplete(w) /\ tmp' = g /\ UNCHANGED <<status, cache, got>>
  <2>1. w.pos < Len(m.body)
    <3>1. w.pos # Len(m.body)
      BY <1>14, <1>17
    <3> QED BY <1>a, <3>1
  <2>2. tmp'.body = w
    BY <1>7, <1>17 DEF Parsed
  <2>3. HeadTmp(m, Len(Texts(m)))' = h
    BY <1>5 DEF HeadTmp, Fresh
  <2>4. tmp' = [h EXCEPT !.body = w]
    <3> HIDE DEF h
    <3> QED BY <1>6, <1>17
  <2> HIDE DEF g, h
  <2>5. InBody(m, o + k)'
    BY <1>5, <1>6, <1>13, <1>15, <1>17, <2>1, <2>2, <2>3, <2>4 DEF InBody
  <2> QED BY <1>5, <1>9, <1>10, <1>17, <2>5 DEF Outcome, InMessage
<1> QED BY <1>5, <1>16, <1>17

----------------------------------------------------------------------------
(* The invariant is inductive                                              *)

LEMMA WaitsInStart ==
    ASSUME NEW m \in Messages, Waits
    PROVE  InMessage(m, 0)
<1>1. m.words \in Nat /\ Len(<<>>) = 0
  BY MessageFacts
<1> QED BY <1>1 DEF Waits, InMessage, InStart

\* While the parser has symbols to look at it is inside a message, and they
\* are the next ones of that message.
LEMMA Located ==
    ASSUME TypeOK, ChunkFollows, chunk # <<>>,
           NEW ends \in [0..Len(sent) -> Nat], Laid(ends), Place(ends)
    PROVE  \E m \in Messages, o \in Nat :
              /\ Len(got) < Len(sent) /\ m = sent[Len(got) + 1]
              /\ At = ends[Len(got)] + o /\ InMessage(m, o)
              /\ \A i \in 1..Len(chunk) : o + i <= Len(Encoded(m)) => chunk[i] = Encoded(m)[o + i]
              /\ Head(chunk) = Encoded(m)[o + 1]
              /\ ends[Len(got) + 1] = ends[Len(got)] + Len(Encoded(m))
<1>1. /\ Len(chunk) \in Nat /\ Len(chunk) > 0 /\ Len(got) \in Nat /\ Len(sent) \in Nat
      /\ Len(stream) \in Nat /\ read \in Nat /\ read <= Len(stream) /\ Head(chunk) = chunk[1]
  BY DEF TypeOK
<1>2. Len(got) # Len(sent)
  <2>1. ASSUME At = ends[Len(sent)] PROVE FALSE
    <3>1. At = Len(stream)
      BY <2>1 DEF Laid
    <3> QED BY <1>1, <3>1 DEF At
  <2>2. ASSUME Len(got) = Len(sent) PROVE FALSE
    <3>1. At = ends[Len(sent)]
      BY <2>2 DEF Place
    <3> QED BY <2>1, <3>1
  <2> QED BY <2>2
<1>3. PICK m \in Messages, o \in Nat :
        /\ Len(got) < Len(sent) /\ m = sent[Len(got) + 1]
        /\ At = ends[Len(got)] + o /\ InMessage(m, o)
  BY <1>2 DEF Place
<1>4. Len(got) + 1 \in 1..Len(sent) /\ Len(got) + 1 - 1 = Len(got)
  BY <1>1, <1>3
<1>5. /\ ends[Len(got) + 1] = ends[Len(got)] + Len(Encoded(m))
      /\ InStream(m, ends[Len(got)])
  BY <1>3, <1>4 DEF Laid
<1>6. ends[Len(got)] \in Nat /\ o < Len(Encoded(m)) /\ Len(Encoded(m)) \in Nat
  <2>1. Len(got) \in 0..Len(sent)
    BY <1>1, <1>3
  <2> QED BY <2>1, <1>3, OffsetInside
<1>7. ASSUME NEW i \in 1..Len(chunk), o + i <= Len(Encoded(m))
      PROVE  chunk[i] = Encoded(m)[o + i]
  <2>1. chunk[i] = stream[At + i]
    BY DEF ChunkFollows
  <2>2. o + i \in 1..Len(Encoded(m)) /\ At + i = ends[Len(got)] + (o + i)
    BY <1>1, <1>3, <1>6, <1>7
  <2>3. stream[ends[Len(got)] + (o + i)] = Encoded(m)[o + i]
    BY <1>5, <2>2 DEF InStream
  <2> QED BY <2>1, <2>2, <2>3
<1>8. Head(chunk) = Encoded(m)[o + 1]
  <2>1. 1 \in 1..Len(chunk) /\ o + 1 <= Len(Encoded(m))
    BY <1>1, <1>6
  <2> QED BY <1>1, <1>7, <2>1
<1> QED BY <1>3, <1>5, <1>7, <1>8

LEMMA MovedFollows ==
    ASSUME TypeOK, ChunkFollows, NEW k \in 1..Len(chunk), Moved(k), UNCHANGED peerVars
    PROVE  ChunkFollows' /\ At' = At + k
<1>1. Len(chunk) \in Nat /\ read \in Nat /\ k \in Nat /\ k <= Len(chunk)
  BY DEF TypeOK
<1>2. read' = read /\ stream' = stream /\ Len(chunk') = Len(chunk) - k
  BY DEF peerVars, Moved
<1>3. At' = At + k
  BY <1>1, <1>2 DEF At
<1>4. At \in Nat
  BY <1>1 DEF ChunkFollows, At
<1>5. ASSUME NEW i \in 1..Len(chunk') PROVE chunk'[i] = stream'[At' + i]
  <2>1. k + i \in 1..Len(chunk) /\ At' + i = At + (k + i)
    BY <1>1, <1>2, <1>3, <1>4
  <2>2. chunk'[i] = chunk[k + i]
    BY DEF Moved
  <2>3. chunk[k + i] = stream[At + (k + i)]
    BY <2>1 DEF ChunkFollows
  <2> QED BY <1>2, <2>1, <2>2, <2>3
<1>6. At' >= 0
  BY <1>1, <1>3, <1>4
<1> QED BY <1>3, <1>5, <1>6 DEF ChunkFollows

LEMMA InputStep ==
    ASSUME TypeOK, TypeOK', broken = 0, Unbroken, InputData
    PROVE  IF broken' = 0 THEN Unbroken' ELSE Broken'
<1>1. UNCHANGED peerVars /\ chunk # <<>>
  BY DEF InputData, SkipCR, Collect, EndStartLine, EndField, EndHead, OnBody, NextIs
<1>2. /\ ChunkFollows /\ \A i \in 1..Len(got) : Given(got[i]) = Meant(sent[i])
  BY DEF Unbroken
<1>3. PICK ends \in [0..Len(sent) -> Nat] : Laid(ends) /\ Place(ends)
  BY DEF Unbroken
<1>4. PICK m \in Messages, o \in Nat :
        /\ Len(got) < Len(sent) /\ m = sent[Len(got) + 1]
        /\ At = ends[Len(got)] + o /\ InMessage(m, o)
        /\ \A i \in 1..Len(chunk) : o + i <= Len(Encoded(m)) => chunk[i] = Encoded(m)[o + i]
        /\ Head(chunk) = Encoded(m)[o + 1]
        /\ ends[Len(got) + 1] = ends[Len(got)] + Len(Encoded(m))
  BY <1>1, <1>2, <1>3, Located
<1>5. Outcome(m, o)
  BY <1>4, SkipCRInside, CollectInside, EndStartLineInside, EndFieldInside, EndHeadInside,
     OnBodyInside DEF InputData
<1>6. /\ kind' = kind /\ creates' = creates /\ sent' = sent /\ stream' = stream /\ read' = read
  BY <1>1 DEF peerVars
<1>7. Len(got) \in Nat /\ Len(sent) \in Nat /\ Len(chunk) \in Nat /\ got \in Seq(Parsed)
  BY DEF TypeOK
<1>8. Laid(ends)' /\ ends \in [0..Len(sent') -> Nat]
  BY <1>3, <1>6 DEF Laid, InStream
<1>9. CASE /\ Breaks /\ MayBreak(m)
           /\ got' = got \/ \E g \in Parsed : got' = Append(got, g)
  <2>1. broken' = Len(got) + 1
    BY <1>9 DEF Breaks
  <2>a. Len(got') \in Nat /\ Len(got') >= Len(got) /\ \A i \in 1..Len(got) : got'[i] = got[i]
    BY <1>7, <1>9
  <2>2. broken' \in Nat /\ broken' # 0 /\ broken' <= Len(sent') /\ broken' <= Len(got') + 1
        /\ broken' - 1 = Len(got)
    BY <1>4, <1>6, <1>7, <2>1, <2>a
  <2>3. \A i \in 1..(broken' - 1) : Given(got'[i]) = Meant(sent'[i])
    BY <1>2, <1>6, <2>2, <2>a
  <2>4. MayBreak(sent[broken])'
    BY <1>4, <1>6, <1>9, <2>1 DEF MayBreak, Refusable, Misfittable
  <2>5. Broken'
    BY <2>2, <2>3, <2>4 DEF Broken, Given, Meant, Content
  <2> QED BY <2>2, <2>5
<1>10. ASSUME NEW k \in 1..Len(chunk), Moved(k), UNCHANGED <<got, broken>>, InMessage(m, o + k)'
       PROVE  broken' = 0 /\ Unbroken'
  <2>1. ChunkFollows' /\ At' = At + k
    BY <1>1, <1>2, <1>10, MovedFollows
  <2>2. ends[Len(got)] \in Nat
    <3>1. Len(got) \in 0..Len(sent)
      BY <1>4, <1>7
    <3> QED BY <3>1
  <2>3. o + k \in Nat /\ At' = ends[Len(got')] + (o + k)
    BY <1>4, <1>7, <1>10, <2>1, <2>2
  <2>4. Place(ends)'
    BY <1>4, <1>6, <1>10, <2>3 DEF Place
  <2>5. \A i \in 1..Len(got') : Given(got'[i]) = Meant(sent'[i])
    BY <1>2, <1>6, <1>10
  <2> QED BY <1>8, <1>10, <2>1, <2>4, <2>5 DEF Unbroken, Given, Meant, Content
<1>11. ASSUME NEW k \in 1..Len(chunk), Moved(k), o + k = Len(Encoded(m)),
              NEW g \in Parsed, Push(g), Given(g) = Meant(m), UNCHANGED broken
       PROVE  broken' = 0 /\ Unbroken'
  <2>1. ChunkFollows' /\ At' = At + k
    BY <1>1, <1>2, <1>11, MovedFollows
  <2>2. /\ got' = Append(got, g) /\ broken' = broken
        /\ status' = "START_LINE" /\ cache' = <<>> /\ tmp' = Fresh(kind)
    BY <1>11 DEF Push
  <2>3. /\ Len(got') = Len(got) + 1 /\ got'[Len(got) + 1] = g
        /\ \A i \in 1..Len(got) : got'[i] = got[i]
    BY <1>7, <2>2
  <2>4. ASSUME NEW i \in 1..Len(got') PROVE Given(got'[i]) = Meant(sent'[i])
    <3>1. i \in 1..Len(got) \/ i = Len(got) + 1
      BY <1>7, <2>3
    <3>2. CASE i \in 1..Len(got)
      <4>1. got'[i] = got[i] /\ Given(got[i]) = Meant(sent[i])
        BY <1>2, <2>3, <3>2
      <4> QED BY <1>6, <4>1
    <3>3. CASE i = Len(got) + 1
      <4>1. got'[i] = g /\ sent'[i] = m
        BY <1>4, <1>6, <2>3, <3>3
      <4> QED BY <1>11, <4>1
    <3> QED BY <3>1, <3>2, <3>3
  <2>5. Waits'
    BY <1>6, <2>2 DEF Waits, Fresh
  <2>6. At' = ends[Len(got')]
    <3>1. ends[Len(got)] \in Nat
      <4>1. Len(got) \in 0..Len(sent)
        BY <1>4, <1>7
      <4> QED BY <4>1
    <3>2. At' = (ends[Len(got)] + o) + k /\ Len(Encoded(m)) = o + k
      BY <1>4, <1>11, <2>1
    <3>3. ends[Len(got')] = ends[Len(got)] + Len(Encoded(m))
      BY <1>4, <2>3
    <3>4. k \in Nat /\ o \in Nat
      BY <1>4, <1>7
    <3> QED BY <3>1, <3>2, <3>3, <3>4
  <2>7. Place(ends)'
    <3>1. CASE Len(got') = Len(sent')
      BY <2>5, <2>6, <3>1 DEF Place
    <3>2. CASE Len(got') # Len(sent')
      <4>1. Len(got') < Len(sent') /\ Len(got') + 1 \in 1..Len(sent')
        BY <1>4, <1>6, <1>7, <2>3, <3>2
      <4>2. PICK x \in Messages : x = sent'[Len(got') + 1]
        <5>1. sent' \in Seq(Messages)
          BY DEF TypeOK
        <5> QED BY <4>1, <5>1
      <4>3. InMessage(x, 0)'
        <5>1. x.words \in Nat /\ Len(<<>>) = 0
          BY MessageFacts
        <5> QED BY <2>5, <5>1 DEF Waits, InMessage, InStart
      <4>4. At' = ends[Len(got')] + 0 /\ 0 \in Nat
        <5>1. ends[Len(got')] \in Nat
          <6>1. Len(got') \in 0..Len(sent)
            BY <1>4, <1>7, <2>3
          <6> QED BY <6>1
        <5> QED BY <2>6, <5>1
      <4> QED BY <4>1, <4>2, <4>3, <4>4 DEF Place
    <3> QED BY <3>1, <3>2
  <2> QED BY <1>8, <2>1, <2>2, <2>4, <2>7 DEF Unbroken, Given, Meant, Content
<1> QED BY <1>5, <1>9, <1>10, <1>11 DEF Outcome

LEMMA SameInside ==
    ASSUME UNCHANGED <<kind, status, cache, tmp>>, NEW m, NEW o
    PROVE  (InMessage(m, o)' <=> InMessage(m, o)) /\ (Waits' <=> Waits)
BY DEF InMessage, InStart, InHead, InBody, HeadTmp, Fresh, Waits

LEMMA SamePlace ==
    ASSUME UNCHANGED <<kind, sent, stream, status, cache, tmp, got>>, At' = At,
           NEW ends, Laid(ends), Place(ends)
    PROVE  Laid(ends)' /\ Place(ends)'
<1>1. Laid(ends)'
  BY DEF Laid, InStream
<1>2. CASE Len(got) = Len(sent) /\ Waits /\ At = ends[Len(got)]
  BY <1>1, <1>2, SameInside DEF Place
<1>3. CASE /\ Len(got) < Len(sent)
           /\ \E m \in Messages, o \in Nat :
                 m = sent[Len(got) + 1] /\ At = ends[Len(got)] + o /\ InMessage(m, o)
  <2>1. PICK m \in Messages, o \in Nat :
          m = sent[Len(got) + 1] /\ At = ends[Len(got)] + o /\ InMessage(m, o)
    BY <1>3
  <2>2. InMessage(m, o)'
    BY <2>1, SameInside
  <2> QED BY <1>1, <1>3, <2>1, <2>2 DEF Place
<1> QED BY <1>2, <1>3 DEF Place

LEMMA ArriveStep ==
    ASSUME TypeOK, Unbroken, NEW n \in 1..Len(stream), Arrive(n)
    PROVE  Unbroken'
<1>1. /\ chunk = <<>> /\ read + n <= Len(stream) /\ chunk' = SubSeq(stream, read + 1, read + n)
      /\ read' = read + n
      /\ UNCHANGED <<kind, sent, stream, status, cache, tmp, got, broken>>
  BY DEF Arrive
<1>2. stream \in Seq(Bytes) /\ read \in Nat /\ n \in Nat /\ Len(stream) \in Nat /\ read + n \in Nat
  BY DEF TypeOK
<1>3. Len(chunk') = n /\ \A i \in 1..n : chunk'[i] = stream[read + i]
  <2>1. read <= read + n /\ read + n - read = n
    BY <1>2
  <2>2. /\ Len(chunk') = (read + n) - read
        /\ \A i \in 1..((read + n) - read) : chunk'[i] = stream[read + i]
    <3> DEFINE b == read + n
    <3>1. b \in Nat /\ read <= b /\ b <= Len(stream) /\ chunk' = SubSeq(stream, read + 1, b)
      BY <1>1, <1>2, <2>1
    <3> HIDE DEF b
    <3>2. /\ Len(chunk') = b - read
          /\ \A i \in 1..(b - read) : chunk'[i] = stream[read + i]
      BY <1>2, <3>1, SubSeqFacts
    <3> QED BY <3>2 DEF b
  <2>3. ASSUME NEW i \in 1..n PROVE chunk'[i] = stream[read + i]
    <3>1. i \in 1..((read + n) - read)
      BY <1>2
    <3> QED BY <2>2, <3>1, Zenon
  <2>4. Len(chunk') = n
    BY <1>2, <2>2
  <2> QED BY <2>3, <2>4
<1>4. At' = read /\ At = read
  BY <1>1, <1>2, <1>3 DEF At
<1>5. ChunkFollows'
  BY <1>1, <1>2, <1>3, <1>4 DEF ChunkFollows
<1>6. PICK ends \in [0..Len(sent) -> Nat] : Laid(ends) /\ Place(ends)
  BY DEF Unbroken
<1>7. Laid(ends)' /\ Place(ends)' /\ ends \in [0..Len(sent') -> Nat]
  BY <1>1, <1>4, <1>6, SamePlace
<1>8. \A i \in 1..Len(got') : Given(got'[i]) = Meant(sent'[i])
  BY <1>1 DEF Unbroken
<1> QED BY <1>5, <1>7, <1>8 DEF Unbroken, Given, Meant, Content

LEMMA PeerSendsStep ==
    ASSUME TypeOK, Unbroken, NEW x \in Messages, PeerSends(x)
    PROVE  Unbroken'
<1>1. /\ sent' = Append(sent, x) /\ stream' = stream \o Encoded(x)
      /\ UNCHANGED <<kind, read, chunk, status, cache, tmp, got, broken>>
  BY DEF PeerSends
<1>2. /\ sent \in Seq(Messages) /\ Len(sent) \in Nat /\ stream \in Seq(Bytes) /\ Len(stream) \in Nat
      /\ read \in Nat /\ read <= Len(stream) /\ Len(chunk) \in Nat /\ Len(got) \in Nat
  BY DEF TypeOK
<1>3. /\ Len(sent') = Len(sent) + 1 /\ sent'[Len(sent) + 1] = x
      /\ \A k \in 1..Len(sent) : sent'[k] = sent[k]
  BY <1>1, <1>2
<1>4. Encoded(x) \in Seq(Bytes) /\ Len(Encoded(x)) \in Nat
  <2>1. Encoded(x) \in Seq(Bytes)
    BY EncodedFacts
  <2> QED BY <2>1
<1>5. /\ Len(stream') = Len(stream) + Len(Encoded(x))
      /\ \A i \in 1..Len(stream) : stream'[i] = stream[i]
      /\ \A i \in 1..Len(Encoded(x)) : stream'[Len(stream) + i] = Encoded(x)[i]
  <2>1. Joins(stream', stream, Encoded(x))
    BY <1>1, <1>2, <1>4, ConcatFacts
  <2> QED BY <2>1 DEF Joins
<1>6. PICK ends \in [0..Len(sent) -> Nat] : Laid(ends) /\ Place(ends)
  BY DEF Unbroken
<1> DEFINE new == [k \in 0..(Len(sent) + 1) |-> IF k = Len(sent) + 1 THEN Len(stream') ELSE ends[k]]
<1>7. Len(stream') \in Nat
  BY <1>2, <1>4, <1>5
<1>8. new \in [0..Len(sent') -> Nat]
  BY <1>2, <1>3, <1>6, <1>7
<1>9. /\ \A k \in 0..Len(sent) : new[k] = ends[k]
      /\ new[Len(sent) + 1] = Len(stream')
  BY <1>2
<1> HIDE DEF new
<1>10. PICK e : e = new
  OBVIOUS
<1>11. \A k \in 0..Len(sent) : ends[k] \in Nat
  BY <1>6
<1>12. ASSUME NEW k \in 1..Len(sent')
       PROVE  /\ e[k] = e[k - 1] + Len(Encoded(sent'[k]))
              /\ e[k - 1] + Len(Encoded(sent'[k])) <= Len(stream')
              /\ \A j \in 1..Len(Encoded(sent'[k])) : stream'[e[k - 1] + j] = Encoded(sent'[k])[j]
  <2>1. CASE k \in 1..Len(sent)
    <3>1. k - 1 \in 0..Len(sent) /\ k \in 0..Len(sent)
      BY <1>2, <2>1
    <3>2. sent'[k] = sent[k] /\ e[k] = ends[k] /\ e[k - 1] = ends[k - 1] /\ ends[k - 1] \in Nat
      BY <1>3, <1>9, <1>10, <1>11, <2>1, <3>1
    <3>3. /\ ends[k] = ends[k - 1] + Len(Encoded(sent[k]))
          /\ InStream(sent[k], ends[k - 1])
      BY <1>6, <2>1 DEF Laid
    <3>4. Len(Encoded(sent[k])) \in Nat
      <4>1. sent[k] \in Messages
        BY <1>2, <2>1
      <4>2. Encoded(sent[k]) \in Seq(Bytes)
        BY <4>1, EncodedFacts
      <4> QED BY <4>2
    <3>5. ends[k - 1] + Len(Encoded(sent[k])) <= Len(stream)
      BY <3>3 DEF InStream
    <3>6. ASSUME NEW j \in 1..Len(Encoded(sent[k]))
          PROVE  stream'[ends[k - 1] + j] = Encoded(sent[k])[j]
      <4>1. ends[k - 1] + j \in 1..Len(stream)
        <5>1. j \in Nat /\ 1 <= j /\ j <= Len(Encoded(sent[k])) /\ ends[k - 1] \in Nat
          BY <3>2, <3>4
        <5>2. Len(stream) \in Nat /\ Len(Encoded(sent[k])) \in Nat
          BY <1>2, <3>4
        <5> QED BY <3>5, <5>1, <5>2
      <4>2. stream[ends[k - 1] + j] = Encoded(sent[k])[j]
        BY <3>3 DEF InStream
      <4> QED BY <1>5, <4>1, <4>2
    <3>7. ends[k - 1] + Len(Encoded(sent[k])) <= Len(stream')
      BY <1>2, <1>4, <1>5, <3>2, <3>4, <3>5
    <3> QED BY <3>2, <3>3, <3>6, <3>7
  <2>2. CASE k = Len(sent) + 1
    <3>1. /\ k - 1 = Len(sent) /\ Len(sent) \in 0..Len(sent)
      BY <1>2, <2>2
    <3>2. e[k - 1] = Len(stream) /\ e[k] = Len(stream') /\ sent'[k] = x
      BY <1>3, <1>6, <1>9, <1>10, <2>2, <3>1 DEF Laid
    <3>3. /\ Len(stream') = Len(stream) + Len(Encoded(x)) /\ Len(stream') <= Len(stream')
      BY <1>5, <1>7
    <3>4. \A j \in 1..Len(Encoded(x)) : stream'[Len(stream) + j] = Encoded(x)[j]
      BY <1>5
    <3> QED BY <3>2, <3>3, <3>4
  <2> QED BY <1>2, <1>3, <2>1, <2>2
<1>13. Laid(e)'
  <2>1. e[0] = 0 /\ e[Len(sent')] = Len(stream')
    <3>1. 0 \in 0..Len(sent) /\ ends[0] = 0
      BY <1>2, <1>6 DEF Laid
    <3> QED BY <1>3, <1>9, <1>10, <3>1
  <2> QED BY <1>12, <2>1 DEF Laid, InStream
<1>14. At' = At
  BY <1>1 DEF At
<1>15. ASSUME NEW m, NEW o PROVE InMessage(m, o)' <=> InMessage(m, o)
  BY <1>1, SameInside
<1>16. Place(e)'
  <2>1. CASE Len(got) = Len(sent) /\ Waits /\ At = ends[Len(got)]
    <3>1. InMessage(x, 0)
      BY <2>1, WaitsInStart
    <3>2. InMessage(x, 0)'
      BY <3>1, <1>15
    <3>3. Len(got') < Len(sent') /\ x = sent'[Len(got') + 1]
      BY <1>1, <1>2, <1>3, <2>1
    <3>4. Len(got) \in 0..Len(sent)
      BY <1>2, <2>1
    <3>5. At' = e[Len(got')] + 0 /\ 0 \in Nat
      BY <1>1, <1>9, <1>10, <1>11, <1>14, <2>1, <3>4
    <3> QED BY <3>2, <3>3, <3>5 DEF Place
  <2>2. CASE /\ Len(got) < Len(sent)
             /\ \E m \in Messages, o \in Nat :
                   m = sent[Len(got) + 1] /\ At = ends[Len(got)] + o /\ InMessage(m, o)
    <3>1. PICK m \in Messages, o \in Nat :
            m = sent[Len(got) + 1] /\ At = ends[Len(got)] + o /\ InMessage(m, o)
      BY <2>2
    <3>2. InMessage(m, o)'
      BY <3>1, <1>15
    <3>3. Len(got') < Len(sent') /\ Len(got) + 1 \in 1..Len(sent) /\ Len(got) \in 0..Len(sent)
      BY <1>1, <1>2, <1>3, <2>2
    <3>4. m = sent'[Len(got') + 1] /\ At' = e[Len(got')] + o
      BY <1>1, <1>3, <1>9, <1>10, <1>14, <3>1, <3>3
    <3> QED BY <3>2, <3>3, <3>4 DEF Place
  <2> QED BY <1>6, <2>1, <2>2 DEF Place
<1>17. ChunkFollows'
  <2>1. ChunkFollows
    BY DEF Unbroken
  <2>2. At \in Nat /\ At + Len(chunk) = read
    BY <1>2, <2>1 DEF ChunkFollows, At
  <2>3. ASSUME NEW i \in 1..Len(chunk') PROVE chunk'[i] = stream'[At' + i]
    <3>1. i \in 1..Len(chunk) /\ At + i \in 1..Len(stream)
      BY <1>1, <1>2, <2>2
    <3> QED BY <1>1, <1>5, <1>14, <2>1, <3>1 DEF ChunkFollows
  <2> QED BY <1>14, <2>2, <2>3 DEF ChunkFollows
<1>18. \A i \in 1..Len(got') : Given(got'[i]) = Meant(sent'[i])
  <2>1. Len(got) <= Len(sent)
    BY <1>2, <1>6 DEF Place
  <2>2. \A i \in 1..Len(got) : i \in 1..Len(sent)
    BY <1>2, <2>1
  <2>3. \A i \in 1..Len(got) : Given(got[i]) = Meant(sent[i])
    BY DEF Unbroken
  <2> QED BY <1>1, <1>3, <2>2, <2>3
<1>19. e \in [0..Len(sent') -> Nat]
  BY <1>8, <1>10
<1> QED BY <1>13, <1>16, <1>17, <1>18, <1>19 DEF Unbroken, Given, Meant, Content

\* After an error nothing changes what was given and sent before it.
LEMMA BrokenStep ==
    ASSUME TypeOK, broken # 0, Broken, [Next]_vars
    PROVE  broken' # 0 /\ Broken'
<1>1. /\ Len(got) \in Nat /\ Len(sent) \in Nat /\ got \in Seq(Parsed) /\ sent \in Seq(Messages)
      /\ broken \in Nat
  BY DEF TypeOK
<1>2. kind' = kind /\ creates' = creates /\ broken' = broken
  BY DEF Breaks, Next, InputData, PeerSends, Arrive, SkipCR, Collect, EndStartLine, EndField, EndHead,
     OnBody, Fail, Push, peerVars, vars
<1>3. got' = got \/ \E g \in Parsed : got' = Append(got, g)
  <2>1. CASE EndHead
    <3>1. got' = got \/ \E offered \in Offered :
             got' = Append(got, [tmp EXCEPT !.body = IF offered = NoBody THEN AutoBody ELSE offered])
      BY <2>1 DEF EndHead, Fail, Push
    <3>2. \A offered \in Offered :
             [tmp EXCEPT !.body = IF offered = NoBody THEN AutoBody ELSE offered] \in Parsed
      <4> TAKE offered \in Offered
      <4>1. (IF offered = NoBody THEN AutoBody ELSE offered) \in GoodBodies
        BY EndHeadBodies
      <4> QED BY <4>1, ParsedFacts DEF TypeOK
    <3> QED BY <3>1, <3>2
  <2>2. CASE OnBody
    <3>1. got' = got \/ got' = Append(got, [tmp EXCEPT !.body = WriteBody(tmp.body, chunk)])
      BY <2>2 DEF OnBody, Push
    <3>2. WriteBody(tmp.body, chunk) \in GoodBodies
      BY ParsedFacts, WriteBodyOK DEF TypeOK
    <3>3. [tmp EXCEPT !.body = WriteBody(tmp.body, chunk)] \in Parsed
      BY <3>2, ParsedFacts DEF TypeOK
    <3> QED BY <3>1, <3>3
  <2>3. CASE ~EndHead /\ ~OnBody
    BY <2>3 DEF Next, InputData, PeerSends, Arrive, SkipCR, Collect, EndStartLine, EndField, Fail,
       vars
  <2> QED BY <2>1, <2>2, <2>3
<1>4. Len(got') >= Len(got) /\ Len(got') \in Nat /\ \A i \in 1..Len(got) : got'[i] = got[i]
  BY <1>1, <1>3
<1>5. sent' = sent \/ \E m \in Messages : sent' = Append(sent, m)
  BY DEF Next, InputData, PeerSends, Arrive, SkipCR, Collect, EndStartLine, EndField, EndHead,
     OnBody, peerVars, vars
<1>6. Len(sent') >= Len(sent) /\ Len(sent') \in Nat /\ \A i \in 1..Len(sent) : sent'[i] = sent[i]
  BY <1>1, <1>5
<1>7. broken <= Len(sent) /\ broken <= Len(got) + 1 /\ MayBreak(sent[broken])
  BY DEF Broken
<1>8. broken \in 1..Len(sent) /\ \A i \in 1..(broken - 1) : i \in 1..Len(got) /\ i \in 1..Len(sent)
  BY <1>1, <1>7
<1>9. \A i \in 1..(broken' - 1) : Given(got'[i]) = Meant(sent'[i])
  <2>1. \A i \in 1..(broken - 1) : Given(got[i]) = Meant(sent[i])
    BY DEF Broken
  <2> QED BY <1>2, <1>4, <1>6, <1>8, <2>1
<1>10. MayBreak(sent[broken])'
  <2>1. sent'[broken'] = sent[broken]
    BY <1>2, <1>6, <1>8
  <2> QED BY <1>2, <1>7, <2>1 DEF MayBreak, Refusable, Misfittable
<1>11. broken' <= Len(sent') /\ broken' <= Len(got') + 1
  BY <1>1, <1>2, <1>4, <1>6, <1>7
<1> QED BY <1>2, <1>9, <1>10, <1>11 DEF Broken, Given, Meant, Content

LEMMA ParserInvInit ==
    ASSUME Init
    PROVE  ParserInv
<1>1. TypeOK
  BY InitType
<1>2. /\ sent = <<>> /\ stream = <<>> /\ read = 0 /\ chunk = <<>> /\ status = "START_LINE"
      /\ cache = <<>> /\ tmp = Fresh(kind) /\ got = <<>> /\ broken = 0
  BY DEF Init
<1>3. Len(sent) = 0 /\ Len(stream) = 0 /\ Len(chunk) = 0 /\ Len(got) = 0 /\ At = 0
  <2>1. Len(<<>>) = 0 /\ 0 - 0 = 0
    OBVIOUS
  <2> QED BY <1>2, <2>1, Zenon DEF At
<1> DEFINE e == [k \in 0..0 |-> 0]
<1>4. e \in [0..Len(sent) -> Nat] /\ e[0] = 0
  BY <1>3
<1> HIDE DEF e
<1>5. Laid(e)
  BY <1>3, <1>4 DEF Laid
<1>6. Place(e)
  BY <1>2, <1>3, <1>4 DEF Place, Waits
<1>7. ChunkFollows /\ \A i \in 1..Len(got) : Given(got[i]) = Meant(sent[i])
  BY <1>3 DEF ChunkFollows
<1> QED BY <1>1, <1>2, <1>4, <1>5, <1>6, <1>7 DEF ParserInv, Unbroken

LEMMA ParserInvStep ==
    ASSUME ParserInv, [Next]_vars
    PROVE  ParserInv'
<1>1. TypeOK /\ TypeOK'
  BY TypeStep DEF ParserInv
<1>2. CASE broken # 0
  BY <1>1, <1>2, BrokenStep DEF ParserInv
<1>3. CASE broken = 0
  <2>1. Unbroken
    BY <1>3 DEF ParserInv
  <2>2. ASSUME NEW m \in Messages, PeerSends(m) PROVE ParserInv'
    <3>1. broken' = 0
      BY <1>3, <2>2 DEF PeerSends
    <3> QED BY <1>1, <2>1, <2>2, <3>1, PeerSendsStep DEF ParserInv
  <2>3. ASSUME NEW n \in 1..Len(stream), Arrive(n) PROVE ParserInv'
    <3>1. broken' = 0
      BY <1>3, <2>3 DEF Arrive
    <3> QED BY <1>1, <2>1, <2>3, <3>1, ArriveStep DEF ParserInv
  <2>4. CASE InputData
    BY <1>1, <1>3, <2>1, <2>4, InputStep DEF ParserInv
  <2>5. CASE UNCHANGED vars
    <3>1. UNCHANGED <<kind, sent, stream, read, chunk, status, cache, tmp, got, broken>>
      BY <2>5 DEF vars
    <3>2. At' = At /\ ChunkFollows'
      BY <2>1, <3>1 DEF At, ChunkFollows, Unbroken
    <3>3. PICK ends \in [0..Len(sent) -> Nat] : Laid(ends) /\ Place(ends)
      BY <2>1 DEF Unbroken
    <3>4. Laid(ends)' /\ Place(ends)' /\ ends \in [0..Len(sent') -> Nat]
      BY <3>1, <3>2, <3>3, SamePlace
    <3>5. \A i \in 1..Len(got') : Given(got'[i]) = Meant(sent'[i])
      BY <2>1, <3>1 DEF Unbroken
    <3>6. Unbroken'
      BY <3>2, <3>4, <3>5 DEF Unbroken, Given, Meant, Content
    <3> QED BY <1>1, <1>3, <3>1, <3>6 DEF ParserInv
  <2> QED BY <2>2, <2>3, <2>4, <2>5 DEF Next
<1> QED BY <1>2, <1>3

LEMMA ParserInvSuffices ==
    ASSUME ParserInv
    PROVE  MessagesAsSent
<1>1. /\ TypeOK /\ Len(got) \in Nat /\ Len(sent) \in Nat /\ Len(stream) \in Nat /\ broken \in Nat
  BY DEF ParserInv, TypeOK
<1>2. CASE broken # 0
  <2>1. Broken
    BY <1>2 DEF ParserInv
  <2>2. broken - 1 <= Len(sent)
    BY <1>1, <2>1 DEF Broken
  <2> QED BY <1>2, <2>1, <2>2 DEF Broken, MayBreak, MessagesAsSent
<1>3. CASE broken = 0
  <2>1. Unbroken
    BY <1>3 DEF ParserInv
  <2>2. PICK ends \in [0..Len(sent) -> Nat] : Laid(ends) /\ Place(ends)
    BY <2>1 DEF Unbroken
  <2>3. Len(got) <= Len(sent)
    BY <1>1, <2>2 DEF Place
  <2>4. ASSUME read = Len(stream), chunk = <<>>, Len(got) # Len(sent) PROVE FALSE
    <3>1. At = Len(stream)
      BY <1>1, <2>4 DEF At
    <3>2. PICK m \in Messages, o \in Nat :
            /\ Len(got) < Len(sent) /\ m = sent[Len(got) + 1]
            /\ At = ends[Len(got)] + o /\ InMessage(m, o)
      BY <2>2, <2>4 DEF Place
    <3>3. o < Len(Encoded(m)) /\ Len(Encoded(m)) \in Nat
      BY <1>1, <3>2, OffsetInside
    <3>4. Len(got) + 1 \in 1..Len(sent) /\ Len(got) + 1 - 1 = Len(got) /\ Len(got) \in 0..Len(sent)
      BY <1>1, <3>2
    <3>5. ends[Len(got)] + Len(Encoded(m)) <= Len(stream) /\ ends[Len(got)] \in Nat
      BY <2>2, <3>2, <3>4 DEF Laid, InStream
    <3> QED BY <1>1, <3>1, <3>2, <3>3, <3>5
  <2>5. \A i \in 1..Len(got) : Given(got[i]) = Meant(sent[i])
    BY <2>1 DEF Unbroken
  <2> QED BY <1>3, <2>3, <2>4, <2>5 DEF MessagesAsSent
<1> QED BY <1>2, <1>3

\* Whatever messages a peer sends, and however their symbols are cut into
\* chunks: until input_data returns an error or takes a body of another length,
\* the application is given the messages that were sent, in order, each once,
\* with the same line, fields and body; and only a message that may be refused,
\* or may meet such a body, ends that.
THEOREM ParserMessagesAsSent == Spec => []MessagesAsSent
<1>1. Init => ParserInv
  BY ParserInvInit
<1>2. ParserInv /\ [Next]_vars => ParserInv'
  BY ParserInvStep
<1>3. ParserInv => MessagesAsSent
  BY ParserInvSuffices
<1> QED BY <1>1, <1>2, <1>3, PTL DEF Spec
=============================================================================
