--------------------------- MODULE HttpHeadProofs ---------------------------
(***************************************************************************)
(* What holds of HttpHead for all arguments of the setters, received and   *)
(* merged heads that its assumptions allow.                                *)
(***************************************************************************)
EXTENDS HttpHead, FiniteSetTheorems, WellFoundedInduction, TLAPS

----------------------------------------------------------------------------
(* Sequences                                                               *)

LEMMA IsSeqIntro ==
    ASSUME NEW S, NEW s \in Seq(S)
    PROVE  IsSeq(s)
<1>1. Len(s) \in Nat /\ DOMAIN s = 1..Len(s)
  OBVIOUS
<1>2. \A i \in 1..Len(s) : s[i] \in Range(s)
  BY <1>1 DEF Range
<1>3. s \in Seq(Range(s))
  BY <1>1, <1>2
<1> QED BY <1>3 DEF IsSeq

LEMMA IsSeqElim ==
    ASSUME NEW s, IsSeq(s)
    PROVE  /\ s \in Seq(Range(s)) /\ Len(s) \in Nat /\ DOMAIN s = 1..Len(s)
           /\ s = <<>> <=> Len(s) = 0
BY DEF IsSeq

LEMMA OneSeq ==
    ASSUME NEW v
    PROVE  IsSeq(<<v>>) /\ Len(<<v>>) = 1 /\ <<v>>[1] = v /\ <<v>> # <<>>
<1>1. <<v>> \in Seq({v})
  OBVIOUS
<1> QED BY <1>1, IsSeqIntro

LEMMA NilSeq ==
    ASSUME NEW s, s = <<>>
    PROVE  IsSeq(s) /\ Len(s) = 0 /\ DOMAIN s = {} /\ 1..Len(s) = {}
<1>1. s \in Seq({}) /\ Len(s) = 0
  OBVIOUS
<1>2. IsSeq(s)
  BY <1>1, IsSeqIntro
<1> QED BY <1>1, <1>2

LEMMA AppendSeq ==
    ASSUME NEW s, IsSeq(s), NEW v
    PROVE  /\ IsSeq(Append(s, v)) /\ Len(Append(s, v)) = Len(s) + 1
           /\ \A i \in 1..Len(s) : Append(s, v)[i] = s[i]
           /\ Append(s, v)[Len(s) + 1] = v
<1> DEFINE S == Range(s) \cup {v}
<1>1. s \in Seq(S)
  BY IsSeqElim
<1> HIDE DEF S
<1>2. v \in S
  BY DEF S
<1>3. Append(s, v) \in Seq(S)
  BY <1>1, <1>2
<1>4. IsSeq(Append(s, v))
  BY <1>3, IsSeqIntro
<1> QED BY <1>1, <1>2, <1>4

\* r is s followed by c.
Joins(r, s, c) ==
    /\ IsSeq(r) /\ Len(s) \in Nat /\ Len(c) \in Nat /\ Len(r) = Len(s) + Len(c)
    /\ \A i \in 1..Len(s) : r[i] = s[i]
    /\ \A i \in 1..Len(c) : r[Len(s) + i] = c[i]

LEMMA ConcatSeq ==
    ASSUME NEW s, NEW c, IsSeq(s), IsSeq(c)
    PROVE  Joins(s \o c, s, c)
<1> DEFINE S == Range(s) \cup Range(c)
<1>1. s \in Seq(S) /\ c \in Seq(S)
  BY IsSeqElim
<1> HIDE DEF S
<1>2. s \o c \in Seq(S)
  BY <1>1
<1>3. IsSeq(s \o c)
  BY <1>2, IsSeqIntro
<1> QED BY <1>1, <1>3 DEF Joins

LEMMA TailSeq ==
    ASSUME NEW s, IsSeq(s), s # <<>>
    PROVE  /\ IsSeq(Tail(s)) /\ Len(Tail(s)) = Len(s) - 1 /\ Head(s) = s[1]
           /\ \A i \in 1..(Len(s) - 1) : Tail(s)[i] = s[i + 1]
<1>1. s \in Seq(Range(s))
  BY IsSeqElim
<1>2. Tail(s) \in Seq(Range(s))
  BY <1>1
<1>3. IsSeq(Tail(s))
  BY <1>2, IsSeqIntro
<1> QED BY <1>1, <1>3

LEMMA SameSeq ==
    ASSUME NEW s, NEW r, IsSeq(s), IsSeq(r), Len(s) = Len(r), \A i \in 1..Len(s) : s[i] = r[i]
    PROVE  s = r
<1>1. s \in Seq(Range(s)) /\ r \in Seq(Range(r))
  BY IsSeqElim
<1> QED BY <1>1

LEMMA UnitSeq ==
    ASSUME NEW s, IsSeq(s), Len(s) = 1
    PROVE  s = <<s[1]>>
<1>1. IsSeq(<<s[1]>>) /\ Len(<<s[1]>>) = 1 /\ <<s[1]>>[1] = s[1]
  BY OneSeq
<1>2. \A i \in 1..1 : i = 1
  OBVIOUS
<1> QED BY <1>1, <1>2, SameSeq

LEMMA LeastNat ==
    ASSUME NEW T, T \subseteq Nat, T # {}
    PROVE  \E x \in T : \A y \in T : x <= y
<1> DEFINE R == OpToRel(<, Nat)
<1>1. \A x, y \in Nat : x < y => <<x, y>> \in R
  BY DEF OpToRel
<1>2. IsWellFoundedOn(R, Nat)
  BY NatLessThanWellFounded
<1> HIDE DEF R
<1>3. PICK x \in T : \A y \in T : ~(<<y, x>> \in R)
  BY <1>2, WFMin
<1>4. \A y \in T : ~(y < x)
  BY <1>1, <1>3
<1>5. \A y \in T : x <= y
  BY <1>4
<1> QED BY <1>5

LEMMA MinFacts ==
    ASSUME NEW T, T \subseteq Nat, T # {}
    PROVE  Min(T) \in T /\ \A y \in T : Min(T) <= y
<1>1. \E x \in T : \A y \in T : x <= y
  BY LeastNat
<1> QED BY <1>1 DEF Min

LEMMA Induction ==
    ASSUME NEW S, 0 \in S, \A n \in Nat : n \in S => n + 1 \in S
    PROVE  Nat \subseteq S
<1> DEFINE T == {n \in Nat : n \notin S}
<1> SUFFICES ASSUME T # {} PROVE FALSE
  OBVIOUS
<1>1. PICK x \in T : \A y \in T : x <= y
  BY LeastNat
<1>2. x \in Nat /\ x # 0 /\ x - 1 \in Nat /\ x - 1 < x
  BY <1>1
<1>3. x - 1 \notin T
  BY <1>1, <1>2
<1> QED BY <1>1, <1>2, <1>3

LEMMA SubSeqFacts ==
    ASSUME NEW s, IsSeq(s), NEW a \in Nat, NEW b \in Nat, a <= b, b <= Len(s)
    PROVE  /\ IsSeq(SubSeq(s, a + 1, b)) /\ Len(SubSeq(s, a + 1, b)) = b - a
           /\ \A i \in 1..(b - a) : SubSeq(s, a + 1, b)[i] = s[a + i]
<1>1. s \in Seq(Range(s))
  BY IsSeqElim
<1>2. SubSeq(s, a + 1, b) \in Seq(Range(s))
  BY <1>1
<1>3. IsSeq(SubSeq(s, a + 1, b))
  BY <1>2, IsSeqIntro
<1> QED BY <1>1, <1>3

LEMMA RemoveAtFacts ==
    ASSUME NEW s, IsSeq(s), NEW m \in 1..Len(s)
    PROVE  /\ IsSeq(RemoveAt(s, m)) /\ Len(RemoveAt(s, m)) = Len(s) - 1
           /\ \A i \in 1..(Len(s) - 1) : RemoveAt(s, m)[i] = s[IF i < m THEN i ELSE i + 1]
<1> DEFINE a == SubSeq(s, 1, m - 1)
           b == SubSeq(s, m + 1, Len(s))
           r == RemoveAt(s, m)
<1>1. Len(s) \in Nat /\ m - 1 \in Nat /\ 0 \in Nat /\ m \in Nat /\ 0 <= m - 1 /\ m - 1 <= Len(s) /\ m <= Len(s)
  BY IsSeqElim
<1>2. IsSeq(a) /\ Len(a) = m - 1 /\ \A i \in 1..(m - 1) : a[i] = s[i]
  <2>1. /\ IsSeq(SubSeq(s, 0 + 1, m - 1)) /\ Len(SubSeq(s, 0 + 1, m - 1)) = (m - 1) - 0
        /\ \A i \in 1..((m - 1) - 0) : SubSeq(s, 0 + 1, m - 1)[i] = s[0 + i]
    BY <1>1, SubSeqFacts
  <2>2. 0 + 1 = 1 /\ (m - 1) - 0 = m - 1
    BY <1>1
  <2> QED BY <1>1, <2>1, <2>2
<1>3. IsSeq(b) /\ Len(b) = Len(s) - m /\ \A i \in 1..(Len(s) - m) : b[i] = s[m + i]
  BY <1>1, SubSeqFacts
<1>4. r = a \o b
  BY DEF RemoveAt
<1> HIDE DEF a, b, r
<1>5. Joins(r, a, b)
  BY <1>2, <1>3, <1>4, ConcatSeq
<1>6. IsSeq(r) /\ Len(r) = Len(s) - 1
  BY <1>1, <1>2, <1>3, <1>5 DEF Joins
<1>7. \A i \in 1..(Len(s) - 1) : r[i] = s[IF i < m THEN i ELSE i + 1]
  <2> SUFFICES ASSUME NEW i \in 1..(Len(s) - 1) PROVE r[i] = s[IF i < m THEN i ELSE i + 1]
    OBVIOUS
  <2>1. CASE i < m
    <3>1. i \in 1..(m - 1)
      BY <1>1, <2>1
    <3>2. r[i] = a[i] /\ a[i] = s[i]
      BY <1>2, <1>5, <3>1 DEF Joins
    <3> QED BY <2>1, <3>2
  <2>2. CASE ~(i < m)
    <3>1. i - (m - 1) \in 1..Len(b) /\ (m - 1) + (i - (m - 1)) = i /\ m + (i - (m - 1)) = i + 1
      BY <1>1, <1>3, <2>2
    <3>2. r[(m - 1) + (i - (m - 1))] = b[i - (m - 1)]
      BY <1>2, <1>5, <3>1 DEF Joins
    <3>3. b[i - (m - 1)] = s[i + 1]
      BY <1>3, <3>1
    <3> QED BY <2>2, <3>1, <3>2, <3>3
  <2> QED BY <2>1, <2>2
<1> QED BY <1>6, <1>7 DEF r

----------------------------------------------------------------------------
(* The lines of a head                                                     *)

IsHead(h) == DOMAIN h = Keys /\ \A k \in Keys : IsSeq(h[k])

LEMMA KeysFinite == IsFiniteSet(Keys)
<1> DEFINE A == {"Range", "Content-Range", "Cookie"}
           B == {"Connection", "WWW-Authenticate", "Authorization"}
           C == {"Content-Type", "Set-Cookie"}
           D == {"X-Number", "X-Text"}
<1>1. \A x, y : IsFiniteSet({x, y})
  <2> TAKE x, y
  <2>1. IsFiniteSet({x} \cup {y})
    BY FS_Singleton, FS_AddElement
  <2>2. {x} \cup {y} = {x, y}
    OBVIOUS
  <2> QED BY <2>1, <2>2, Zenon
<1>2. IsFiniteSet(A)
  <2>1. IsFiniteSet({"Range", "Content-Range"} \cup {"Cookie"})
    BY <1>1, FS_AddElement
  <2>2. A = {"Range", "Content-Range"} \cup {"Cookie"}
    OBVIOUS
  <2> QED BY <2>1, <2>2, Zenon
<1>3. IsFiniteSet(B)
  <2>1. IsFiniteSet({"Connection", "WWW-Authenticate"} \cup {"Authorization"})
    BY <1>1, FS_AddElement
  <2>2. B = {"Connection", "WWW-Authenticate"} \cup {"Authorization"}
    OBVIOUS
  <2> QED BY <2>1, <2>2, Zenon
<1>4. Keys = (A \cup B) \cup (C \cup D)
  BY DEF Keys, Managed
<1>5. IsFiniteSet(C) /\ IsFiniteSet(D)
  BY <1>1
<1> HIDE DEF A, B, C, D
<1>6. IsFiniteSet(A \cup B) /\ IsFiniteSet(C \cup D)
  BY <1>2, <1>3, <1>5, FS_Union
<1> QED BY <1>4, <1>6, FS_Union

LEMMA UpTo ==
    ASSUME NEW n \in Nat
    PROVE  IsFiniteSet(1..n) /\ Cardinality(1..n) = n
<1>1. IsFiniteSet(1..n) /\ Cardinality(1..n) = IF 1 > n THEN 0 ELSE n - 1 + 1
  BY FS_Interval
<1> QED BY <1>1

LEMMA LinesBound ==
    ASSUME NEW h, IsHead(h), NEW k \in Keys
    PROVE  Lines(h) \in Nat /\ Len(h[k]) \in Nat /\ Len(h[k]) <= Lines(h)
<1> DEFINE Of(x) == {x} \X DOMAIN h[x]
           all == {Of(x) : x \in Keys}
<1>1. \A x \in Keys : /\ Len(h[x]) \in Nat
                      /\ IsFiniteSet(Of(x)) /\ Cardinality(Of(x)) = Len(h[x])
  <2> SUFFICES ASSUME NEW x \in Keys
               PROVE  /\ Len(h[x]) \in Nat
                      /\ IsFiniteSet(Of(x)) /\ Cardinality(Of(x)) = Len(h[x])
    OBVIOUS
  <2>1. Len(h[x]) \in Nat /\ DOMAIN h[x] = 1..Len(h[x])
    BY IsSeqElim DEF IsHead
  <2>2. IsFiniteSet(1..Len(h[x])) /\ Cardinality(1..Len(h[x])) = Len(h[x])
    BY <2>1, UpTo
  <2>3. IsFiniteSet({x}) /\ Cardinality({x}) = 1
    BY FS_Singleton
  <2>4. IsFiniteSet({x} \X (1..Len(h[x]))) /\ Cardinality({x} \X (1..Len(h[x]))) = 1 * Len(h[x])
    <3>1. PICK A, B : A = {x} /\ B = 1..Len(h[x])
      OBVIOUS
    <3>2. IsFiniteSet(A) /\ Cardinality(A) = 1 /\ IsFiniteSet(B) /\ Cardinality(B) = Len(h[x])
      BY <2>2, <2>3, <3>1
    <3>3. IsFiniteSet(A \X B) /\ Cardinality(A \X B) = Cardinality(A) * Cardinality(B)
      BY ONLY <3>2, FS_Product
    <3> QED BY ONLY <3>1, <3>2, <3>3
  <2> QED BY <2>1, <2>4
<1>2. IsFiniteSet(all)
  <2> DEFINE f == [x \in Keys |-> Of(x)]
  <2>1. f \in Surjection(Keys, all)
    BY DEF Surjection
  <2> QED BY <2>1, KeysFinite, FS_Surjection
<1>3. IsFiniteSet(UNION all)
  BY <1>1, <1>2, FS_UNION
<1>4. Of(k) \subseteq UNION all
  OBVIOUS
<1>5. Lines(h) = Cardinality(UNION all)
  BY DEF Lines
<1> HIDE DEF all, Of
<1>6. Cardinality(UNION all) \in Nat /\ Cardinality(Of(k)) <= Cardinality(UNION all)
  BY <1>3, <1>4, FS_Subset, FS_CardinalityType
<1> QED BY <1>1, <1>5, <1>6

----------------------------------------------------------------------------
(* The steps, by what they do to the lines                                 *)

Single == Managed \ {"Cookie"}
Several == Keys \ Managed

\* A setter that adds a line, and one that replaces the line of its name.
Adds(key, arg) ==
    /\ key \in Several /\ IsArg(key, arg) /\ Lines(head) < MaxHeads
    /\ head' \in Added(head, key, LineOf(key, arg))
    /\ put' = [put EXCEPT ![key] = Append(@, arg)]
    /\ Returns

Sets(key, arg) ==
    /\ key \in Single /\ IsArg(key, arg) /\ (head[key] = <<>> => Lines(head) < MaxHeads)
    /\ head' = [head EXCEPT ![key] = <<LineOf(key, arg)>>]
    /\ put' = [put EXCEPT ![key] = <<arg>>]
    /\ Returns

LEMMA NextKinds ==
    ASSUME Next
    PROVE  \/ \E key \in Several : \E arg : Adds(key, arg)
           \/ \E key \in Single : \E arg : Sets(key, arg)
           \/ \E key \in Keys : DelHead(key)
           \/ \E o \in Others, cover \in BOOLEAN : Merge(o, cover)
           \/ \E cookies, jar : SetCookieLine(cookies, jar)
           \/ \E c \in SetCookies : DelSetCookie(c.key)
<1>1. ASSUME NEW value \in FreeTexts, AddHead(value) PROVE Adds("X-Text", value)
  BY <1>1 DEF AddHead, Adds, Several, Keys, Managed, IsArg, LineOf, Room
<1>2. ASSUME NEW n \in Numbers, AddNumber(n) PROVE Adds("X-Number", n)
  BY <1>2, ArgsAssumption DEF AddNumber, Adds, Several, Keys, Managed, LineOf, Room
<1>3. ASSUME NEW r \in RangeArgs, SetRange(r) PROVE Sets("Range", r)
  BY <1>3, HeadAssumption DEF SetRange, SetLine, Replaced, Sets, Single, Managed, IsArg, LineOf
<1>4. ASSUME NEW r \in RangeArgs, SetContentRange(r) PROVE Sets("Content-Range", r)
  BY <1>4, HeadAssumption DEF SetContentRange, SetLine, Replaced, Sets, Single, Managed, IsArg, LineOf
<1>5. ASSUME NEW alive \in BOOLEAN, SetKeepAlive(alive) PROVE Sets("Connection", alive)
  BY <1>5 DEF SetKeepAlive, SetLine, Replaced, Sets, Single, Managed, IsArg, LineOf
<1>6. ASSUME NEW c \in Challenges, SetWwwAuthenticate(c) PROVE Sets("WWW-Authenticate", c)
  BY <1>6, ArgsAssumption DEF SetWwwAuthenticate, SetLine, Replaced, Sets, Single, Managed, IsArg, LineOf
<1>7. ASSUME NEW a \in AuthArgs, NEW method \in Methods, SetAuthorization(a, method)
      PROVE  Sets("Authorization", [auth |-> a, method |-> method])
  BY <1>7, ArgsAssumption DEF SetAuthorization, SetLine, Replaced, Sets, Single, Managed, IsArg, LineOf
<1>8. ASSUME NEW ext \in Exts, SetContentTypeByExt(ext) PROVE Adds("Content-Type", ext)
  BY <1>8 DEF SetContentTypeByExt, Adds, Several, Keys, Managed, IsArg, LineOf, Room
<1>9. ASSUME NEW c \in Cookies, SetCookie(c) \/ DelCookie(c.key)
      PROVE  \E cookies, jar : SetCookieLine(cookies, jar)
  BY <1>9 DEF SetCookie, DelCookie
<1>10. ASSUME NEW c \in SetCookies, SetSetCookie(c) PROVE Adds("Set-Cookie", c)
  BY <1>10 DEF SetSetCookie, Adds, Several, Keys, Managed, IsArg, LineOf, Room
<1>11. \A key : \A arg : (Adds(key, arg) => key \in Several) /\ (Sets(key, arg) => key \in Single)
  BY DEF Adds, Sets
<1> QED BY <1>1, <1>2, <1>3, <1>4, <1>5, <1>6, <1>7, <1>8, <1>9, <1>10, <1>11, Zenon DEF Next

----------------------------------------------------------------------------
(* The inductive invariant                                                 *)

\* Of a name whose lines are added, every argument has a line of its own.
Pairing(key, lines, args, f) ==
    /\ f \in [1..Len(args) -> 1..Len(lines)]
    /\ \A i, j \in 1..Len(args) : f[i] = f[j] => i = j
    /\ \A i \in 1..Len(args) : IsArg(key, args[i]) /\ lines[f[i]] = LineOf(key, args[i])

\* The lines of a name and the arguments its setters had.  A name with a setter
\* of its own has the line of the setter's argument, and no lines of the
\* numbers' name come from elsewhere.
Good(key, lines, args) ==
    /\ IsSeq(lines) /\ Len(lines) <= MaxHeads /\ (key # "Cookie" => IsSeq(args))
    /\ key = "Cookie" /\ args # <<>> => Len(lines) = 1
    /\ key \in Single /\ args # <<>> =>
          Len(args) = 1 /\ IsArg(key, args[1]) /\ lines = <<LineOf(key, args[1])>>
    /\ key \in Several => \E f : Pairing(key, lines, args, f)
    /\ key = "X-Number" =>
          \A i \in 1..Len(lines) : \E j \in 1..Len(args) : lines[i] = LineOf(key, args[j])

HeadInv ==
    /\ DOMAIN head = Keys /\ DOMAIN put = Keys /\ hung \in BOOLEAN
    /\ Foreign(head) \subseteq spoiled
    /\ \A k \in Keys : Good(k, head[k], put[k])

LEMMA KeySets ==
    /\ Single \subseteq Keys /\ Several \subseteq Keys /\ Managed \subseteq Keys /\ "Cookie" \in Keys
    /\ "X-Number" \in Several /\ "Set-Cookie" \in Several
    /\ \A k \in Single : k # "Cookie" /\ k \notin Several
    /\ \A k \in Several : k # "Cookie" /\ k \notin Single
    /\ \A k \in Managed : k = "Cookie" \/ k \in Single
BY DEF Keys, Managed, Single, Several

LEMMA NoPairing ==
    ASSUME NEW key, NEW lines, NEW args, args = <<>>
    PROVE  \E f : Pairing(key, lines, args, f)
<1>1. 1..Len(args) = {}
  BY NilSeq
<1> DEFINE f == [i \in {} |-> 1]
<1>2. f \in [{} -> 1..Len(lines)]
  OBVIOUS
<1> HIDE DEF f
<1>3. Pairing(key, lines, args, f)
  BY <1>1, <1>2 DEF Pairing
<1> QED BY <1>3

LEMMA GoodWithout ==
    ASSUME NEW key, NEW lines, NEW args, args = <<>>, IsSeq(lines), Len(lines) <= MaxHeads,
           key = "X-Number" => lines = <<>>
    PROVE  Good(key, lines, args)
<1>1. IsSeq(args) /\ \E f : Pairing(key, lines, args, f)
  BY NilSeq, NoPairing
<1>2. key = "X-Number" => 1..Len(lines) = {}
  BY NilSeq
<1> QED BY <1>1, <1>2 DEF Good

LEMMA GoodSet ==
    ASSUME NEW key \in Single, NEW arg, IsArg(key, arg), 1 <= MaxHeads
    PROVE  Good(key, <<LineOf(key, arg)>>, <<arg>>)
<1> DEFINE line == LineOf(key, arg)
<1> HIDE DEF line
<1>1. key # "Cookie" /\ key \notin Several /\ key # "X-Number"
  BY KeySets
<1>2. /\ IsSeq(<<line>>) /\ Len(<<line>>) = 1 
      /\ IsSeq(<<arg>>) /\ Len(<<arg>>) = 1 /\ <<arg>>[1] = arg
  BY OneSeq
<1>3. Good(key, <<line>>, <<arg>>)
  BY <1>1, <1>2 DEF Good, line
<1> QED BY <1>3 DEF line

LEMMA GoodCookie ==
    ASSUME NEW text, NEW jar, 1 <= MaxHeads
    PROVE  Good("Cookie", <<text>>, jar)
<1>1. IsSeq(<<text>>) /\ Len(<<text>>) = 1
  BY OneSeq
<1>2. "Cookie" \notin Single /\ "Cookie" \notin Several /\ "Cookie" # "X-Number"
  BY KeySets
<1> QED BY <1>1, <1>2 DEF Good

\* One more line somewhere among the others: at is its place, g says where the
\* others are.
Inserted(lines, more, line, at, g) ==
    /\ IsSeq(more) /\ Len(more) = Len(lines) + 1 /\ at \in Nat /\ at \in 1..Len(more) /\ more[at] = line
    /\ g \in [1..Len(lines) -> 1..Len(more)]
    /\ \A i, j \in 1..Len(lines) : g[i] = g[j] => i = j
    /\ \A i \in 1..Len(lines) : g[i] # at /\ more[g[i]] = lines[i]
    /\ \A i \in 1..Len(more) : i = at \/ \E j \in 1..Len(lines) : i = g[j]

LEMMA GoodAdded ==
    ASSUME NEW key \in Several, NEW lines, NEW args, Good(key, lines, args),
           NEW arg, IsArg(key, arg), Len(lines) < MaxHeads,
           NEW more, NEW at, NEW g, Inserted(lines, more, LineOf(key, arg), at, g)
    PROVE  Good(key, more, Append(args, arg))
<1> USE DEF Inserted
<1> DEFINE args2 == Append(args, arg)
<1>1. IsSeq(lines) /\ IsSeq(args) /\ Len(lines) \in Nat /\ Len(args) \in Nat /\ key # "Cookie" /\ key \notin Single
  BY KeySets, IsSeqElim DEF Good
<1>2. /\ IsSeq(args2) /\ Len(args2) = Len(args) + 1
      /\ \A i \in 1..Len(args) : args2[i] = args[i]
      /\ args2[Len(args) + 1] = arg
  BY <1>1, AppendSeq
<1> HIDE DEF args2
<1>3. PICK f : Pairing(key, lines, args, f)
  BY DEF Good
<1>f. /\ f \in [1..Len(args) -> 1..Len(lines)]
      /\ \A i, j \in 1..Len(args) : f[i] = f[j] => i = j
      /\ \A i \in 1..Len(args) : IsArg(key, args[i]) /\ lines[f[i]] = LineOf(key, args[i])
  BY <1>3 DEF Pairing
<1> DEFINE f2 == [i \in 1..Len(args2) |-> IF i = Len(args) + 1 THEN at ELSE g[f[i]]]
<1>4. \A i \in 1..Len(args2) : i = Len(args) + 1 \/ i \in 1..Len(args)
  BY <1>1, <1>2
<1>n. Len(args) + 1 \notin 1..Len(args) /\ Len(args) + 1 \in 1..Len(args2)
  BY <1>1, <1>2
<1>5. f2 \in [1..Len(args2) -> 1..Len(more)]
  BY <1>4, <1>f
<1>6. f2[Len(args) + 1] = at /\ \A i \in 1..Len(args) : i \in 1..Len(args2) /\ f2[i] = g[f[i]]
  BY <1>1, <1>2, <1>n
<1> HIDE DEF f2
<1>7. \A i, j \in 1..Len(args2) : f2[i] = f2[j] => i = j
  <2> SUFFICES ASSUME NEW i \in 1..Len(args2), NEW j \in 1..Len(args2), f2[i] = f2[j] PROVE i = j
    OBVIOUS
  <2>1. CASE i \in 1..Len(args) /\ j \in 1..Len(args)
    <3>1. g[f[i]] = g[f[j]] /\ f[i] \in 1..Len(lines) /\ f[j] \in 1..Len(lines)
      BY <2>1, <1>6, <1>f
    <3>2. f[i] = f[j]
      BY <3>1
    <3> QED BY <2>1, <3>2, <1>f
  <2>2. CASE i = Len(args) + 1 /\ j \in 1..Len(args)
    <3>1. f2[i] = at /\ f2[j] = g[f[j]] /\ f[j] \in 1..Len(lines)
      BY <2>2, <1>6, <1>f
    <3> QED BY <3>1
  <2>3. CASE j = Len(args) + 1 /\ i \in 1..Len(args)
    <3>1. f2[j] = at /\ f2[i] = g[f[i]] /\ f[i] \in 1..Len(lines)
      BY <2>3, <1>6, <1>f
    <3> QED BY <3>1
  <2> QED BY <1>4, <2>1, <2>2, <2>3
<1>8. \A i \in 1..Len(args2) : IsArg(key, args2[i]) /\ more[f2[i]] = LineOf(key, args2[i])
  <2> SUFFICES ASSUME NEW i \in 1..Len(args2)
               PROVE  IsArg(key, args2[i]) /\ more[f2[i]] = LineOf(key, args2[i])
    OBVIOUS
  <2>1. CASE i = Len(args) + 1
    BY <2>1, <1>2, <1>6
  <2>2. CASE i \in 1..Len(args)
    <3>1. f2[i] = g[f[i]] /\ f[i] \in 1..Len(lines) /\ args2[i] = args[i]
      BY <2>2, <1>2, <1>6, <1>f
    <3>2. more[g[f[i]]] = lines[f[i]]
      BY <3>1
    <3> QED BY <2>2, <3>1, <3>2, <1>f
  <2> QED BY <1>4, <2>1, <2>2
<1>9. Pairing(key, more, args2, f2)
  BY <1>5, <1>7, <1>8 DEF Pairing
<1>10. ASSUME key = "X-Number", NEW i \in 1..Len(more)
       PROVE  \E j \in 1..Len(args2) : more[i] = LineOf(key, args2[j])
  <2>1. CASE i = at
    BY <2>1, <1>2, <1>n
  <2>2. CASE \E m \in 1..Len(lines) : i = g[m]
    <3>1. PICK m \in 1..Len(lines) : i = g[m]
      BY <2>2
    <3>2. PICK j \in 1..Len(args) : lines[m] = LineOf(key, args[j])
      BY <1>10 DEF Good
    <3> QED BY <3>1, <3>2, <1>2, <1>6
  <2> QED BY <2>1, <2>2
<1>11. Len(more) <= MaxHeads
  BY <1>1, HeadAssumption
<1>12. Good(key, more, args2)
  BY <1>1, <1>2, <1>9, <1>10, <1>11 DEF Good
<1> QED BY <1>12 DEF args2

LEMMA GoodAppended ==
    ASSUME NEW key \in Several, NEW lines, NEW args, Good(key, lines, args),
           NEW arg, IsArg(key, arg), Len(lines) < MaxHeads
    PROVE  Good(key, Append(lines, LineOf(key, arg)), Append(args, arg))
<1> DEFINE line == LineOf(key, arg)
           more == Append(lines, line)
           g == [i \in 1..Len(lines) |-> i]
<1>1. IsSeq(lines) /\ Len(lines) \in Nat
  BY IsSeqElim DEF Good
<1> HIDE DEF line
<1>2. /\ IsSeq(more) /\ Len(more) = Len(lines) + 1 /\ more[Len(lines) + 1] = line
      /\ \A i \in 1..Len(lines) : more[i] = lines[i]
  BY <1>1, AppendSeq
<1> HIDE DEF more
<1> DEFINE at == Len(lines) + 1
<1>3. at \in Nat /\ at \in 1..Len(more) /\ more[at] = line
  BY <1>1, <1>2
<1>4. g \in [1..Len(lines) -> 1..Len(more)]
  BY <1>1, <1>2
<1>5. \A i, j \in 1..Len(lines) : g[i] = g[j] => i = j
  OBVIOUS
<1>6. \A i \in 1..Len(lines) : g[i] # at /\ more[g[i]] = lines[i]
  BY <1>1, <1>2
<1>7. \A i \in 1..Len(more) : i = at \/ \E j \in 1..Len(lines) : i = g[j]
  BY <1>1, <1>2
<1> HIDE DEF g, at
<1>8. Good(key, more, Append(args, arg))
  <2>1. Inserted(lines, more, LineOf(key, arg), at, g)
    BY <1>2, <1>3, <1>4, <1>5, <1>6, <1>7 DEF line, Inserted
  <2> QED BY <2>1, GoodAdded
<1> QED BY <1>8 DEF more, line

LEMMA GoodPrepended ==
    ASSUME NEW key \in Several, NEW lines, NEW args, Good(key, lines, args),
           NEW arg, IsArg(key, arg), Len(lines) < MaxHeads
    PROVE  Good(key, <<LineOf(key, arg)>> \o lines, Append(args, arg))
<1> DEFINE line == LineOf(key, arg)
           more == <<line>> \o lines
           g == [i \in 1..Len(lines) |-> i + 1]
<1>1. IsSeq(lines) /\ Len(lines) \in Nat
  BY IsSeqElim DEF Good
<1> HIDE DEF line
<1>a. IsSeq(<<line>>) /\ Len(<<line>>) = 1 /\ <<line>>[1] = line
  BY OneSeq
<1>b. Joins(more, <<line>>, lines)
  BY <1>1, <1>a, ConcatSeq
<1> HIDE DEF more
<1>2. /\ IsSeq(more) /\ Len(more) = Len(lines) + 1 /\ more[1] = line
      /\ \A i \in 1..Len(lines) : more[i + 1] = lines[i]
  <2>1. /\ IsSeq(more) /\ Len(more) = 1 + Len(lines)
        /\ \A i \in 1..1 : more[i] = <<line>>[i]
        /\ \A i \in 1..Len(lines) : more[1 + i] = lines[i]
    BY <1>a, <1>b DEF Joins
  <2>2. more[1] = line
    BY <2>1, <1>a
  <2> QED BY <2>1, <2>2, <1>1
<1>3. 1 \in Nat /\ 1 \in 1..Len(more)
  BY <1>1, <1>2
<1>4. g \in [1..Len(lines) -> 1..Len(more)]
  BY <1>1, <1>2
<1>5. \A i, j \in 1..Len(lines) : g[i] = g[j] => i = j
  BY <1>1
<1>6. \A i \in 1..Len(lines) : g[i] # 1 /\ more[g[i]] = lines[i]
  BY <1>1, <1>2
<1>7. \A i \in 1..Len(more) : i = 1 \/ \E j \in 1..Len(lines) : i = g[j]
  <2> SUFFICES ASSUME NEW i \in 1..Len(more), i # 1 PROVE \E j \in 1..Len(lines) : i = g[j]
    OBVIOUS
  <2>1. i - 1 \in 1..Len(lines) /\ g[i - 1] = i
    BY <1>1, <1>2
  <2> QED BY <2>1
<1> HIDE DEF g
<1>8. Good(key, more, Append(args, arg))
  <2>1. Inserted(lines, more, LineOf(key, arg), 1, g)
    BY <1>2, <1>3, <1>4, <1>5, <1>6, <1>7 DEF line, Inserted
  <2> QED BY <2>1, GoodAdded
<1> QED BY <1>8 DEF more, line

\* What Forget returns.
Forgot(r, args, line) ==
    \/ r = args /\ \A i \in 1..Len(args) : SetCookieText(args[i]) # line
    \/ \E m \in 1..Len(args) :
          /\ SetCookieText(args[m]) = line /\ IsSeq(r) /\ Len(r) = Len(args) - 1
          /\ \A i \in 1..(Len(args) - 1) : r[i] = args[IF i < m THEN i ELSE i + 1]

LEMMA ForgetFacts ==
    ASSUME NEW args, IsSeq(args), NEW line
    PROVE  Forgot(Forget(args, line), args, line)
<1> DEFINE I == {i \in 1..Len(args) : SetCookieText(args[i]) = line}
           r == Forget(args, line)
<1>1. Len(args) \in Nat
  BY IsSeqElim
<1>2. CASE I = {}
  <2>1. r = args
    BY <1>2 DEF Forget, RemoveFirstMatch
  <2> QED BY <1>2, <2>1 DEF Forgot
<1>3. CASE I # {}
  <2>1. Min(I) \in I
    <3>1. I \subseteq Nat
      BY <1>1
    <3> HIDE DEF I
    <3> QED BY <1>3, <3>1, MinFacts
  <2>2. r = RemoveAt(args, Min(I))
    BY <1>3 DEF Forget, RemoveFirstMatch, SelectInSeq
  <2>3. PICK m \in 1..Len(args) : m = Min(I) /\ SetCookieText(args[m]) = line
    BY <2>1
  <2>4. r = RemoveAt(args, m)
    BY <2>2, <2>3
  <2>5. /\ IsSeq(RemoveAt(args, m)) /\ Len(RemoveAt(args, m)) = Len(args) - 1
        /\ \A i \in 1..(Len(args) - 1) : RemoveAt(args, m)[i] = args[IF i < m THEN i ELSE i + 1]
    BY RemoveAtFacts
  <2> HIDE DEF r
  <2>6. Forgot(r, args, line)
    BY <2>3, <2>4, <2>5 DEF Forgot
  <2> QED BY <2>6 DEF r
<1> QED BY <1>2, <1>3

LEMMA GoodTail ==
    ASSUME NEW lines, NEW args, Good("Set-Cookie", lines, args), lines # <<>>
    PROVE  Good("Set-Cookie", Tail(lines), Forget(args, lines[1]))
<1> DEFINE rest == Tail(lines)
           r == Forget(args, lines[1])
<1>1. IsSeq(lines) /\ IsSeq(args) /\ Len(lines) \in Nat /\ Len(args) \in Nat /\ Len(lines) # 0 /\ Len(lines) <= MaxHeads
  BY IsSeqElim DEF Good
<1>2. IsSeq(rest) /\ Len(rest) = Len(lines) - 1 /\ \A i \in 1..(Len(lines) - 1) : rest[i] = lines[i + 1]
  BY <1>1, TailSeq
<1>r. Forgot(r, args, lines[1])
  BY <1>1, ForgetFacts
<1> HIDE DEF rest, r
<1>3. PICK f : Pairing("Set-Cookie", lines, args, f)
  BY KeySets DEF Good
<1>f. /\ f \in [1..Len(args) -> 1..Len(lines)]
      /\ \A i, j \in 1..Len(args) : f[i] = f[j] => i = j
      /\ \A i \in 1..Len(args) : IsArg("Set-Cookie", args[i]) /\ lines[f[i]] = SetCookieText(args[i])
  BY <1>3 DEF Pairing, LineOf
<1>4. IsSeq(r) /\ \E f2 : Pairing("Set-Cookie", rest, r, f2)
  <2>1. CASE r = args /\ \A i \in 1..Len(args) : SetCookieText(args[i]) # lines[1]
    <3> DEFINE f2 == [i \in 1..Len(args) |-> f[i] - 1]
    <3>1. \A i \in 1..Len(args) : f[i] \in 2..Len(lines)
      BY <2>1, <1>f, <1>1
    <3>2. f2 \in [1..Len(args) -> 1..Len(rest)]
      BY <3>1, <1>1, <1>2
    <3>3. \A i \in 1..Len(args) : f2[i] = f[i] - 1 /\ f2[i] + 1 = f[i] /\ f2[i] \in 1..(Len(lines) - 1)
      BY <3>1, <1>1
    <3> HIDE DEF f2
    <3>4. \A i, j \in 1..Len(args) : f2[i] = f2[j] => i = j
      BY <3>3, <1>f
    <3>5. \A i \in 1..Len(args) : rest[f2[i]] = SetCookieText(args[i])
      BY <3>3, <1>2, <1>f
    <3>6. Pairing("Set-Cookie", rest, args, f2)
      BY <3>2, <3>4, <3>5, <1>f DEF Pairing, LineOf
    <3> QED BY <3>6, <2>1, <1>1
  <2>2. CASE \E m \in 1..Len(args) :
                /\ SetCookieText(args[m]) = lines[1] /\ IsSeq(r) /\ Len(r) = Len(args) - 1
                /\ \A i \in 1..(Len(args) - 1) : r[i] = args[IF i < m THEN i ELSE i + 1]
    <3> DEFINE n == Len(args) - 1
    <3>0. PICK m \in 1..Len(args) :
                /\ SetCookieText(args[m]) = lines[1] /\ IsSeq(r) /\ Len(r) = n
                /\ \A i \in 1..n : r[i] = args[IF i < m THEN i ELSE i + 1]
      BY <2>2
    <3>n. n \in Nat /\ Len(args) = n + 1 /\ m \in Nat
      BY <1>1, <3>0
    <3> HIDE DEF n
    <3> DEFINE s == [i \in 1..n |-> IF i < m THEN i ELSE i + 1]
    <3>1. \A i \in 1..n : s[i] = (IF i < m THEN i ELSE i + 1) /\ s[i] \in 1..Len(args) /\ s[i] # m
      BY <3>n
    <3>2. \A i \in 1..n : r[i] = args[s[i]]
      BY <3>0
    <3>3. \A i, j \in 1..n : s[i] = s[j] => i = j
      BY <3>n
    <3> HIDE DEF s
    <3> DEFINE t == [i \in 1..n |-> IF f[s[i]] = 1 THEN f[m] ELSE f[s[i]]]
    <3>4. \A i \in 1..n : f[s[i]] \in 1..Len(lines) /\ f[s[i]] # f[m] /\ f[m] \in 1..Len(lines)
      BY <3>1, <1>f
    <3>5. \A i \in 1..n : t[i] \in 2..Len(lines)
      BY <3>4, <1>1
    <3>6. \A i, j \in 1..n : t[i] = t[j] => i = j
      <4> SUFFICES ASSUME NEW i \in 1..n, NEW j \in 1..n, t[i] = t[j] PROVE i = j
        OBVIOUS
      <4>1. f[s[i]] = f[s[j]]
        BY <3>4
      <4>2. s[i] = s[j]
        BY <4>1, <3>1, <1>f
      <4> QED BY <4>2, <3>3
    <3>7. \A i \in 1..n : lines[t[i]] = SetCookieText(r[i])
      <4> SUFFICES ASSUME NEW i \in 1..n PROVE lines[t[i]] = SetCookieText(r[i])
        OBVIOUS
      <4>1. /\ lines[f[s[i]]] = SetCookieText(args[s[i]]) /\ r[i] = args[s[i]]
            /\ lines[f[m]] = lines[1]
        BY <3>0, <3>1, <3>2, <1>f
      <4> QED BY <4>1
    <3> HIDE DEF t
    <3> DEFINE f2 == [i \in 1..n |-> t[i] - 1]
    <3>8. f2 \in [1..n -> 1..Len(rest)]
      BY <3>5, <1>1, <1>2
    <3>9. \A i \in 1..n : f2[i] + 1 = t[i] /\ f2[i] \in 1..(Len(lines) - 1)
      BY <3>5, <1>1
    <3> HIDE DEF f2
    <3>10. \A i, j \in 1..n : f2[i] = f2[j] => i = j
      BY <3>6, <3>9
    <3>11. \A i \in 1..n : rest[f2[i]] = SetCookieText(r[i])
      BY <3>7, <3>9, <1>2
    <3>a. \A i \in 1..n : IsArg("Set-Cookie", r[i])
      BY <3>1, <3>2, <1>f
    <3>12. Pairing("Set-Cookie", rest, r, f2)
      BY <3>0, <3>8, <3>10, <3>11, <3>a DEF Pairing, LineOf
    <3> QED BY <3>0, <3>12
  <2> QED BY <2>1, <2>2, <1>r DEF Forgot
<1>5. "Set-Cookie" \notin Single /\ Len(rest) <= MaxHeads
  BY <1>1, <1>2, KeySets, HeadAssumption
<1>6. Good("Set-Cookie", rest, r)
  BY <1>2, <1>4, <1>5 DEF Good
<1> QED BY <1>6 DEF rest, r

LEMMA GoodMerged ==
    ASSUME NEW key \in Keys, NEW lines, NEW args, Good(key, lines, args), NEW o \in Others,
           NEW cover \in BOOLEAN, Len(Merged(lines, o.head[key], cover)) <= MaxHeads
    PROVE  Good(key, Merged(lines, o.head[key], cover),
                IF o.head[key] # <<>> /\ (lines = <<>> \/ cover) THEN Known(o, key) ELSE args)
<1> DEFINE other == o.head[key]
<1>1. IsSeq(other) /\ IsSeq(o.put[key])
  BY HeadAssumption
<1>2. CASE other = <<>> \/ (lines # <<>> /\ ~cover)
  BY <1>2 DEF Merged
<1>3. CASE ~(other = <<>> \/ (lines # <<>> /\ ~cover))
  <2> DEFINE line == other[IF cover THEN Len(other) ELSE 1]
  <2>1. Merged(lines, other, cover) = <<line>>
    BY <1>3 DEF Merged
  <2>2. (IF other # <<>> /\ (lines = <<>> \/ cover) THEN Known(o, key) ELSE args) = Known(o, key)
    BY <1>3
  <2>a. Len(other) = 1 => line = other[1]
    OBVIOUS
  <2> HIDE DEF line
  <2>3. IsSeq(<<line>>) /\ Len(<<line>>) = 1 /\ <<line>>[1] = line
    BY OneSeq
  <2>4. Len(<<line>>) <= MaxHeads /\ 1 <= MaxHeads
    BY <2>1, <2>3
  <2>5. key = "X-Number" => Known(o, key) # <<>>
    BY <1>3, OthersAssumption DEF Known
  <2>6. CASE Known(o, key) = <<>>
    <3>1. Good(key, <<line>>, Known(o, key))
      BY <2>3, <2>4, <2>5, <2>6, GoodWithout
    <3> QED BY <2>1, <2>2, <3>1
  <2>7. CASE Known(o, key) # <<>>
    <3>1. Known(o, key) = o.put[key] /\ Len(other) = 1
      BY <2>7 DEF Known
    <3>2. CASE key = "Cookie"
      <4>1. Good("Cookie", <<line>>, Known(o, key))
        BY <2>4, GoodCookie
      <4> QED BY <2>1, <2>2, <3>2, <4>1
    <3>3. CASE key # "Cookie"
      <4>1. PICK args2 : args2 = o.put[key]
        OBVIOUS
      <4>2. /\ Len(args2) = 1 /\ IsArg(key, args2[1]) /\ other = <<LineOf(key, args2[1])>>
        BY <2>7, <3>1, <3>3, <4>1, OthersAssumption
      <4>3. <<line>> = <<LineOf(key, args2[1])>>
        <5>1. <<LineOf(key, args2[1])>>[1] = LineOf(key, args2[1])
          BY OneSeq
        <5> QED BY <2>a, <3>1, <4>2, <5>1
      <4>4. IsSeq(args2) /\ args2 = <<args2[1]>>
        BY <1>1, <4>1, <4>2, UnitSeq
      <4>5. CASE key \in Single
        <5>1. Good(key, <<LineOf(key, args2[1])>>, <<args2[1]>>)
          BY <2>4, <4>2, <4>5, GoodSet
        <5> QED BY <2>1, <2>2, <3>1, <4>1, <4>3, <4>4, <5>1
      <4>6. CASE key \in Several
        <5> DEFINE f == [i \in 1..1 |-> 1]
        <5>1. f \in [1..1 -> 1..1] /\ f[1] = 1 /\ \A i \in 1..1 : i = 1
          OBVIOUS
        <5> HIDE DEF f
        <5>2. line = LineOf(key, args2[1])
          BY <4>3, <2>3, OneSeq
        <5>3. Pairing(key, <<line>>, args2, f)
          BY <2>3, <4>2, <5>1, <5>2 DEF Pairing
        <5>4. \A i \in 1..Len(<<line>>) : \E j \in 1..Len(args2) : <<line>>[i] = LineOf(key, args2[j])
          BY <2>3, <4>2, <5>1, <5>2
        <5>5. key \notin Single
          BY <4>6, KeySets
        <5>6. Good(key, <<line>>, args2)
          BY <2>3, <2>4, <3>3, <4>4, <5>3, <5>4, <5>5 DEF Good
        <5> QED BY <2>1, <2>2, <3>1, <4>1, <5>6
      <4> QED BY <3>3, <4>5, <4>6 DEF Single, Several
    <3> QED BY <3>2, <3>3
  <2> QED BY <2>6, <2>7
<1> QED BY <1>2, <1>3

LEMMA HeadInvInit == Init => HeadInv
<1> SUFFICES ASSUME Init PROVE HeadInv
  OBVIOUS
<1>1. head \in Received /\ put = NoHeads /\ hung = FALSE
  BY DEF Init
<1>2. DOMAIN put = Keys /\ \A k \in Keys : put[k] = <<>>
  BY <1>1 DEF NoHeads
<1>3. DOMAIN head = Keys /\ \A k \in Keys : IsSeq(head[k]) /\ Len(head[k]) <= MaxHeads
  BY <1>1, HeadAssumption
<1>4. head["X-Number"] = <<>>
  BY <1>1, OthersAssumption
<1>5. \A k \in Keys : Good(k, head[k], put[k])
  BY <1>2, <1>3, <1>4, GoodWithout
<1>6. Foreign(head) \subseteq spoiled
  BY DEF Init, Foreign, CookieNames
<1> QED BY <1>1, <1>2, <1>3, <1>5, <1>6 DEF HeadInv

\* An operation that returns has noted the names that other heads read like.
LEMMA ReturnsFacts ==
    ASSUME Returns
    PROVE  hung' = hung /\ (Foreign(head) \subseteq spoiled)'
BY DEF Returns

\* A step that touches the lines of one name.
LEMMA OneKeyStep ==
    ASSUME HeadInv, NEW key \in Keys, NEW lines, NEW args, Good(key, lines, args),
           head' = [head EXCEPT ![key] = lines], put' = [put EXCEPT ![key] = args], Returns
    PROVE  HeadInv'
<1>0. hung' = hung /\ (Foreign(head) \subseteq spoiled)'
  BY ReturnsFacts
<1>1. /\ DOMAIN head' = Keys /\ DOMAIN put' = Keys /\ hung' \in BOOLEAN
      /\ head'[key] = lines /\ put'[key] = args
      /\ \A k \in Keys \ {key} : head'[k] = head[k] /\ put'[k] = put[k]
  BY <1>0 DEF HeadInv
<1>2. \A k \in Keys : Good(k, head'[k], put'[k])
  BY <1>1 DEF HeadInv
<1>3. (\A k \in Keys : Good(k, head[k], put[k]))'
  BY <1>2
<1> QED BY <1>0, <1>1, <1>3 DEF HeadInv

LEMMA HeadInvStep == HeadInv /\ [Next]_vars => HeadInv'
<1> SUFFICES ASSUME HeadInv, [Next]_vars PROVE HeadInv'
  OBVIOUS
<1>1. IsHead(head) /\ DOMAIN put = Keys /\ \A k \in Keys : Good(k, head[k], put[k])
  BY DEF HeadInv, Good, IsHead
<1>2. \A k \in Keys : Lines(head) \in Nat /\ Len(head[k]) \in Nat /\ Len(head[k]) <= Lines(head)
  BY <1>1, LinesBound
<1>3. MaxHeads \in Nat /\ \A k \in Keys : head[k] = <<>> <=> Len(head[k]) = 0
  BY <1>1, HeadAssumption, IsSeqElim DEF IsHead
<1>4. \A k \in Keys : (head[k] = <<>> => Lines(head) < MaxHeads) => 1 <= MaxHeads
  <2> SUFFICES ASSUME NEW k \in Keys, head[k] = <<>> => Lines(head) < MaxHeads PROVE 1 <= MaxHeads
    OBVIOUS
  <2>1. Len(head[k]) <= MaxHeads
    BY <1>1 DEF Good
  <2> QED BY <1>2, <1>3, <2>1
<1>5. ASSUME NEW key \in Several, NEW arg, Adds(key, arg) PROVE HeadInv'
  <2>1. key \in Keys /\ Good(key, head[key], put[key]) /\ Len(head[key]) < MaxHeads
    BY <1>1, <1>2, <1>3, <1>5, KeySets DEF Adds
  <2>2. PICK lines, args : lines = head[key] /\ args = put[key]
    OBVIOUS
  <2>3. PICK line : line = LineOf(key, arg)
    OBVIOUS
  <2>4. IsArg(key, arg) /\ Returns /\ put' = [put EXCEPT ![key] = Append(args, arg)]
    BY <1>1, <1>5, <2>1, <2>2 DEF Adds
  <2>5. \/ head' = [head EXCEPT ![key] = Append(lines, line)]
        \/ head' = [head EXCEPT ![key] = <<line>> \o lines]
    BY <1>5, <2>1, <2>2, <2>3 DEF Adds, Added
  <2>6. Good(key, Append(lines, line), Append(args, arg)) /\ Good(key, <<line>> \o lines, Append(args, arg))
    BY <2>1, <2>2, <2>3, <2>4, GoodAppended, GoodPrepended
  <2> QED BY <2>1, <2>4, <2>5, <2>6, OneKeyStep
<1>6. ASSUME NEW key \in Single, NEW arg, Sets(key, arg) PROVE HeadInv'
  <2>1. key \in Keys /\ IsArg(key, arg) /\ 1 <= MaxHeads
    BY <1>4, <1>6, KeySets DEF Sets
  <2>2. Good(key, <<LineOf(key, arg)>>, <<arg>>)
    BY <2>1, GoodSet
  <2> QED BY <1>6, <2>1, <2>2, OneKeyStep DEF Sets
<1>7. ASSUME NEW key \in Keys, DelHead(key) PROVE HeadInv'
  <2>1. PICK nil : nil = <<>>
    OBVIOUS
  <2>2. IsSeq(nil) /\ Len(nil) = 0
    BY <2>1, NilSeq
  <2>3. Len(nil) <= MaxHeads
    BY <1>3, <2>2
  <2>4. Good(key, nil, nil)
    BY <2>1, <2>2, <2>3, GoodWithout
  <2> QED BY <1>7, <2>1, <2>4, OneKeyStep DEF DelHead
<1>8. ASSUME NEW o \in Others, NEW cover \in BOOLEAN, Merge(o, cover) PROVE HeadInv'
  <2>1. /\ head' = [k \in Keys |-> Merged(head[k], o.head[k], cover)]
        /\ put' = [k \in Keys |-> IF o.head[k] # <<>> /\ (head[k] = <<>> \/ cover)
                                  THEN Known(o, k) ELSE put[k]]
        /\ Lines(head') <= MaxHeads /\ Returns
    BY <1>8 DEF Merge
  <2>2. PICK h : h = head'
    OBVIOUS
  <2>3. IsHead(h)
    <3>1. \A k \in Keys : IsSeq(Merged(head[k], o.head[k], cover))
      BY <1>1, OneSeq DEF Merged, IsHead
    <3> QED BY <2>1, <2>2, <3>1 DEF IsHead
  <2>4. \A k \in Keys : Len(h[k]) <= MaxHeads
    <3>1. Lines(h) <= MaxHeads
      BY <2>1, <2>2
    <3>2. \A k \in Keys : Lines(h) \in Nat /\ Len(h[k]) \in Nat /\ Len(h[k]) <= Lines(h)
      BY <2>3, LinesBound
    <3> QED BY <1>3, <3>1, <3>2
  <2>5. \A k \in Keys : Good(k, head'[k], put'[k])
    <3> SUFFICES ASSUME NEW k \in Keys PROVE Good(k, head'[k], put'[k])
      OBVIOUS
    <3>1. PICK lines, args : lines = head[k] /\ args = put[k]
      OBVIOUS
    <3>2. /\ head'[k] = Merged(lines, o.head[k], cover)
          /\ put'[k] = IF o.head[k] # <<>> /\ (lines = <<>> \/ cover) THEN Known(o, k) ELSE args
      BY <2>1, <3>1
    <3>3. Good(k, lines, args) /\ Len(Merged(lines, o.head[k], cover)) <= MaxHeads
      BY <1>1, <2>2, <2>4, <3>1, <3>2
    <3>4. Good(k, Merged(lines, o.head[k], cover),
                IF o.head[k] # <<>> /\ (lines = <<>> \/ cover) THEN Known(o, k) ELSE args)
      BY <3>3, GoodMerged
    <3> QED BY <3>2, <3>4
  <2>6. DOMAIN head' = Keys /\ DOMAIN put' = Keys /\ hung' \in BOOLEAN
    BY <2>1, ReturnsFacts DEF HeadInv
  <2>7. (\A k \in Keys : Good(k, head[k], put[k]))'
    BY <2>5
  <2>8. (Foreign(head) \subseteq spoiled)'
    BY <2>1, ReturnsFacts
  <2> QED BY <2>6, <2>7, <2>8 DEF HeadInv
<1>9. ASSUME NEW cookies, NEW jar, SetCookieLine(cookies, jar) PROVE HeadInv'
  <2>1. /\ head' = [head EXCEPT !["Cookie"] = <<CookieText(cookies)>>]
        /\ put' = [put EXCEPT !["Cookie"] = jar] /\ Returns
        /\ (head["Cookie"] = <<>> => Lines(head) < MaxHeads)
    BY <1>9 DEF SetCookieLine, Replaced
  <2>2. "Cookie" \in Keys
    BY KeySets
  <2>3. Good("Cookie", <<CookieText(cookies)>>, jar)
    BY <1>4, <2>1, <2>2, GoodCookie
  <2> QED BY <2>1, <2>2, <2>3, OneKeyStep
<1>10. ASSUME NEW c \in SetCookies, DelSetCookie(c.key) PROVE HeadInv'
  <2>1. CASE hung' = TRUE /\ UNCHANGED <<head, put, spoiled>>
    BY <2>1 DEF HeadInv
  <2>2. CASE ~(hung' = TRUE /\ UNCHANGED <<head, put, spoiled>>)
    <3>1. "Set-Cookie" \in Keys
      BY KeySets
    <3>2. PICK lines, args : lines = head["Set-Cookie"] /\ args = put["Set-Cookie"]
      OBVIOUS
    <3>3. /\ lines # <<>> /\ Returns
          /\ head' = [head EXCEPT !["Set-Cookie"] = Tail(lines)]
          /\ put' = [put EXCEPT !["Set-Cookie"] = Forget(args, lines[1])]
      BY <1>1, <1>10, <2>2, <3>1, <3>2 DEF DelSetCookie
    <3>4. Good("Set-Cookie", lines, args)
      BY <1>1, <3>1, <3>2
    <3>5. Good("Set-Cookie", Tail(lines), Forget(args, lines[1]))
      BY <3>3, <3>4, GoodTail
    <3> QED BY <3>1, <3>3, <3>5, OneKeyStep
  <2> QED BY <2>1, <2>2
<1>11. CASE Next
  BY <1>5, <1>6, <1>7, <1>8, <1>9, <1>10, <1>11, NextKinds
<1>12. CASE UNCHANGED vars
  BY <1>12 DEF vars, HeadInv
<1> QED BY <1>11, <1>12

LEMMA PairedLen ==
    ASSUME NEW key, NEW lines, NEW args, IsSeq(lines), IsSeq(args), NEW f, Pairing(key, lines, args, f)
    PROVE  Len(args) <= Len(lines)
<1>1. Len(lines) \in Nat /\ Len(args) \in Nat
  BY IsSeqElim
<1>2. f \in Injection(1..Len(args), 1..Len(lines))
  BY DEF Pairing, Injection, IsInjective
<1>3. IsFiniteSet(1..Len(lines)) /\ Cardinality(1..Len(lines)) = Len(lines) /\ Cardinality(1..Len(args)) = Len(args)
  BY <1>1, UpTo
<1>4. Cardinality(1..Len(args)) <= Cardinality(1..Len(lines))
  BY <1>2, <1>3, FS_Injection
<1> QED BY <1>3, <1>4

LEMMA GoodLen ==
    ASSUME NEW key \in Keys \ {"Cookie"}, NEW lines, NEW args, Good(key, lines, args)
    PROVE  Len(args) <= Len(lines)
<1>1. IsSeq(lines) /\ IsSeq(args) /\ Len(lines) \in Nat /\ Len(args) \in Nat
  BY IsSeqElim DEF Good
<1>2. CASE key \in Several
  BY <1>1, <1>2, PairedLen DEF Good
<1>3. CASE key \in Single /\ args = <<>>
  BY <1>1, <1>3, NilSeq
<1>4. CASE key \in Single /\ args # <<>>
  <2>1. Len(args) = 1 /\ lines = <<LineOf(key, args[1])>>
    BY <1>4 DEF Good
  <2> QED BY <2>1, OneSeq
<1> QED BY <1>2, <1>3, <1>4 DEF Single, Several

LEMMA HeadInvTypes == HeadInv => TypeOK
<1> SUFFICES ASSUME HeadInv PROVE TypeOK
  OBVIOUS
<1>1. \A k \in Keys : Len(head[k]) <= MaxHeads
  BY DEF HeadInv, Good
<1>2. \A k \in Keys \ {"Cookie"} : Len(put[k]) <= Len(head[k])
  BY GoodLen DEF HeadInv
<1> QED BY <1>1, <1>2 DEF HeadInv, TypeOK

LEMMA HeadInvOneLine == HeadInv => OneLine
<1> SUFFICES ASSUME HeadInv, NEW k \in Managed, put[k] # <<>> PROVE Len(head[k]) = 1
  BY DEF OneLine
<1>1. Good(k, head[k], put[k])
  BY KeySets DEF HeadInv
<1>2. CASE k = "Cookie"
  BY <1>1, <1>2 DEF Good
<1>3. CASE k \in Single
  <2>1. head[k] = <<LineOf(k, put[k][1])>>
    BY <1>1, <1>3 DEF Good
  <2> QED BY <2>1, OneSeq
<1> QED BY <1>2, <1>3, KeySets

LEMMA HeadInvAlways == Spec => []HeadInv
BY HeadInvInit, HeadInvStep, PTL DEF Spec

\* HeadImpl never holds more lines of a name than the model's bound, and no
\* line a setter wrote gets lost without being deleted: del_setcookie takes one
\* line and one argument, a merge never leaves an argument without its line.
THEOREM HeadTypeCorrect == Spec => []TypeOK
BY HeadInvAlways, HeadInvTypes, PTL

\* A head with a setter of its own is on one line from the first time it is set
\* until it is deleted or replaced, whatever was received and merged.
THEOREM HeadOneLine == Spec => []OneLine
BY HeadInvAlways, HeadInvOneLine, PTL

----------------------------------------------------------------------------
(* Texts                                                                   *)

LEMMA TrimWhole ==
    ASSUME NEW text, IsSeq(text), text # <<>>, text[1].t # "blank", text[Len(text)].t # "blank"
    PROVE  Trim(text) = text
<1>1. PICK n \in Nat : n = Len(text) /\ n >= 1 /\ DOMAIN text = 1..n
  BY IsSeqElim
<1> DEFINE solid == {i \in 1..n : text[i].t # "blank"}
<1>2. 1 \in solid /\ n \in solid /\ \A i \in solid : i \in 1..n
  BY <1>1
<1>3. Trim(text) = IF solid = {} THEN <<>> ELSE SubSeq(text, Min(solid), Max(solid))
  BY <1>1 DEF Trim
<1> HIDE DEF solid
<1>4. Min(solid) = 1
  <2>1. \A y \in solid : 1 <= y
    BY <1>2
  <2>2. Min(solid) \in solid /\ \A y \in solid : Min(solid) <= y
    BY <1>2, <2>1 DEF Min
  <2>3. PICK m \in solid : m = Min(solid) /\ \A y \in solid : m <= y
    BY <2>2
  <2>4. m \in 1..n /\ m <= 1
    BY <1>2, <2>3
  <2> QED BY <2>1, <2>3, <2>4
<1>5. Max(solid) = n
  <2>1. \A y \in solid : n >= y
    BY <1>2
  <2>2. Max(solid) \in solid /\ \A y \in solid : Max(solid) >= y
    BY <1>2, <2>1 DEF Max
  <2>3. PICK m \in solid : m = Max(solid) /\ \A y \in solid : m >= y
    BY <2>2
  <2>4. m \in 1..n /\ m >= n
    BY <1>2, <2>3
  <2> QED BY <2>1, <2>3, <2>4
<1>6. Trim(text) = SubSeq(text, 1, Len(text))
  BY <1>1, <1>2, <1>3, <1>4, <1>5
<1>7. text \in Seq(Range(text))
  BY IsSeqElim
<1>8. SubSeq(text, 1, Len(text)) = text
  BY <1>7
<1> QED BY <1>6, <1>8

LEMMA NumFacts ==
    ASSUME NEW n \in Int
    PROVE  /\ IsSeq(Num(n)) /\ Len(Num(n)) = 1 /\ Num(n)[1] = Token("num", n, <<>>) /\ Num(n) # <<>>
           /\ Num(n)[1].t = "num" /\ Num(n)[1].n = n
           /\ Trim(Num(n)) = Num(n) /\ IsNumber(Num(n)) /\ Head(Trim(Num(n))).n = n
           /\ Stoull(Num(n)) = n % Word
<1>1. IsSeq(Num(n)) /\ Len(Num(n)) = 1 /\ Num(n)[1] = Token("num", n, <<>>) /\ Num(n) # <<>>
  BY OneSeq DEF Num
<1>2. Num(n)[1].t = "num" /\ Num(n)[1].n = n
  BY <1>1 DEF Token
<1>3. Trim(Num(n)) = Num(n)
  BY <1>1, <1>2, TrimWhole
<1>4. Head(Num(n)) = Num(n)[1]
  BY <1>1, TailSeq
<1> QED BY <1>1, <1>2, <1>3, <1>4 DEF IsNumber, Stoull

----------------------------------------------------------------------------
(* Numbers                                                                 *)

LEMMA HeadInvNumbers == HeadInv => NumbersReadBack
<1> SUFFICES ASSUME HeadInv, put["X-Number"] # <<>>
             PROVE  \E i \in DOMAIN put["X-Number"] :
                        LET n == put["X-Number"][i]
                        IN  /\ GetUint64(head, "X-Number", -1) = n % Word
                            /\ GetInt64(head, "X-Number", Word) = IF n < Word \div 2 THEN n ELSE Word
  BY DEF NumbersReadBack
<1>1. PICK lines, args : lines = head["X-Number"] /\ args = put["X-Number"]
  OBVIOUS
<1>2. "X-Number" \in Several /\ "X-Number" # "Cookie" /\ Good("X-Number", lines, args)
  BY <1>1, KeySets DEF HeadInv
<1>3. IsSeq(lines) /\ IsSeq(args) /\ Len(lines) \in Nat /\ Len(args) \in Nat /\ DOMAIN args = 1..Len(args)
      /\ Len(args) # 0 /\ (lines = <<>> <=> Len(lines) = 0)
  BY <1>1, <1>2, IsSeqElim DEF Good
<1>4. PICK f : Pairing("X-Number", lines, args, f)
  BY <1>2 DEF Good
<1>5. Len(lines) # 0 /\ 1 \in 1..Len(lines)
  BY <1>3, <1>4 DEF Pairing
<1>6. PICK j \in 1..Len(args) : lines[1] = LineOf("X-Number", args[j])
  BY <1>2, <1>5 DEF Good
<1>7. PICK n : n = args[j]
  OBVIOUS
<1>8. lines[1] = Num(n) /\ n \in (-(Word \div 2))..(Word - 1)
  BY <1>4, <1>6, <1>7 DEF Pairing, LineOf, IsArg
<1>9. Word \in Nat \ {0} /\ Word \div 2 \in Nat /\ n \in Int
  BY <1>8, HeadAssumption
<1>10. First(head, "X-Number", <<>>) = Num(n)
  BY <1>1, <1>3, <1>5, <1>8 DEF First
<1>11. IsNumber(Num(n)) /\ Head(Trim(Num(n))).n = n /\ Stoull(Num(n)) = n % Word
  BY <1>9, NumFacts
<1>12. GetUint64(head, "X-Number", -1) = n % Word
  BY <1>10, <1>11 DEF GetUint64
<1>13. GetInt64(head, "X-Number", Word) = IF n \in (-(Word \div 2))..(Word \div 2 - 1) THEN n ELSE Word
  BY <1>10, <1>11 DEF GetInt64
<1>14. n \in (-(Word \div 2))..(Word \div 2 - 1) <=> n < Word \div 2
  BY <1>8, <1>9
<1> QED BY <1>1, <1>3, <1>6, <1>7, <1>12, <1>13, <1>14

\* A number that was added is read back, as an int64 if it fits and as an
\* uint64 modulo 2^64.
THEOREM HeadNumbersReadBack == Spec => []NumbersReadBack
BY HeadInvAlways, HeadInvNumbers, PTL

----------------------------------------------------------------------------
(* Splitting a text                                                        *)

\* f is the recursive function of Pieces, up to the symbol n.
PiecesUpTo(f, n, text, c) ==
    f = [i \in 0..n |-> IF i = 0 THEN <<<<>>>> ELSE PieceStep(f[i - 1], text[i], c)]

LEMMA PiecesExist ==
    ASSUME NEW text, NEW c, NEW n \in Nat
    PROVE  \E f : PiecesUpTo(f, n, text, c)
<1> DEFINE S == {m \in Nat : \E f : PiecesUpTo(f, m, text, c)}
<1>1. 0 \in S
  <2> DEFINE f == [i \in 0..0 |-> <<<<>>>>]
  <2>1. \A i \in 0..0 : i = 0
    OBVIOUS
  <2>2. f = [i \in 0..0 |-> IF i = 0 THEN <<<<>>>> ELSE PieceStep(f[i - 1], text[i], c)]
    BY <2>1
  <2>3. PiecesUpTo(f, 0, text, c)
    BY <2>2 DEF PiecesUpTo
  <2> QED BY <2>3
<1>2. \A m \in Nat : m \in S => m + 1 \in S
  <2> SUFFICES ASSUME NEW m \in Nat, NEW f, PiecesUpTo(f, m, text, c)
               PROVE  \E g : PiecesUpTo(g, m + 1, text, c)
    OBVIOUS
  <2> DEFINE g == [i \in 0..(m + 1) |-> IF i <= m THEN f[i] ELSE PieceStep(f[m], text[m + 1], c)]
  <2>1. \A i \in 0..m : f[i] = IF i = 0 THEN <<<<>>>> ELSE PieceStep(f[i - 1], text[i], c)
    BY DEF PiecesUpTo
  <2>2. \A i \in 0..(m + 1) : g[i] = IF i <= m THEN f[i] ELSE PieceStep(f[m], text[m + 1], c)
    OBVIOUS
  <2>3. \A i \in 0..(m + 1) : g[i] = IF i = 0 THEN <<<<>>>> ELSE PieceStep(g[i - 1], text[i], c)
    <3> SUFFICES ASSUME NEW i \in 0..(m + 1)
                 PROVE  g[i] = IF i = 0 THEN <<<<>>>> ELSE PieceStep(g[i - 1], text[i], c)
      OBVIOUS
    <3> HIDE DEF g
    <3>1. CASE i = 0
      BY <3>1, <2>1, <2>2
    <3>2. CASE i # 0 /\ i <= m
      <4>1. i - 1 \in 0..(m + 1) /\ i - 1 <= m /\ i \in 0..m
        BY <3>2
      <4>2. g[i] = f[i] /\ g[i - 1] = f[i - 1]
        BY <3>2, <4>1, <2>2
      <4> QED BY <3>2, <4>1, <4>2, <2>1
    <3>3. CASE i = m + 1
      <4>1. i - 1 = m /\ m \in 0..(m + 1) /\ i # 0 /\ ~(i <= m) /\ m <= m
        BY <3>3
      <4>2. g[i - 1] = f[m] /\ g[i] = PieceStep(f[m], text[i], c)
        BY <3>3, <4>1, <2>2
      <4> QED BY <4>1, <4>2
    <3> QED BY <3>1, <3>2, <3>3
  <2>4. g = [i \in 0..(m + 1) |-> g[i]]
    OBVIOUS
  <2> HIDE DEF g
  <2>5. PiecesUpTo(g, m + 1, text, c)
    BY <2>3, <2>4 DEF PiecesUpTo
  <2> QED BY <2>5
<1> HIDE DEF S
<1>3. n \in S
  BY <1>1, <1>2, Induction
<1> QED BY <1>3 DEF S

LEMMA PiecesStep ==
    ASSUME NEW text, IsSeq(text), NEW c
    PROVE  /\ Pieces(text, c)[0] = <<<<>>>>
           /\ \A i \in 1..Len(text) : Pieces(text, c)[i] = PieceStep(Pieces(text, c)[i - 1], text[i], c)
<1>1. PICK n \in Nat : n = Len(text)
  BY IsSeqElim
<1>2. Pieces(text, c) = CHOOSE f : PiecesUpTo(f, n, text, c)
  BY <1>1 DEF Pieces, PiecesUpTo
<1>3. PiecesUpTo(Pieces(text, c), n, text, c)
  BY <1>2, PiecesExist
<1>4. PICK f : f = Pieces(text, c)
  OBVIOUS
<1>5. \A i \in 0..n : f[i] = IF i = 0 THEN <<<<>>>> ELSE PieceStep(f[i - 1], text[i], c)
  BY <1>3, <1>4 DEF PiecesUpTo
<1>6. f[0] = <<<<>>>>
  BY <1>5
<1>7. \A i \in 1..n : f[i] = PieceStep(f[i - 1], text[i], c)
  BY <1>5
<1> QED BY <1>1, <1>4, <1>6, <1>7

LEMMA PieceFacts ==
    ASSUME NEW p, IsSeq(p), Len(p) >= 1, NEW x, NEW c
    PROVE  /\ IsSeq(PieceStep(p, x, c))
           /\ x.t = c => PieceStep(p, x, c) = Append(p, <<>>)
           /\ x.t # c => /\ Len(PieceStep(p, x, c)) = Len(p)
                         /\ PieceStep(p, x, c)[Len(p)] = Append(p[Len(p)], x)
                         /\ \A i \in 1..Len(p) : i # Len(p) => PieceStep(p, x, c)[i] = p[i]
<1>1. PICK n \in Nat : n = Len(p) /\ DOMAIN p = 1..n /\ n >= 1
  BY IsSeqElim
<1>2. CASE x.t = c
  BY <1>2, AppendSeq DEF PieceStep
<1>3. CASE x.t # c
  <2>1. PICK y : y = Append(p[n], x)
    OBVIOUS
  <2>2. PICK q : q = [p EXCEPT ![n] = y]
    OBVIOUS
  <2>3. PieceStep(p, x, c) = q
    BY <1>1, <1>3, <2>1, <2>2 DEF PieceStep
  <2> DEFINE S == Range(p) \cup {y}
  <2>4. p \in Seq(S) /\ y \in S /\ n \in 1..Len(p)
    BY <1>1, IsSeqElim
  <2> HIDE DEF S
  <2>5. q \in Seq(S) /\ Len(q) = n /\ q[n] = y /\ \A i \in 1..n : i # n => q[i] = p[i]
    BY <1>1, <2>2, <2>4
  <2>6. IsSeq(q)
    BY <2>5, IsSeqIntro
  <2> QED BY <1>1, <1>3, <2>1, <2>3, <2>5, <2>6
<1> QED BY <1>2, <1>3

LEMMA PieceKept ==
    ASSUME NEW p, IsSeq(p), Len(p) >= 1, NEW x, NEW c, x.t # c, NEW q, q = PieceStep(p, x, c)
    PROVE  /\ IsSeq(q) /\ Len(q) = Len(p) /\ q[Len(p)] = Append(p[Len(p)], x)
           /\ \A i \in 1..Len(p) : i # Len(p) => q[i] = p[i]
<1>1. IsSeq(q) /\ Len(q) = Len(p)
  BY PieceFacts
<1>2. q[Len(p)] = Append(p[Len(p)], x)
  BY PieceFacts
<1>3. \A i \in 1..Len(p) : i # Len(p) => q[i] = p[i]
  BY PieceFacts
<1> QED BY <1>1, <1>2, <1>3, Zenon

\* A sequence with one more element before it.
Behind(a, p) == <<a>> \o p

LEMMA ConsFacts ==
    ASSUME NEW a, NEW p, IsSeq(p)
    PROVE  /\ IsSeq(Behind(a, p)) /\ Len(Behind(a, p)) = Len(p) + 1 /\ Behind(a, p)[1] = a
           /\ \A i \in 1..Len(p) : Behind(a, p)[i + 1] = p[i]
<1>1. Len(p) \in Nat /\ IsSeq(<<a>>) /\ Len(<<a>>) = 1 /\ <<a>>[1] = a
  BY IsSeqElim, OneSeq
<1>2. PICK q : q = Behind(a, p)
  OBVIOUS
<1>3. Joins(q, <<a>>, p)
  BY <1>1, <1>2, ConcatSeq DEF Behind
<1>4. /\ IsSeq(q) /\ Len(q) = 1 + Len(p) /\ \A i \in 1..1 : q[i] = <<a>>[i]
      /\ \A i \in 1..Len(p) : q[1 + i] = p[i]
  BY <1>1, <1>3 DEF Joins
<1>5. q[1] = a
  BY <1>1, <1>4
<1>6. \A i \in 1..Len(p) : 1 + i = i + 1
  BY <1>1
<1> QED BY <1>1, <1>2, <1>4, <1>5, <1>6

LEMMA PieceStepBehind ==
    ASSUME NEW a, NEW p, IsSeq(p), Len(p) >= 1, NEW x, NEW c
    PROVE  PieceStep(Behind(a, p), x, c) = Behind(a, PieceStep(p, x, c))
<1>1. PICK q : q = Behind(a, p)
  OBVIOUS
<1>2. PICK p2 : p2 = PieceStep(p, x, c)
  OBVIOUS
<1>3. PICK q2 : q2 = PieceStep(q, x, c)
  OBVIOUS
<1>4. PICK r : r = Behind(a, p2)
  OBVIOUS
<1>5. PICK n \in Nat : n = Len(p) /\ n >= 1
  BY IsSeqElim
<1>6. IsSeq(q) /\ Len(q) = n + 1 /\ q[1] = a /\ \A i \in 1..n : q[i + 1] = p[i]
  BY <1>1, <1>5, ConsFacts
<1>7. IsSeq(p2)
  BY <1>2, PieceFacts
<1>8. IsSeq(r) /\ Len(r) = Len(p2) + 1 /\ r[1] = a /\ \A i \in 1..Len(p2) : r[i + 1] = p2[i]
  BY <1>4, <1>7, ConsFacts
<1>9. Len(q) >= 1 /\ IsSeq(q2)
  BY <1>3, <1>5, <1>6, PieceFacts
<1>10. CASE x.t = c
  <2>1. p2 = Append(p, <<>>) /\ q2 = Append(q, <<>>)
    BY <1>2, <1>3, <1>6, <1>9, <1>10, PieceFacts
  <2>2. PICK nil : nil = <<>>
    OBVIOUS
  <2>3. Len(p2) = n + 1 /\ p2[n + 1] = nil /\ \A i \in 1..n : p2[i] = p[i]
    BY <1>5, <2>1, <2>2, AppendSeq
  <2>4. Len(q2) = n + 2 /\ q2[n + 2] = nil /\ \A i \in 1..(n + 1) : q2[i] = q[i]
    <3>1. Len(q2) = (n + 1) + 1 /\ q2[(n + 1) + 1] = nil /\ \A i \in 1..(n + 1) : q2[i] = q[i]
      BY <1>6, <2>1, <2>2, AppendSeq
    <3> QED BY <3>1
  <2>5. \A i \in 1..(n + 2) : q2[i] = r[i]
    <3> SUFFICES ASSUME NEW i \in 1..(n + 2) PROVE q2[i] = r[i]
      OBVIOUS
    <3>1. CASE i = 1
      BY <3>1, <2>4, <1>6, <1>8
    <3>2. CASE i = n + 2
      <4>1. n + 1 \in 1..Len(p2) /\ (n + 1) + 1 = n + 2
        BY <2>3
      <4>2. r[(n + 1) + 1] = p2[n + 1]
        BY <4>1, <1>8
      <4> QED BY <3>2, <4>1, <4>2, <2>3, <2>4
    <3>3. CASE i # 1 /\ i # n + 2
      <4>1. i - 1 \in 1..n /\ i - 1 \in 1..Len(p2) /\ (i - 1) + 1 = i /\ i \in 1..(n + 1)
        BY <3>3, <2>3
      <4>2. r[(i - 1) + 1] = p2[i - 1] /\ q[(i - 1) + 1] = p[i - 1] /\ p2[i - 1] = p[i - 1] /\ q2[i] = q[i]
        BY <4>1, <1>6, <1>8, <2>3, <2>4
      <4> QED BY <4>1, <4>2
    <3> QED BY <3>1, <3>2, <3>3
  <2>6. q2 = r
    BY <1>8, <1>9, <2>3, <2>4, <2>5, SameSeq
  <2> QED BY <2>6, <1>1, <1>2, <1>3, <1>4
<1>11. CASE x.t # c
  <2>1. Len(p2) = n /\ p2[n] = Append(p[n], x) /\ \A i \in 1..n : i # n => p2[i] = p[i]
    BY <1>2, <1>5, <1>11, PieceFacts
  <2>2. Len(q2) = n + 1 /\ q2[n + 1] = Append(q[n + 1], x) /\ \A i \in 1..(n + 1) : i # n + 1 => q2[i] = q[i]
    <3>1. Len(q2) = Len(q) /\ q2[Len(q)] = Append(q[Len(q)], x) /\ \A i \in 1..Len(q) : i # Len(q) => q2[i] = q[i]
      <4>1. IsSeq(q) /\ Len(q) >= 1 /\ x.t # c
        BY <1>6, <1>9, <1>11
      <4>2. Len(q2) = Len(q)
        BY <1>3, <4>1, PieceKept
      <4>3. q2[Len(q)] = Append(q[Len(q)], x)
        BY <1>3, <4>1, PieceKept
      <4>4. \A i \in 1..Len(q) : i # Len(q) => q2[i] = q[i]
        BY <1>3, <4>1, PieceKept
      <4> QED BY <4>2, <4>3, <4>4, Zenon
    <3> QED BY <1>6, <3>1
  <2>3. \A i \in 1..(n + 1) : q2[i] = r[i]
    <3> SUFFICES ASSUME NEW i \in 1..(n + 1) PROVE q2[i] = r[i]
      OBVIOUS
    <3>1. CASE i = 1
      <4>1. i \in 1..(n + 1) /\ i # n + 1
        BY <3>1, <1>5
      <4> QED BY <3>1, <4>1, <2>2, <1>6, <1>8
    <3>2. CASE i = n + 1
      <4>1. n \in 1..n /\ q[n + 1] = p[n] /\ r[n + 1] = p2[n]
        BY <1>5, <1>6, <1>8, <2>1
      <4> QED BY <3>2, <4>1, <2>1, <2>2
    <3>3. CASE i # 1 /\ i # n + 1
      <4>1. i - 1 \in 1..n /\ (i - 1) + 1 = i /\ i - 1 # n
        BY <3>3, <1>5
      <4>2. r[(i - 1) + 1] = p2[i - 1] /\ q[(i - 1) + 1] = p[i - 1] /\ p2[i - 1] = p[i - 1] /\ q2[i] = q[i]
        BY <3>3, <4>1, <1>6, <1>8, <2>1, <2>2
      <4> QED BY <4>1, <4>2
    <3> QED BY <3>1, <3>2, <3>3
  <2>4. q2 = r
    BY <1>8, <1>9, <2>1, <2>2, <2>3, SameSeq
  <2> QED BY <2>4, <1>1, <1>2, <1>3, <1>4
<1> QED BY <1>10, <1>11

\* Before the first separator there is one piece.
LEMMA PiecesBefore ==
    ASSUME NEW text, IsSeq(text), NEW c, NEW a, IsSeq(a), Len(a) <= Len(text),
           \A i \in 1..Len(a) : text[i] = a[i] /\ a[i].t # c
    PROVE  Pieces(text, c)[Len(a)] = <<a>>
<1>1. PICK n \in Nat : n = Len(a) /\ Len(text) \in Nat
  BY IsSeqElim
<1>2. PICK f : f = Pieces(text, c)
  OBVIOUS
<1>3. f[0] = <<<<>>>> /\ \A i \in 1..n : f[i] = PieceStep(f[i - 1], a[i], c) /\ a[i].t # c
  BY <1>1, <1>2, PiecesStep
<1> DEFINE Made(m, q) == f[m] = <<q>> /\ IsSeq(q) /\ Len(q) = m /\ \A i \in 1..m : q[i] = a[i]
           S == {m \in Nat : m <= n => \E q : Made(m, q)}
<1>4. 0 \in S
  <2>1. PICK q : q = <<>>
    OBVIOUS
  <2>2. Made(0, q)
    BY <1>3, <2>1, NilSeq
  <2> QED BY <2>2
<1>5. \A m \in Nat : m \in S => m + 1 \in S
  <2> SUFFICES ASSUME NEW m \in Nat, m + 1 <= n, NEW q, Made(m, q) PROVE \E r : Made(m + 1, r)
    BY <1>1
  <2>1. m + 1 \in 1..n /\ (m + 1) - 1 = m
    BY <1>1
  <2>2. PICK x : x = a[m + 1]
    OBVIOUS
  <2>3. f[m + 1] = PieceStep(<<q>>, x, c) /\ x.t # c
    BY <1>3, <2>1, <2>2
  <2>4. PICK r : r = Append(q, x)
    OBVIOUS
  <2>5. IsSeq(r) /\ Len(r) = m + 1 /\ r[m + 1] = x /\ \A i \in 1..m : r[i] = q[i]
    BY <2>4, AppendSeq
  <2>a. PICK p1 : p1 = <<q>>
    OBVIOUS
  <2>b. IsSeq(p1) /\ Len(p1) = 1 /\ p1[1] = q
    BY <2>a, OneSeq
  <2>6. PICK p2 : p2 = PieceStep(p1, x, c)
    OBVIOUS
  <2>7. IsSeq(p2) /\ Len(p2) = 1 /\ p2[1] = r
    <3>0. IsSeq(p1) /\ Len(p1) >= 1 /\ x.t # c
      BY <2>3, <2>b
    <3>1. IsSeq(p2) /\ Len(p2) = Len(p1)
      BY <2>6, <3>0, PieceKept
    <3>2. p2[Len(p1)] = Append(p1[Len(p1)], x)
      BY <2>6, <3>0, PieceKept
    <3> QED BY <2>4, <2>b, <3>1, <3>2
  <2>8. f[m + 1] = <<r>>
    BY <2>3, <2>6, <2>7, <2>a, UnitSeq
  <2>9. \A i \in 1..(m + 1) : r[i] = a[i]
    BY <2>2, <2>5
  <2> QED BY <2>5, <2>8, <2>9
<1> HIDE DEF S
<1>6. n \in S
  BY <1>4, <1>5, Induction
<1>7. PICK q : Made(n, q)
  BY <1>1, <1>6 DEF S
<1>8. q = a
  BY <1>1, <1>7, SameSeq
<1> QED BY <1>1, <1>2, <1>7, <1>8

LEMMA SplitNone ==
    ASSUME NEW text, IsSeq(text), NEW c, ~Holds(text, {c})
    PROVE  Split(text, c) = <<text>>
<1>1. Len(text) \in Nat /\ DOMAIN text = 1..Len(text)
  BY IsSeqElim
<1>2. \A i \in 1..Len(text) : text[i].t # c
  BY <1>1 DEF Holds
<1>3. Pieces(text, c)[Len(text)] = <<text>>
  BY <1>1, <1>2, PiecesBefore
<1> QED BY <1>3 DEF Split

\* text is a and b with a separator between them.
Cut(text, a, c, b) ==
    /\ IsSeq(text) /\ IsSeq(a) /\ IsSeq(b) /\ Len(text) = Len(a) + 1 + Len(b)
    /\ \A i \in 1..Len(a) : text[i] = a[i]
    /\ text[Len(a) + 1].t = c
    /\ \A i \in 1..Len(b) : text[Len(a) + 1 + i] = b[i]

LEMMA SplitCut ==
    ASSUME NEW text, NEW a, NEW c, NEW b, Cut(text, a, c, b), ~Holds(a, {c})
    PROVE  /\ Split(text, c) = Behind(a, Split(b, c))
           /\ IsSeq(Split(b, c)) /\ Len(Split(b, c)) >= 1
<1>1. PICK n \in Nat, m \in Nat : n = Len(a) /\ m = Len(b) /\ DOMAIN a = 1..n
  BY IsSeqElim DEF Cut
<1>2. /\ IsSeq(text) /\ IsSeq(a) /\ IsSeq(b) /\ Len(text) = n + 1 + m
      /\ \A i \in 1..n : text[i] = a[i] /\ a[i].t # c
      /\ text[n + 1].t = c
      /\ \A i \in 1..m : text[n + 1 + i] = b[i]
  BY <1>1 DEF Cut, Holds
<1>3. PICK f, g : f = Pieces(text, c) /\ g = Pieces(b, c)
  OBVIOUS
<1>4. \A i \in 1..(n + 1 + m) : f[i] = PieceStep(f[i - 1], text[i], c)
  BY <1>2, <1>3, PiecesStep
<1>5. g[0] = <<<<>>>> /\ \A i \in 1..m : g[i] = PieceStep(g[i - 1], b[i], c)
  BY <1>1, <1>2, <1>3, PiecesStep
<1>6. f[n] = <<a>>
  BY <1>1, <1>2, <1>3, PiecesBefore
<1> DEFINE S == {j \in Nat : j <= m => f[n + 1 + j] = Behind(a, g[j]) /\ IsSeq(g[j]) /\ Len(g[j]) >= 1}
<1>7. 0 \in S
  <2>1. n + 1 \in 1..(n + 1 + m) /\ (n + 1) - 1 = n /\ n + 1 + 0 = n + 1
    BY <1>1
  <2>a. PICK p1, x : p1 = <<a>> /\ x = text[n + 1]
    OBVIOUS
  <2>2. f[n + 1] = PieceStep(p1, x, c)
    BY <1>4, <1>6, <2>1, <2>a
  <2>3. IsSeq(p1) /\ Len(p1) >= 1 /\ x.t = c
    BY <1>2, <2>a, OneSeq
  <2>4. PICK nil : nil = <<>>
    OBVIOUS
  <2>b. f[n + 1] = Append(p1, nil)
    BY <2>2, <2>3, <2>4, PieceFacts
  <2>5. f[n + 1] = Append(<<a>>, nil) /\ g[0] = <<nil>>
    BY <1>5, <2>4, <2>a, <2>b
  <2>6. IsSeq(<<nil>>) /\ Len(<<nil>>) = 1
    BY OneSeq
  <2>7. Append(<<a>>, nil) = Behind(a, <<nil>>)
    BY DEF Behind
  <2>8. f[n + 1 + 0] = Behind(a, g[0])
    BY <2>1, <2>5, <2>7
  <2>9. IsSeq(g[0]) /\ Len(g[0]) >= 1
    BY <2>5, <2>6
  <2> QED BY <2>8, <2>9
<1>8. \A j \in Nat : j \in S => j + 1 \in S
  <2>0. SUFFICES ASSUME NEW j \in Nat, j + 1 <= m,
                      f[n + 1 + j] = Behind(a, g[j]), IsSeq(g[j]), Len(g[j]) >= 1
               PROVE  f[n + 1 + (j + 1)] = Behind(a, g[j + 1]) /\ IsSeq(g[j + 1]) /\ Len(g[j + 1]) >= 1
    BY <1>1
  <2>1. /\ n + 1 + (j + 1) \in 1..(n + 1 + m) /\ (n + 1 + (j + 1)) - 1 = n + 1 + j
        /\ j + 1 \in 1..m /\ (j + 1) - 1 = j
    BY <1>1, <2>0
  <2>2. PICK p, x : p = g[j] /\ x = b[j + 1]
    OBVIOUS
  <2>a. PICK u : u = Behind(a, p)
    OBVIOUS
  <2>b. IsSeq(p) /\ Len(p) >= 1 /\ f[n + 1 + j] = u
    BY <2>0, <2>2, <2>a
  <2>3. f[n + 1 + (j + 1)] = PieceStep(u, x, c) /\ g[j + 1] = PieceStep(p, x, c)
    <3>1. text[n + 1 + (j + 1)] = x
      BY <1>2, <2>1, <2>2
    <3>2. f[n + 1 + (j + 1)] = PieceStep(f[n + 1 + j], x, c)
      BY <1>4, <2>1, <3>1
    <3>3. g[j + 1] = PieceStep(g[j], x, c)
      BY <1>5, <2>1, <2>2
    <3> QED BY <2>2, <2>b, <3>2, <3>3
  <2>4. PieceStep(u, x, c) = Behind(a, PieceStep(p, x, c))
    <3>1. PieceStep(Behind(a, p), x, c) = Behind(a, PieceStep(p, x, c))
      BY <2>b, PieceStepBehind
    <3> QED BY <2>a, <3>1, Zenon
  <2>5. IsSeq(PieceStep(p, x, c)) /\ Len(PieceStep(p, x, c)) >= 1
    <3>1. Len(p) \in Nat /\ Len(Append(p, <<>>)) = Len(p) + 1
      BY <2>b, IsSeqElim, AppendSeq
    <3>2. PICK p2 : p2 = PieceStep(p, x, c)
      OBVIOUS
    <3>3. /\ IsSeq(p2) /\ (x.t = c => p2 = Append(p, <<>>)) /\ (x.t # c => Len(p2) = Len(p))
      BY <2>b, <3>2, PieceFacts
    <3> QED BY <2>b, <3>1, <3>2, <3>3
  <2> QED BY <2>3, <2>4, <2>5
<1> HIDE DEF S
<1>9. m \in S
  BY <1>7, <1>8, Induction
<1>10. f[n + 1 + m] = Behind(a, g[m]) /\ IsSeq(g[m]) /\ Len(g[m]) >= 1
  BY <1>1, <1>9 DEF S
<1> QED BY <1>1, <1>2, <1>3, <1>10 DEF Split

\* Two pieces.
LEMMA SplitTwo ==
    ASSUME NEW text, NEW a, NEW c, NEW b, Cut(text, a, c, b), ~Holds(a, {c}), ~Holds(b, {c})
    PROVE  Len(Split(text, c)) = 2 /\ Split(text, c)[1] = a /\ Split(text, c)[2] = b
<1>1. IsSeq(b)
  BY DEF Cut
<1>2. Split(b, c) = <<b>>
  BY <1>1, SplitNone
<1>3. PICK p : p = <<b>>
  OBVIOUS
<1>4. IsSeq(p) /\ Len(p) = 1 /\ p[1] = b
  BY <1>3, OneSeq
<1>5. PICK q : q = Behind(a, p)
  OBVIOUS
<1>6. Split(text, c) = q
  <2>1. Split(text, c) = Behind(a, Split(b, c))
    BY SplitCut
  <2> QED BY <1>2, <1>3, <1>5, <2>1
<1>7. Len(q) = 2 /\ q[1] = a /\ \A i \in 1..1 : q[i + 1] = p[i]
  BY <1>4, <1>5, ConsFacts
<1>8. q[2] = b
  BY <1>4, <1>7
<1> QED BY <1>6, <1>7, <1>8

LEMMA ConcatAssoc ==
    ASSUME NEW s, NEW t, NEW u, IsSeq(s), IsSeq(t), IsSeq(u)
    PROVE  (s \o t) \o u = s \o (t \o u) /\ IsSeq(s \o t) /\ IsSeq(t \o u)
<1> DEFINE S == (Range(s) \cup Range(t)) \cup Range(u)
<1>1. s \in Seq(S) /\ t \in Seq(S) /\ u \in Seq(S)
  BY IsSeqElim
<1> HIDE DEF S
<1>2. (s \o t) \o u = s \o (t \o u)
  BY <1>1
<1>3. s \o t \in Seq(S) /\ t \o u \in Seq(S)
  BY <1>1
<1> QED BY <1>2, <1>3, IsSeqIntro

LEMMA ConcatIs ==
    ASSUME NEW s, NEW t, IsSeq(s), IsSeq(t)
    PROVE  IsSeq(s \o t)
BY ConcatSeq DEF Joins

LEMMA HoldsConcat ==
    ASSUME NEW s, NEW t, IsSeq(s), IsSeq(t), NEW T, ~Holds(s, T), ~Holds(t, T)
    PROVE  ~Holds(s \o t, T)
<1>1. PICK r : r = s \o t
  OBVIOUS
<1>2. Joins(r, s, t)
  BY <1>1, ConcatSeq
<1>3. PICK n \in Nat, m \in Nat : /\ n = Len(s) /\ m = Len(t) /\ DOMAIN s = 1..n /\ DOMAIN t = 1..m
                                  /\ DOMAIN r = 1..(n + m)
  BY <1>2, IsSeqElim DEF Joins
<1>4. (\A i \in 1..n : s[i].t \notin T) /\ \A i \in 1..m : t[i].t \notin T
  BY <1>3 DEF Holds
<1>5. ASSUME NEW i \in 1..(n + m) PROVE r[i].t \notin T
  <2>1. CASE i <= n
    <3>1. i \in 1..n /\ r[i] = s[i]
      BY <1>2, <1>3, <2>1 DEF Joins
    <3> QED BY <1>4, <3>1
  <2>2. CASE ~(i <= n)
    <3>1. i - n \in 1..m /\ n + (i - n) = i
      BY <1>3, <2>2
    <3>2. r[n + (i - n)] = t[i - n]
      BY <1>2, <1>3, <3>1 DEF Joins
    <3> QED BY <1>4, <3>1, <3>2
  <2> QED BY <2>1, <2>2
<1>6. ~Holds(r, T)
  BY <1>3, <1>5 DEF Holds
<1> QED BY <1>1, <1>6

LEMMA ChrFacts ==
    ASSUME NEW x
    PROVE  /\ IsSeq(Chr(x)) /\ Len(Chr(x)) = 1 /\ Chr(x)[1] = Token(x, 0, <<>>) /\ Chr(x)[1].t = x
           /\ Chr(x) # <<>> /\ \A T : x \notin T => ~Holds(Chr(x), T)
<1>1. IsSeq(Chr(x)) /\ Len(Chr(x)) = 1 /\ Chr(x)[1] = Token(x, 0, <<>>) /\ Chr(x) # <<>>
  BY OneSeq DEF Chr
<1>2. Chr(x)[1].t = x
  BY <1>1 DEF Token
<1>3. \A i \in DOMAIN Chr(x) : i = 1
  BY <1>1, IsSeqElim
<1>4. \A T : x \notin T => ~Holds(Chr(x), T)
  BY <1>2, <1>3 DEF Holds
<1> QED BY <1>1, <1>2, <1>4

LEMMA NumHolds ==
    ASSUME NEW n \in Int, NEW c, c # "num"
    PROVE  ~Holds(Num(n), {c})
<1>1. Len(Num(n)) = 1 /\ IsSeq(Num(n)) /\ Num(n)[1].t = "num"
  BY NumFacts
<1>2. \A i \in DOMAIN Num(n) : i = 1
  BY <1>1, IsSeqElim
<1> QED BY <1>1, <1>2 DEF Holds

LEMMA NilHolds ==
    ASSUME NEW s, s = <<>>, NEW T
    PROVE  ~Holds(s, T)
BY NilSeq DEF Holds

LEMMA CutConcat ==
    ASSUME NEW a, NEW c, NEW b, IsSeq(a), IsSeq(b)
    PROVE  Cut((a \o Chr(c)) \o b, a, c, b)
<1>1. PICK x, u, r : x = Chr(c) /\ u = a \o x /\ r = u \o b
  OBVIOUS
<1>2. IsSeq(x) /\ Len(x) = 1 /\ x[1].t = c
  BY <1>1, ChrFacts
<1>3. PICK n \in Nat, m \in Nat : n = Len(a) /\ m = Len(b)
  BY IsSeqElim
<1>4. /\ IsSeq(u) /\ Len(u) = n + 1 /\ (\A i \in 1..n : u[i] = a[i])
      /\ \A i \in 1..1 : u[n + i] = x[i]
  <2>1. Joins(u, a, x)
    BY <1>1, <1>2, ConcatSeq
  <2> QED BY <1>2, <1>3, <2>1 DEF Joins
<1>5. /\ IsSeq(r) /\ Len(r) = n + 1 + m /\ (\A i \in 1..(n + 1) : r[i] = u[i])
      /\ \A i \in 1..m : r[n + 1 + i] = b[i]
  <2>1. Joins(r, u, b)
    BY <1>1, <1>4, ConcatSeq
  <2> QED BY <1>3, <1>4, <2>1 DEF Joins
<1>6. r[n + 1] = x[1]
  BY <1>4, <1>5
<1>7. \A i \in 1..n : r[i] = a[i]
  BY <1>4, <1>5
<1>8. Cut(r, a, c, b)
  BY <1>2, <1>3, <1>5, <1>6, <1>7 DEF Cut
<1> QED BY <1>1, <1>8

----------------------------------------------------------------------------
(* Ranges                                                                  *)

\* The section start-end, with an end or without.
LEMMA ReadSectionFacts ==
    ASSUME NEW s \in Int, NEW e, e = <<>> \/ \E n \in Int : e = Num(n), NEW r
    PROVE  /\ IsSeq((Num(s) \o Chr("-")) \o e)
           /\ \A c \in {"=", "semicolon", "/", "blank"} : ~Holds((Num(s) \o Chr("-")) \o e, {c})
           /\ ReadSection(r, (Num(s) \o Chr("-")) \o e)
                 = [ok |-> TRUE, range |-> ReadEnd(ReadStart(r, Num(s)), e)]
<1>1. PICK a, text : a = Num(s) /\ text = (a \o Chr("-")) \o e
  OBVIOUS
<1>2. IsSeq(a) /\ a # <<>> /\ IsNumber(a) /\ \A c : c # "num" => ~Holds(a, {c})
  BY <1>1, NumFacts, NumHolds
<1>3. IsSeq(e) /\ (e # <<>> => IsNumber(e)) /\ \A c : c # "num" => ~Holds(e, {c})
  BY NilSeq, NilHolds, NumFacts, NumHolds
<1>4. Cut(text, a, "-", e)
  BY <1>1, <1>2, <1>3, CutConcat
<1>5. IsSeq(text)
  BY <1>4 DEF Cut
<1>6. \A c \in {"=", "semicolon", "/", "blank"} : ~Holds(text, {c})
  <2> SUFFICES ASSUME NEW c \in {"=", "semicolon", "/", "blank"} PROVE ~Holds(text, {c})
    OBVIOUS
  <2>1. c # "num" /\ "-" \notin {c}
    OBVIOUS
  <2>2. PICK x, u : x = Chr("-") /\ u = a \o x
    OBVIOUS
  <2>3. IsSeq(x) /\ ~Holds(x, {c})
    BY <2>1, <2>2, ChrFacts
  <2>4. IsSeq(u) /\ ~Holds(u, {c})
    BY <1>2, <2>1, <2>2, <2>3, ConcatIs, HoldsConcat
  <2>5. ~Holds(e, {c})
    BY <1>3, <2>1
  <2>6. ~Holds(u \o e, {c})
    BY <1>3, <2>4, <2>5, HoldsConcat
  <2> QED BY <1>1, <2>2, <2>6
<1>7. ~Holds(a, {"-"}) /\ ~Holds(e, {"-"})
  BY <1>2, <1>3
<1>8. PICK ends : ends = Split(text, "-")
  OBVIOUS
<1>9. Len(ends) = 2 /\ ends[1] = a /\ ends[2] = e
  BY <1>4, <1>7, <1>8, SplitTwo
<1>10. ReadSection(r, text) = [ok |-> TRUE, range |-> ReadEnd(ReadStart(r, a), e)]
  <2>1. ~(ends[1] # <<>> /\ ~IsNumber(ends[1])) /\ ~(Len(ends) < 2) /\ ~(ends[2] # <<>> /\ ~IsNumber(ends[2]))
    BY <1>2, <1>3, <1>9
  <2> QED BY <1>8, <1>9, <2>1 DEF ReadSection
<1> QED BY <1>1, <1>5, <1>6, <1>10

LEMMA SectionBounds ==
    ASSUME NEW r \in Ranges
    PROVE  /\ SectionStart(r) \in 0..(Word - 1) /\ SectionEnd(r) \in 0..(Word - 1)
           /\ r.useStart \in BOOLEAN /\ r.useEnd \in BOOLEAN
           /\ r.end \in 0..(Word - 1) /\ r.total \in 0..(Word - 1)
           /\ \A n \in 0..(Word - 1) : n \in Int /\ n % Word = n
<1>1. Word \in Nat /\ Word > 0
  BY HeadAssumption
<1>2. /\ r.useStart \in BOOLEAN /\ r.useEnd \in BOOLEAN /\ r.start \in 0..(Word - 1)
      /\ r.end \in 0..(Word - 1) /\ r.total \in 0..(Word - 1)
  BY DEF Ranges
<1>3. SectionStart(r) \in 0..(Word - 1)
  BY <1>1, <1>2 DEF SectionStart
<1>4. (r.total - 1) % Word \in 0..(Word - 1)
  BY <1>1, <1>2
<1>5. SectionEnd(r) \in 0..(Word - 1)
  BY <1>2, <1>4 DEF SectionEnd
<1>6. \A n \in 0..(Word - 1) : n \in Int /\ n % Word = n
  BY <1>1
<1> QED BY <1>2, <1>3, <1>5, <1>6

\* What reading a section does to the record.
SectionRead(r0, s, e) == ReadEnd(ReadStart(r0, Num(s)), e)

LEMMA ReadEnds ==
    ASSUME NEW r0 \in Ranges, NEW s \in 0..(Word - 1), NEW e
    PROVE  /\ SectionStart(SectionRead(r0, s, e)) = s
           /\ e = <<>> => SectionRead(r0, s, e).useEnd = TRUE
           /\ \A n \in 0..(Word - 1) : e = Num(n) =>
                 /\ SectionRead(r0, s, e).useEnd = FALSE /\ SectionRead(r0, s, e).end = n
                 /\ SectionEnd(SectionRead(r0, s, e)) = n
           /\ DOMAIN SectionRead(r0, s, e) = {"useStart", "useEnd", "start", "end", "total"}
<1>r. PICK r : r = SectionRead(r0, s, e)
  OBVIOUS
<1>1. s \in Int /\ s % Word = s /\ Num(s) # <<>> /\ Stoull(Num(s)) = s
  BY SectionBounds, NumFacts
<1>2. PICK q : q = [r0 EXCEPT !.useStart = FALSE, !.start = s]
  OBVIOUS
<1>3. ReadStart(r0, Num(s)) = q
  BY <1>1, <1>2 DEF ReadStart
<1>4. /\ q.useStart = FALSE /\ q.start = s /\ DOMAIN q = {"useStart", "useEnd", "start", "end", "total"}
  BY <1>2 DEF Ranges
<1>5. CASE e = <<>>
  <2>1. r = [q EXCEPT !.useEnd = TRUE]
    BY <1>3, <1>5, <1>r DEF ReadEnd, SectionRead
  <2>2. /\ r.useStart = FALSE /\ r.start = s /\ r.useEnd = TRUE
        /\ DOMAIN r = {"useStart", "useEnd", "start", "end", "total"}
    BY <1>4, <2>1
  <2>3. \A n \in 0..(Word - 1) : e # Num(n)
    BY <1>5, SectionBounds, NumFacts
  <2>4. SectionStart(r) = s
    BY <2>2 DEF SectionStart
  <2> QED BY <1>r, <2>2, <2>3, <2>4
<1>6. ASSUME NEW n \in 0..(Word - 1), e = Num(n)
      PROVE  /\ SectionStart(r) = s /\ r.useEnd = FALSE /\ r.end = n /\ SectionEnd(r) = n /\ e # <<>>
             /\ DOMAIN r = {"useStart", "useEnd", "start", "end", "total"}
  <2>1. n \in Int /\ n % Word = n /\ Num(n) # <<>> /\ Stoull(Num(n)) = n
    BY SectionBounds, NumFacts
  <2>2. r = [q EXCEPT !.useEnd = FALSE, !.end = n]
    BY <1>3, <1>6, <1>r, <2>1 DEF ReadEnd, SectionRead
  <2>3. /\ r.useStart = FALSE /\ r.start = s /\ r.useEnd = FALSE /\ r.end = n
        /\ DOMAIN r = {"useStart", "useEnd", "start", "end", "total"}
    BY <1>4, <2>2
  <2> QED BY <1>6, <2>1, <2>3 DEF SectionStart, SectionEnd
<1>7. CASE e # <<>> /\ \A n \in 0..(Word - 1) : e # Num(n)
  <2>1. r = [q EXCEPT !.useEnd = FALSE, !.end = Stoull(e)]
    BY <1>3, <1>7, <1>r DEF ReadEnd, SectionRead
  <2>2. /\ r.useStart = FALSE /\ r.start = s
        /\ DOMAIN r = {"useStart", "useEnd", "start", "end", "total"}
    BY <1>4, <2>1
  <2>3. SectionStart(r) = s
    BY <2>2 DEF SectionStart
  <2> QED BY <1>7, <1>r, <2>2, <2>3
<1>8. CASE \E n \in 0..(Word - 1) : e = Num(n)
  <2>1. PICK n \in 0..(Word - 1) : e = Num(n)
    BY <1>8
  <2>2. \A k \in 0..(Word - 1) : e = Num(k) => r.useEnd = FALSE /\ r.end = k /\ SectionEnd(r) = k
    BY <1>6
  <2>3. SectionStart(r) = s /\ e # <<>> /\ DOMAIN r = {"useStart", "useEnd", "start", "end", "total"}
    BY <1>6, <2>1
  <2> QED BY <1>r, <2>2, <2>3
<1> QED BY <1>5, <1>7, <1>8

LEMMA BytesFacts == IsSeq(Chr("bytes")) /\ IsBytes(Chr("bytes")) /\ ~Holds(Chr("bytes"), {"="}) /\ ~Holds(Chr("bytes"), {"blank"})
<1>1. PICK x : x = Chr("bytes")
  OBVIOUS
<1>2. IsSeq(x) /\ Len(x) = 1 /\ x[1].t = "bytes" /\ \A T : "bytes" \notin T => ~Holds(x, T)
  BY <1>1, ChrFacts
<1>3. 1 \in DOMAIN x
  BY <1>2, IsSeqElim
<1>4. IsBytes(x)
  BY <1>2, <1>3 DEF IsBytes
<1>5. "bytes" \notin {"="} /\ "bytes" \notin {"blank"}
  OBVIOUS
<1> QED BY <1>1, <1>2, <1>4, <1>5

LEMMA ReadRangeFacts ==
    ASSUME NEW r \in Ranges, NEW r0 \in Ranges, NEW got, got = ReadRange(RangeText(r), r0)
    PROVE  /\ got.ok /\ SectionStart(got.range) = SectionStart(r) /\ got.range.useEnd = r.useEnd
           /\ ~r.useEnd => SectionEnd(got.range) = r.end
<1>1. PICK s \in 0..(Word - 1) : s = SectionStart(r)
  BY SectionBounds
<1>2. PICK e : e = IF r.useEnd THEN <<>> ELSE Num(r.end)
  OBVIOUS
<1>3. s \in Int /\ r.end \in 0..(Word - 1) /\ r.end \in Int /\ r.useEnd \in BOOLEAN
  BY SectionBounds
<1>4. e = <<>> \/ \E n \in Int : e = Num(n)
  BY <1>2, <1>3
<1>5. PICK b, q, n, d : b = Chr("bytes") /\ q = Chr("=") /\ n = Num(s) /\ d = Chr("-")
  OBVIOUS
<1>6. IsSeq(b) /\ IsSeq(q) /\ IsSeq(n) /\ IsSeq(d) /\ IsSeq(e)
  BY <1>2, <1>3, <1>5, ChrFacts, NumFacts, NilSeq
<1>7. PICK sec, text : sec = (n \o d) \o e /\ text = RangeText(r)
  OBVIOUS
<1>8. text = (((b \o q) \o n) \o d) \o e
  BY <1>1, <1>2, <1>5, <1>7 DEF RangeText
<1>9. text = (b \o q) \o sec
  <2>1. PICK x : x = b \o q
    OBVIOUS
  <2>2. IsSeq(x) /\ IsSeq(n \o d) /\ IsSeq(x \o n)
    BY <1>6, <2>1, ConcatIs
  <2>3. (x \o n) \o d = x \o (n \o d)
    BY <1>6, <2>2, ConcatAssoc
  <2>4. (x \o (n \o d)) \o e = x \o ((n \o d) \o e)
    BY <1>6, <2>2, ConcatAssoc
  <2> QED BY <1>7, <1>8, <2>1, <2>3, <2>4
<1>10. /\ IsSeq(sec) /\ ~Holds(sec, {"="}) /\ ~Holds(sec, {"semicolon"})
       /\ ReadSection(r0, sec) = [ok |-> TRUE, range |-> ReadEnd(ReadStart(r0, n), e)]
  <2>1. /\ IsSeq((Num(s) \o Chr("-")) \o e)
        /\ \A c \in {"=", "semicolon", "/", "blank"} : ~Holds((Num(s) \o Chr("-")) \o e, {c})
        /\ ReadSection(r0, (Num(s) \o Chr("-")) \o e)
                 = [ok |-> TRUE, range |-> ReadEnd(ReadStart(r0, Num(s)), e)]
    BY <1>3, <1>4, ReadSectionFacts
  <2>2. sec = (Num(s) \o Chr("-")) \o e
    BY <1>5, <1>7
  <2> QED BY <1>5, <2>1, <2>2
<1>11. Cut(text, b, "=", sec)
  BY <1>5, <1>6, <1>9, <1>10, CutConcat
<1>12. IsBytes(b) /\ ~Holds(b, {"="})
  BY <1>5, BytesFacts
<1>13. PICK unit : unit = Split(text, "=")
  OBVIOUS
<1>14. Len(unit) = 2 /\ unit[1] = b /\ unit[2] = sec
  BY <1>10, <1>11, <1>12, <1>13, SplitTwo
<1>15. Split(sec, "semicolon")[1] = sec
  <2>1. Split(sec, "semicolon") = <<sec>>
    BY <1>10, SplitNone
  <2> QED BY <2>1, OneSeq
<1>16. got = ReadSection(r0, sec)
  <2>1. got = IF Len(unit) # 2 \/ ~IsBytes(unit[1]) THEN [ok |-> FALSE, range |-> r0]
              ELSE ReadSection(r0, Split(unit[2], "semicolon")[1])
    BY <1>7, <1>13 DEF ReadRange
  <2> QED BY <1>12, <1>14, <1>15, <2>1
<1>17. PICK rr : rr = SectionRead(r0, s, e)
  OBVIOUS
<1>18. got.ok = TRUE /\ got.range = rr
  BY <1>5, <1>10, <1>16, <1>17 DEF SectionRead
<1>19. /\ SectionStart(rr) = s /\ (e = <<>> => rr.useEnd = TRUE)
       /\ \A k \in 0..(Word - 1) : e = Num(k) => rr.useEnd = FALSE /\ rr.end = k /\ SectionEnd(rr) = k
  <2>1. SectionStart(rr) = s
    BY <1>17, ReadEnds
  <2>2. e = <<>> => rr.useEnd = TRUE
    BY <1>17, ReadEnds
  <2>3. \A k \in 0..(Word - 1) : e = Num(k) => rr.useEnd = FALSE /\ rr.end = k /\ SectionEnd(rr) = k
    <3>1. \A k \in 0..(Word - 1) : e = Num(k) =>
             /\ SectionRead(r0, s, e).useEnd = FALSE /\ SectionRead(r0, s, e).end = k
             /\ SectionEnd(SectionRead(r0, s, e)) = k
      BY ReadEnds
    <3> QED BY ONLY <1>17, <3>1
  <2> QED BY <2>1, <2>2, <2>3, Zenon
<1>20. rr.useEnd = r.useEnd /\ (~r.useEnd => SectionEnd(rr) = r.end)
  BY <1>2, <1>3, <1>19
<1> QED BY <1>1, <1>18, <1>19, <1>20

LEMMA ReadContentRangeFacts ==
    ASSUME NEW r \in Ranges, NEW r0 \in Ranges, NEW got, got = ReadContentRange(ContentRangeText(r), r0)
    PROVE  /\ got.ok /\ got.range.total = r.total
           /\ SectionStart(got.range) = SectionStart(r) /\ SectionEnd(got.range) = SectionEnd(r)
<1>1. PICK s \in 0..(Word - 1), k \in 0..(Word - 1), m \in 0..(Word - 1) :
          s = SectionStart(r) /\ k = SectionEnd(r) /\ m = r.total
  BY SectionBounds
<1>2. s \in Int /\ k \in Int /\ m \in Int /\ m % Word = m
  BY SectionBounds
<1>3. PICK b, w, n, d, e, l, t : /\ b = Chr("bytes") /\ w = Chr("blank") /\ n = Num(s) /\ d = Chr("-")
                                 /\ e = Num(k) /\ l = Chr("/") /\ t = Num(m)
  OBVIOUS
<1>4. IsSeq(b) /\ IsSeq(w) /\ IsSeq(n) /\ IsSeq(d) /\ IsSeq(e) /\ IsSeq(l) /\ IsSeq(t)
  BY <1>2, <1>3, ChrFacts, NumFacts
<1>5. PICK sec, rest, text : sec = (n \o d) \o e /\ rest = (sec \o l) \o t /\ text = ContentRangeText(r)
  OBVIOUS
<1>6. text = (((((b \o w) \o n) \o d) \o e) \o l) \o t
  BY <1>1, <1>3, <1>5 DEF ContentRangeText
<1>7. /\ IsSeq(sec) /\ (\A c \in {"=", "semicolon", "/", "blank"} : ~Holds(sec, {c}))
      /\ ReadSection(r0, sec) = [ok |-> TRUE, range |-> ReadEnd(ReadStart(r0, n), e)]
  <2>1. e = <<>> \/ \E i \in Int : e = Num(i)
    BY <1>2, <1>3
  <2>2. /\ IsSeq((Num(s) \o Chr("-")) \o e)
        /\ \A c \in {"=", "semicolon", "/", "blank"} : ~Holds((Num(s) \o Chr("-")) \o e, {c})
        /\ ReadSection(r0, (Num(s) \o Chr("-")) \o e)
                 = [ok |-> TRUE, range |-> ReadEnd(ReadStart(r0, Num(s)), e)]
    BY <1>2, <2>1, ReadSectionFacts
  <2>3. sec = (Num(s) \o Chr("-")) \o e
    BY <1>3, <1>5
  <2> QED BY <1>3, <2>2, <2>3
<1>8. text = (b \o w) \o rest
  <2>1. PICK x : x = b \o w
    OBVIOUS
  <2>2. IsSeq(x) /\ IsSeq(n \o d) /\ IsSeq(sec \o l)
    BY <1>4, <1>7, <2>1, ConcatIs
  <2>3. (x \o n) \o d = x \o (n \o d)
    BY <1>4, <2>2, ConcatAssoc
  <2>4. (x \o (n \o d)) \o e = x \o sec
    <3>1. PICK u : u = n \o d
      OBVIOUS
    <3>2. IsSeq(u) /\ sec = u \o e
      BY <1>5, <2>2, <3>1
    <3>3. (x \o u) \o e = x \o (u \o e)
      BY <1>4, <2>2, <3>2, ConcatAssoc
    <3> QED BY ONLY <3>1, <3>2, <3>3
  <2>5. (x \o sec) \o l = x \o (sec \o l)
    BY <1>4, <1>7, <2>2, ConcatAssoc
  <2>y. PICK y : y = sec \o l
    OBVIOUS
  <2>z. (x \o y) \o t = x \o (y \o t)
    BY <1>4, <2>2, <2>y, ConcatAssoc
  <2>6. (x \o (sec \o l)) \o t = x \o rest
    BY <1>5, <2>y, <2>z
  <2> QED BY <1>6, <2>1, <2>3, <2>4, <2>5, <2>6
<1>9. IsSeq(rest) /\ ~Holds(rest, {"blank"})
  <2>1. ~Holds(l, {"blank"}) /\ ~Holds(t, {"blank"}) /\ ~Holds(sec, {"blank"})
    <3>1. "/" \notin {"blank"} /\ "blank" # "num"
      OBVIOUS
    <3> QED BY <1>2, <1>3, <1>7, <3>1, ChrFacts, NumHolds
  <2>2. IsSeq(sec \o l) /\ ~Holds(sec \o l, {"blank"})
    BY <1>4, <1>7, <2>1, ConcatIs, HoldsConcat
  <2>3. IsSeq((sec \o l) \o t) /\ ~Holds((sec \o l) \o t, {"blank"})
    BY <1>4, <2>1, <2>2, ConcatIs, HoldsConcat
  <2> QED BY <1>5, <2>3
<1>10. Cut(text, b, "blank", rest) /\ Cut(rest, sec, "/", t)
  BY <1>3, <1>4, <1>5, <1>7, <1>8, <1>9, CutConcat
<1>11. IsBytes(b) /\ ~Holds(b, {"blank"}) /\ ~Holds(sec, {"/"}) /\ ~Holds(t, {"/"})
  BY <1>2, <1>3, <1>7, BytesFacts, NumHolds
<1>12. PICK unit, parts : unit = Split(text, "blank") /\ parts = Split(rest, "/")
  OBVIOUS
<1>13. Len(unit) = 2 /\ unit[1] = b /\ unit[2] = rest
  BY <1>9, <1>10, <1>11, <1>12, SplitTwo
<1>14. Len(parts) = 2 /\ parts[1] = sec /\ parts[2] = t
  BY <1>10, <1>11, <1>12, SplitTwo
<1>15. PICK rr, section : rr = SectionRead(r0, s, e) /\ section = ReadSection(r0, sec)
  OBVIOUS
<1>16. section.ok = TRUE /\ section.range = rr
  BY <1>3, <1>7, <1>15 DEF SectionRead
<1>17. IsNumber(t) /\ Stoull(t) = m
  BY <1>2, <1>3, NumFacts
<1>18. got = [ok |-> TRUE, range |-> [rr EXCEPT !.total = m]]
  <2>1. got = IF Len(unit) # 2 \/ ~IsBytes(unit[1]) \/ Len(parts) # 2 THEN [ok |-> FALSE, range |-> r0]
              ELSE IF ~section.ok \/ ~IsNumber(parts[2]) THEN [section EXCEPT !.ok = FALSE]
              ELSE [ok |-> TRUE, range |-> [section.range EXCEPT !.total = Stoull(parts[2])]]
    BY <1>5, <1>12, <1>13, <1>14, <1>15 DEF ReadContentRange
  <2>2. ~(Len(unit) # 2 \/ ~IsBytes(unit[1]) \/ Len(parts) # 2) /\ ~(~section.ok \/ ~IsNumber(parts[2]))
    BY <1>11, <1>13, <1>14, <1>16, <1>17
  <2> QED BY <1>14, <1>16, <1>17, <2>1, <2>2
<1>19. SectionStart(rr) = s
  BY <1>15, ReadEnds
<1>20. rr.useEnd = FALSE /\ rr.end = k
  <2>1. \A x \in 0..(Word - 1) : e = Num(x) =>
             /\ SectionRead(r0, s, e).useEnd = FALSE /\ SectionRead(r0, s, e).end = x
             /\ SectionEnd(SectionRead(r0, s, e)) = x
    BY ReadEnds
  <2> QED BY ONLY <1>1, <1>3, <1>15, <2>1
<1>21. DOMAIN rr = {"useStart", "useEnd", "start", "end", "total"}
  BY <1>15, ReadEnds
<1>22. PICK q : q = [rr EXCEPT !.total = m]
  OBVIOUS
<1>23. q.total = m /\ q.useEnd = FALSE /\ q.end = k /\ q.useStart = rr.useStart /\ q.start = rr.start
  BY <1>20, <1>21, <1>22
<1>24. SectionStart(q) = s /\ SectionEnd(q) = k
  BY <1>19, <1>23 DEF SectionStart, SectionEnd
<1>25. got.ok = TRUE /\ got.range = q
  BY <1>18, <1>22
<1> QED BY <1>1, <1>23, <1>24, <1>25

\* The one line of a name with a setter of its own.
LEMMA SingleLine ==
    ASSUME HeadInv, NEW k \in Single, NEW i \in DOMAIN put[k]
    PROVE  i = 1 /\ IsArg(k, put[k][i]) /\ head[k][1] = LineOf(k, put[k][i])
<1>1. PICK lines, args : lines = head[k] /\ args = put[k]
  OBVIOUS
<1>2. Good(k, lines, args) /\ k # "Cookie"
  BY <1>1, KeySets DEF HeadInv
<1>3. IsSeq(args) /\ DOMAIN args = 1..Len(args) /\ args # <<>>
  BY <1>1, <1>2, IsSeqElim DEF Good
<1>4. Len(args) = 1 /\ IsArg(k, args[1]) /\ lines = <<LineOf(k, args[1])>>
  BY <1>2, <1>3 DEF Good
<1>5. lines[1] = LineOf(k, args[1])
  BY <1>4, OneSeq
<1> QED BY <1>1, <1>3, <1>4, <1>5

LEMMA HeadInvRanges == HeadInv => RangesReadBack
<1> SUFFICES ASSUME HeadInv PROVE RangesReadBack
  OBVIOUS
<1>1. "Range" \in Single /\ "Content-Range" \in Single
  BY DEF Single, Managed
<1>2. RangeReadBack
  <2> SUFFICES ASSUME NEW i \in DOMAIN put["Range"]
               PROVE  LET r == put["Range"][i]
                          got == ReadRange(head["Range"][1], [r EXCEPT !.useEnd = ~@])
                      IN  /\ got.ok
                          /\ SectionStart(got.range) = SectionStart(r)
                          /\ got.range.useEnd = r.useEnd
                          /\ ~r.useEnd => SectionEnd(got.range) = r.end
    BY DEF RangeReadBack
  <2>1. PICK r : r = put["Range"][i]
    OBVIOUS
  <2>2. r \in Ranges /\ head["Range"][1] = RangeText(r)
    BY <1>1, <2>1, SingleLine DEF IsArg, LineOf
  <2>3. PICK r0 : r0 = [r EXCEPT !.useEnd = ~@]
    OBVIOUS
  <2>4. r0 \in Ranges
    BY <2>2, <2>3 DEF Ranges
  <2>5. PICK got : got = ReadRange(RangeText(r), r0)
    OBVIOUS
  <2>6. /\ got.ok /\ SectionStart(got.range) = SectionStart(r) /\ got.range.useEnd = r.useEnd
        /\ ~r.useEnd => SectionEnd(got.range) = r.end
    BY <2>2, <2>4, <2>5, ReadRangeFacts
  <2> QED BY <2>1, <2>2, <2>3, <2>5, <2>6
<1>3. ContentRangeReadBack
  <2> SUFFICES ASSUME NEW i \in DOMAIN put["Content-Range"]
               PROVE  LET r == put["Content-Range"][i]
                          got == ReadContentRange(head["Content-Range"][1], [r EXCEPT !.total = 0, !.useEnd = TRUE])
                      IN  /\ got.ok /\ got.range.total = r.total
                          /\ SectionStart(got.range) = SectionStart(r)
                          /\ SectionEnd(got.range) = SectionEnd(r)
    BY DEF ContentRangeReadBack
  <2>1. PICK r : r = put["Content-Range"][i]
    OBVIOUS
  <2>2. r \in Ranges /\ head["Content-Range"][1] = ContentRangeText(r)
    BY <1>1, <2>1, SingleLine DEF IsArg, LineOf
  <2>3. PICK r0 : r0 = [r EXCEPT !.total = 0, !.useEnd = TRUE]
    OBVIOUS
  <2>z. 0 \in 0..(Word - 1)
    BY HeadAssumption
  <2>4. r0 \in Ranges
    BY <2>2, <2>3, <2>z DEF Ranges
  <2>5. PICK got : got = ReadContentRange(ContentRangeText(r), r0)
    OBVIOUS
  <2>6. /\ got.ok /\ got.range.total = r.total
        /\ SectionStart(got.range) = SectionStart(r) /\ SectionEnd(got.range) = SectionEnd(r)
    BY <2>2, <2>4, <2>5, ReadContentRangeFacts
  <2> QED BY <2>1, <2>2, <2>3, <2>5, <2>6
<1> QED BY <1>2, <1>3 DEF RangesReadBack

\* For every section, of any size up to 2^64, the Range and the Content-Range
\* head are read back as they were set.
THEOREM HeadRangesReadBack == Spec => []RangesReadBack
BY HeadInvAlways, HeadInvRanges, PTL

----------------------------------------------------------------------------
(* Reading key=value lists                                                 *)

St(at, key, value, m) == [at |-> at, key |-> key, value |-> value, map |-> m]
NoKeys == [k \in {} |-> <<>>]
Start == St("key", <<>>, <<>>, NoKeys)

\* f is the recursive function of Scan, up to the symbol n.
ScanUpTo(f, n, text) ==
    f = [i \in 0..n |-> IF i = 0 THEN Start ELSE SplitStep(f[i - 1], text[i])]

LEMMA ScanExist ==
    ASSUME NEW text, NEW n \in Nat
    PROVE  \E f : ScanUpTo(f, n, text)
<1> DEFINE S == {m \in Nat : \E f : ScanUpTo(f, m, text)}
<1>1. 0 \in S
  <2> DEFINE f == [i \in 0..0 |-> Start]
  <2>1. \A i \in 0..0 : i = 0
    OBVIOUS
  <2>2. f = [i \in 0..0 |-> IF i = 0 THEN Start ELSE SplitStep(f[i - 1], text[i])]
    BY <2>1
  <2>3. ScanUpTo(f, 0, text)
    BY <2>2 DEF ScanUpTo
  <2> QED BY <2>3
<1>2. \A m \in Nat : m \in S => m + 1 \in S
  <2> SUFFICES ASSUME NEW m \in Nat, NEW f, ScanUpTo(f, m, text)
               PROVE  \E g : ScanUpTo(g, m + 1, text)
    OBVIOUS
  <2> DEFINE g == [i \in 0..(m + 1) |-> IF i <= m THEN f[i] ELSE SplitStep(f[m], text[m + 1])]
  <2>1. \A i \in 0..m : f[i] = IF i = 0 THEN Start ELSE SplitStep(f[i - 1], text[i])
    BY DEF ScanUpTo
  <2>2. \A i \in 0..(m + 1) : g[i] = IF i <= m THEN f[i] ELSE SplitStep(f[m], text[m + 1])
    OBVIOUS
  <2>3. \A i \in 0..(m + 1) : g[i] = IF i = 0 THEN Start ELSE SplitStep(g[i - 1], text[i])
    <3> SUFFICES ASSUME NEW i \in 0..(m + 1)
                 PROVE  g[i] = IF i = 0 THEN Start ELSE SplitStep(g[i - 1], text[i])
      OBVIOUS
    <3> HIDE DEF g
    <3>1. CASE i = 0
      BY <3>1, <2>1, <2>2
    <3>2. CASE i # 0 /\ i <= m
      <4>1. i - 1 \in 0..(m + 1) /\ i - 1 <= m /\ i \in 0..m
        BY <3>2
      <4>2. g[i] = f[i] /\ g[i - 1] = f[i - 1]
        BY <3>2, <4>1, <2>2
      <4> QED BY <3>2, <4>1, <4>2, <2>1
    <3>3. CASE i = m + 1
      <4>1. i - 1 = m /\ m \in 0..(m + 1) /\ i # 0 /\ ~(i <= m) /\ m <= m
        BY <3>3
      <4>2. g[i - 1] = f[m] /\ g[i] = SplitStep(f[m], text[i])
        BY <3>3, <4>1, <2>2
      <4> QED BY <4>1, <4>2
    <3> QED BY <3>1, <3>2, <3>3
  <2>4. g = [i \in 0..(m + 1) |-> g[i]]
    OBVIOUS
  <2> HIDE DEF g
  <2>5. ScanUpTo(g, m + 1, text)
    BY <2>3, <2>4 DEF ScanUpTo
  <2> QED BY <2>5
<1> HIDE DEF S
<1>3. n \in S
  BY <1>1, <1>2, Induction
<1> QED BY <1>3 DEF S

LEMMA ScanSteps ==
    ASSUME NEW text, IsSeq(text)
    PROVE  /\ Scan(text)[0] = Start
           /\ \A i \in 1..Len(text) : Scan(text)[i] = SplitStep(Scan(text)[i - 1], text[i])
<1>1. PICK n \in Nat : n = Len(text)
  BY IsSeqElim
<1>2. Scan(text) = CHOOSE f : ScanUpTo(f, n, text)
  BY <1>1 DEF Scan, ScanUpTo, Start, St, NoKeys
<1>3. ScanUpTo(Scan(text), n, text)
  BY <1>2, ScanExist
<1>4. PICK f : f = Scan(text)
  OBVIOUS
<1>5. \A i \in 0..n : f[i] = IF i = 0 THEN Start ELSE SplitStep(f[i - 1], text[i])
  BY <1>3, <1>4 DEF ScanUpTo
<1>6. f[0] = Start
  BY <1>5
<1>7. \A i \in 1..n : f[i] = SplitStep(f[i - 1], text[i])
  BY <1>5
<1> QED BY <1>1, <1>4, <1>6, <1>7

\* The state of split_ky behind a text.
Final(text) == Scan(text)[Len(text)]

\* It depends on what was read only.
LEMMA ScanPrefix ==
    ASSUME NEW text, IsSeq(text), NEW a, IsSeq(a), Len(a) <= Len(text), \A i \in 1..Len(a) : text[i] = a[i]
    PROVE  Scan(text)[Len(a)] = Final(a)
<1>1. PICK n \in Nat : n = Len(a) /\ Len(text) \in Nat
  BY IsSeqElim
<1>2. PICK f, g : f = Scan(text) /\ g = Scan(a)
  OBVIOUS
<1>3. f[0] = Start /\ \A i \in 1..n : f[i] = SplitStep(f[i - 1], a[i])
  BY <1>1, <1>2, ScanSteps
<1>4. g[0] = Start /\ \A i \in 1..n : g[i] = SplitStep(g[i - 1], a[i])
  BY <1>1, <1>2, ScanSteps
<1> DEFINE S == {m \in Nat : m <= n => f[m] = g[m]}
<1>5. 0 \in S
  BY <1>3, <1>4
<1>6. \A m \in Nat : m \in S => m + 1 \in S
  <2>1. SUFFICES ASSUME NEW m \in Nat, m + 1 <= n, f[m] = g[m] PROVE f[m + 1] = g[m + 1]
    BY <1>1
  <2>2. m + 1 \in 1..n /\ (m + 1) - 1 = m
    BY <1>1, <2>1
  <2> QED BY <1>3, <1>4, <2>1, <2>2
<1> HIDE DEF S
<1>7. n \in S
  BY <1>5, <1>6, Induction
<1> QED BY <1>1, <1>2, <1>7 DEF S, Final

LEMMA FinalNil ==
    ASSUME NEW s, s = <<>>
    PROVE  Final(s) = Start
BY NilSeq, ScanSteps DEF Final

LEMMA FinalChr ==
    ASSUME NEW a, IsSeq(a), NEW x
    PROVE  Final(a \o Chr(x)) = SplitStep(Final(a), Token(x, 0, <<>>))
<1>1. PICK n \in Nat : n = Len(a)
  BY IsSeqElim
<1>2. PICK y, r, tok : y = Chr(x) /\ r = a \o y /\ tok = Token(x, 0, <<>>)
  OBVIOUS
<1>3. IsSeq(y) /\ Len(y) = 1 /\ y[1] = tok
  BY <1>2, ChrFacts
<1>4. IsSeq(r) /\ Len(r) = n + 1 /\ (\A i \in 1..n : r[i] = a[i]) /\ \A i \in 1..1 : r[n + i] = y[i]
  <2>1. Joins(r, a, y)
    BY <1>2, <1>3, ConcatSeq
  <2> QED BY <1>1, <1>3, <2>1 DEF Joins
<1>5. r[n + 1] = tok /\ n + 1 \in 1..(n + 1) /\ (n + 1) - 1 = n /\ n <= n + 1
  BY <1>3, <1>4
<1>6. Scan(r)[n] = Final(a)
  BY <1>1, <1>4, <1>5, ScanPrefix
<1>7. Scan(r)[n + 1] = SplitStep(Scan(r)[n], tok)
  BY <1>4, <1>5, ScanSteps
<1> QED BY <1>2, <1>4, <1>6, <1>7 DEF Final

LEMMA StepFacts ==
    ASSUME NEW key, NEW value, NEW m, NEW c
    PROVE  /\ c.t = "=" => SplitStep(St("key", key, value, m), c) = St("value", key, value, m)
           /\ c.t # "=" => SplitStep(St("key", key, value, m), c) = St("key", Append(key, c), value, m)
           /\ c.t \in Quotes => /\ SplitStep(St("value", key, value, m), c) = St("string", key, value, m)
                                /\ SplitStep(St("string", key, value, m), c) = St("value", key, value, m)
           /\ c.t = "comma" => SplitStep(St("value", key, value, m), c) = St("key", <<>>, <<>>, SetKey(m, key, value))
           /\ c.t \notin Quotes =>
                 SplitStep(St("string", key, value, m), c) = St("string", key, Append(value, c), m)
           /\ c.t \notin Quotes /\ c.t # "comma" =>
                 SplitStep(St("value", key, value, m), c) = St("value", key, Append(value, c), m)
<1>1. "comma" \notin Quotes /\ "=" \notin Quotes
  BY DEF Quotes
<1>2. PICK k, v, n : k = St("key", key, value, m) /\ v = St("value", key, value, m) /\ n = St("string", key, value, m)
  OBVIOUS
<1>3. /\ k.at = "key" /\ k.key = key /\ k.value = value /\ k.map = m
      /\ v.at = "value" /\ v.key = key /\ v.value = value /\ v.map = m
      /\ n.at = "string" /\ n.key = key /\ n.value = value /\ n.map = m
  BY <1>2 DEF St
<1>4. ASSUME c.t = "=" PROVE SplitStep(k, c) = St("value", key, value, m)
  <2>1. SplitStep(k, c) = [k EXCEPT !.at = "value"]
    BY <1>3, <1>4 DEF SplitStep
  <2> QED BY <1>2, <2>1 DEF St
<1>5. ASSUME c.t # "=" PROVE SplitStep(k, c) = St("key", Append(key, c), value, m)
  <2>1. PICK y : y = Append(key, c)
    OBVIOUS
  <2>2. SplitStep(k, c) = [k EXCEPT !.key = y]
    BY <1>3, <1>5, <2>1 DEF SplitStep
  <2>3. [k EXCEPT !.key = y] = St("key", y, value, m)
    BY <1>2 DEF St
  <2> QED BY <2>1, <2>2, <2>3
<1>6. ASSUME c.t \in Quotes PROVE SplitStep(v, c) = St("string", key, value, m)
  <2>1. v.at # "key" /\ v.at # "string" /\ c.t # "comma"
    BY <1>1, <1>3, <1>6
  <2>2. v.at = "value" /\ c.t \in Quotes
    BY <1>3, <1>6
  <2>3. SplitStep(v, c) = [v EXCEPT !.at = "string"]
    BY ONLY <2>1, <2>2 DEF SplitStep
  <2> QED BY <1>2, <2>3 DEF St
<1>7. ASSUME c.t \in Quotes PROVE SplitStep(n, c) = St("value", key, value, m)
  <2>1. SplitStep(n, c) = [n EXCEPT !.at = "value"]
    BY <1>3, <1>7 DEF SplitStep
  <2> QED BY <1>2, <2>1 DEF St
<1>8. ASSUME c.t = "comma" PROVE SplitStep(v, c) = St("key", <<>>, <<>>, SetKey(m, key, value))
  BY <1>1, <1>3, <1>8 DEF SplitStep, St
<1>9. ASSUME c.t \notin Quotes PROVE SplitStep(n, c) = St("string", key, Append(value, c), m)
  <2>1. PICK y : y = Append(value, c)
    OBVIOUS
  <2>2. SplitStep(n, c) = [n EXCEPT !.value = y]
    BY <1>3, <1>9, <2>1 DEF SplitStep
  <2>3. [n EXCEPT !.value = y] = St("string", key, y, m)
    BY <1>2 DEF St
  <2> QED BY <2>1, <2>2, <2>3
<1>10. ASSUME c.t \notin Quotes, c.t # "comma" PROVE SplitStep(v, c) = St("value", key, Append(value, c), m)
  <2>1. PICK y : y = Append(value, c)
    OBVIOUS
  <2>2. SplitStep(v, c) = [v EXCEPT !.value = y]
    BY <1>3, <1>10, <2>1 DEF SplitStep
  <2>3. [v EXCEPT !.value = y] = St("value", key, y, m)
    BY <1>2 DEF St
  <2> QED BY <2>1, <2>2, <2>3
<1> QED BY <1>2, <1>4, <1>5, <1>6, <1>7, <1>8, <1>9, <1>10

\* The symbols of a value, in quotes or without them.
LEMMA FinalValue ==
    ASSUME NEW a, IsSeq(a), NEW v, IsSeq(v), NEW at \in {"value", "string"}, NEW key, NEW m,
           Final(a) = St(at, key, <<>>, m), ~Holds(v, Quotes), at = "value" => ~Holds(v, {"comma"})
    PROVE  Final(a \o v) = St(at, key, v, m)
<1>1. PICK n \in Nat, l \in Nat : n = Len(a) /\ l = Len(v) /\ DOMAIN v = 1..l
  BY IsSeqElim
<1>2. PICK r : r = a \o v
  OBVIOUS
<1>3. IsSeq(r) /\ Len(r) = n + l /\ (\A i \in 1..n : r[i] = a[i]) /\ \A i \in 1..l : r[n + i] = v[i]
  <2>1. Joins(r, a, v)
    BY <1>2, ConcatSeq
  <2> QED BY <1>1, <2>1 DEF Joins
<1>4. \A i \in 1..l : v[i].t \notin Quotes /\ (at = "value" => v[i].t # "comma")
  BY <1>1 DEF Holds
<1>5. PICK f : f = Scan(r)
  OBVIOUS
<1>6. f[n] = St(at, key, <<>>, m)
  <2>1. n <= n + l
    BY <1>1
  <2>2. Scan(r)[n] = Final(a)
    BY <1>1, <1>3, <2>1, ScanPrefix
  <2> QED BY <1>5, <2>2
<1>7. \A i \in 1..(n + l) : f[i] = SplitStep(f[i - 1], r[i])
  BY <1>3, <1>5, ScanSteps
<1> DEFINE Made(j, q) == f[n + j] = St(at, key, q, m) /\ IsSeq(q) /\ Len(q) = j /\ \A i \in 1..j : q[i] = v[i]
           S == {j \in Nat : j <= l => \E q : Made(j, q)}
<1>8. 0 \in S
  <2>1. PICK q : q = <<>>
    OBVIOUS
  <2>2. IsSeq(q) /\ Len(q) = 0
    BY <2>1, NilSeq
  <2>3. n + 0 = n
    BY <1>1
  <2>4. f[n + 0] = St(at, key, q, m)
    BY <1>6, <2>1, <2>3
  <2>5. Made(0, q)
    BY <2>2, <2>4
  <2> QED BY <2>5
<1>9. \A j \in Nat : j \in S => j + 1 \in S
  <2>0. SUFFICES ASSUME NEW j \in Nat, j + 1 <= l, NEW q, Made(j, q) PROVE \E s : Made(j + 1, s)
    BY <1>1
  <2>1. /\ j + 1 \in 1..l /\ n + (j + 1) \in 1..(n + l) /\ (n + (j + 1)) - 1 = n + j
    BY <1>1, <2>0
  <2>2. PICK x, s : x = v[j + 1] /\ s = Append(q, x)
    OBVIOUS
  <2>3. f[n + (j + 1)] = SplitStep(St(at, key, q, m), x)
    <3>1. r[n + (j + 1)] = x
      BY <1>3, <2>1, <2>2
    <3>2. f[n + (j + 1)] = SplitStep(f[n + j], x)
      BY <1>7, <2>1, <3>1
    <3> QED BY <2>0, <3>2
  <2>4. x.t \notin Quotes /\ (at = "value" => x.t # "comma")
    BY <1>4, <2>1, <2>2
  <2>5. SplitStep(St(at, key, q, m), x) = St(at, key, s, m)
    BY <2>2, <2>4, StepFacts
  <2>6. IsSeq(s) /\ Len(s) = j + 1 /\ s[j + 1] = x /\ \A i \in 1..j : s[i] = q[i]
    BY <2>0, <2>2, AppendSeq
  <2>7. \A i \in 1..(j + 1) : s[i] = v[i]
    BY <2>0, <2>2, <2>6
  <2>8. Made(j + 1, s)
    BY <2>3, <2>5, <2>6, <2>7
  <2> QED BY <2>8
<1> HIDE DEF S
<1>10. l \in S
  BY <1>8, <1>9, Induction
<1>11. PICK q : Made(l, q)
  BY <1>1, <1>10 DEF S
<1>12. q = v
  BY <1>1, <1>11, SameSeq
<1> QED BY <1>2, <1>3, <1>5, <1>11, <1>12 DEF Final

LEMMA FinalName ==
    ASSUME NEW a, IsSeq(a), NEW name, name # "=", NEW m, Final(a) = St("key", <<>>, <<>>, m)
    PROVE  /\ IsSeq((a \o Chr(name)) \o Chr("="))
           /\ Final((a \o Chr(name)) \o Chr("=")) = St("value", Chr(name), <<>>, m)
<1>1. PICK tok, eq, u, w : /\ tok = Token(name, 0, <<>>) /\ eq = Token("=", 0, <<>>)
                           /\ u = a \o Chr(name) /\ w = u \o Chr("=")
  OBVIOUS
<1>2. IsSeq(u) /\ IsSeq(w)
  BY <1>1, ChrFacts, ConcatIs
<1>3. tok.t = name /\ eq.t = "="
  BY <1>1 DEF Token
<1>4. PICK nil : nil = <<>>
  OBVIOUS
<1>41. Append(nil, tok) = Chr(name)
  BY <1>1, <1>4 DEF Chr
<1>5. Final(u) = SplitStep(St("key", nil, nil, m), tok)
  BY <1>1, <1>4, FinalChr
<1>51. SplitStep(St("key", nil, nil, m), tok) = St("key", Append(nil, tok), nil, m)
  BY <1>3, StepFacts
<1>6. Final(u) = St("key", Chr(name), <<>>, m)
  BY <1>4, <1>41, <1>5, <1>51
<1>7. Final(w) = SplitStep(St("key", Chr(name), <<>>, m), eq)
  BY <1>1, <1>2, <1>6, FinalChr
<1>8. Final(w) = St("value", Chr(name), <<>>, m)
  BY <1>3, <1>7, StepFacts
<1> QED BY <1>1, <1>2, <1>8

\* name="value"
LEMMA FinalQuoted ==
    ASSUME NEW a, IsSeq(a), NEW name, name # "=", NEW m, Final(a) = St("key", <<>>, <<>>, m),
           NEW v, IsSeq(v), ~Holds(v, Quotes)
    PROVE  IsSeq(a \o Quoted(name, v)) /\ Final(a \o Quoted(name, v)) = St("value", Chr(name), v, m)
<1>1. PICK k, e, q : k = Chr(name) /\ e = Chr("=") /\ q = Chr("quote")
  OBVIOUS
<1>2. IsSeq(k) /\ IsSeq(e) /\ IsSeq(q)
  BY <1>1, ChrFacts
<1>3. PICK w, x, y, z : w = (a \o k) \o e /\ x = w \o q /\ y = x \o v /\ z = y \o q
  OBVIOUS
<1>4. IsSeq(w) /\ Final(w) = St("value", k, <<>>, m)
  BY <1>1, <1>3, FinalName
<1>5. IsSeq(x) /\ IsSeq(y) /\ IsSeq(z)
  BY <1>2, <1>3, <1>4, ConcatIs
<1>6. PICK tok : tok = Token("quote", 0, <<>>)
  OBVIOUS
<1>7. tok.t \in Quotes
  BY <1>6 DEF Token, Quotes
<1>8. Final(x) = SplitStep(St("value", k, <<>>, m), tok)
  BY <1>1, <1>3, <1>4, <1>6, FinalChr
<1>9. Final(x) = St("string", k, <<>>, m)
  BY <1>7, <1>8, StepFacts
<1>10. Final(y) = St("string", k, v, m)
  BY <1>3, <1>5, <1>9, FinalValue
<1>11. Final(z) = SplitStep(St("string", k, v, m), tok)
  BY <1>1, <1>3, <1>5, <1>6, <1>10, FinalChr
<1>12. Final(z) = St("value", k, v, m)
  BY <1>7, <1>11, StepFacts
<1>13. a \o Quoted(name, v) = z
  <2>1. Quoted(name, v) = ((k \o e) \o q) \o v \o q
    BY <1>1 DEF Quoted
  <2>2. PICK b, c, d : b = k \o e /\ c = b \o q /\ d = c \o v
    OBVIOUS
  <2>3. IsSeq(b) /\ IsSeq(c) /\ IsSeq(d)
    BY <1>2, <2>2, ConcatIs
  <2>4. w = a \o b
    <3>1. (a \o k) \o e = a \o (k \o e)
      BY <1>2, ConcatAssoc
    <3> QED BY ONLY <1>3, <2>2, <3>1
  <2>5. x = a \o c
    <3>1. (a \o b) \o q = a \o (b \o q)
      BY <1>2, <2>3, ConcatAssoc
    <3> QED BY ONLY <1>3, <2>2, <2>4, <3>1
  <2>6. y = a \o d
    <3>1. (a \o c) \o v = a \o (c \o v)
      BY <2>3, ConcatAssoc
    <3> QED BY ONLY <1>3, <2>2, <2>5, <3>1
  <2>7. z = a \o (d \o q)
    <3>1. (a \o d) \o q = a \o (d \o q)
      BY <1>2, <2>3, ConcatAssoc
    <3> QED BY ONLY <1>3, <2>6, <3>1
  <2> QED BY <2>1, <2>2, <2>7
<1> QED BY <1>1, <1>5, <1>12, <1>13

\* name=value
LEMMA FinalPlain ==
    ASSUME NEW a, IsSeq(a), NEW name, name # "=", NEW m, Final(a) = St("key", <<>>, <<>>, m),
           NEW v, IsSeq(v), ~Holds(v, Quotes), ~Holds(v, {"comma"})
    PROVE  IsSeq(a \o Plain(name, v)) /\ Final(a \o Plain(name, v)) = St("value", Chr(name), v, m)
<1>1. PICK k, e : k = Chr(name) /\ e = Chr("=")
  OBVIOUS
<1>2. IsSeq(k) /\ IsSeq(e)
  BY <1>1, ChrFacts
<1>3. PICK w, x : w = (a \o k) \o e /\ x = w \o v
  OBVIOUS
<1>4. IsSeq(w) /\ Final(w) = St("value", k, <<>>, m)
  BY <1>1, <1>3, FinalName
<1>5. IsSeq(x) /\ Final(x) = St("value", k, v, m)
  BY <1>3, <1>4, ConcatIs, FinalValue
<1>6. a \o Plain(name, v) = x
  <2>1. PICK b : b = k \o e
    OBVIOUS
  <2>2. Plain(name, v) = b \o v
    BY <1>1, <2>1 DEF Plain
  <2>3. IsSeq(b)
    BY <1>2, <2>1, ConcatIs
  <2>4. w = a \o b
    BY <1>2, <1>3, <2>1, ConcatAssoc
  <2>5. x = a \o (b \o v)
    BY <1>3, <2>3, <2>4, ConcatAssoc
  <2> QED BY <2>2, <2>5
<1> QED BY <1>1, <1>5, <1>6

\* The comma behind a field.
LEMMA FinalComma ==
    ASSUME NEW a, IsSeq(a), NEW key, NEW v, NEW m, Final(a) = St("value", key, v, m)
    PROVE  /\ IsSeq(a \o Chr("comma"))
           /\ Final(a \o Chr("comma")) = St("key", <<>>, <<>>, SetKey(m, key, v))
<1>1. PICK tok : tok = Token("comma", 0, <<>>)
  OBVIOUS
<1>2. tok.t = "comma"
  BY <1>1 DEF Token
<1>3. Final(a \o Chr("comma")) = SplitStep(St("value", key, v, m), tok)
  BY <1>1, FinalChr
<1>4. IsSeq(a \o Chr("comma"))
  BY ChrFacts, ConcatIs
<1> QED BY <1>2, <1>3, <1>4, StepFacts

\* The list text was read to its last comma, and m is what it gave.
Reads(text, m) == IsSeq(text) /\ Final(text) = St("key", <<>>, <<>>, m)

LEMMA ReadsNil == Reads(<<>>, NoKeys)
BY NilSeq, FinalNil DEF Reads, Start

LEMMA ReadsQuoted ==
    ASSUME NEW a, NEW m, Reads(a, m), NEW name, name # "=", NEW v, Clean(v)
    PROVE  /\ IsSeq(a \o Quoted(name, v)) /\ Final(a \o Quoted(name, v)) = St("value", Chr(name), v, m)
           /\ Reads((a \o Quoted(name, v)) \o Chr("comma"), SetKey(m, Chr(name), v))
<1>1. PICK b : b = a \o Quoted(name, v)
  OBVIOUS
<1>2. IsSeq(b) /\ Final(b) = St("value", Chr(name), v, m)
  BY <1>1, FinalQuoted DEF Reads, Clean
<1>3. Reads(b \o Chr("comma"), SetKey(m, Chr(name), v))
  BY <1>2, FinalComma DEF Reads
<1> QED BY <1>1, <1>2, <1>3

LEMMA ReadsPlain ==
    ASSUME NEW a, NEW m, Reads(a, m), NEW name, name # "=", NEW v, Clean(v), ~Holds(v, {"comma"})
    PROVE  Reads((a \o Plain(name, v)) \o Chr("comma"), SetKey(m, Chr(name), v))
<1>1. PICK b : b = a \o Plain(name, v)
  OBVIOUS
<1>2. IsSeq(b) /\ Final(b) = St("value", Chr(name), v, m)
  BY <1>1, FinalPlain DEF Reads, Clean
<1>3. Reads(b \o Chr("comma"), SetKey(m, Chr(name), v))
  BY <1>2, FinalComma DEF Reads
<1> QED BY <1>1, <1>3

LEMMA ChrInjective ==
    ASSUME NEW x, NEW y, Chr(x) = Chr(y)
    PROVE  x = y
<1>1. Chr(x)[1].t = x /\ Chr(y)[1].t = y
  BY ChrFacts
<1> QED BY <1>1

LEMMA TrimChr ==
    ASSUME NEW x, x # "blank"
    PROVE  Trim(Chr(x)) = Chr(x)
<1>1. PICK s : s = Chr(x)
  OBVIOUS
<1>2. IsSeq(s) /\ Len(s) = 1 /\ s # <<>> /\ s[1].t = x
  BY <1>1, ChrFacts
<1> QED BY <1>1, <1>2, TrimWhole

\* A key that was set is found, and the others are as they were.
LEMMA ValueSet ==
    ASSUME NEW m, NEW a, a # "blank", NEW v, Clean(v)
    PROVE  /\ Value(SetKey(m, Chr(a), v), a) = v
           /\ \A n : n # a => Value(SetKey(m, Chr(a), v), n) = Value(m, n)
<1>1. PICK k, w : k = Chr(a) /\ w = SetKey(m, k, v)
  OBVIOUS
<1>2. Trim(k) = k /\ Trim(v) = v
  BY <1>1, TrimChr DEF Clean
<1>3. w = [x \in DOMAIN m \cup {k} |-> IF x = k THEN v ELSE m[x]]
  BY <1>1, <1>2 DEF SetKey
<1>4. k \in DOMAIN w /\ w[k] = v
  BY <1>3
<1>5. Value(w, a) = v
  BY <1>1, <1>4 DEF Value
<1>6. ASSUME NEW n, n # a PROVE Value(w, n) = Value(m, n)
  <2>1. PICK y : y = Chr(n)
    OBVIOUS
  <2>2. y # k
    BY <1>1, <1>6, <2>1, ChrInjective
  <2>3. (y \in DOMAIN w <=> y \in DOMAIN m) /\ (y \in DOMAIN m => w[y] = m[y])
    BY <1>3, <2>2
  <2> QED BY <2>1, <2>3 DEF Value
<1> QED BY <1>1, <1>5, <1>6

LEMMA ValueNone ==
    ASSUME NEW n
    PROVE  Value(NoKeys, n) = <<>>
BY DEF Value, NoKeys

\* split_ky at the end of the list.
LEMMA SplitKyEnds ==
    ASSUME NEW text, NEW m
    PROVE  /\ Reads(text, m) => SplitKy(text) = m
           /\ \A name, v : Final(text) = St("value", Chr(name), v, m) => SplitKy(text) = SetKey(m, Chr(name), v)
<1>1. PICK end : end = Final(text)
  OBVIOUS
<1>2. SplitKy(text) = IF end.key = <<>> THEN end.map ELSE SetKey(end.map, end.key, end.value)
  BY <1>1 DEF SplitKy, Final
<1>3. ASSUME Reads(text, m) PROVE SplitKy(text) = m
  <2>1. end.key = <<>> /\ end.map = m
    BY <1>1, <1>3 DEF Reads, St
  <2> QED BY <1>2, <2>1
<1>4. ASSUME NEW name, NEW v, Final(text) = St("value", Chr(name), v, m) PROVE SplitKy(text) = SetKey(m, Chr(name), v)
  <2>1. PICK k : k = Chr(name)
    OBVIOUS
  <2>2. k # <<>>
    BY <2>1, ChrFacts
  <2>3. end.key = k /\ end.map = m /\ end.value = v
    BY <1>1, <1>4, <2>1 DEF St
  <2> QED BY <1>2, <2>1, <2>2, <2>3
<1> QED BY <1>3, <1>4

\* "Scheme data"
LEMMA SchemeFacts ==
    ASSUME NEW x, NEW data, IsSeq(data), data # <<>>
    PROVE  Scheme((Chr(x) \o Chr("blank")) \o data) = x /\ Data((Chr(x) \o Chr("blank")) \o data) = data
<1>1. PICK n \in Nat : n = Len(data) /\ n >= 1
  BY IsSeqElim
<1>2. PICK p, q, r, s : p = Chr(x) /\ q = Chr("blank") /\ r = p \o q /\ s = r \o data
  OBVIOUS
<1>3. IsSeq(p) /\ IsSeq(q) /\ Len(p) = 1 /\ Len(q) = 1 /\ p[1].t = x /\ q[1].t = "blank"
  BY <1>2, ChrFacts
<1>4. IsSeq(r) /\ Len(r) = 2 /\ r[1] = p[1] /\ r[2] = q[1]
  <2>1. Joins(r, p, q)
    BY <1>2, <1>3, ConcatSeq
  <2>2. 1 \in 1..1 /\ 1 + 1 = 2
    OBVIOUS
  <2> QED BY <1>3, <2>1, <2>2 DEF Joins
<1>5. IsSeq(s) /\ Len(s) = 2 + n /\ s[1] = r[1] /\ s[2] = r[2] /\ \A i \in 1..n : s[2 + i] = data[i]
  <2>1. Joins(s, r, data)
    BY <1>2, <1>4, ConcatSeq
  <2>2. 1 \in 1..2 /\ 2 \in 1..2
    OBVIOUS
  <2> QED BY <1>1, <1>4, <2>1, <2>2 DEF Joins
<1>6. Scheme(s) = x
  BY <1>1, <1>3, <1>4, <1>5 DEF Scheme
<1>7. PICK u \in Nat, w \in Nat : u = 2 /\ w = 2 + n
  BY <1>1
<1>71. PICK d : d = SubSeq(s, u + 1, w)
  OBVIOUS
<1>8. IsSeq(d) /\ Len(d) = n /\ \A i \in 1..n : d[i] = s[2 + i]
  <2>1. u <= w /\ w <= Len(s) /\ w - u = n
    BY <1>5, <1>7
  <2>2. IsSeq(d) /\ Len(d) = w - u
    BY <1>5, <1>71, <2>1, SubSeqFacts
  <2>3. \A i \in 1..(w - u) : d[i] = s[u + i]
    BY <1>5, <1>71, <2>1, SubSeqFacts
  <2> QED BY <1>7, <2>1, <2>2, <2>3
<1>9. d = data
  BY <1>1, <1>5, <1>8, SameSeq
<1>10. Data(s) = d
  <2>1. u + 1 = 3 /\ w = Len(s)
    BY <1>5, <1>7
  <2> QED BY <1>71, <2>1 DEF Data
<1> QED BY <1>2, <1>6, <1>9, <1>10

LEMMA NilConcat ==
    ASSUME NEW s, IsSeq(s)
    PROVE  <<>> \o s = s
BY IsSeqElim

LEMMA QuotedSeq ==
    ASSUME NEW name, NEW v, IsSeq(v)
    PROVE  IsSeq(Quoted(name, v)) /\ Quoted(name, v) # <<>>
<1>1. PICK k, e, q : k = Chr(name) /\ e = Chr("=") /\ q = Chr("quote")
  OBVIOUS
<1>2. IsSeq(k) /\ IsSeq(e) /\ IsSeq(q) /\ Len(q) = 1
  BY <1>1, ChrFacts
<1>3. PICK b, c, d, z : b = k \o e /\ c = b \o q /\ d = c \o v /\ z = d \o q
  OBVIOUS
<1>4. IsSeq(b)
  BY <1>2, <1>3, ConcatIs
<1>5. IsSeq(c)
  BY <1>2, <1>3, <1>4, ConcatIs
<1>6. IsSeq(d)
  BY <1>2, <1>3, <1>5, ConcatIs
<1>7. Joins(z, d, q)
  BY <1>2, <1>3, <1>6, ConcatSeq
<1>8. IsSeq(z) /\ Len(z) >= 1
  BY <1>2, <1>7 DEF Joins
<1>9. z # <<>>
  BY <1>8, NilSeq
<1> QED BY <1>1, <1>3, <1>8, <1>9 DEF Quoted

\* The first field of a list.
LEMMA ReadsFirst ==
    ASSUME NEW name, name # "=", NEW v, Clean(v)
    PROVE  /\ IsSeq(Quoted(name, v)) /\ Quoted(name, v) # <<>>
           /\ Final(Quoted(name, v)) = St("value", Chr(name), v, NoKeys)
           /\ Reads(Quoted(name, v) \o Chr("comma"), SetKey(NoKeys, Chr(name), v))
<1>1. PICK z : z = Quoted(name, v)
  OBVIOUS
<1>2. IsSeq(z) /\ z # <<>>
  BY <1>1, QuotedSeq DEF Clean
<1>3. <<>> \o z = z
  BY <1>2, NilConcat
<1>4. PICK nil : nil = <<>>
  OBVIOUS
<1>5. Reads(nil, NoKeys)
  BY <1>4, ReadsNil
<1>6. Final(nil \o z) = St("value", Chr(name), v, NoKeys)
  BY <1>1, <1>5, ReadsQuoted
<1>7. Reads((nil \o z) \o Chr("comma"), SetKey(NoKeys, Chr(name), v))
  BY <1>1, <1>5, ReadsQuoted
<1>8. nil \o z = z
  BY <1>3, <1>4
<1> QED BY <1>1, <1>2, <1>6, <1>7, <1>8

LEMMA ConcatSolid ==
    ASSUME NEW s, NEW t, IsSeq(s), IsSeq(t), s # <<>> \/ t # <<>>
    PROVE  s \o t # <<>>
<1>1. PICK r : r = s \o t
  OBVIOUS
<1>2. Joins(r, s, t)
  BY <1>1, ConcatSeq
<1>3. Len(s) \in Nat /\ Len(t) \in Nat /\ (Len(s) > 0 \/ Len(t) > 0)
  BY IsSeqElim
<1>4. Len(r) > 0
  BY <1>2, <1>3 DEF Joins
<1> QED BY <1>1, <1>4, NilSeq

----------------------------------------------------------------------------
(* The heads of the two authentication schemes                             *)

LEMMA ChallengeRead ==
    ASSUME NEW c, IsChallenge(c)
    PROVE  LET got == ReadChallenge(ChallengeText(c))
           IN  got.method = c.method /\ got.realm = c.realm /\ (c.method = "Digest" => got = c)
<1>1. /\ Clean(c.realm) /\ Clean(c.qop) /\ Clean(c.nonce) /\ Clean(c.opaque)
      /\ c.method \in {"Basic", "Digest"}
      /\ c = [method |-> c.method, realm |-> c.realm, qop |-> c.qop, nonce |-> c.nonce, opaque |-> c.opaque]
  BY DEF IsChallenge
<1>2. PICK text, got : text = ChallengeText(c) /\ got = ReadChallenge(text)
  OBVIOUS
<1>3. CASE c.method = "Basic"
  <2>1. PICK data : data = Quoted("realm", c.realm)
    OBVIOUS
  <2>2. IsSeq(data) /\ data # <<>> /\ Final(data) = St("value", Chr("realm"), c.realm, NoKeys)
    BY <1>1, <2>1, ReadsFirst
  <2>3. text = (Chr("Basic") \o Chr("blank")) \o data
    BY <1>2, <1>3, <2>1 DEF ChallengeText
  <2>4. Scheme(text) = "Basic" /\ Data(text) = data
    BY <2>2, <2>3, SchemeFacts
  <2>5. PICK m : m = SplitKy(data)
    OBVIOUS
  <2>6. m = SetKey(NoKeys, Chr("realm"), c.realm)
    BY <2>2, <2>5, SplitKyEnds
  <2>7. Value(m, "realm") = c.realm
    BY <1>1, <2>6, ValueSet
  <2>8. got.method = "Basic" /\ got.realm = Value(m, "realm")
    BY <1>2, <2>4, <2>5 DEF ReadChallenge
  <2> QED BY <1>2, <1>3, <2>7, <2>8
<1>4. CASE c.method = "Digest"
  <2>1. PICK t1, t2, t3, t4, t5, t6, t7 :
           /\ t1 = Quoted("realm", c.realm) /\ t2 = t1 \o Chr("comma")
           /\ t3 = t2 \o Quoted("qop", c.qop) /\ t4 = t3 \o Chr("comma")
           /\ t5 = t4 \o Quoted("nonce", c.nonce) /\ t6 = t5 \o Chr("comma")
           /\ t7 = t6 \o Quoted("opaque", c.opaque)
    OBVIOUS
  <2>2. PICK m1, m2, m3, m4 :
           /\ m1 = SetKey(NoKeys, Chr("realm"), c.realm) /\ m2 = SetKey(m1, Chr("qop"), c.qop)
           /\ m3 = SetKey(m2, Chr("nonce"), c.nonce) /\ m4 = SetKey(m3, Chr("opaque"), c.opaque)
    OBVIOUS
  <2>3. Reads(t2, m1)
    BY <1>1, <2>1, <2>2, ReadsFirst
  <2>4. Reads(t4, m2)
    BY <1>1, <2>1, <2>2, <2>3, ReadsQuoted
  <2>5. Reads(t6, m3)
    BY <1>1, <2>1, <2>2, <2>4, ReadsQuoted
  <2>6. IsSeq(t7) /\ Final(t7) = St("value", Chr("opaque"), c.opaque, m3)
    <3>1. PICK o : o = c.opaque
      OBVIOUS
    <3>2. t7 = t6 \o Quoted("opaque", o) /\ Clean(o)
      BY <1>1, <2>1, <3>1
    <3>3. IsSeq(t6 \o Quoted("opaque", o)) /\ Final(t6 \o Quoted("opaque", o)) = St("value", Chr("opaque"), o, m3)
      BY <2>5, <3>2, ReadsQuoted
    <3> QED BY ONLY <3>1, <3>2, <3>3
  <2>7. t7 # <<>>
    <3>1. IsSeq(c.opaque)
      BY <1>1 DEF Clean
    <3>2. IsSeq(Quoted("opaque", c.opaque)) /\ Quoted("opaque", c.opaque) # <<>>
      BY <3>1, QuotedSeq
    <3> QED BY <2>1, <2>5, <3>2, ConcatSolid DEF Reads
  <2>8. text = (Chr("Digest") \o Chr("blank")) \o t7
    BY <1>2, <1>4, <2>1 DEF ChallengeText
  <2>9. Scheme(text) = "Digest" /\ Data(text) = t7
    BY <2>6, <2>7, <2>8, SchemeFacts
  <2>10. SplitKy(t7) = m4
    <3>1. SplitKy(t7) = SetKey(m3, Chr("opaque"), c.opaque)
      BY <2>6, SplitKyEnds
    <3> QED BY ONLY <2>2, <3>1
  <2>11. /\ Value(m4, "opaque") = c.opaque /\ Value(m4, "nonce") = Value(m3, "nonce")
         /\ Value(m4, "qop") = Value(m3, "qop") /\ Value(m4, "realm") = Value(m3, "realm")
    BY <1>1, <2>2, ValueSet
  <2>12. /\ Value(m3, "nonce") = c.nonce
         /\ Value(m3, "qop") = Value(m2, "qop") /\ Value(m3, "realm") = Value(m2, "realm")
    BY <1>1, <2>2, ValueSet
  <2>13. Value(m2, "qop") = c.qop /\ Value(m2, "realm") = Value(m1, "realm") /\ Value(m1, "realm") = c.realm
    BY <1>1, <2>2, ValueSet
  <2>14. got = [method |-> "Digest", realm |-> Value(m4, "realm"), qop |-> Value(m4, "qop"),
                nonce |-> Value(m4, "nonce"), opaque |-> Value(m4, "opaque")]
    BY <1>2, <2>9, <2>10 DEF ReadChallenge
  <2>15. got = c
    BY <1>1, <1>4, <2>11, <2>12, <2>13, <2>14
  <2> QED BY <1>2, <1>4, <2>15
<1> QED BY <1>1, <1>3, <1>4

LEMMA HeadInvChallenge ==
    ASSUME HeadInv
    PROVE  ChallengeReadBack
<1> SUFFICES ASSUME NEW i \in DOMAIN put["WWW-Authenticate"]
             PROVE  LET c == put["WWW-Authenticate"][i]
                        got == ReadChallenge(head["WWW-Authenticate"][1])
                    IN  /\ got.method = c.method /\ got.realm = c.realm
                        /\ c.method = "Digest" => got = c
  BY DEF ChallengeReadBack
<1>1. "WWW-Authenticate" \in Single
  BY DEF Single, Managed
<1>2. PICK c : c = put["WWW-Authenticate"][i]
  OBVIOUS
<1>3. IsArg("WWW-Authenticate", c) /\ head["WWW-Authenticate"][1] = LineOf("WWW-Authenticate", c)
  BY <1>1, <1>2, SingleLine
<1>4. IsChallenge(c) /\ LineOf("WWW-Authenticate", c) = ChallengeText(c)
  BY <1>3 DEF IsArg, LineOf
<1> QED BY <1>2, <1>3, <1>4, ChallengeRead

\* For every realm, qop, nonce and opaque without quotes and without blanks at
\* the ends: split_ky gives a server's challenge back as it was set.
THEOREM HeadChallengeReadBack == Spec => []ChallengeReadBack
BY HeadInvAlways, HeadInvChallenge, PTL

LEMMA JoinFacts ==
    ASSUME NEW a, NEW b, IsSeq(a), IsSeq(b)
    PROVE  /\ IsSeq(Join(a, b)) /\ Join(a, b) # <<>> /\ Len(Join(a, b)) = Len(a) + 1 + Len(b)
           /\ \A i \in 1..Len(a) : Join(a, b)[i] = a[i]
           /\ \A i \in 1..Len(b) : Join(a, b)[Len(a) + 1 + i] = b[i]
<1>1. PICK n \in Nat, m \in Nat : n = Len(a) /\ m = Len(b)
  BY IsSeqElim
<1>2. PICK x, r, s : x = Chr(":") /\ r = a \o x /\ s = r \o b
  OBVIOUS
<1>3. IsSeq(x) /\ Len(x) = 1
  BY <1>2, ChrFacts
<1>4. IsSeq(r) /\ Len(r) = n + 1 /\ \A i \in 1..n : r[i] = a[i]
  <2>1. Joins(r, a, x)
    BY <1>2, <1>3, ConcatSeq
  <2> QED BY <1>1, <1>3, <2>1 DEF Joins
<1>5. /\ IsSeq(s) /\ Len(s) = (n + 1) + m /\ \A i \in 1..(n + 1) : s[i] = r[i]
      /\ \A i \in 1..m : s[(n + 1) + i] = b[i]
  <2>1. Joins(s, r, b)
    BY <1>2, <1>4, ConcatSeq
  <2> QED BY <1>1, <1>4, <2>1 DEF Joins
<1>6. \A i \in 1..n : s[i] = a[i]
  BY <1>4, <1>5
<1>7. s # <<>>
  BY <1>5, NilSeq
<1>8. Join(a, b) = s
  BY <1>2 DEF Join
<1> QED BY <1>1, <1>5, <1>6, <1>7, <1>8

\* Two joined texts are equal part by part if they are cut at the same place.
LEMMA JoinCancel ==
    ASSUME NEW a, NEW b, NEW c, NEW d, IsSeq(a), IsSeq(b), IsSeq(c), IsSeq(d),
           Join(a, b) = Join(c, d), Len(a) = Len(c) \/ Len(b) = Len(d)
    PROVE  a = c /\ b = d
<1>1. PICK s : s = Join(a, b) /\ s = Join(c, d)
  OBVIOUS
<1>2. PICK n \in Nat, m \in Nat : n = Len(a) /\ m = Len(b)
  BY IsSeqElim
<1>3. PICK k \in Nat, l \in Nat : k = Len(c) /\ l = Len(d)
  BY IsSeqElim
<1>4. Len(s) = n + 1 + m /\ (\A i \in 1..n : s[i] = a[i]) /\ \A i \in 1..m : s[n + 1 + i] = b[i]
  BY <1>1, <1>2, JoinFacts
<1>5. Len(s) = k + 1 + l /\ (\A i \in 1..k : s[i] = c[i]) /\ \A i \in 1..l : s[k + 1 + i] = d[i]
  BY <1>1, <1>3, JoinFacts
<1>6. n = k /\ m = l
  BY <1>2, <1>3, <1>4, <1>5
<1>7. a = c
  <2>1. \A i \in 1..Len(a) : a[i] = c[i]
    BY <1>2, <1>4, <1>5, <1>6
  <2> QED BY <1>2, <1>3, <1>6, <2>1, SameSeq
<1>8. b = d
  <2>1. \A i \in 1..Len(b) : b[i] = d[i]
    BY <1>2, <1>4, <1>5, <1>6
  <2> QED BY <1>2, <1>3, <1>6, <2>1, SameSeq
<1> QED BY <1>7, <1>8

LEMMA Md5Facts ==
    ASSUME NEW x, x # <<>>
    PROVE  /\ IsSeq(Md5(x)) /\ Len(Md5(x)) = 1 /\ Md5(x)[1].t = "md5" /\ Md5(x)[1].of = x
           /\ Clean(Md5(x))
<1>1. PICK tok, s : tok = Token("md5", 0, x) /\ s = <<tok>>
  OBVIOUS
<1>2. Md5(x) = s
  BY <1>1 DEF Md5
<1>3. tok.t = "md5" /\ tok.of = x
  BY <1>1 DEF Token
<1>4. IsSeq(s) /\ Len(s) = 1 /\ s[1] = tok /\ DOMAIN s = 1..1
  BY <1>1, OneSeq
<1>5. s # <<>>
  BY <1>4, NilSeq
<1>6. Trim(s) = s
  BY <1>3, <1>4, <1>5, TrimWhole
<1>7. ~Holds(s, Quotes)
  BY <1>3, <1>4 DEF Holds, Quotes
<1> QED BY <1>2, <1>3, <1>4, <1>6, <1>7 DEF Clean

LEMMA Md5Injective ==
    ASSUME NEW x, x # <<>>, NEW y, y # <<>>, Md5(x) = Md5(y)
    PROVE  x = y
<1>1. Md5(x)[1].of = x /\ Md5(y)[1].of = y
  BY Md5Facts
<1> QED BY <1>1

LEMMA Base64Facts ==
    ASSUME NEW x, x # <<>>
    PROVE  IsSeq(Base64(x)) /\ Base64(x) # <<>> /\ Unbase64(Base64(x)) = x
<1>1. PICK tok, s : tok = Token("b64", 0, x) /\ s = <<tok>>
  OBVIOUS
<1>2. Base64(x) = s
  BY <1>1 DEF Base64
<1>3. tok.t = "b64" /\ tok.of = x
  BY <1>1 DEF Token
<1>4. IsSeq(s) /\ Len(s) = 1 /\ s[1] = tok
  BY <1>1, OneSeq
<1>5. s # <<>>
  BY <1>4, NilSeq
<1>6. Head(s) = tok
  BY <1>1
<1> QED BY <1>2, <1>3, <1>4, <1>5, <1>6 DEF Unbase64

\* The response of RFC 2617 with the parts that are the same on both sides.
Response(p, password, q, method, uri) == Md5(Join(Md5(Join(p, password)), Join(q, Md5(Join(method, uri)))))

LEMMA ResponseExact ==
    ASSUME NEW p, NEW q, NEW uri, IsSeq(p), IsSeq(q), IsSeq(uri),
           NEW u, NEW v, IsSeq(u), IsSeq(v), NEW x, NEW y, IsSeq(x), IsSeq(y),
           Response(p, u, q, x, uri) = Response(p, v, q, y, uri)
    PROVE  u = v /\ x = y
<1>1. PICK pu, pv, xu, yu : pu = Join(p, u) /\ pv = Join(p, v) /\ xu = Join(x, uri) /\ yu = Join(y, uri)
  OBVIOUS
<1>2. pu # <<>> /\ pv # <<>> /\ xu # <<>> /\ yu # <<>>
  BY <1>1, JoinFacts
<1>3. PICK a, b, c, d : a = Md5(pu) /\ c = Md5(pv) /\ b = Md5(xu) /\ d = Md5(yu)
  OBVIOUS
<1>4. /\ IsSeq(a) /\ IsSeq(b) /\ IsSeq(c) /\ IsSeq(d)
      /\ Len(a) = 1 /\ Len(b) = 1 /\ Len(c) = 1 /\ Len(d) = 1
  BY <1>2, <1>3, Md5Facts
<1>5. PICK e, f : e = Join(q, b) /\ f = Join(q, d)
  OBVIOUS
<1>6. IsSeq(e) /\ IsSeq(f)
  BY <1>4, <1>5, JoinFacts
<1>7. PICK g, h : g = Join(a, e) /\ h = Join(c, f)
  OBVIOUS
<1>8. g # <<>> /\ h # <<>>
  BY <1>4, <1>6, <1>7, JoinFacts
<1>9. Md5(g) = Md5(h)
  BY <1>1, <1>3, <1>5, <1>7 DEF Response
<1>10. g = h
  BY <1>8, <1>9, Md5Injective
<1>11. a = c /\ e = f
  <2>1. Join(a, e) = Join(c, f) /\ Len(a) = Len(c)
    BY <1>4, <1>7, <1>10
  <2>2. a = c
    BY <1>4, <1>6, <2>1, JoinCancel
  <2>3. e = f
    BY <1>4, <1>6, <2>1, JoinCancel
  <2> QED BY <2>2, <2>3
<1>12. b = d
  <2>1. Join(q, b) = Join(q, d) /\ Len(q) = Len(q)
    BY <1>5, <1>11
  <2> QED BY <1>4, <2>1, JoinCancel
<1>13. pu = pv /\ xu = yu
  BY <1>2, <1>3, <1>11, <1>12, Md5Injective
<1>14. u = v
  <2>1. Join(p, u) = Join(p, v) /\ Len(p) = Len(p)
    BY <1>1, <1>13
  <2> QED BY <2>1, JoinCancel
<1>15. x = y
  <2>1. Join(x, uri) = Join(y, uri) /\ Len(uri) = Len(uri)
    BY <1>1, <1>13
  <2> QED BY <2>1, JoinCancel
<1> QED BY <1>14, <1>15

LEMMA CredentialsFacts ==
    ASSUME NEW method, NEW f, NEW u, NEW p
    PROVE  /\ Credentials(method, f, u, p).method = method
           /\ Credentials(method, f, u, p).username = u /\ Credentials(method, f, u, p).password = p
           /\ \A n \in Fields : Credentials(method, f, u, p)[n] = f[n]
           /\ \A q : [Credentials(method, f, u, p) EXCEPT !.password = q] = Credentials(method, f, u, q)
<1>1. \A n \in Fields : n # "method" /\ n # "username" /\ n # "password"
  BY DEF Fields
<1>2. PICK r : r = Credentials(method, f, u, p)
  OBVIOUS
<1>3. r = [n \in Fields \cup {"method", "username", "password"} |->
             CASE n = "method" -> method [] n = "username" -> u [] n = "password" -> p [] OTHER -> f[n]]
  BY <1>2 DEF Credentials
<1>4. r["method"] = method /\ r["username"] = u /\ r["password"] = p
  BY <1>3
<1>5. \A n \in Fields : r[n] = f[n]
  BY <1>1, <1>3
<1>6. ASSUME NEW q
      PROVE  [r EXCEPT !.password = q] = Credentials(method, f, u, q)
  BY <1>3 DEF Credentials
<1> QED BY <1>2, <1>4, <1>5, <1>6

\* All fields of a Digest head are read back.
LEMMA DigestRead ==
    ASSUME NEW a, IsCredentials(a), a.method = "Digest", NEW method, IsSeq(method),
           NEW text, text = AuthText(a, method)
    PROVE  /\ Scheme(text) = "Digest" /\ Value(SplitKy(Data(text)), "username") = a.username
           /\ Value(SplitKy(Data(text)), "realm") = a.realm /\ Value(SplitKy(Data(text)), "nonce") = a.nonce
           /\ Value(SplitKy(Data(text)), "uri") = a.uri /\ Value(SplitKy(Data(text)), "qop") = a.qop
           /\ Value(SplitKy(Data(text)), "nc") = a.nc /\ Value(SplitKy(Data(text)), "cnonce") = a.cnonce
           /\ Value(SplitKy(Data(text)), "response") = AuthInfo(a, method)
<1>1. /\ Clean(a.username) /\ Clean(a.realm) /\ Clean(a.nonce) /\ Clean(a.uri)
      /\ Clean(a.qop) /\ Clean(a.nc) /\ Clean(a.cnonce) /\ Clean(a.opaque)
      /\ ~Holds(a.qop, {"comma"}) /\ ~Holds(a.nc, {"comma"}) /\ IsSeq(a.password)
  BY DEF IsCredentials
<1>2. PICK info : info = AuthInfo(a, method)
  OBVIOUS
<1>3. Clean(info)
  <2>1. PICK p, q : p = Md5(Join(Join(a.username, a.realm), a.password)) /\
                    q = Join(Join(Join(Join(a.nonce, a.nc), a.cnonce), a.qop), Md5(Join(method, a.uri)))
    OBVIOUS
  <2>2. IsSeq(p)
    <3>1. IsSeq(a.username) /\ IsSeq(a.realm)
      BY <1>1 DEF Clean
    <3>2. IsSeq(Join(a.username, a.realm))
      BY <3>1, JoinFacts
    <3>3. Join(Join(a.username, a.realm), a.password) # <<>>
      BY <1>1, <3>2, JoinFacts
    <3> QED BY <2>1, <3>3, Md5Facts
  <2>3. IsSeq(q)
    <3>1. IsSeq(a.nonce) /\ IsSeq(a.nc) /\ IsSeq(a.cnonce) /\ IsSeq(a.qop) /\ IsSeq(a.uri)
      BY <1>1 DEF Clean
    <3>2. PICK j : j = Join(Join(Join(a.nonce, a.nc), a.cnonce), a.qop)
      OBVIOUS
    <3>3. IsSeq(Join(a.nonce, a.nc))
      BY <3>1, JoinFacts
    <3>4. IsSeq(Join(Join(a.nonce, a.nc), a.cnonce))
      BY <3>1, <3>3, JoinFacts
    <3>5. IsSeq(j)
      BY <3>1, <3>2, <3>4, JoinFacts
    <3>6. Join(method, a.uri) # <<>>
      BY <3>1, JoinFacts
    <3>7. IsSeq(Md5(Join(method, a.uri)))
      BY <3>6, Md5Facts
    <3>8. IsSeq(Join(j, Md5(Join(method, a.uri))))
      BY <3>5, <3>7, JoinFacts
    <3> QED BY <2>1, <3>2, <3>8
  <2>4. Join(p, q) # <<>>
    BY <2>2, <2>3, JoinFacts
  <2>5. info = Md5(Join(p, q))
    BY <1>2, <2>1 DEF AuthInfo
  <2> QED BY <2>4, <2>5, Md5Facts
<1>4. PICK comma : comma = Chr("comma")
  OBVIOUS
<1>5. PICK t1, t2, t3, t4, t5, t6, t7, t8, t9 :
         /\ t1 = Quoted("username", a.username) \o comma
         /\ t2 = (t1 \o Quoted("realm", a.realm)) \o comma
         /\ t3 = (t2 \o Quoted("nonce", a.nonce)) \o comma
         /\ t4 = (t3 \o Quoted("uri", a.uri)) \o comma
         /\ t5 = (t4 \o Plain("qop", a.qop)) \o comma
         /\ t6 = (t5 \o Plain("nc", a.nc)) \o comma
         /\ t7 = (t6 \o Quoted("cnonce", a.cnonce)) \o comma
         /\ t8 = (t7 \o Quoted("response", info)) \o comma
         /\ t9 = (t8 \o Quoted("opaque", a.opaque)) \o comma
  OBVIOUS
<1>6. PICK m1, m2, m3, m4, m5, m6, m7, m8, m9 :
         /\ m1 = SetKey(NoKeys, Chr("username"), a.username)
         /\ m2 = SetKey(m1, Chr("realm"), a.realm)
         /\ m3 = SetKey(m2, Chr("nonce"), a.nonce)
         /\ m4 = SetKey(m3, Chr("uri"), a.uri)
         /\ m5 = SetKey(m4, Chr("qop"), a.qop)
         /\ m6 = SetKey(m5, Chr("nc"), a.nc)
         /\ m7 = SetKey(m6, Chr("cnonce"), a.cnonce)
         /\ m8 = SetKey(m7, Chr("response"), info)
         /\ m9 = SetKey(m8, Chr("opaque"), a.opaque)
  OBVIOUS
<1>11. Reads(t1, m1)
  BY <1>1, <1>4, <1>5, <1>6, ReadsFirst
<1>12. Reads(t2, m2)
  BY <1>1, <1>4, <1>5, <1>6, <1>11, ReadsQuoted
<1>13. Reads(t3, m3)
  BY <1>1, <1>4, <1>5, <1>6, <1>12, ReadsQuoted
<1>14. Reads(t4, m4)
  BY <1>1, <1>4, <1>5, <1>6, <1>13, ReadsQuoted
<1>15. Reads(t5, m5)
  BY <1>1, <1>4, <1>5, <1>6, <1>14, ReadsPlain
<1>16. Reads(t6, m6)
  BY <1>1, <1>4, <1>5, <1>6, <1>15, ReadsPlain
<1>17. Reads(t7, m7)
  BY <1>1, <1>4, <1>5, <1>6, <1>16, ReadsQuoted
<1>18. Reads(t8, m8)
  BY <1>3, <1>4, <1>5, <1>6, <1>17, ReadsQuoted
<1>19. Reads(t9, m9) /\ IsSeq(t8 \o Quoted("opaque", a.opaque))
  <2>1. PICK o : o = a.opaque
    OBVIOUS
  <2>2. Clean(o) /\ t9 = (t8 \o Quoted("opaque", o)) \o Chr("comma") /\ m9 = SetKey(m8, Chr("opaque"), o)
    BY <1>1, <1>4, <1>5, <1>6, <2>1
  <2>3. IsSeq(t8 \o Quoted("opaque", o))
    BY <1>18, <2>2, ReadsQuoted
  <2>4. Reads((t8 \o Quoted("opaque", o)) \o Chr("comma"), SetKey(m8, Chr("opaque"), o))
    BY <1>18, <2>2, ReadsQuoted
  <2> QED BY ONLY <2>1, <2>2, <2>3, <2>4
<1>20. t9 # <<>> /\ IsSeq(t9)
  <2>1. IsSeq(comma) /\ comma # <<>>
    BY <1>4, ChrFacts
  <2> QED BY <1>5, <1>19, <2>1, ConcatSolid DEF Reads
<1>21. text = (Chr("Digest") \o Chr("blank")) \o t9
  BY <1>2, <1>4, <1>5 DEF AuthText
<1>22. Scheme(text) = "Digest" /\ Data(text) = t9
  BY <1>20, <1>21, SchemeFacts
<1>23. SplitKy(Data(text)) = m9
  BY <1>19, <1>22, SplitKyEnds
<1>31. Value(m1, "username") = a.username
  BY <1>1, <1>6, ValueSet
<1>32. /\ Value(m2, "realm") = a.realm /\ Value(m2, "username") = Value(m1, "username")
  BY <1>1, <1>6, ValueSet
<1>33. /\ Value(m3, "nonce") = a.nonce
       /\ \A n \in {"username", "realm"} : Value(m3, n) = Value(m2, n)
  BY <1>1, <1>6, ValueSet
<1>34. /\ Value(m4, "uri") = a.uri
       /\ \A n \in {"username", "realm", "nonce"} : Value(m4, n) = Value(m3, n)
  BY <1>1, <1>6, ValueSet
<1>35. /\ Value(m5, "qop") = a.qop
       /\ \A n \in {"username", "realm", "nonce", "uri"} : Value(m5, n) = Value(m4, n)
  BY <1>1, <1>6, ValueSet
<1>36. /\ Value(m6, "nc") = a.nc
       /\ \A n \in {"username", "realm", "nonce", "uri", "qop"} : Value(m6, n) = Value(m5, n)
  BY <1>1, <1>6, ValueSet
<1>37. /\ Value(m7, "cnonce") = a.cnonce
       /\ \A n \in {"username", "realm", "nonce", "uri", "qop", "nc"} : Value(m7, n) = Value(m6, n)
  BY <1>1, <1>6, ValueSet
<1>38. /\ Value(m8, "response") = info
       /\ \A n \in {"username", "realm", "nonce", "uri", "qop", "nc", "cnonce"} : Value(m8, n) = Value(m7, n)
  BY <1>3, <1>6, ValueSet
<1>39. \A n \in {"username", "realm", "nonce", "uri", "qop", "nc", "cnonce", "response"} : Value(m9, n) = Value(m8, n)
  BY <1>1, <1>6, ValueSet
<1>40. /\ Value(m9, "username") = a.username /\ Value(m9, "realm") = a.realm /\ Value(m9, "nonce") = a.nonce
       /\ Value(m9, "uri") = a.uri /\ Value(m9, "qop") = a.qop /\ Value(m9, "nc") = a.nc
       /\ Value(m9, "cnonce") = a.cnonce /\ Value(m9, "response") = info
  BY ONLY <1>31, <1>32, <1>33, <1>34, <1>35, <1>36, <1>37, <1>38, <1>39
<1> QED BY <1>2, <1>22, <1>23, <1>40

LEMMA DigestAuth ==
    ASSUME NEW a, IsCredentials(a), a.method = "Digest", NEW method, IsSeq(method),
           NEW password, IsSeq(password), NEW other, IsSeq(other)
    PROVE  CheckAuth(ReadAuth(AuthText(a, method)), password, other)
           <=> password = a.password /\ other = method
<1>1. PICK text : text = AuthText(a, method)
  OBVIOUS
<1>2. PICK m : m = SplitKy(Data(text))
  OBVIOUS
<1>3. /\ Value(m, "username") = a.username /\ Value(m, "realm") = a.realm /\ Value(m, "nonce") = a.nonce
      /\ Value(m, "uri") = a.uri /\ Value(m, "qop") = a.qop /\ Value(m, "nc") = a.nc
      /\ Value(m, "cnonce") = a.cnonce /\ Value(m, "response") = AuthInfo(a, method)
      /\ Scheme(text) = "Digest"
  BY <1>1, <1>2, DigestRead
<1>4. PICK f : f = [name \in Fields |-> Value(m, name)]
  OBVIOUS
<1>5. /\ DOMAIN f = Fields /\ f["realm"] = a.realm /\ f["nonce"] = a.nonce /\ f["uri"] = a.uri
      /\ f["qop"] = a.qop /\ f["nc"] = a.nc /\ f["cnonce"] = a.cnonce /\ f["response"] = AuthInfo(a, method)
  BY <1>3, <1>4 DEF Fields
<1>6. PICK r : r = Credentials("Digest", f, a.username, <<>>)
  OBVIOUS
<1>7. ReadAuth(text) = r
  BY <1>2, <1>3, <1>4, <1>6 DEF ReadAuth
<1>8. PICK s : s = [r EXCEPT !.password = password]
  OBVIOUS
<1>9. r.method = "Digest" /\ r["response"] = AuthInfo(a, method)
  BY <1>5, <1>6, CredentialsFacts DEF Fields
<1>10. /\ s.method = "Digest" /\ s.username = a.username /\ s.password = password
       /\ \A n \in Fields : s[n] = f[n]
  <2>1. s = Credentials("Digest", f, a.username, password)
    BY <1>6, <1>8, CredentialsFacts
  <2> QED BY <2>1, CredentialsFacts
<1>11. /\ s["realm"] = a.realm /\ s["nonce"] = a.nonce /\ s["uri"] = a.uri
       /\ s["qop"] = a.qop /\ s["nc"] = a.nc /\ s["cnonce"] = a.cnonce
  BY <1>5, <1>10 DEF Fields
<1>12. PICK p, q, uri : /\ p = Join(a.username, a.realm) /\ uri = a.uri
                        /\ q = Join(Join(Join(a.nonce, a.nc), a.cnonce), a.qop)
  OBVIOUS
<1>13. IsSeq(p) /\ IsSeq(q) /\ IsSeq(uri) /\ IsSeq(a.password)
  <2>1. /\ IsSeq(a.username) /\ IsSeq(a.realm) /\ IsSeq(a.nonce) /\ IsSeq(a.nc) /\ IsSeq(a.cnonce)
        /\ IsSeq(a.qop) /\ IsSeq(a.uri) /\ IsSeq(a.password)
    BY DEF IsCredentials, Clean
  <2>2. IsSeq(Join(a.nonce, a.nc))
    BY <2>1, JoinFacts
  <2>3. IsSeq(Join(Join(a.nonce, a.nc), a.cnonce))
    BY <2>1, <2>2, JoinFacts
  <2>4. IsSeq(q)
    BY <1>12, <2>1, <2>3, JoinFacts
  <2>5. IsSeq(p)
    BY <1>12, <2>1, JoinFacts
  <2> QED BY <1>12, <2>1, <2>4, <2>5
<1>14. AuthInfo(a, method) = Response(p, a.password, q, method, uri)
  BY <1>12 DEF AuthInfo, Response
<1>15. AuthInfo(s, other) = Response(p, password, q, other, uri)
  <2>1. AuthInfo(s, other) =
          Md5(Join(Md5(Join(Join(s.username, s.realm), s.password)),
                   Join(Join(Join(Join(s.nonce, s.nc), s.cnonce), s.qop), Md5(Join(other, s.uri)))))
    BY <1>10 DEF AuthInfo
  <2>2. /\ s.username = a.username /\ s.password = password /\ s.realm = a.realm /\ s.nonce = a.nonce
        /\ s.uri = a.uri /\ s.qop = a.qop /\ s.nc = a.nc /\ s.cnonce = a.cnonce
    BY <1>10, <1>11
  <2> QED BY ONLY <1>12, <2>1, <2>2 DEF Response
<1>16. CheckAuth(r, password, other) <=> AuthInfo(s, other) = AuthInfo(a, method)
  BY <1>8, <1>9 DEF CheckAuth
<1>17. AuthInfo(s, other) = AuthInfo(a, method) <=> password = a.password /\ other = method
  <2>1. ASSUME AuthInfo(s, other) = AuthInfo(a, method) PROVE password = a.password /\ other = method
    <3>1. Response(p, password, q, other, uri) = Response(p, a.password, q, method, uri)
      BY <1>14, <1>15, <2>1
    <3>2. PICK v : v = a.password
      OBVIOUS
    <3>3. /\ Response(p, password, q, other, uri) = Response(p, v, q, method, uri)
          /\ IsSeq(v) /\ IsSeq(password) /\ IsSeq(other) /\ IsSeq(method)
      BY <1>13, <3>1, <3>2
    <3>4. password = v /\ other = method
      BY ONLY <1>13, <3>3, ResponseExact
    <3> QED BY <3>2, <3>4
  <2> QED BY <1>14, <1>15, <2>1
<1> QED BY <1>1, <1>7, <1>16, <1>17

LEMMA BasicAuth ==
    ASSUME NEW a, IsCredentials(a), a.method = "Basic", NEW method, NEW password, NEW other
    PROVE  CheckAuth(ReadAuth(AuthText(a, method)), password, other) <=> password = a.password
<1>1. PICK u, p : u = a.username /\ p = a.password
  OBVIOUS
<1>2. IsSeq(u) /\ IsSeq(p) /\ ~Holds(u, {":"}) /\ ~Holds(p, {":"})
  BY <1>1 DEF IsCredentials
<1>3. PICK j, info, text : j = Join(u, p) /\ info = Base64(j) /\ text = AuthText(a, method)
  OBVIOUS
<1>4. j # <<>>
  BY <1>2, <1>3, JoinFacts
<1>5. IsSeq(info) /\ info # <<>> /\ Unbase64(info) = j
  BY <1>3, <1>4, Base64Facts
<1>6. text = (Chr("Basic") \o Chr("blank")) \o info
  BY <1>1, <1>3 DEF AuthText, AuthInfo
<1>7. Scheme(text) = "Basic" /\ Data(text) = info
  BY <1>5, <1>6, SchemeFacts
<1>8. Cut(j, u, ":", p)
  <2>1. Cut((u \o Chr(":")) \o p, u, ":", p)
    BY <1>2, CutConcat
  <2> QED BY <1>3, <2>1 DEF Join
<1>9. Len(Split(j, ":")) = 2 /\ Split(j, ":")[1] = u /\ Split(j, ":")[2] = p
  BY <1>2, <1>8, SplitTwo
<1>10. PICK f : f = [name \in Fields |-> <<>>]
  OBVIOUS
<1>12. PICK r : r = Credentials("Basic", f, u, p)
  OBVIOUS
<1>13. PICK up : up = Split(Unbase64(Data(text)), ":")
  OBVIOUS
<1>14. up[1] = u /\ up[2] = p /\ Len(up) >= 2
  BY <1>5, <1>7, <1>9, <1>13
<1>15. ReadAuth(text) = r
  <2>1. ReadAuth(text) = Credentials("Basic", f, up[1], up[2])
    BY <1>7, <1>10, <1>13, <1>14 DEF ReadAuth
  <2> QED BY <1>12, <1>14, <2>1
<1>16. r.method = "Basic" /\ r.password = p
  BY <1>12, CredentialsFacts
<1>17. CheckAuth(r, password, other) <=> p = password
  BY <1>16 DEF CheckAuth
<1> QED BY <1>1, <1>3, <1>15, <1>17

LEMMA HeadInvAuth ==
    ASSUME HeadInv
    PROVE  CheckAuthExact
<1> SUFFICES ASSUME NEW i \in DOMAIN put["Authorization"], NEW password \in Passwords, NEW method \in Methods
             PROVE  LET a == put["Authorization"][i]
                    IN  CheckAuth(ReadAuth(head["Authorization"][1]), password, method)
                        <=> /\ password = a.auth.password
                            /\ a.auth.method = "Digest" => method = a.method
  BY DEF CheckAuthExact
<1>1. "Authorization" \in Single
  BY DEF Single, Managed
<1>2. PICK a, x, y : a = put["Authorization"][i] /\ x = a.auth /\ y = a.method
  OBVIOUS
<1>3. IsArg("Authorization", a) /\ head["Authorization"][1] = LineOf("Authorization", a)
  BY <1>1, <1>2, SingleLine
<1>4. IsCredentials(x) /\ IsSeq(y) /\ LineOf("Authorization", a) = AuthText(x, y)
  BY <1>2, <1>3 DEF IsArg, LineOf
<1>5. IsSeq(password) /\ IsSeq(method)
  BY ArgsAssumption
<1>6. CASE x.method = "Digest"
  <2>1. CheckAuth(ReadAuth(AuthText(x, y)), password, method) <=> password = x.password /\ method = y
    BY <1>4, <1>5, <1>6, DigestAuth
  <2> QED BY <1>2, <1>3, <1>4, <1>6, <2>1
<1>7. CASE x.method = "Basic"
  <2>1. CheckAuth(ReadAuth(AuthText(x, y)), password, method) <=> password = x.password
    BY <1>4, <1>7, BasicAuth
  <2> QED BY <1>2, <1>3, <1>4, <1>7, <2>1
<1>8. x.method \in {"Basic", "Digest"}
  BY <1>4 DEF IsCredentials
<1> QED BY <1>6, <1>7, <1>8

\* For all credentials the heads can carry, all passwords and all methods:
\* check_auth accepts the password the Authorization head was made with and no
\* other, in the Digest scheme for the method it was made for and no other.
THEOREM HeadCheckAuthExact == Spec => []CheckAuthExact
BY HeadInvAlways, HeadInvAuth, PTL
=============================================================================
