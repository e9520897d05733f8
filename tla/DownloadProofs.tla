--------------------------- MODULE DownloadProofs ---------------------------
(***************************************************************************)
(* The segments of a download are a partition of the resource whenever the *)
(* resource has at least conn * conn bytes.                                *)
(***************************************************************************)
EXTENDS Download, TLAPS

\* Everything is asked for, and the resource is not too small for the number
\* of connections.
WholeAndLarge ==
    /\ \A r \in Requests : r.useStart /\ r.useEnd
    /\ \A n \in Sizes, c \in Conns : n # 0 => c * c <= n

LEMMA DivBounds ==
    ASSUME NEW n \in Nat, NEW c \in Nat \ {0}
    PROVE  /\ n \div c \in Nat
           /\ (n \div c) * c <= n
           /\ n < (n \div c) * c + c
OBVIOUS

\* The i-th segment starts inside the resource.
LEMMA StartInside ==
    ASSUME NEW n \in Nat, NEW c \in Nat \ {0}, c * c <= n,
           NEW k \in Nat, k <= c - 1
    PROVE  k * ((n \div c) + 1) < n
<1> DEFINE s == n \div c
<1>1. s \in Nat /\ s * c <= n /\ n < s * c + c
  BY DivBounds
<1> HIDE DEF s
<1>2. s >= c
  <2> SUFFICES ASSUME s <= c - 1 PROVE FALSE
    BY <1>1
  <2>1. s * c <= (c - 1) * c
    BY <1>1
  <2> QED BY <1>1, <2>1
<1>3. k * (s + 1) <= (c - 1) * (s + 1)
  BY <1>1
<1>4. (c - 1) * (s + 1) = s * c + c - s - 1
  BY <1>1
<1>5. k * (s + 1) < n
  BY <1>1, <1>2, <1>3, <1>4
<1> QED BY <1>5 DEF s

LEMMA ModInWord ==
    ASSUME NEW a \in Int
    PROVE  /\ a % Word \in 0..(Word - 1)
           /\ a \in 0..(Word - 1) => a % Word = a
BY DownloadAssumption

----------------------------------------------------------------------------
(* Type correctness, for every request                                     *)

LEMMA TypeInit == Init => TypeOK
<1> SUFFICES ASSUME Init PROVE TypeOK
  OBVIOUS
<1>1. segs \in Seq(Segments)
  BY DEF Init
<1> QED BY <1>1, DownloadAssumption DEF Init, TypeOK

LEMMA SectionType ==
    ASSUME NEW r \in Ranges
    PROVE  /\ SectionStart(r) \in 0..(Word - 1)
           /\ SectionEnd(r) \in 0..(Word - 1)
           /\ SectionSize(r) \in 0..(Word - 1)
<1>1. r.start \in 0..(Word - 1) /\ r.end \in 0..(Word - 1) /\ r.total \in 0..(Word - 1)
  BY DEF Ranges
<1>2. SectionStart(r) \in 0..(Word - 1)
  BY <1>1, DownloadAssumption DEF SectionStart
<1>3. SectionEnd(r) \in 0..(Word - 1)
  BY <1>1, ModInWord DEF SectionEnd
<1>4. SectionSize(r) \in 0..(Word - 1)
  BY <1>2, <1>3, ModInWord, DownloadAssumption DEF SectionSize
<1> QED BY <1>2, <1>3, <1>4

LEMMA OfTotalType ==
    ASSUME NEW r \in Ranges, NEW n \in 0..(Word - 1)
    PROVE  OfTotal(r, n) \in Ranges /\ AllOf(r, n) \in Ranges
BY DEF Ranges, OfTotal, AllOf

\* Every step keeps the types: no segment leaves the range of an uint64.
LEMMA TypeStep == TypeOK /\ [Next]_vars => TypeOK'
<1> SUFFICES ASSUME TypeOK, [Next]_vars PROVE TypeOK'
  OBVIOUS
<1> USE DownloadAssumption DEF TypeOK
<1>1. CASE StatusError BY <1>1 DEF StatusError
<1>2. CASE StatusMoved BY <1>2 DEF StatusMoved
<1>3. CASE StatusEmpty BY <1>3 DEF StatusEmpty
<1>4. ASSUME NEW n \in Sizes, NEW ok \in BOOLEAN, StatusOk(n, ok) PROVE TypeOK'
  <2>1. [start |-> 0, end |-> n - 1, ok |-> ok] \in Segments
    BY <1>4 DEF StatusOk, Segments
  <2>2. segs' \in Seq(Segments) /\ Len(segs') = 1
    BY <1>4, <2>1 DEF StatusOk
  <2>3. task' \in Ranges
    BY <1>4, OfTotalType DEF StatusOk
  <2> QED BY <1>4, <2>2, <2>3 DEF StatusOk
<1>5. ASSUME NEW n \in Sizes, StatusPartial(n) PROVE TypeOK'
  <2>1. OfTotal(task, n) \in Ranges
    BY OfTotalType
  <2> QED BY <1>5, <2>1, SectionType DEF StatusPartial
<1>6. ASSUME NEW ok \in BOOLEAN, SubTask(ok) PROVE TypeOK'
  <2>1. SegmentSize \in Nat
    BY SectionType, DivBounds DEF SegmentSize
  <2> DEFINE e == (start + SegmentSize) % Word
  <2>2. e \in 0..(Word - 1) /\ (e + 1) % Word \in 0..(Word - 1)
    <3>1. start + SegmentSize \in Int
      BY <2>1
    <3>2. e \in 0..(Word - 1)
      BY <3>1, ModInWord
    <3>3. e + 1 \in Int
      BY <3>2
    <3> QED BY <3>2, <3>3, ModInWord
  <2>3. [start |-> start, end |-> e, ok |-> ok] \in Segments
    BY <2>2 DEF Segments
  <2>4. segs' = Append(segs, [start |-> start, end |-> e, ok |-> ok]) /\ start' = (e + 1) % Word
    BY <1>6 DEF SubTask
  <2> HIDE DEF e
  <2>5. segs' \in Seq(Segments) /\ start' \in 0..(Word - 1) /\ Len(segs') = Len(segs) + 1
    BY <2>2, <2>3, <2>4
  <2> QED BY <1>6, <2>5 DEF SubTask
<1>7. ASSUME NEW ok \in BOOLEAN, LastSubTask(ok) PROVE TypeOK'
  <2>1. (task.total - 1) % Word \in 0..(Word - 1)
    <3>1. task.total - 1 \in Int
      BY DEF Ranges
    <3> QED BY <3>1, ModInWord
  <2>2. [start |-> start, end |-> (task.total - 1) % Word, ok |-> ok] \in Segments
    BY <2>1 DEF Segments
  <2>3. segs' \in Seq(Segments) /\ Len(segs') = Len(segs) + 1
    BY <1>7, <2>2 DEF LastSubTask
  <2> QED BY <1>7, <2>3 DEF LastSubTask
<1>8. ASSUME NEW ok \in BOOLEAN, StatusMovedKnown(ok) PROVE TypeOK'
  <2> DEFINE g == [start |-> SectionStart(task), end |-> SectionEnd(task), ok |-> ok]
  <2>1. g \in Segments
    BY SectionType DEF Segments
  <2>2. segs' = <<g>>
    BY <1>8 DEF StatusMovedKnown
  <2> HIDE DEF g
  <2>3. segs' \in Seq(Segments) /\ Len(segs') = 1
    BY <2>1, <2>2
  <2> QED BY <1>8, <2>3 DEF StatusMovedKnown
<1>9. CASE UNCHANGED vars BY <1>9 DEF vars
<1> QED BY <1>1, <1>2, <1>3, <1>4, <1>5, <1>6, <1>7, <1>8, <1>9 DEF Next

\* Whatever range is asked for and whatever size the server reports, the
\* bounds of the segments stay within an uint64, and there are never more
\* segments than connections were asked for.
THEOREM TypeCorrect == Spec => []TypeOK
BY TypeInit, TypeStep, PTL DEF Spec

----------------------------------------------------------------------------
(* The partition, when all of a large enough resource is asked for         *)

\* Before the turn i of the loop, i segments of s + 1 bytes each are laid out
\* from byte 0 to start.
LoopInv ==
    pc = "split" =>
        LET s == task.total \div conn
        IN  /\ conn * conn <= task.total
            /\ i <= conn - 1
            /\ start = i * (s + 1)
            /\ IF segs = <<>> THEN start = 0
               ELSE segs[1].start = 0 /\ segs[Len(segs)].end + 1 = start

SplitInv ==
    /\ TypeOK
    /\ task.useStart /\ task.useEnd
    /\ pc = "probe" => conn \in Conns /\ i = 0 /\ segs = <<>>
    /\ LoopInv /\ SegmentsAdjacent /\ CoversSection

\* The section of a whole resource is the resource.
LEMMA WholeSection ==
    ASSUME NEW r \in Ranges, r.useStart, r.useEnd, r.total # 0
    PROVE  /\ SectionStart(r) = 0
           /\ SectionEnd(r) = r.total - 1
           /\ SectionSize(r) = r.total
<1>1. r.total \in 1..(Word - 1)
  BY DEF Ranges
<1>2. SectionStart(r) = 0
  BY DEF SectionStart
<1>3. SectionEnd(r) = r.total - 1
  <2>1. r.total - 1 \in Int /\ r.total - 1 \in 0..(Word - 1)
    BY <1>1, DownloadAssumption
  <2> QED BY <2>1, ModInWord DEF SectionEnd
<1>4. SectionSize(r) = r.total
  <2>1. SectionEnd(r) - SectionStart(r) + 1 = r.total
    BY <1>1, <1>2, <1>3
  <2>2. r.total \in Int /\ r.total \in 0..(Word - 1)
    BY <1>1, DownloadAssumption
  <2> QED BY <2>1, <2>2, ModInWord DEF SectionSize
<1> QED BY <1>2, <1>3, <1>4

\* Adding a segment that begins where the last one ended.
LEMMA AppendAdjacent ==
    ASSUME TypeOK, SegmentsAdjacent, NEW g \in Segments, g.start <= g.end,
           segs' = Append(segs, g),
           segs # <<>> => segs[Len(segs)].end + 1 = g.start
    PROVE  /\ SegmentsAdjacent'
           /\ segs' # <<>> /\ segs'[Len(segs')] = g
           /\ segs'[1] = IF segs = <<>> THEN g ELSE segs[1]
<1>1. /\ segs \in Seq(Segments) /\ Len(segs) \in Nat
      /\ Len(segs') = Len(segs) + 1 /\ segs'[Len(segs) + 1] = g
      /\ \A k \in 1..Len(segs) : segs'[k] = segs[k]
      /\ segs = <<>> <=> Len(segs) = 0
  BY DEF TypeOK
<1>2. \A k \in 1..Len(segs') : segs'[k].start <= segs'[k].end
  BY <1>1 DEF SegmentsAdjacent
<1>3. \A k \in 2..Len(segs') : segs'[k].start = segs'[k - 1].end + 1
  <2> SUFFICES ASSUME NEW k \in 2..Len(segs') PROVE segs'[k].start = segs'[k - 1].end + 1
    OBVIOUS
  <2>1. CASE k <= Len(segs)
    <3>1. k \in 2..Len(segs) /\ k \in 1..Len(segs) /\ k - 1 \in 1..Len(segs)
      BY <1>1, <2>1
    <3> QED BY <1>1, <3>1 DEF SegmentsAdjacent
  <2>2. CASE k > Len(segs)
    <3>1. k = Len(segs) + 1 /\ k - 1 = Len(segs) /\ Len(segs) \in 1..Len(segs) /\ segs # <<>>
      BY <1>1, <2>2
    <3> QED BY <1>1, <3>1
  <2> QED BY <1>1, <2>1, <2>2
<1>4. segs' # <<>> /\ segs'[Len(segs')] = g
  BY <1>1
<1>5. segs'[1] = IF segs = <<>> THEN g ELSE segs[1]
  BY <1>1
<1> QED BY <1>2, <1>3, <1>4, <1>5 DEF SegmentsAdjacent

\* One turn of the loop lays the next segment next to the last one, inside the
\* resource.
LEMMA SubTaskStep ==
    ASSUME SplitInv, NEW ok \in BOOLEAN, SubTask(ok)
    PROVE  LoopInv' /\ SegmentsAdjacent' /\ CoversSection'
<1> USE DownloadAssumption
<1> DEFINE s == task.total \div conn
<1>1. /\ pc = "split" /\ pc' = "split" /\ i < conn - 1 /\ i' = i + 1
      /\ UNCHANGED <<task, conn>>
      /\ TypeOK /\ task \in Ranges /\ conn \in Nat \ {0} /\ i \in Nat /\ start \in Nat
      /\ task.useStart /\ task.useEnd
  BY DEF SubTask, SplitInv, TypeOK
<1>2. task.total \in 0..(Word - 1) /\ conn * conn <= task.total
  BY <1>1 DEF SplitInv, LoopInv, Ranges
<1>3. task.total # 0
  BY <1>1, <1>2
<1>4. SegmentSize = s /\ s \in Nat
  BY <1>1, <1>2, <1>3, WholeSection, DivBounds DEF SegmentSize
<1>5. start = i * (s + 1)
  BY <1>1 DEF SplitInv, LoopInv
<1>6. (i + 1) * (s + 1) < task.total
  <2>1. i + 1 \in Nat /\ i + 1 <= conn - 1 /\ task.total \in Nat
    BY <1>1, <1>2
  <2> QED BY <2>1, <1>1, <1>2, StartInside
<1> HIDE DEF s
<1>7. start + s + 1 = (i + 1) * (s + 1)
  BY <1>1, <1>4, <1>5
<1>8. (start + SegmentSize) % Word = start + s /\ (start + s + 1) % Word = start + s + 1
  <2>1. start + s \in 0..(Word - 1) /\ start + s + 1 \in 0..(Word - 1)
    BY <1>1, <1>2, <1>4, <1>6, <1>7
  <2>2. start + s \in Int /\ start + s + 1 \in Int
    BY <1>1, <1>4
  <2> QED BY <1>4, <2>1, <2>2, ModInWord
<1> DEFINE g == [start |-> start, end |-> start + s, ok |-> ok]
<1>9. segs' = Append(segs, g) /\ start' = start + s + 1
  BY <1>8 DEF SubTask
<1>10. g \in Segments /\ g.start <= g.end /\ g.start = start /\ g.end = start + s
  BY <1>1, <1>2, <1>4, <1>6, <1>7 DEF Segments
<1>11. segs # <<>> => segs[Len(segs)].end + 1 = g.start
  BY <1>1, <1>10 DEF SplitInv, LoopInv
<1> HIDE DEF g
<1>12. /\ SegmentsAdjacent' /\ segs' # <<>> /\ segs'[Len(segs')] = g
       /\ segs'[1] = IF segs = <<>> THEN g ELSE segs[1]
  BY <1>1, <1>9, <1>10, <1>11, AppendAdjacent DEF SplitInv
<1>13. segs'[1].start = 0
  BY <1>1, <1>10, <1>12 DEF SplitInv, LoopInv
<1>14. start' = i' * (s + 1) /\ i' <= conn' - 1 /\ segs'[Len(segs')].end + 1 = start'
  BY <1>1, <1>4, <1>7, <1>9, <1>10, <1>12
<1>15. s = task'.total \div conn'
  BY <1>1 DEF s
<1> QED BY <1>1, <1>2, <1>12, <1>13, <1>14, <1>15 DEF LoopInv, CoversSection

\* The last segment fills what is left, which is not empty.
LEMMA LastSubTaskStep ==
    ASSUME SplitInv, NEW ok \in BOOLEAN, LastSubTask(ok)
    PROVE  LoopInv' /\ SegmentsAdjacent' /\ CoversSection'
<1> USE DownloadAssumption
<1>1. /\ pc = "split" /\ pc' = "done" /\ i >= conn - 1 /\ task' = task
      /\ TypeOK /\ task \in Ranges /\ conn \in Nat \ {0} /\ i \in Nat /\ start \in 0..(Word - 1)
      /\ task.useStart /\ task.useEnd
  BY DEF LastSubTask, SplitInv, TypeOK
<1>2. /\ task.total \in 0..(Word - 1) /\ conn * conn <= task.total /\ i <= conn - 1
      /\ start = i * ((task.total \div conn) + 1)
  BY <1>1 DEF SplitInv, LoopInv, Ranges
<1>3. task.total # 0
  BY <1>1, <1>2
<1>4. SectionStart(task) = 0 /\ SectionEnd(task) = task.total - 1
  BY <1>1, <1>3, WholeSection
<1>5. start < task.total
  <2>1. task.total \in Nat
    BY <1>2
  <2> QED BY <2>1, <1>1, <1>2, StartInside
<1>6. (task.total - 1) % Word = task.total - 1
  <2>1. task.total - 1 \in Int /\ task.total - 1 \in 0..(Word - 1)
    BY <1>2, <1>3
  <2> QED BY <2>1, ModInWord
<1> DEFINE g == [start |-> start, end |-> task.total - 1, ok |-> ok]
<1>7. segs' = Append(segs, g)
  BY <1>6 DEF LastSubTask
<1>8. g \in Segments /\ g.start <= g.end /\ g.start = start /\ g.end = task.total - 1
  BY <1>1, <1>2, <1>3, <1>5 DEF Segments
<1>9. segs # <<>> => segs[Len(segs)].end + 1 = g.start
  BY <1>1, <1>8 DEF SplitInv, LoopInv
<1> HIDE DEF g
<1>10. /\ SegmentsAdjacent' /\ segs' # <<>> /\ segs'[Len(segs')] = g
       /\ segs'[1] = IF segs = <<>> THEN g ELSE segs[1]
  BY <1>1, <1>7, <1>8, <1>9, AppendAdjacent DEF SplitInv
<1>11. segs'[1].start = 0
  BY <1>1, <1>8, <1>10 DEF SplitInv, LoopInv
<1> QED BY <1>1, <1>4, <1>8, <1>10, <1>11 DEF LoopInv, CoversSection

LEMMA SplitInit == WholeAndLarge /\ Init => SplitInv
<1> SUFFICES ASSUME WholeAndLarge, Init PROVE SplitInv
  OBVIOUS
<1>1. TypeOK
  BY TypeInit
<1>2. LoopInv /\ CoversSection
  BY DEF Init, LoopInv, CoversSection
<1>3. SegmentsAdjacent
  BY DEF Init, SegmentsAdjacent
<1> QED BY <1>1, <1>2, <1>3 DEF Init, SplitInv, WholeAndLarge

\* Each step keeps the layout.
LEMMA SplitStep ==
    ASSUME WholeAndLarge, SplitInv, [Next]_vars
    PROVE  SplitInv'
<1> USE DownloadAssumption
<1>0. TypeOK'
  BY TypeStep DEF SplitInv
<1>1. CASE StatusError \/ StatusMoved \/ StatusEmpty
  <2>1. UNCHANGED <<task, conn, i, start, segs>> /\ pc = "probe" /\ pc' \in {"failed", "probe", "done"}
    BY <1>1 DEF StatusError, StatusMoved, StatusEmpty
  <2>2. LoopInv' /\ SegmentsAdjacent' /\ CoversSection'
    BY <2>1 DEF SplitInv, LoopInv, SegmentsAdjacent, CoversSection
  <2> QED BY <1>0, <2>1, <2>2 DEF SplitInv
<1>2. ASSUME NEW n \in Sizes, NEW ok \in BOOLEAN, StatusOk(n, ok) PROVE SplitInv'
  <2> DEFINE g == [start |-> 0, end |-> n - 1, ok |-> ok]
  <2>1. pc' = "done" /\ segs' = <<g>> /\ task' = AllOf(task, n) /\ n \in 1..(Word - 1)
    BY <1>2 DEF StatusOk
  <2>2. g.start = 0 /\ g.end = n - 1 /\ g.start <= g.end
    BY <2>1
  <2> HIDE DEF g
  <2>3. task' \in Ranges /\ task'.useStart /\ task'.useEnd /\ task'.total = n
    BY <1>0, <2>1 DEF TypeOK, AllOf
  <2>4. SectionStart(task') = 0 /\ SectionEnd(task') = n - 1
    BY <2>1, <2>3, WholeSection
  <2>5. Len(segs') = 1 /\ segs'[1] = g
    BY <2>1
  <2>6. SegmentsAdjacent'
    BY <2>2, <2>5 DEF SegmentsAdjacent
  <2>7. LoopInv' /\ CoversSection'
    BY <2>1, <2>2, <2>4, <2>5 DEF LoopInv, CoversSection
  <2> QED BY <1>0, <2>1, <2>3, <2>6, <2>7 DEF SplitInv
<1>3. ASSUME NEW n \in Sizes, StatusPartial(n) PROVE SplitInv'
  <2>1. /\ n # 0 /\ pc = "probe" /\ conn \in Conns /\ i = 0 /\ segs = <<>>
        /\ task' = OfTotal(task, n) /\ UNCHANGED <<conn, i, segs>> /\ pc' \in {"failed", "split"}
        /\ pc' = "split" => start' = SectionStart(OfTotal(task, n))
    BY <1>3 DEF StatusPartial, SplitInv
  <2>2. task'.useStart /\ task'.useEnd /\ task'.total = n /\ task' \in Ranges
    BY <1>0, <2>1 DEF OfTotal, SplitInv, TypeOK
  <2>3. pc' = "split" => start' = 0
    BY <2>1, <2>2, WholeSection
  <2>4. conn * conn <= n /\ 0 <= conn - 1
    BY <2>1 DEF WholeAndLarge
  <2>5. n \in Nat /\ conn \in Nat \ {0} /\ n \div conn \in Nat
    BY <2>1, DivBounds
  <2>6. 0 * ((n \div conn) + 1) = 0
    BY <2>5
  <2>7. LoopInv'
    BY <2>1, <2>2, <2>3, <2>4, <2>6 DEF LoopInv
  <2>8. SegmentsAdjacent' /\ CoversSection'
    BY <2>1 DEF SplitInv, SegmentsAdjacent, CoversSection
  <2> QED BY <1>0, <2>1, <2>2, <2>7, <2>8 DEF SplitInv
<1>4. ASSUME NEW ok \in BOOLEAN, SubTask(ok) PROVE SplitInv'
  <2>1. task' = task /\ pc' = "split"
    BY <1>4 DEF SubTask
  <2> QED BY <1>0, <1>4, <2>1, SubTaskStep DEF SplitInv
<1>5. ASSUME NEW ok \in BOOLEAN, LastSubTask(ok) PROVE SplitInv'
  <2>1. task' = task /\ pc' = "done"
    BY <1>5 DEF LastSubTask
  <2> QED BY <1>0, <1>5, <2>1, LastSubTaskStep DEF SplitInv
<1>6. ASSUME NEW ok \in BOOLEAN, StatusMovedKnown(ok) PROVE SplitInv'
  <2> DEFINE g == [start |-> SectionStart(task), end |-> SectionEnd(task), ok |-> ok]
  <2>1. pc' = "done" /\ segs' = <<g>> /\ task' = task /\ task.total # 0
    BY <1>6 DEF StatusMovedKnown
  <2>2. SectionStart(task) = 0 /\ SectionEnd(task) = task.total - 1 /\ task.total \in 1..(Word - 1)
    <3>1. task \in Ranges /\ task.useStart /\ task.useEnd
      BY DEF SplitInv, TypeOK
    <3>2. SectionStart(task) = 0 /\ SectionEnd(task) = task.total - 1
      BY <2>1, <3>1, WholeSection
    <3> QED BY <2>1, <3>1, <3>2 DEF Ranges
  <2>3. g.start = SectionStart(task) /\ g.end = SectionEnd(task) /\ g.start <= g.end
    BY <2>2
  <2> HIDE DEF g
  <2>4. Len(segs') = 1 /\ segs'[1] = g
    BY <2>1
  <2>5. SegmentsAdjacent'
    BY <2>3, <2>4 DEF SegmentsAdjacent
  <2>6. LoopInv' /\ CoversSection'
    BY <2>1, <2>3, <2>4 DEF LoopInv, CoversSection
  <2> QED BY <1>0, <2>1, <2>5, <2>6 DEF SplitInv
<1>7. CASE UNCHANGED vars
  BY <1>0, <1>7 DEF vars, SplitInv, LoopInv, SegmentsAdjacent, CoversSection
<1> QED BY <1>1, <1>2, <1>3, <1>4, <1>5, <1>6, <1>7 DEF Next

\* For every resource of n bytes fetched whole over c connections with
\* c * c <= n, the segments download() asks for are adjacent, non-empty and
\* reach from the first to the last byte.  A smaller resource is overrun: c - 1
\* segments of n \div c + 1 bytes can be more than n bytes.
THEOREM SegmentsPartition ==
    ASSUME WholeAndLarge
    PROVE  Spec => []SegmentsExact
<1>1. Init => SplitInv
  BY WholeAndLarge, SplitInit
<1>2. SplitInv /\ [Next]_vars => SplitInv'
  BY WholeAndLarge, SplitStep
<1>3. SplitInv => SegmentsExact
  BY DEF SplitInv, SegmentsExact
<1> QED BY <1>1, <1>2, <1>3, PTL DEF Spec
=============================================================================
