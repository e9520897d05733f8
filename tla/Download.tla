------------------------------ MODULE Download ------------------------------
(***************************************************************************)
(* hnw::http::Service::download: a HEAD request asks for the status of the *)
(* resource, and its answer decides how the requested range is fetched:    *)
(* over one connection, or cut into one segment per connection.            *)
(*                                                                         *)
(* The ranges and their arithmetic are those of HttpRange.                 *)
(***************************************************************************)
EXTENDS HttpRange, Sequences

CONSTANTS
    Requests,     \* the HttpRanges the application asks for
    Conns,        \* the numbers of connections it asks for
    Sizes,        \* the sizes a server may report for the resource
    MaxRedirects  \* bound on the redirects followed (the code has none)

ASSUME DownloadAssumption ==
    /\ Word \in Nat \ {0} /\ MaxRedirects \in Nat
    /\ Requests \subseteq Ranges
    /\ Conns \subseteq Nat \ {0}
    /\ Sizes \subseteq 0..(Word - 1)

VARIABLES
    pc,        \* "probe", "split" inside the loop, "done" or "failed"
    task,      \* task->total
    conn,      \* task->conn_num
    url,       \* how many redirects task->url has been through
    i,         \* the loop's counter
    start,     \* the loop's start
    segs       \* the connections asked for: [start, end, ok], ok if it started

vars == <<pc, task, conn, url, i, start, segs>>

\* The range r of a resource of n bytes, and all of it.
OfTotal(r, n) == [useStart |-> r.useStart, useEnd |-> r.useEnd,
                  start |-> r.start, end |-> r.end, total |-> n]
AllOf(r, n) == [useStart |-> TRUE, useEnd |-> TRUE,
                start |-> r.start, end |-> r.end, total |-> n]

\* The download size of each connection, s_size.
SegmentSize == SectionSize(task) \div conn

Init ==
    /\ pc = "probe" /\ task \in Requests /\ conn \in Conns
    /\ url = 0 /\ i = 0 /\ start = 0 /\ segs = <<>>

----------------------------------------------------------------------------
\* No answer, or a status that is none of 200, 206, 301 and 302: the callback
\* is given an error.
StatusError ==
    /\ pc = "probe"
    /\ pc' = "failed"
    /\ UNCHANGED <<task, conn, url, i, start, segs>>

\* 301 or 302: the same task again with another url.
StatusMoved ==
    /\ pc = "probe" /\ url < MaxRedirects /\ task.total = 0
    /\ url' = url + 1
    /\ UNCHANGED <<pc, task, conn, i, start, segs>>

\* A redirected task whose caller gave a total is not probed again: the range
\* is fetched as it stands over one connection.
StatusMovedKnown(ok) ==
    /\ pc = "probe" /\ url < MaxRedirects /\ task.total # 0
    /\ url' = url + 1
    /\ pc' = "done"
    /\ segs' = <<[start |-> SectionStart(task), end |-> SectionEnd(task), ok |-> ok]>>
    /\ UNCHANGED <<task, conn, i, start>>

\* An empty resource needs no connection.
StatusEmpty ==
    /\ pc = "probe" /\ 0 \in Sizes
    /\ pc' = "done"
    /\ UNCHANGED <<task, conn, url, i, start, segs>>

\* 200: ranges are not supported, everything comes over one connection.
StatusOk(n, ok) ==
    /\ pc = "probe" /\ n # 0
    /\ pc' = "done"
    /\ task' = AllOf(task, n)
    /\ conn' = 1
    /\ segs' = <<[start |-> 0, end |-> n - 1, ok |-> ok]>>
    /\ UNCHANGED <<url, i, start>>

\* 206: the total is known; nothing to share out is an error.
StatusPartial(n) ==
    /\ pc = "probe" /\ n # 0
    /\ task' = OfTotal(task, n)
    /\ IF SectionSize(OfTotal(task, n)) \div conn = 0
       THEN pc' = "failed" /\ UNCHANGED start
       ELSE pc' = "split" /\ start' = SectionStart(OfTotal(task, n))
    /\ UNCHANGED <<conn, url, i, segs>>

\* Mutant: the next segment starts at the last byte of this one.
SubTaskOverlaps(ok) ==
    /\ pc = "split" /\ i < conn - 1
    /\ segs' = Append(segs, [start |-> start, end |-> start + SegmentSize, ok |-> ok])
    /\ start' = start + SegmentSize
    /\ i' = i + 1
    /\ UNCHANGED <<pc, task, conn, url>>

\* Mutant: the loop takes the turn of the last sub-task too.
SubTaskOnceMore(ok) ==
    /\ pc = "split" /\ i < conn
    /\ LET end == (start + SegmentSize) % Word
       IN  /\ segs' = Append(segs, [start |-> start, end |-> end, ok |-> ok])
           /\ start' = (end + 1) % Word
    /\ i' = i + 1
    /\ UNCHANGED <<pc, task, conn, url>>

\* One turn of the loop.  A sub-task that cannot be started is reported to the
\* callback, and the loop goes on.
SubTask(ok) ==
    /\ pc = "split" /\ i < conn - 1
    /\ LET end == (start + SegmentSize) % Word
       IN  /\ segs' = Append(segs, [start |-> start, end |-> end, ok |-> ok])
           /\ start' = (end + 1) % Word
    /\ i' = i + 1
    /\ UNCHANGED <<pc, task, conn, url>>

\* The last sub-task runs to the end of the resource.
LastSubTask(ok) ==
    /\ pc = "split" /\ i >= conn - 1
    /\ segs' = Append(segs, [start |-> start, end |-> (task.total - 1) % Word, ok |-> ok])
    /\ pc' = "done"
    /\ UNCHANGED <<task, conn, url, i, start>>

Next ==
    \/ StatusError \/ StatusMoved \/ StatusEmpty
    \/ \E n \in Sizes :
          \/ \E ok \in BOOLEAN : StatusOk(n, ok)
          \/ StatusPartial(n)
    \/ \E ok \in BOOLEAN : StatusMovedKnown(ok) \/ SubTask(ok) \/ LastSubTask(ok)

Spec == Init /\ [][Next]_vars

----------------------------------------------------------------------------
Segments == [start : 0..(Word - 1), end : 0..(Word - 1), ok : BOOLEAN]

\* There are never more connections than were asked for.
TypeOK ==
    /\ pc \in {"probe", "split", "done", "failed"}
    /\ task \in Ranges
    /\ conn \in Nat \ {0}
    /\ url \in 0..MaxRedirects /\ i \in Nat
    /\ start \in 0..(Word - 1)
    /\ segs \in Seq(Segments) /\ Len(segs) <= conn
    /\ pc \in {"probe", "split"} => Len(segs) = i /\ i < conn

\* The segments follow each other without a gap or an overlap and none is
\* empty: no byte is fetched twice or missed between two connections, however
\* the total divides by the number of connections.
SegmentsAdjacent ==
    /\ \A k \in 1..Len(segs) : segs[k].start <= segs[k].end
    /\ \A k \in 2..Len(segs) : segs[k].start = segs[k - 1].end + 1

\* Once every connection is asked for, the segments reach from the first to
\* the last byte of the range that was requested.
CoversSection ==
    pc = "done" /\ segs # <<>> =>
        /\ segs[1].start = SectionStart(task)
        /\ segs[Len(segs)].end = SectionEnd(task)

\* The sub-tasks fetch every byte of the requested range exactly once.
SegmentsExact == SegmentsAdjacent /\ CoversSection
=============================================================================
