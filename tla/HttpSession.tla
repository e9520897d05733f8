---------------------------- MODULE HttpSession ----------------------------
(***************************************************************************)
(* The send side of hnw::http::Session (http_session.hpp).  Messages are   *)
(* queued under send_lock_; a "pump" (HnwBase_Send_Cb, which calls         *)
(* Session::on_read again after every completed write) turns the queue     *)
(* into bytes.  send() may be called by an application thread or from an   *)
(* event callback.  A pump runs its first on_read on the thread that       *)
(* started it and every later one on an io_service worker.                 *)
(*                                                                         *)
(* Bytes are abstracted to units: a message is LineLen units of start      *)
(* line, HeadLen of head and `body' of body, and one call of on_read moves *)
(* at most BuffSize of them.  A write is one step that succeeds as a whole *)
(* or fails; AsyncSend models what happens to a partial one.               *)
(***************************************************************************)
EXTENDS Naturals, Sequences

CONSTANTS
    Threads,     \* the threads that run start_send
    Io,          \* the one that delivers ACCEPT / CONNECT_ESTABLISH
    Senders,     \* the threads on which the application calls send
    Pumps,       \* slots for pumps alive at one time (a bound)
    Pool,        \* the io_service workers that run completion handlers
    PeerType,    \* "Server" or "Client": what Session::type_ is
    LineLen, HeadLen, BodyLens, \* sizes of the parts of a message in units
    BuffSize,    \* send_buff_size_ of the channel in units
    MaxMsgs      \* bound on the messages queued in one behaviour

ASSUME SessionAssumption ==
    /\ Io \in Threads /\ Senders \subseteq Threads
    /\ Pool \notin Threads
    /\ PeerType \in {"Server", "Client"}
    /\ LineLen \in Nat \ {0} /\ HeadLen \in Nat \ {0}
    /\ BodyLens \subseteq Nat
    /\ BuffSize \in Nat \ {0} /\ MaxMsgs \in Nat

VARIABLES
    queue,        \* response_queue_ / request_queue_
    sendFlag,     \* send_flag_
    connectFlag,  \* connect_flag_
    closeAfter,   \* close_after_send_flag_
    cur,          \* send_status_; <<>> while its message pointer is null
    pc,           \* where each thread is in send and start_send
    pump,         \* where each pump is
    host,         \* the thread that runs a pump's current on_read
    buf,          \* the units a pump has handed to the socket
    bconn,        \* the channel is connected and in the channel map
    closedPosted, \* a CLOSED event for this session is queued
    alive,        \* the session is in http::Service::session_map_
    heard,        \* the channel's event_cb_ is set
    reader,       \* where the channel's read chain is
    handed,       \* the application's callback has seen the new connection
    submitted,    \* history: the messages in the order they were queued
    wire          \* history: the units written to the socket

vars == <<queue, sendFlag, connectFlag, closeAfter, cur, pc, pump, host, buf,
          bconn, closedPosted, alive, heard, reader, handed, submitted, wire>>

queueVars == <<queue, submitted>>
flagVars  == <<sendFlag, closeAfter>>
pumpVars  == <<pump, host, buf, cur, wire>>
errVars   == <<heard, reader>>
chanVars  == <<connectFlag, bconn, closedPosted, alive, errVars, handed>>

\* What raw_response, raw_request, file_response and file_request build: a
\* start line, a head (with Connection: Close or without) and a body.
Messages == [id : 1..MaxMsgs, body : BodyLens, close : BOOLEAN]
Total(m) == LineLen + HeadLen + m.body

Stages == {"line", "head", "body"}

\* The length of one part of a message, and what comes before it.
PartLen(m, stage) ==
    IF stage = "line" THEN LineLen ELSE IF stage = "head" THEN HeadLen ELSE m.body

PartStart(stage) ==
    IF stage = "line" THEN 0 ELSE IF stage = "head" THEN LineLen ELSE LineLen + HeadLen

\* send_status_: the message, the part being sent and what is left of it.
Cursor(m, stage, left) == [msg |-> m, stage |-> stage, left |-> left]
Whole(m, stage) == Cursor(m, stage, PartLen(m, stage))
Cursors ==
    {c \in [msg : Messages, stage : Stages, left : Nat] :
        c.left <= PartLen(c.msg, c.stage)}

ThreadStates == {"start", "idle", "push", "check", "conn", "set", "sendcb", "pump"}
PumpStates   == {"none", "begin", "enter", "read", "write", "close", "raised", "unset"}
ReaderStates == {"reading", "raised", "unset", "off"}

\* How many units of its message a cursor has given out.
Emitted(c) == PartStart(c.stage) + PartLen(c.msg, c.stage) - c.left

\* Mutant: a full buffer is taken whatever is left of the part.
ChunkLenUnbounded(c) == BuffSize

\* What one on_read copies: at most a buffer of what the part has left.
ChunkLen(c) == IF c.left < BuffSize THEN c.left ELSE BuffSize
Advance(c) == Cursor(c.msg, c.stage, c.left - ChunkLen(c))
Chunk(c) == [i \in 1..ChunkLen(c) |-> <<c.msg.id, Emitted(c) + i>>]

\* send_lock_ is held across a step only by a pump inside HnwHttp_Close; the
\* other critical sections are one step each.
LockFree == \A p \in Pumps : pump[p] # "close"

----------------------------------------------------------------------------
Init ==
    /\ queue = <<>> /\ submitted = <<>> /\ wire = <<>> /\ cur = <<>>
    /\ sendFlag = FALSE /\ closeAfter = FALSE
    /\ connectFlag = FALSE /\ bconn = FALSE /\ closedPosted = FALSE
    /\ alive = TRUE /\ handed = FALSE /\ heard = TRUE /\ reader = "reading"
    /\ pc = [t \in Threads |-> IF t = Io THEN "start" ELSE "idle"]
    /\ pump = [p \in Pumps |-> "none"]
    /\ host = [p \in Pumps |-> Pool]
    /\ buf = [p \in Pumps |-> <<>>]

----------------------------------------------------------------------------
(* The threads: on_connect_establish, send and start_send                  *)

Goto(t, from, to) ==
    /\ pc[t] = from
    /\ pc' = [pc EXCEPT ![t] = to]

\* The channel is connected (or accepted) and the event has reached
\* on_connect_establish, which goes on with start_send.
OnConnectEstablish ==
    /\ Goto(Io, "start", "check")
    /\ bconn' = TRUE /\ connectFlag' = TRUE
    /\ UNCHANGED <<queueVars, flagVars, pumpVars, closedPosted, alive, errVars, handed>>

\* event_cb passes the event on once on_connect_establish has returned.
NotifyApplication ==
    /\ pc[Io] = "idle" /\ ~handed
    /\ handed' = TRUE
    /\ UNCHANGED <<queueVars, flagVars, pumpVars, pc, connectFlag, bconn,
                   closedPosted, alive, errVars>>

\* The handle of an accepted connection is known from the event on; a client
\* has its handle from HnwHttp_Start, before the connection is there.
HandleKnown(t) == handed \/ (PeerType = "Client" /\ t # Io)

\* HnwHttp_Response / HnwHttp_Request look the session up and call send.  The
\* calls that find no session or are given null or the other kind of message
\* return an error and change nothing.
Send(t) ==
    /\ HandleKnown(t) /\ alive
    /\ Len(submitted) < MaxMsgs
    /\ Goto(t, "idle", "push")
    /\ UNCHANGED <<queueVars, flagVars, pumpVars, chanVars>>

\* The critical section of send.
Push(t) ==
    /\ LockFree /\ Len(submitted) < MaxMsgs
    /\ Goto(t, "push", "check")
    /\ \E b \in BodyLens, c \in BOOLEAN :
          LET m == [id |-> Len(submitted) + 1, body |-> b, close |-> c]
          IN  /\ queue' = Append(queue, m)
              /\ submitted' = Append(submitted, m)
    /\ UNCHANGED <<flagVars, pumpVars, chanVars>>

\* start_send, `if (send_flag_)': somebody is sending, the queue is enough.
CheckFlag(t) ==
    /\ Goto(t, "check", IF sendFlag THEN "idle" ELSE "conn")
    /\ UNCHANGED <<queueVars, flagVars, pumpVars, chanVars>>

\* start_send, `if (false == connect_flag_)': SEND_PENDING.
CheckConnect(t) ==
    /\ Goto(t, "conn", IF connectFlag THEN "set" ELSE "idle")
    /\ UNCHANGED <<queueVars, flagVars, pumpVars, chanVars>>

\* Mutant: send_flag_ is not set before HnwBase_Send_Cb.
SetFlagForgotten(t) ==
    /\ Goto(t, "set", "sendcb")
    /\ UNCHANGED <<queueVars, flagVars, pumpVars, chanVars>>

SetFlag(t) ==
    /\ Goto(t, "set", "sendcb")
    /\ sendFlag' = TRUE
    /\ UNCHANGED <<queueVars, closeAfter, pumpVars, chanVars>>

\* HnwBase_Send_Cb on a channel that is in the map starts a pump.
StartPump(t, p) ==
    /\ bconn /\ pump[p] = "none"
    /\ Goto(t, "sendcb", "pump")
    /\ pump' = [pump EXCEPT ![p] = "begin"]
    /\ host' = [host EXCEPT ![p] = t]
    /\ UNCHANGED <<queueVars, flagVars, buf, cur, wire, chanVars>>

\* HnwBase_Send_Cb on a channel that is gone returns INVAILD_HANDLE (or emits
\* NOT_CONN); nothing resets send_flag_.
StartFails(t) ==
    /\ ~bconn
    /\ Goto(t, "sendcb", "idle")
    /\ UNCHANGED <<queueVars, flagVars, pumpVars, chanVars>>

----------------------------------------------------------------------------
(* The pump: async_send(cb) and on_read                                    *)

\* The current on_read or write has ended on its thread, which goes on.
ReleaseHost(p) ==
    /\ host' = [host EXCEPT ![p] = Pool]
    /\ pc' = IF host[p] = Pool THEN pc ELSE [pc EXCEPT ![host[p]] = "idle"]

PumpTo(p, from, to) ==
    /\ pump[p] = from
    /\ pump' = [pump EXCEPT ![p] = to]

\* async_send(cb) reads only while the channel is connected.
Begin(p) ==
    /\ bconn
    /\ PumpTo(p, "begin", "enter")
    /\ UNCHANGED <<queueVars, flagVars, pc, host, buf, cur, wire, chanVars>>

\* on_read is called through a bare `this' and takes a reference of its own.
\* On a session that CLOSED has removed by then that is undefined: the read
\* goes on in freed memory, or the process ends here.
Enter(p) ==
    /\ PumpTo(p, "enter", "read")
    /\ UNCHANGED <<queueVars, flagVars, pc, host, buf, cur, wire, chanVars>>

\* NOT_CONN: the pump is over, and send_flag_ stays as it is.
BeginFails(p) ==
    /\ ~bconn
    /\ PumpTo(p, "begin", "none")
    /\ ReleaseHost(p)
    /\ UNCHANGED <<queueVars, flagVars, buf, cur, wire, chanVars>>

\* Mutants of ReadEmpty: the pump ends after every message without a look at
\* the queue; it ends without resetting send_flag_; close_after_send_flag_ is
\* tested before the queue.
ReadEmptyIgnoresQueue(p) ==
    /\ cur = <<>> /\ LockFree
    /\ PumpTo(p, "read", "none") /\ ReleaseHost(p)
    /\ sendFlag' = FALSE
    /\ UNCHANGED <<queueVars, closeAfter, buf, cur, wire, chanVars>>

ReadEmptyKeepsFlag(p) ==
    /\ cur = <<>> /\ queue = <<>> /\ LockFree
    /\ PumpTo(p, "read", "none") /\ ReleaseHost(p)
    /\ UNCHANGED <<queueVars, flagVars, buf, cur, wire, chanVars>>

ReadEmptyClosesEarly(p) ==
    /\ cur = <<>> /\ LockFree
    /\ sendFlag' = FALSE
    /\ IF closeAfter
       THEN PumpTo(p, "read", "close") /\ UNCHANGED <<host, pc>>
       ELSE queue = <<>> /\ PumpTo(p, "read", "none") /\ ReleaseHost(p)
    /\ UNCHANGED <<queueVars, closeAfter, buf, cur, wire, chanVars>>

\* on_read with no current message and an empty queue: the pump is over.
\* HnwHttp_Close, when it follows, is called before send_lock_ is released.
ReadEmpty(p) ==
    /\ cur = <<>> /\ queue = <<>> /\ LockFree
    /\ sendFlag' = FALSE
    /\ IF closeAfter
       THEN PumpTo(p, "read", "close") /\ UNCHANGED <<host, pc>>
       ELSE PumpTo(p, "read", "none") /\ ReleaseHost(p)
    /\ UNCHANGED <<queueVars, closeAfter, buf, cur, wire, chanVars>>

\* The call of HnwHttp_Close.  TcpClientChannel::close posts CLOSED if it
\* closes anything, with the callback of the moment.
CloseAfterSend(p) ==
    /\ PumpTo(p, "close", "none")
    /\ ReleaseHost(p)
    /\ bconn' = FALSE
    /\ closedPosted' = (closedPosted \/ (bconn /\ heard))
    /\ UNCHANGED <<queueVars, flagVars, buf, cur, wire, connectFlag, alive, errVars, handed>>

\* pre_send of a response: its Connection head says Close, or there is none.
ClosesAfter(m) == PeerType = "Server" /\ m.close

\* on_read takes the next message, and pre_send may raise
\* close_after_send_flag_.
ReadNext(p) ==
    /\ pump[p] = "read"
    /\ cur = <<>> /\ queue # <<>> /\ LockFree
    /\ cur' = Whole(Head(queue), "line")
    /\ queue' = Tail(queue)
    /\ closeAfter' = (closeAfter \/ ClosesAfter(Head(queue)))
    /\ UNCHANGED <<submitted, sendFlag, pc, pump, host, buf, wire, chanVars>>

\* Mutant: the body follows the line.
NextStageSkipsHead(p) ==
    /\ pump[p] = "read"
    /\ cur # <<>> /\ cur.left = 0 /\ cur.stage # "body"
    /\ cur' = Whole(cur.msg, "body")
    /\ UNCHANGED <<queueVars, flagVars, pc, pump, host, buf, wire, chanVars>>

\* The cached part is used up: the head follows the line, the body the head.
NextStage(p) ==
    /\ pump[p] = "read"
    /\ cur # <<>> /\ cur.left = 0 /\ cur.stage # "body"
    /\ cur' = Whole(cur.msg, IF cur.stage = "line" THEN "head" ELSE "body")
    /\ UNCHANGED <<queueVars, flagVars, pc, pump, host, buf, wire, chanVars>>

\* move_cache / read_body give out a chunk, and async_send writes it.
ReadChunk(p) ==
    /\ cur # <<>> /\ cur.left > 0
    /\ PumpTo(p, "read", "write")
    /\ buf' = [buf EXCEPT ![p] = Chunk(cur)]
    /\ cur' = Advance(cur)
    /\ ReleaseHost(p)
    /\ UNCHANGED <<queueVars, flagVars, wire, chanVars>>

\* read_body returns 0: the message is over.  on_read_response looks for the
\* next one; on_read_request returns 0, which ends the pump.
BodyEnd(p) ==
    /\ cur # <<>> /\ cur.stage = "body" /\ cur.left = 0
    /\ cur' = <<>>
    /\ IF PeerType = "Server"
       THEN pump[p] = "read" /\ UNCHANGED <<pump, host, pc>>
       ELSE PumpTo(p, "read", "none") /\ ReleaseHost(p)
    /\ UNCHANGED <<queueVars, flagVars, buf, wire, chanVars>>

\* The write completed; its handler calls async_send(cb) again.
WriteDone(p) ==
    /\ PumpTo(p, "write", "begin")
    /\ wire' = wire \o buf[p]
    /\ buf' = [buf EXCEPT ![p] = <<>>]
    /\ UNCHANGED <<queueVars, flagVars, pc, host, cur, chanVars>>

\* The write failed: ERROR is raised, and goes to the application if event_cb_
\* is set.
WriteFails(p) ==
    /\ PumpTo(p, "write", "raised")
    /\ buf' = [buf EXCEPT ![p] = <<>>]
    /\ UNCHANGED <<queueVars, flagVars, pc, host, cur, wire, chanVars>>

\* After an ERROR hnw::Service::event_cb clears event_cb_ of a channel that is
\* still in the map and closes it: no CLOSED event reaches the session.
UnsetCallback == heard' = (heard /\ ~bconn)

WriteErrorUnsets(p) ==
    /\ PumpTo(p, "raised", "unset")
    /\ UnsetCallback
    /\ UNCHANGED <<queueVars, flagVars, pc, host, buf, cur, wire, connectFlag, bconn,
                   closedPosted, alive, reader, handed>>

WriteErrorCloses(p) ==
    /\ PumpTo(p, "unset", "none")
    /\ bconn' = FALSE
    /\ UNCHANGED <<queueVars, flagVars, pc, host, buf, cur, wire, connectFlag,
                   closedPosted, alive, errVars, handed>>

----------------------------------------------------------------------------
(* The channel's other users                                               *)

ReaderTo(from, to) == reader = from /\ reader' = to

\* The read chain fails, with the same consequences as a failed write.  The
\* read that a close has ended finds no channel any more.
ReadFails ==
    /\ bconn
    /\ ReaderTo("reading", "raised")
    /\ UNCHANGED <<queueVars, flagVars, pumpVars, pc, connectFlag, bconn,
                   closedPosted, alive, heard, handed>>

ReadErrorUnsets ==
    /\ ReaderTo("raised", "unset")
    /\ UnsetCallback
    /\ UNCHANGED <<queueVars, flagVars, pumpVars, pc, connectFlag, bconn,
                   closedPosted, alive, handed>>

ReadErrorCloses ==
    /\ ReaderTo("unset", "off")
    /\ bconn' = FALSE
    /\ UNCHANGED <<queueVars, flagVars, pumpVars, pc, connectFlag,
                   closedPosted, alive, heard, handed>>

\* The application calls HnwHttp_Close, also from the callback of an ERROR.
AppClose ==
    /\ bconn
    /\ bconn' = FALSE
    /\ closedPosted' = (closedPosted \/ heard)
    /\ UNCHANGED <<queueVars, flagVars, pumpVars, pc, connectFlag, alive, errVars, handed>>

\* The posted CLOSED event: on_disconnect and del_session.
OnClosed ==
    /\ closedPosted
    /\ closedPosted' = FALSE
    /\ connectFlag' = FALSE
    /\ alive' = FALSE
    /\ UNCHANGED <<queueVars, flagVars, pumpVars, pc, bconn, errVars, handed>>

----------------------------------------------------------------------------
ThreadStep(t) ==
    \/ Push(t) \/ CheckFlag(t) \/ CheckConnect(t) \/ SetFlag(t)
    \/ \E p \in Pumps : StartPump(t, p)
    \/ StartFails(t)

PumpStep(p) ==
    \/ Begin(p) \/ BeginFails(p) \/ Enter(p)
    \/ ReadEmpty(p) \/ CloseAfterSend(p) \/ ReadNext(p) \/ NextStage(p)
    \/ ReadChunk(p) \/ BodyEnd(p)
    \/ WriteDone(p) \/ WriteErrorUnsets(p) \/ WriteErrorCloses(p)

ReadError == ReadErrorUnsets \/ ReadErrorCloses

Next ==
    \/ OnConnectEstablish \/ NotifyApplication
    \/ \E t \in Senders : Send(t)
    \/ \E t \in Threads : ThreadStep(t)
    \/ \E p \in Pumps : PumpStep(p) \/ WriteFails(p)
    \/ ReadFails \/ ReadError \/ AppClose \/ OnClosed

\* A thread inside start_send goes on, an io_service worker runs the handlers
\* that are ready, and the peer reads what is written to it (a write ends).
\* Nothing makes the application send, or the connection fail.
Fairness ==
    /\ \A t \in Threads : WF_vars(ThreadStep(t))
    /\ \A p \in Pumps : WF_vars(PumpStep(p))
    /\ WF_vars(OnClosed) /\ WF_vars(OnConnectEstablish) /\ WF_vars(ReadError)

Spec == Init /\ [][Next]_vars
FairSpec == Spec /\ Fairness

----------------------------------------------------------------------------
TypeOK ==
    /\ queue \in Seq(Messages) /\ submitted \in Seq(Messages)
    /\ sendFlag \in BOOLEAN /\ closeAfter \in BOOLEAN
    /\ connectFlag \in BOOLEAN /\ bconn \in BOOLEAN
    /\ closedPosted \in BOOLEAN /\ alive \in BOOLEAN /\ handed \in BOOLEAN
    /\ heard \in BOOLEAN /\ reader \in ReaderStates
    /\ cur = <<>> \/ cur \in Cursors
    /\ pc \in [Threads -> ThreadStates]
    /\ pump \in [Pumps -> PumpStates]
    /\ host \in [Pumps -> Threads \cup {Pool}]
    /\ buf \in [Pumps -> Seq((1..MaxMsgs) \X Nat)]
    /\ wire \in Seq((1..MaxMsgs) \X Nat)

\* A pump is active until the handler of its last write has returned.
Active(p) == pump[p] \in {"begin", "enter", "read", "write", "raised", "unset"}

\* send_status_ has no lock of its own: it is safe because send_flag_ admits
\* one pump at a time (the "already sending, only enqueue" test of start_send).
SinglePump == \A p, q \in Pumps : Active(p) /\ Active(q) => p = q

\* A queued message is never forgotten: while the session is connected, either
\* send_flag_ says that a pump will find it or a thread that queued a message
\* has yet to look at the flag (start_send after the unlock in send).
NoLostWakeup ==
    connectFlag /\ queue # <<>> =>
        sendFlag \/ \E t \in Threads : pc[t] \in {"check", "conn", "set"}

\* send_flag_ means what its declaration says, "a send is in progress": while
\* the channel is up, a pump is running or about to be started, or the failure
\* of its write is about to close the channel.
FlagMeansSending ==
    sendFlag /\ bconn =>
        \/ \E t \in Threads : pc[t] = "sendcb"
        \/ \E p \in Pumps : Active(p)

\* send_flag_ can be trusted both ways: where it is down nothing waits to be
\* sent, and where it is up somebody sends.
FlagHonest == NoLostWakeup /\ FlagMeansSending

\* The unit that may follow unit u on the wire: the next of the same message,
\* or the first of the message queued after it.
Follows(u, v) ==
    IF u[2] < Total(submitted[u[1]])
    THEN v = <<u[1], u[2] + 1>>
    ELSE v = <<u[1] + 1, 1>>

\* What reaches the socket is the queued messages, whole and in order: no unit
\* is lost, repeated, or mixed with those of another message, however on_read
\* calls, completions and new send calls interleave.
WireInOrder ==
    /\ wire # <<>> => wire[1] = <<1, 1>>
    /\ \A i \in 1..(Len(wire) - 1) : Follows(wire[i], wire[i + 1])

AllOnWire ==
    submitted # <<>> =>
        /\ wire # <<>>
        /\ wire[Len(wire)] = <<Len(submitted), Total(submitted[Len(submitted)])>>

\* "Connection: Close" closes the session only after every message queued
\* before it, by any thread, is on the wire (close_after_send_flag_ is looked
\* at with send_lock_ held, and the lock is kept until the channel is closed).
CloseWhenDrained ==
    (\E p \in Pumps : pump[p] = "close") => queue = <<>> /\ cur = <<>> /\ AllOnWire

\* Message number n is on the wire to its last unit.
Delivered(n) ==
    /\ n <= Len(submitted)
    /\ \E i \in 1..Len(wire) : wire[i] = <<n, Total(submitted[n])>>

\* Every message that send() queued on a connected session is written to its
\* last unit, unless the connection is lost or closed first.
EventuallyDelivered ==
    \A n \in 1..MaxMsgs :
        (Len(submitted) >= n /\ bconn) ~> (Delivered(n) \/ ~bconn)
=============================================================================
