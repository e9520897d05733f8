----------------------------- MODULE AsyncSend -----------------------------
(***************************************************************************)
(* ASIOClientChannel::async_send(buff, buff_len, beg, complete): a message *)
(* is written with async_write_some; the completion handler calls          *)
(* async_send again with the shorter length and the larger offset when the *)
(* socket took only part of it.  Several threads may send on one channel;  *)
(* there is no queue, so their writes are outstanding together.            *)
(***************************************************************************)
EXTENDS Naturals, Sequences

CONSTANTS
    Msgs, Size    \* the messages sent and their lengths in bytes

ASSUME SendAssumption == Size \in [Msgs -> Nat]

VARIABLES
    st,     \* where the sending of each message is
    beg,    \* the parameter beg of the current async_send
    len,    \* its parameter buff_len
    out,    \* the byte stream of the socket
    bconn   \* bconn_

vars == <<st, beg, len, out, bconn>>

SendStates == {"idle", "call", "write", "done", "failed"}

Init ==
    /\ st = [m \in Msgs |-> "idle"]
    /\ beg = [m \in Msgs |-> 0]
    /\ len = [m \in Msgs |-> Size[m]]
    /\ out = <<>> /\ bconn = TRUE

Goto(m, from, to) ==
    /\ st[m] = from
    /\ st' = [st EXCEPT ![m] = to]

\* Service::send finds the channel and calls async_send(message, size).
Send(m) ==
    /\ Goto(m, "idle", "call")
    /\ UNCHANGED <<beg, len, out, bconn>>

\* async_send of nothing: SEND_COMPLETE and complete() at once.
SendEmpty(m) ==
    /\ len[m] = 0
    /\ Goto(m, "call", "done")
    /\ UNCHANGED <<beg, len, out, bconn>>

\* async_send on a channel that is not connected raises ERROR.
SendNotConnected(m) ==
    /\ len[m] > 0 /\ ~bconn
    /\ Goto(m, "call", "failed")
    /\ UNCHANGED <<beg, len, out, bconn>>

\* async_send hands the buffer to write().
StartWrite(m) ==
    /\ len[m] > 0 /\ bconn
    /\ Goto(m, "call", "write")
    /\ UNCHANGED <<beg, len, out, bconn>>

\* The bytes write() is given: buff.get(), whatever beg is.
WriteFrom(m) == 1

\* The socket took k bytes of the buffer write() was given.
Took(m, k) == [i \in 1..k |-> <<m, WriteFrom(m) + i - 1>>]

\* send_handler: all of buff_len is written and complete() is called ...
WriteAll(m) ==
    /\ Goto(m, "write", "done")
    /\ out' = out \o Took(m, len[m])
    /\ UNCHANGED <<beg, len, bconn>>

\* Mutant: a partial write is taken for the whole.
WriteSomeIsAll(m) ==
    /\ Goto(m, "write", "done")
    /\ \E s \in 1..(len[m] - 1) : out' = out \o Took(m, s)
    /\ UNCHANGED <<beg, len, bconn>>

\* ... or only s bytes, and async_send is called for the rest.
WriteSome(m) ==
    /\ Goto(m, "write", "call")
    /\ \E s \in 1..(len[m] - 1) :
          /\ out' = out \o Took(m, s)
          /\ len' = [len EXCEPT ![m] = @ - s]
          /\ beg' = [beg EXCEPT ![m] = @ + s]
    /\ UNCHANGED bconn

\* Mutant: the handler returns without ERROR.
WriteFailsSilently(m) ==
    /\ Goto(m, "write", "idle")
    /\ bconn' = FALSE
    /\ UNCHANGED <<beg, len, out>>

\* send_handler with an error: ERROR is raised, which closes the channel.
WriteFails(m) ==
    /\ Goto(m, "write", "failed")
    /\ bconn' = FALSE
    /\ UNCHANGED <<beg, len, out>>

\* The channel is closed by another user, or its read chain fails.
Close ==
    /\ bconn
    /\ bconn' = FALSE
    /\ UNCHANGED <<st, beg, len, out>>

Next ==
    \/ \E m \in Msgs :
          \/ Send(m) \/ SendEmpty(m) \/ SendNotConnected(m) \/ StartWrite(m)
          \/ WriteAll(m) \/ WriteSome(m) \/ WriteFails(m)
    \/ Close

\* Threads inside async_send go on and every write is completed or fails.
Fairness ==
    \A m \in Msgs :
        /\ WF_vars(SendEmpty(m) \/ SendNotConnected(m) \/ StartWrite(m))
        /\ WF_vars(WriteAll(m) \/ WriteSome(m) \/ WriteFails(m))

Spec == Init /\ [][Next]_vars
FairSpec == Spec /\ Fairness

----------------------------------------------------------------------------
TypeOK ==
    /\ st \in [Msgs -> SendStates]
    /\ beg \in [Msgs -> Nat] /\ len \in [Msgs -> Nat]
    /\ \A m \in Msgs : beg[m] + len[m] = Size[m]
    /\ out \in Seq(Msgs \X Nat)
    /\ bconn \in BOOLEAN

\* The sending of a message is seen by the caller as a position in it.
Position == [m \in Msgs |-> IF st[m] = "done" THEN Size[m] ELSE beg[m]]
Over == {m \in Msgs : st[m] \in {"done", "failed"}}

Stream == INSTANCE ByteStream WITH sent <- Position, over <- Over

\* async_send keeps the promise of ByteStream: however many sends are under
\* way, each message's bytes go out in order and once, also when the socket
\* takes a buffer in several pieces ("compute the bytes left, go on writing").
ImplementsByteStream == Stream!StreamSpec

\* The write of a rest: bytes of the message's beginning go out in its place.
Repeats(m, k) ==
    /\ st[m] = "write" /\ beg[m] > 0
    /\ out' = out \o Stream!Bytes(m, 1, k)
    /\ Position' = [Position EXCEPT ![m] = @ + k]

\* What async_send keeps of that promise: however the writes of several senders
\* are cut and interleaved, all that goes out of a message up to its first cut
\* is right, every later piece has the right length and its message's bytes
\* (though from the wrong place), and nothing follows the end or the failure of
\* a message.
StreamButForRests ==
    /\ Stream!StreamInit
    /\ [][Stream!StreamNext \/ \E m \in Msgs : \E k \in 1..Size[m] : Repeats(m, k)]_(Stream!streamVars)

\* Every message handed to a connected channel is finished with: on the wire
\* or reported as an error; the completion handler is never forgotten.
SendEnds == \A m \in Msgs : st[m] = "call" ~> st[m] \in {"done", "failed"}
=============================================================================
