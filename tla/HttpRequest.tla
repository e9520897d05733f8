---------------------------- MODULE HttpRequest ----------------------------
(***************************************************************************)
(* One-shot calls of http::Service: request (HnwHttp_RequestGet / Post)    *)
(* and get_resource_status, each a connection of its own whose events go   *)
(* through hnw::Service::event_cb and http::Service::event_cb to           *)
(* on_request_once or resource_status_cb, which call the user back.        *)
(*                                                                         *)
(* The connection attempt, the read chain, the write and the time-out of a *)
(* read are contexts on the io_service's workers that raise events         *)
(* independently of each other; the thread that made the call is still     *)
(* inside it.  The close path of the channel is one step here (TcpChannel  *)
(* cuts it into its parts), and so is the sending of the request           *)
(* (HttpSession, AsyncSend).  Names that HttpServer has too begin with     *)
(* Call here: HttpServiceProofs extends both.                              *)
(***************************************************************************)
EXTENDS Naturals, Sequences

CONSTANTS
    MaxReads,     \* bound: reads that deliver data
    MaxPerRead    \* bound: responses completed by the data of one read

ASSUME RequestAssumption == MaxReads \in Nat /\ MaxPerRead \in Nat

VARIABLES
    kind,       \* "request" or "status": which call was made
    inMap,      \* the handle is in channel_map_
    inSessions, \* the handle is in session_map_
    callHeard,  \* event_cb_ leads to http::Service::event_cb
    bconn,      \* bconn_
    up,         \* the socket is connected
    timeOut,    \* recv_time_out_ms_ has been set
    callPc,     \* where each context is
    left,       \* responses the parser will still find in the data at hand
    reads,      \* how many reads have delivered data
    callPosted, \* a CLOSED event that will be heard is posted
    answers     \* history: the calls of the user's callback

chanVars == <<inMap, inSessions, callHeard, bconn, up, callPosted>>
callVars == <<kind, chanVars, timeOut, callPc, left, reads, answers>>

CallContexts == {"caller", "con", "recv", "send", "timer"}
CallSteps == {"off", "config", "pending", "ok", "fail", "arm", "err", "unset", "close",
              "data", "drop", "parse", "done", "end", "unplaced", "again", "fired"}

\* start() has made the channel and the session, and has called connect.
CallInit ==
    /\ kind \in {"request", "status"}
    /\ inMap = TRUE /\ inSessions = TRUE /\ callHeard = TRUE
    /\ bconn = FALSE /\ up = FALSE /\ callPosted = FALSE
    /\ timeOut = FALSE /\ left = 0 /\ reads = 0 /\ answers = <<>>
    /\ callPc = [x \in CallContexts |->
                IF x = "con" THEN "pending"
                ELSE IF x = "caller" /\ kind = "request" THEN "config" ELSE "off"]

CallGoto(x, from, to) ==
    /\ callPc[x] = from
    /\ callPc' = [callPc EXCEPT ![x] = to]

\* HnwBase_SetEvntCB(handle, nullptr).
SetEvntCBNull == callHeard' = (callHeard /\ ~inMap)

\* HnwBase_Close(handle): CLOSED is posted with the callback of the moment.  If
\* the peer has reset the connection, shutdown() throws, and the ERROR event it
\* raises reaches the user; it finds no handle to close.
CloseHandle ==
    /\ inMap' = FALSE
    /\ bconn' = (bconn /\ ~inMap)
    /\ up' = (up /\ ~(inMap /\ bconn))
    /\ callPosted' = (callPosted \/ (inMap /\ bconn /\ callHeard))
    /\ \/ UNCHANGED answers
       \/ inMap /\ bconn /\ callHeard /\ inSessions /\ answers' = Append(answers, "err")

\* The call of the user's callback.
Answer(a) == answers' = Append(answers, a)

----------------------------------------------------------------------------
(* Connecting and sending                                                  *)

\* The end of request(): the time-out is set on a channel that is connecting,
\* connected or closed by now.
Configure ==
    /\ CallGoto("caller", "config", "off")
    /\ timeOut' = inMap
    /\ UNCHANGED <<kind, chanVars, left, reads, answers>>

\* con_handle is called, with or without an error.
ConnectEnds ==
    /\ \/ up' = TRUE /\ CallGoto("con", "pending", "ok")
       \/ UNCHANGED up /\ CallGoto("con", "pending", "err")
    /\ UNCHANGED <<kind, inMap, inSessions, callHeard, bconn, timeOut, left, reads,
                   callPosted, answers>>

\* con_handle: bconn_, ESTABLISH, and the request that the callback sends.
Establish ==
    /\ callPc["con"] = "ok"
    /\ bconn' = TRUE
    /\ callPc' = [callPc EXCEPT !["con"] = "arm", !["send"] = "pending"]
    /\ UNCHANGED <<kind, inMap, inSessions, callHeard, up, timeOut, left, reads,
                   callPosted, answers>>

\* The same when HnwHttp_RawRequest returns an error (out of memory): the user
\* is told and the handle closed.
EstablishFails ==
    /\ CallGoto("con", "ok", "fail")
    /\ bconn' = TRUE
    /\ Answer("err")
    /\ UNCHANGED <<kind, inMap, inSessions, callHeard, up, timeOut, left, reads, callPosted>>

CloseFailed ==
    /\ CallGoto("con", "fail", "arm")
    /\ CloseHandle
    /\ UNCHANGED <<kind, inSessions, callHeard, timeOut, left, reads>>

\* The write of the request ends.
SendEnds ==
    /\ \/ up /\ CallGoto("send", "pending", "off")
       \/ CallGoto("send", "pending", "err")
    /\ UNCHANGED <<kind, chanVars, timeOut, left, reads, answers>>

----------------------------------------------------------------------------
(* Receiving                                                               *)

\* async_recv: a read, and its timer if there is a time-out at this moment.
\* While the handler of an earlier timer is still to run, which will close the
\* channel, a new timer is not told apart from it.
AsyncRecv(x, from) ==
    /\ callPc[x] = from
    /\ callPc' = IF bconn
                 THEN [callPc EXCEPT ![x] = "off", !["recv"] = "pending",
                                     !["timer"] = IF timeOut /\ @ = "off" THEN "pending" ELSE @]
                 ELSE [callPc EXCEPT ![x] = "err"]
    /\ UNCHANGED <<kind, chanVars, timeOut, left, reads, answers>>

\* Mutant: con_handle ends without a read.
FirstRecvForgotten ==
    /\ CallGoto("con", "arm", "off")
    /\ UNCHANGED <<kind, chanVars, timeOut, left, reads, answers>>

FirstRecv == AsyncRecv("con", "arm")

NextRecv == AsyncRecv("recv", "again")

\* del_timer: a handler that is already queued stays.
Cancelled(s) == IF s = "pending" THEN "off" ELSE s

\* Mutant: the timer of the read stays.
RecvDataKeepsTimer ==
    /\ up /\ callPc["recv"] = "pending" /\ reads < MaxReads
    /\ callPc' = [callPc EXCEPT !["recv"] = "data"]
    /\ left' \in 0..MaxPerRead
    /\ reads' = reads + 1
    /\ UNCHANGED <<kind, chanVars, timeOut, answers>>

\* Data arrives that completes some responses, or none (a part, or nonsense).
RecvData ==
    /\ up /\ callPc["recv"] = "pending" /\ reads < MaxReads
    /\ callPc' = [callPc EXCEPT !["recv"] = "data", !["timer"] = Cancelled(@)]
    /\ left' \in 0..MaxPerRead
    /\ reads' = reads + 1
    /\ UNCHANGED <<kind, chanVars, timeOut, answers>>

\* The peer has hung up, or the channel was closed.
RecvFails ==
    /\ callPc["recv"] = "pending"
    /\ callPc' = [callPc EXCEPT !["recv"] = "err", !["timer"] = Cancelled(@)]
    /\ UNCHANGED <<kind, chanVars, timeOut, left, reads, answers>>

\* RECV_DATA: event_cb gives the data to the session's parser; without a
\* session it closes the handle.
OnData ==
    /\ CallGoto("recv", "data", IF ~callHeard THEN "again"
                                ELSE IF inSessions THEN "parse" ELSE "drop")
    /\ UNCHANGED <<kind, chanVars, timeOut, left, reads, answers>>

Drop ==
    /\ CallGoto("recv", "drop", "again")
    /\ CloseHandle
    /\ UNCHANGED <<kind, inSessions, callHeard, timeOut, left, reads>>

\* Mutant: the end of the data closes the handle.
ParsedCloses ==
    /\ left = 0
    /\ CallGoto("recv", "parse", "again")
    /\ CloseHandle
    /\ UNCHANGED <<kind, inSessions, callHeard, timeOut, left, reads>>

Parsed ==
    /\ left = 0
    /\ CallGoto("recv", "parse", "again")
    /\ UNCHANGED <<kind, chanVars, timeOut, left, reads, answers>>

\* The parser's events go to event_cb directly, whatever the channel's callback
\* is by now; without a session event_cb closes the handle.
ParserEvent(a) ==
    /\ IF inSessions
       THEN Answer(a) /\ CallGoto("recv", "parse", "done") /\ UNCHANGED chanVars
       ELSE /\ callPc["recv"] = "parse" /\ CloseHandle
            /\ UNCHANGED <<callPc, inSessions, callHeard>>
    /\ UNCHANGED <<kind, timeOut, reads>>

\* RECV_RESPONSE (or RESPONSE_HEAD).
OnResponse == left > 0 /\ left' = left - 1 /\ ParserEvent("ok")

\* There is no place for the body of a response: ERROR, and the rest of the
\* data is dropped.
OnUnplaced == kind = "request" /\ left > 0 /\ left' = 0 /\ ParserEvent("err")

\* After the answer the callback is cleared and the handle closed.
Done ==
    /\ CallGoto("recv", "done", "end")
    /\ SetEvntCBNull
    /\ UNCHANGED <<kind, inMap, inSessions, bconn, up, callPosted, timeOut, left,
                   reads, answers>>

CloseDone ==
    /\ \/ CallGoto("recv", "end", "parse")
       \/ kind = "status" /\ CallGoto("recv", "end", "unplaced")
    /\ CloseHandle
    /\ UNCHANGED <<kind, inSessions, callHeard, timeOut, left, reads>>

\* The same in get_resource_status, which was given the head already and has
\* closed the handle: it hears of the ERROR too.
OnStatusUnplaced ==
    /\ CallGoto("recv", "unplaced", "parse")
    /\ left' = 0
    /\ IF inSessions THEN Answer("err") ELSE UNCHANGED answers
    /\ UNCHANGED <<kind, chanVars, timeOut, reads>>

Expires ==
    /\ CallGoto("timer", "pending", "fired")
    /\ UNCHANGED <<kind, chanVars, timeOut, left, reads, answers>>

OnTimeout ==
    /\ CallGoto("timer", "fired", "err")
    /\ UNCHANGED <<kind, chanVars, timeOut, left, reads, answers>>

----------------------------------------------------------------------------
(* ERROR events                                                            *)

\* EVENT_ERR_CB.  The user is told if the callback is set and the session
\* there; on_request_once then clears the callback and closes,
\* resource_status_cb only closes.  hnw::Service::event_cb does both as well,
\* which changes something only when nobody was told.
CallRaiseError(x) ==
    /\ IF callHeard /\ inSessions
       THEN /\ Answer("err")
            /\ CallGoto(x, "err", IF kind = "request" THEN "unset" ELSE "close")
       ELSE /\ CallGoto(x, "err", IF callHeard THEN "close" ELSE "unset")
            /\ UNCHANGED answers
    /\ UNCHANGED <<kind, chanVars, timeOut, left, reads>>

Unset(x) ==
    /\ CallGoto(x, "unset", "close")
    /\ SetEvntCBNull
    /\ UNCHANGED <<kind, inMap, inSessions, bconn, up, callPosted, timeOut, left,
                   reads, answers>>

\* Mutant: the handle is left open.
CloseForgotten(x) ==
    /\ CallGoto(x, "close", "off")
    /\ UNCHANGED <<kind, chanVars, timeOut, left, reads, answers>>

CallClose(x) ==
    /\ CallGoto(x, "close", "off")
    /\ CloseHandle
    /\ UNCHANGED <<kind, inSessions, callHeard, timeOut, left, reads>>

\* The posted CLOSED event: on_disconnect and del_session.
OnClosed ==
    /\ callPosted
    /\ callPosted' = FALSE /\ inSessions' = FALSE
    /\ UNCHANGED <<kind, inMap, callHeard, bconn, up, timeOut, callPc, left, reads, answers>>

----------------------------------------------------------------------------
Connecting == Configure \/ ConnectEnds \/ Establish \/ EstablishFails \/ CloseFailed
Reading ==
    \/ FirstRecv \/ NextRecv \/ OnData \/ Drop \/ Parsed \/ OnResponse
    \/ OnUnplaced \/ Done \/ CloseDone \/ OnStatusUnplaced
Failing(x) == CallRaiseError(x) \/ Unset(x) \/ CallClose(x)

CallNext ==
    \/ Connecting \/ SendEnds \/ Reading \/ OnTimeout \/ OnClosed
    \/ RecvData \/ RecvFails \/ Expires
    \/ \E x \in CallContexts : Failing(x)

\* The attempt to connect ends, handlers that are ready are run, and the peer
\* answers or hangs up in the end.
CallFairness ==
    /\ WF_callVars(Connecting) /\ WF_callVars(Reading) /\ WF_callVars(OnTimeout)
    /\ WF_callVars(RecvData \/ RecvFails)
    /\ \A x \in CallContexts : WF_callVars(Failing(x))

CallSpec == CallInit /\ [][CallNext]_callVars
CallFairSpec == CallSpec /\ CallFairness

----------------------------------------------------------------------------
\* The time-out of a read runs only while the read is pending.
CallTypeOK ==
    /\ kind \in {"request", "status"}
    /\ inMap \in BOOLEAN /\ inSessions \in BOOLEAN /\ callHeard \in BOOLEAN
    /\ bconn \in BOOLEAN /\ up \in BOOLEAN /\ callPosted \in BOOLEAN
    /\ timeOut \in BOOLEAN
    /\ callPc \in [CallContexts -> CallSteps]
    /\ left \in 0..MaxPerRead /\ reads \in 0..MaxReads
    /\ answers \in Seq({"ok", "err"})
    /\ callPc["timer"] = "pending" => callPc["recv"] = "pending"

\* The handle of a call never goes away without a word: whoever takes the
\* channel out of the map - an answer, a failed attempt, read or write, a
\* time-out, data without a session - the user's callback was called before.
GoneMeansAnswered == inMap \/ answers # <<>>

\* The callback of every call is called in the end.
EventuallyAnswered == <>(answers # <<>>)

\* Once the user has been told, the connection is closed and its handle given
\* up in the end, by whichever event told them.
AnsweredThenClosed == answers # <<>> ~> (~inMap /\ ~bconn)
=============================================================================
