---------------------------- MODULE TcpChannel -----------------------------
(***************************************************************************)
(* The life of one TCP client channel: ASIOTcpClientChannel on top of      *)
(* ASIOClientChannel, held in the channel map of hnw::Service.             *)
(*                                                                         *)
(* A context is something that executes code on the channel: an            *)
(* application thread inside HnwBase_Close, the completion handler of an   *)
(* asynchronous operation, or a timer handler.  Handlers run on the        *)
(* io_service's worker threads without a strand, so the steps of different *)
(* contexts interleave freely.  Every ERROR event runs through             *)
(* hnw::Service::event_cb, which clears the callback and closes.           *)
(*                                                                         *)
(* The object lives while something holds a shared_ptr to it: the map, a   *)
(* pending or running handler (`self'), a posted CLOSED task, or a local   *)
(* variable of Service::close.  The connect timer holds a bare `this'.     *)
(***************************************************************************)
EXTENDS Naturals, Sequences, FiniteSets

CONSTANTS
    Apps,         \* application threads, each calls HnwBase_Close once
    ConnectTimer, \* connect_time_out_ms_ is not 0 (BOOLEAN)
    RecvTimer,    \* recv_time_out_ms_ is not 0 (BOOLEAN)
    EarlyClose    \* Apps close before they have seen the connection (BOOLEAN)

Ops == {"con", "recv", "send"}
Timers == {"ctimer", "rtimer"}
Contexts == Apps \cup Ops \cup Timers

ASSUME ChannelAssumption ==
    /\ Apps \cap (Ops \cup Timers) = {}
    /\ ConnectTimer \in BOOLEAN /\ RecvTimer \in BOOLEAN /\ EarlyClose \in BOOLEAN

VARIABLES
    inMap,   \* the handle is in channel_map_
    cb,      \* event_cb_ leads to "user" code or (cleared) to nobody: "null"
    bconn,   \* bconn_
    sock,    \* socket_
    pc,      \* where each context is
    posted,  \* the CLOSED task a context has posted: its copy of the callback
    alive,   \* the channel object has not been destroyed
    events   \* history: the events the user callback was given, without
             \* RECV_DATA and without any ERROR after the first

vars == <<inMap, cb, bconn, sock, pc, posted, alive, events>>

SockStates == {"none", "connecting", "open", "reset", "closed"}

\* "pending" is an operation in progress or a timer that runs; "ok", "bad" and
\* "fired" are handlers waiting for a worker; the rest is code being executed.
Steps == {"off", "pending", "ok", "bad", "fired", "estab", "arm", "again",
          "err", "unset", "lookup", "erase", "test", "clear", "shut"}

\* The contexts that keep the object alive.
Holders ==
    {x \in Ops \cup {"rtimer"} : pc[x] # "off"}
    \cup {x \in Apps \cup {"ctimer"} :
             pc[x] \in {"erase", "test", "clear", "shut"}}
    \cup {x \in Contexts : posted[x] # "none"}

Init ==
    /\ inMap = TRUE /\ cb = "user" /\ bconn = FALSE /\ sock = "none"
    /\ pc = [x \in Contexts |-> IF x \in Apps THEN "lookup" ELSE "off"]
    /\ posted = [x \in Contexts |-> "none"]
    /\ alive = TRUE /\ events = <<>>

----------------------------------------------------------------------------
Goto(x, from, to) ==
    /\ pc[x] = from
    /\ pc' = [pc EXCEPT ![x] = to]

Seen(e) == \E i \in 1..Len(events) : events[i] = e

\* An event reaches the user only through a callback that is still set.
Deliver(e) ==
    events' = IF cb = "user" /\ ~(e = "ERROR" /\ Seen(e))
              THEN Append(events, e) ELSE events

\* add_timer returns nullptr, and nothing runs, when the time-out is 0.
Armed(enabled) == IF enabled THEN "pending" ELSE "off"

\* del_timer: cancel() does not stop a handler that is already queued.
Cancelled(s) == IF s = "pending" THEN "off" ELSE s

----------------------------------------------------------------------------
(* Connecting                                                              *)

\* Mutant: bconn_ is set when the connection is asked for.
ConnectSetsConn ==
    /\ inMap /\ sock = "none"
    /\ sock' = "connecting" /\ bconn' = TRUE
    /\ pc' = [pc EXCEPT !["con"] = "pending", !["ctimer"] = Armed(ConnectTimer)]
    /\ UNCHANGED <<inMap, cb, posted, alive, events>>

\* Service::connect and ASIOTcpClientChannel::connect.
Connect ==
    /\ inMap /\ sock = "none"
    /\ sock' = "connecting"
    /\ pc' = [pc EXCEPT !["con"] = "pending", !["ctimer"] = Armed(ConnectTimer)]
    /\ UNCHANGED <<inMap, cb, bconn, posted, alive, events>>

\* The three-way handshake ends one way or the other.
ConnectCompletes ==
    /\ sock = "connecting"
    /\ \/ sock' = "open" /\ Goto("con", "pending", "ok")
       \/ sock' = "reset" /\ Goto("con", "pending", "bad")
    /\ UNCHANGED <<inMap, cb, bconn, posted, alive, events>>

\* con_handle without an error, up to `bconn_ = true'.
OnConnected ==
    /\ pc["con"] = "ok"
    /\ pc' = [pc EXCEPT !["con"] = "estab", !["ctimer"] = Cancelled(@)]
    /\ bconn' = TRUE
    /\ UNCHANGED <<inMap, cb, sock, posted, alive, events>>

OnConnectFail ==
    /\ pc["con"] = "bad"
    /\ pc' = [pc EXCEPT !["con"] = "err", !["ctimer"] = Cancelled(@)]
    /\ UNCHANGED <<inMap, cb, bconn, sock, posted, alive, events>>

Established ==
    /\ Goto("con", "estab", "arm")
    /\ Deliver("ESTABLISH")
    /\ UNCHANGED <<inMap, cb, bconn, sock, posted, alive>>

\* async_recv called at the end of con_handle.
FirstRecv ==
    /\ pc["con"] = "arm"
    /\ pc' = IF bconn
             THEN [pc EXCEPT !["con"] = "off", !["recv"] = "pending",
                             !["rtimer"] = Armed(RecvTimer)]
             ELSE [pc EXCEPT !["con"] = "err"]
    /\ UNCHANGED <<inMap, cb, bconn, sock, posted, alive, events>>

----------------------------------------------------------------------------
(* Sending and receiving                                                   *)

\* Service::send / send_cb on a handle whose connection the user has seen.
StartSend ==
    /\ inMap /\ Seen("ESTABLISH")
    /\ Goto("send", "off", IF bconn THEN "pending" ELSE "err")
    /\ UNCHANGED <<inMap, cb, bconn, sock, posted, alive, events>>

\* A read or write completes; it fails once the socket is closed or reset.
Completes(o) ==
    /\ \/ sock = "open" /\ Goto(o, "pending", "ok")
       \/ Goto(o, "pending", "bad")
    /\ UNCHANGED <<inMap, cb, bconn, sock, posted, alive, events>>

\* The peer resets the connection: a later shutdown() will throw.
PeerReset ==
    /\ sock = "open" /\ bconn
    /\ sock' = "reset"
    /\ UNCHANGED <<inMap, cb, bconn, pc, posted, alive, events>>

\* The handler of a read or write that failed raises ERROR.
OnFail(o) ==
    /\ pc[o] = "bad"
    /\ pc' = [pc EXCEPT ![o] = "err",
                        !["rtimer"] = IF o = "recv" THEN Cancelled(@) ELSE @]
    /\ UNCHANGED <<inMap, cb, bconn, sock, posted, alive, events>>

\* recv_handler gives the data to the user and reads again.
OnRecv ==
    /\ pc["recv"] = "ok"
    /\ pc' = [pc EXCEPT !["recv"] = "again", !["rtimer"] = Cancelled(@)]
    /\ UNCHANGED <<inMap, cb, bconn, sock, posted, alive, events>>

\* send_handler ends, or goes on with the rest or the next buffer.
OnSent ==
    /\ \/ Goto("send", "ok", "off")
       \/ Goto("send", "ok", "again")
    /\ UNCHANGED <<inMap, cb, bconn, sock, posted, alive, events>>

\* async_recv / async_send from within a handler; a read whose predecessor's
\* timer handler is still queued gets a timer of its own afterwards.
Again(o) ==
    /\ pc[o] = "again"
    /\ o = "recv" => pc["rtimer"] = "off"
    /\ pc' = IF bconn
             THEN [pc EXCEPT ![o] = "pending",
                             !["rtimer"] = IF o = "recv" THEN Armed(RecvTimer) ELSE @]
             ELSE [pc EXCEPT ![o] = "err"]
    /\ UNCHANGED <<inMap, cb, bconn, sock, posted, alive, events>>

\* A running timer expires and its handler is queued; the handler raises the
\* time-out ERROR.
Expires(x) ==
    /\ Goto(x, "pending", "fired")
    /\ UNCHANGED <<inMap, cb, bconn, sock, posted, alive, events>>

OnTimeout(x) ==
    /\ Goto(x, "fired", "err")
    /\ UNCHANGED <<inMap, cb, bconn, sock, posted, alive, events>>

----------------------------------------------------------------------------
(* ERROR events and HnwBase_Close                                          *)

\* EVENT_ERR_CB: the user callback runs first (Service::event_cb).
RaiseError(x) ==
    /\ Goto(x, "err", "unset")
    /\ Deliver("ERROR")
    /\ UNCHANGED <<inMap, cb, bconn, sock, posted, alive>>

\* Mutant: the callback is left in place before the close.
UnsetCbForgotten(x) ==
    /\ Goto(x, "unset", "lookup")
    /\ UNCHANGED <<inMap, cb, bconn, sock, posted, alive, events>>

\* HnwBase_SetEvntCB(handle, nullptr) finds the channel only in the map.
UnsetCb(x) ==
    /\ Goto(x, "unset", "lookup")
    /\ cb' = IF inMap THEN "null" ELSE cb
    /\ UNCHANGED <<inMap, bconn, sock, posted, alive, events>>

\* Service::close: get_channel.
Lookup(x) ==
    /\ x \in Apps => EarlyClose \/ Seen("ESTABLISH")
    /\ Goto(x, "lookup", IF inMap THEN "erase" ELSE "off")
    /\ UNCHANGED <<inMap, cb, bconn, sock, posted, alive, events>>

\* Service::close: del_channel.
Erase(x) ==
    /\ Goto(x, "erase", "test")
    /\ inMap' = FALSE
    /\ UNCHANGED <<cb, bconn, sock, posted, alive, events>>

\* ASIOTcpClientChannel::close: `if (bconn_)', else EMPTY_SOCKET.
TestConn(x) ==
    /\ Goto(x, "test", IF bconn THEN "clear" ELSE "off")
    /\ UNCHANGED <<inMap, cb, bconn, sock, posted, alive, events>>

\* Mutant: bconn_ stays set.
ClearConnForgotten(x) ==
    /\ Goto(x, "clear", "shut")
    /\ posted' = [posted EXCEPT ![x] = cb]
    /\ UNCHANGED <<inMap, cb, bconn, sock, alive, events>>

\* ... `bconn_ = false' and the posted CLOSED task with its copy of event_cb_.
ClearConn(x) ==
    /\ Goto(x, "clear", "shut")
    /\ bconn' = FALSE
    /\ posted' = [posted EXCEPT ![x] = cb]
    /\ UNCHANGED <<inMap, cb, sock, alive, events>>

\* Mutant: the socket is shut down and not closed, its operations stay pending.
ShutdownLeavesOpen(x) ==
    /\ Goto(x, "shut", "off")
    /\ UNCHANGED <<inMap, cb, bconn, sock, posted, alive, events>>

\* ... and the socket.  shutdown() throws on a socket that is closed already
\* or was reset: close() is not reached, and the ERROR event it raises finds
\* no handle in the map, so it only reaches the user.
Shutdown(x) ==
    /\ Goto(x, "shut", "off")
    /\ IF sock = "open"
       THEN sock' = "closed" /\ UNCHANGED events
       ELSE UNCHANGED sock /\ Deliver("ERROR")
    /\ UNCHANGED <<inMap, cb, bconn, posted, alive>>

\* The posted task: CLOSED goes to the callback copied when it was posted.
RunPosted(x) ==
    /\ posted[x] # "none"
    /\ posted' = [posted EXCEPT ![x] = "none"]
    /\ events' = IF posted[x] = "user" THEN Append(events, "CLOSED") ELSE events
    /\ UNCHANGED <<inMap, cb, bconn, sock, pc, alive>>

\* The last reference goes away and the destructor runs.
Destroy ==
    /\ alive /\ ~inMap /\ Holders = {}
    /\ alive' = FALSE
    /\ UNCHANGED <<inMap, cb, bconn, sock, pc, posted, events>>

----------------------------------------------------------------------------
CloseStep(x) ==
    \/ RaiseError(x) \/ UnsetCb(x) \/ Lookup(x) \/ Erase(x)
    \/ TestConn(x) \/ ClearConn(x) \/ Shutdown(x) \/ RunPosted(x)

\* What the workers do: the handlers that are ready, and what they lead to.
Handlers ==
    \/ OnConnected \/ OnConnectFail \/ Established \/ FirstRecv
    \/ OnRecv \/ OnSent
    \/ \E o \in {"recv", "send"} : OnFail(o) \/ Again(o)
    \/ \E x \in Timers : OnTimeout(x)

Network ==
    \/ ConnectCompletes \/ PeerReset
    \/ \E o \in {"recv", "send"} : Completes(o)
    \/ \E x \in Timers : Expires(x)

Next ==
    \/ Connect \/ StartSend \/ Network \/ Handlers
    \/ \E x \in Contexts : CloseStep(x)
    \/ Destroy

\* Workers run what is ready, application threads inside HnwBase_Close go on,
\* the connection attempt ends, and the operations of a socket that is closed
\* or reset are completed.  Nobody has to close or to send, and an open
\* connection may stay silent for ever.
Fairness ==
    /\ WF_vars(Handlers) /\ WF_vars(ConnectCompletes) /\ WF_vars(Destroy)
    /\ \A x \in Ops \cup Timers : WF_vars(CloseStep(x))
    /\ \A x \in Apps : WF_vars(CloseStep(x) /\ (pc[x] # "lookup" \/ posted[x] # "none"))
    /\ \A o \in {"recv", "send"} : WF_vars(Completes(o) /\ sock \in {"closed", "reset"})

Spec == Init /\ [][Next]_vars
FairSpec == Spec /\ Fairness

----------------------------------------------------------------------------
\* bconn_ is never set before the socket is connected.
TypeOK ==
    /\ inMap \in BOOLEAN /\ bconn \in BOOLEAN /\ alive \in BOOLEAN
    /\ cb \in {"user", "null"}
    /\ sock \in SockStates
    /\ pc \in [Contexts -> Steps]
    /\ posted \in [Contexts -> {"none", "user", "null"}]
    /\ events \in Seq({"ESTABLISH", "ERROR", "CLOSED"})
    /\ bconn \/ pc["con"] = "ok" => sock \notin {"none", "connecting"}

Closing(x) == pc[x] \in {"erase", "test", "clear"}

\* Once the handle is out of the map nobody can close the channel any more, so
\* a connection must not survive there: either it is down or the close that
\* took the handle out is about to take it down.
NoOrphanConnection == ~inMap /\ bconn => \E x \in Contexts : Closing(x)

\* The destructor calls close(), which posts with shared_from_this() when the
\* channel is connected; that throws in a destructor.  So the last reference
\* must never go away with bconn_ set.
DestroyedDisconnected == ~alive => ~bconn

Count(e) == Cardinality({i \in 1..Len(events) : events[i] = e})

\* However the closes of the error paths and of one application thread race,
\* the user is told at most once that the channel is closed.
ClosedAtMostOnce == Count("CLOSED") <= 1

\* A channel that leaves the map is destroyed in the end: no handler chain and
\* no reference cycle keeps it (and its socket) for ever.
RemovedIsDestroyed == ~inMap ~> ~alive
=============================================================================
