---------------------------- MODULE HttpServer -----------------------------
(***************************************************************************)
(* An HTTP or HTTPS server: the accept loops of ASIOTcpServerChannel and   *)
(* ASIOSSLServerChannel, the channel map of hnw::Service, and the session  *)
(* map of http::Service, which learns of connections from ACCEPT events.   *)
(*                                                                         *)
(* accept_num loops run on the io_service's workers while the application  *)
(* closes the server or single connections, and peers come and go.  The    *)
(* first failing loop closes the server; the others then fail too.  The    *)
(* close path of a client channel is one step here: TcpChannel cuts it     *)
(* into its parts.                                                         *)
(***************************************************************************)
EXTENDS Naturals, FiniteSets

CONSTANTS
    Srv,      \* the handle of the server
    Clients,  \* the handles of the connections that may arrive
    Loops,    \* the accept_num accept loops
    Apps,     \* application threads, each closes the server at most once
    Nobody    \* no connection

ASSUME ServerAssumption ==
    /\ Srv \notin Clients /\ Nobody \notin Clients
    /\ Loops \cap Apps = {}

Handles == Clients \cup {Srv}
Contexts == Loops \cup Apps

VARIABLES
    ssl,        \* an HTTPS server
    channelMap, \* channel_map_ of hnw::Service
    sessionMap, \* session_map_ of http::Service
    heard,      \* channels whose event_cb_ leads to http::Service::event_cb
    listening,  \* acceptor_.is_open()
    pc,         \* where each context is
    cli,        \* the connection a loop is handling
    muted,      \* loops whose next client copied a cleared callback
    conn,       \* clients with bconn_ set
    reading,    \* clients with an async_recv in progress
    posted,     \* closers with a posted CLOSED of the server, and its callback
    closing,    \* clients with a posted CLOSED that will be heard
    told        \* connections the application has been told of (ACCEPT)

mapVars == <<channelMap, sessionMap, heard>>
clientVars == <<conn, reading, closing, told>>
vars == <<ssl, mapVars, listening, pc, cli, muted, clientVars, posted>>

\* The steps of async_one_accept and its handler, and of the ERROR dispatch
\* with Service::close.
Steps == {"off", "arm", "pending", "before", "add", "event", "after",
          "err", "unset", "lookup", "erase", "close"}

\* HnwHttp_Start of a server has made the channel and its session (which sets
\* the callback), and calls accept(), which starts the loops one by one.  When
\* the address cannot be bound it leaves nothing behind.
Init ==
    /\ ssl \in BOOLEAN
    /\ channelMap = {Srv} /\ sessionMap = {Srv} /\ heard = {Srv}
    /\ listening = TRUE
    /\ pc = [x \in Contexts |-> IF x \in Loops THEN "arm" ELSE "lookup"]
    /\ cli = [l \in Loops |-> Nobody]
    /\ muted = {}
    /\ conn = {} /\ reading = {} /\ closing = {} /\ told = {}
    /\ posted = [x \in Contexts |-> "none"]

Goto(x, from, to) ==
    /\ pc[x] = from
    /\ pc' = [pc EXCEPT ![x] = to]

----------------------------------------------------------------------------
(* Accepting                                                               *)

\* async_one_accept: init_accept gives the new client the callback the server
\* has at this moment.
AsyncOneAccept(l) ==
    /\ Goto(l, "arm", "pending")
    /\ cli' = [cli EXCEPT ![l] = Nobody]
    /\ muted' = IF Srv \in heard THEN muted \ {l} ELSE muted \cup {l}
    /\ UNCHANGED <<mapVars, ssl, listening, clientVars, posted>>

\* A handle that no connection has had.
Fresh(c) ==
    /\ c \notin channelMap \cup sessionMap \cup heard \cup conn
    /\ c \notin reading \cup closing \cup told
    /\ \A l \in Loops : cli[l] # c

\* Mutant: the handler does not keep the client.
AcceptedLosesClient(l, c) ==
    /\ listening /\ Fresh(c)
    /\ Goto(l, "pending", "before")
    /\ UNCHANGED <<mapVars, ssl, listening, cli, muted, clientVars, posted>>

\* A connection arrives.
Accepted(l, c) ==
    /\ listening /\ Fresh(c)
    /\ Goto(l, "pending", "before")
    /\ cli' = [cli EXCEPT ![l] = c]
    /\ heard' = IF l \in muted THEN heard ELSE heard \cup {c}
    /\ UNCHANGED <<channelMap, sessionMap, ssl, listening, muted, clientVars, posted>>

\* Mutant: the loop ends without an ERROR event.
AcceptFailsSilently(l) ==
    /\ Goto(l, "pending", "off")
    /\ UNCHANGED <<mapVars, ssl, listening, cli, muted, clientVars, posted>>

\* async_accept ends with an error; on a closed acceptor it can only do that.
AcceptFails(l) ==
    /\ Goto(l, "pending", "err")
    /\ UNCHANGED <<mapVars, ssl, listening, cli, muted, clientVars, posted>>

BeforeAccept(l) ==
    /\ Goto(l, "before", "add")
    /\ conn' = conn \cup {cli[l]}
    /\ UNCHANGED <<mapVars, ssl, listening, cli, muted, reading, closing, told, posted>>

\* before_accept of an SSL client whose handshake fails.  Its ERROR event is
\* that of a handle nobody knows yet, and the loop goes on with the client.
HandshakeFails(l) ==
    /\ ssl
    /\ Goto(l, "before", "add")
    /\ UNCHANGED <<mapVars, ssl, listening, cli, muted, clientVars, posted>>

\* accept_cb_, i.e. add_channel_to_map.
AddChannelToMap(l) ==
    /\ Goto(l, "add", "event")
    /\ channelMap' = channelMap \cup {cli[l]}
    /\ UNCHANGED <<sessionMap, heard, ssl, listening, cli, muted, clientVars, posted>>

\* Mutant: the application is told, and no session is made.
AcceptEventNoSession(l) ==
    /\ Goto(l, "event", "after")
    /\ told' = IF Srv \in heard THEN told \cup {cli[l]} ELSE told
    /\ UNCHANGED <<mapVars, ssl, listening, cli, muted, conn, reading, closing, posted>>

\* The ACCEPT event.  http::Service::event_cb makes a session for the client
\* (add_session sets the client's callback) and tells the application, unless
\* the server's session is gone: then it closes the server's handle, which
\* left the channel map before the session did.
AcceptEvent(l) ==
    /\ Goto(l, "event", "after")
    /\ IF Srv \in heard /\ Srv \in sessionMap
       THEN /\ sessionMap' = sessionMap \cup {cli[l]}
            /\ heard' = heard \cup {cli[l]}
            /\ told' = told \cup {cli[l]}
       ELSE UNCHANGED <<sessionMap, heard, told>>
    /\ UNCHANGED <<channelMap, ssl, listening, cli, muted, conn, reading, closing, posted>>

----------------------------------------------------------------------------
(* The connections                                                         *)

\* close() of a client clears bconn_; of an SSL client only if shutdown() does
\* not throw.
Disconnected(c) == {conn \ {c}} \cup {d \in {conn} : ssl}

\* An ERROR event of a client: hnw::Service::event_cb clears the callback and
\* closes, so the CLOSED event that follows is not heard.  (For a channel
\* without a session event_cb closes it first, with the same outcome.)
Error(c) ==
    /\ heard' = IF c \in channelMap THEN heard \ {c} ELSE heard
    /\ channelMap' = channelMap \ {c}
    /\ conn' \in IF c \in channelMap THEN Disconnected(c) ELSE {conn}

\* HnwBase_Close on a client.  An SSL client posts no CLOSED.
Close(c) ==
    /\ c \in channelMap
    /\ channelMap' = channelMap \ {c}
    /\ conn' \in Disconnected(c)
    /\ closing' = IF ~ssl /\ c \in conn \cap heard THEN closing \cup {c} ELSE closing

\* Mutant: the connection is not read.
AfterAcceptForgotten(l) ==
    /\ Goto(l, "after", "arm")
    /\ UNCHANGED <<mapVars, ssl, listening, cli, muted, clientVars, posted>>

\* after_accept: async_recv, which raises ERROR when the client is not
\* connected (any more).  The loop goes on with async_one_accept.
AfterAccept(l) ==
    /\ Goto(l, "after", "arm")
    /\ IF cli[l] \in conn
       THEN reading' = reading \cup {cli[l]} /\ UNCHANGED <<channelMap, heard, conn>>
       ELSE Error(cli[l]) /\ UNCHANGED reading
    /\ UNCHANGED <<sessionMap, ssl, listening, cli, muted, closing, told, posted>>

\* The read fails: the peer has hung up, or the channel was closed.
ReadFails(c) ==
    /\ c \in reading
    /\ reading' = reading \ {c}
    /\ Error(c)
    /\ UNCHANGED <<sessionMap, ssl, listening, pc, cli, muted, closing, told, posted>>

\* Data for a channel without a session: event_cb closes it.  Other data is
\* the parser's business.
DropUnknown(c) ==
    /\ c \in reading \cap heard /\ c \notin sessionMap
    /\ Close(c)
    /\ UNCHANGED <<sessionMap, heard, ssl, listening, pc, cli, muted, reading, told, posted>>

\* HnwHttp_Close by the application, or by the session's pump.
CloseClient(c) ==
    /\ c \in told
    /\ Close(c)
    /\ UNCHANGED <<sessionMap, heard, ssl, listening, pc, cli, muted, reading, told, posted>>

\* The posted CLOSED event of a client: del_session.
OnClientClosed(c) ==
    /\ c \in closing
    /\ closing' = closing \ {c}
    /\ sessionMap' = sessionMap \ {c}
    /\ UNCHANGED <<channelMap, heard, ssl, listening, pc, cli, muted, conn, reading,
                   told, posted>>

----------------------------------------------------------------------------
(* Closing the server                                                      *)

\* EVENT_ERR_CB of a loop: the application hears of it if it can, then
\* hnw::Service::event_cb clears the callback (found only in the map) ...
RaiseError(l) ==
    /\ Goto(l, "err", "unset")
    /\ UNCHANGED <<mapVars, ssl, listening, cli, muted, clientVars, posted>>

UnsetCb(l) ==
    /\ Goto(l, "unset", "lookup")
    /\ heard' = IF Srv \in channelMap THEN heard \ {Srv} ELSE heard
    /\ UNCHANGED <<channelMap, sessionMap, ssl, listening, cli, muted, clientVars, posted>>

\* ... and closes: get_channel, del_channel, ASIOTcpServerChannel::close.
Lookup(x) ==
    /\ Goto(x, "lookup", IF Srv \in channelMap THEN "erase" ELSE "off")
    /\ UNCHANGED <<mapVars, ssl, listening, cli, muted, clientVars, posted>>

Erase(x) ==
    /\ Goto(x, "erase", "close")
    /\ channelMap' = channelMap \ {Srv}
    /\ UNCHANGED <<sessionMap, heard, ssl, listening, cli, muted, clientVars, posted>>

\* Mutant: the acceptor stays open.
CloseAcceptorForgotten(x) ==
    /\ Goto(x, "close", "off")
    /\ UNCHANGED <<mapVars, ssl, listening, cli, muted, clientVars, posted>>

CloseAcceptor(x) ==
    /\ Goto(x, "close", "off")
    /\ listening' = FALSE
    /\ posted' = [posted EXCEPT ![x] =
                    IF ~listening THEN "none" ELSE IF Srv \in heard THEN "svc" ELSE "null"]
    /\ UNCHANGED <<ssl, mapVars, cli, muted, clientVars>>

\* The posted CLOSED event of the server: on_disconnect and del_session.
OnServerClosed(x) ==
    /\ posted[x] # "none"
    /\ posted' = [posted EXCEPT ![x] = "none"]
    /\ sessionMap' = IF posted[x] = "svc" THEN sessionMap \ {Srv} ELSE sessionMap
    /\ UNCHANGED <<channelMap, heard, ssl, listening, pc, cli, muted, clientVars>>

----------------------------------------------------------------------------
LoopStep(l) ==
    \/ AsyncOneAccept(l) \/ BeforeAccept(l) \/ HandshakeFails(l)
    \/ AddChannelToMap(l) \/ AcceptEvent(l) \/ AfterAccept(l) \/ RaiseError(l) \/ UnsetCb(l)

CloseStep(x) == Lookup(x) \/ Erase(x) \/ CloseAcceptor(x) \/ OnServerClosed(x)

ClientStep(c) == ReadFails(c) \/ DropUnknown(c) \/ CloseClient(c) \/ OnClientClosed(c)

Next ==
    \/ \E l \in Loops : LoopStep(l) \/ AcceptFails(l)
    \/ \E l \in Loops, c \in Clients : Accepted(l, c)
    \/ \E x \in Contexts : CloseStep(x)
    \/ \E c \in Clients : ClientStep(c)

\* Handlers that are ready are run, an accept on a closed acceptor ends, an
\* application thread inside Service::close goes on, and every peer ends its
\* handshake and hangs up in the end.  Nobody has to connect or to close.
Fairness ==
    /\ \A l \in Loops : /\ WF_vars(LoopStep(l))
                        /\ WF_vars(CloseStep(l))
                        /\ WF_vars(~listening /\ AcceptFails(l))
    /\ \A x \in Apps : WF_vars(pc[x] # "lookup" /\ CloseStep(x))
    /\ \A c \in Clients : WF_vars(ReadFails(c)) /\ WF_vars(OnClientClosed(c))

Spec == Init /\ [][Next]_vars
FairSpec == Spec /\ Fairness

----------------------------------------------------------------------------
TypeOK ==
    /\ ssl \in BOOLEAN
    /\ channelMap \subseteq Handles /\ sessionMap \subseteq Handles
    /\ heard \subseteq Handles /\ listening \in BOOLEAN
    /\ pc \in [Contexts -> Steps]
    /\ cli \in [Loops -> Clients \cup {Nobody}]
    /\ muted \subseteq Loops
    /\ conn \subseteq Clients /\ reading \subseteq Clients
    /\ closing \subseteq Clients /\ told \subseteq Clients
    /\ posted \in [Contexts -> {"none", "svc", "null"}]

\* A server whose handle is valid has all of its accept loops: a loop ends
\* only after the ERROR it raised has taken the handle out of the channel map,
\* whatever the other loops and the application do.
ServerAccepts ==
    Srv \in channelMap => \A l \in Loops : pc[l] # "off"

\* While the server's handle is valid its session is there, so that event_cb
\* takes no ACCEPT for one of an unknown server.
ServerHasSession == Srv \in channelMap => Srv \in sessionMap

\* A connection the application was told of and whose channel is there has its
\* session, so that an answer finds it, and its events are heard.
ToldHasSession == told \cap channelMap \subseteq sessionMap \cap heard

\* Whoever event_cb looks up in session_map_ while its channel is there, server
\* or reported connection, is found.
SessionsFound == ServerHasSession /\ ToldHasSession

\* Once its handle is gone the server stops: the acceptor is closed and every
\* loop ends.
ClosedServerStops ==
    (Srv \in sessionMap /\ Srv \notin channelMap)
        ~> (~listening /\ \A l \in Loops : pc[l] = "off")

\* No connection stays in the channel map unknown to the application, though
\* the server may be closed between accept and ACCEPT.
UnknownIsDropped ==
    \A c \in Clients : c \in channelMap ~> (c \in told \/ c \notin channelMap)
=============================================================================
