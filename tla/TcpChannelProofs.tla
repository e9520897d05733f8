-------------------------- MODULE TcpChannelProofs --------------------------
(***************************************************************************)
(* What holds of TcpChannel for every number of application threads.       *)
(***************************************************************************)
EXTENDS TcpChannel, FiniteSetTheorems, TLAPS

LEMMA ContextNames ==
    /\ {"con", "recv", "send", "ctimer", "rtimer"} \subseteq Contexts
    /\ \A x \in Apps : x \notin {"con", "recv", "send", "ctimer", "rtimer"}
BY ChannelAssumption DEF Contexts, Ops, Timers

LEMMA TypeInit == Init => TypeOK
<1> SUFFICES ASSUME Init PROVE TypeOK
  OBVIOUS
<1>1. events \in Seq({"ESTABLISH", "ERROR", "CLOSED"})
  BY DEF Init
<1>2. pc \in [Contexts -> Steps] /\ posted \in [Contexts -> {"none", "user", "null"}]
  BY DEF Init, Steps
<1>3. ~(bconn \/ pc["con"] = "ok")
  <2>1. pc["con"] = "off"
    BY ContextNames DEF Init
  <2> QED BY <2>1 DEF Init
<1> QED BY <1>1, <1>2, <1>3 DEF Init, TypeOK, SockStates

LEMMA DeliverType ==
    ASSUME TypeOK, NEW e \in {"ESTABLISH", "ERROR", "CLOSED"}, Deliver(e)
    PROVE  events' \in Seq({"ESTABLISH", "ERROR", "CLOSED"})
BY DEF TypeOK, Deliver

LEMMA CancelledType == \A s \in Steps : Cancelled(s) \in Steps
BY DEF Cancelled, Steps

\* Every step of a channel keeps the types of its state.
LEMMA TypeStep == TypeOK /\ [Next]_vars => TypeOK'
<1> SUFFICES ASSUME TypeOK, [Next]_vars PROVE TypeOK'
  OBVIOUS
<1> USE ContextNames, ChannelAssumption DEF TypeOK, SockStates, Steps, Goto
<1>1. CASE Connect BY <1>1 DEF Connect, Armed
<1>2. CASE StartSend BY <1>2 DEF StartSend
<1>3. CASE Network
  <2>1. CASE ConnectCompletes BY <2>1 DEF ConnectCompletes
  <2>2. CASE PeerReset BY <2>2 DEF PeerReset
  <2>3. ASSUME NEW o \in {"recv", "send"}, Completes(o) PROVE TypeOK'
    BY <2>3 DEF Completes
  <2>4. ASSUME NEW x \in Timers, Expires(x) PROVE TypeOK'
    BY <2>4 DEF Expires
  <2> QED BY <1>3, <2>1, <2>2, <2>3, <2>4 DEF Network
<1>4. CASE Handlers
  <2>1. CASE OnConnected BY <2>1 DEF OnConnected, Cancelled
  <2>2. CASE OnConnectFail BY <2>2 DEF OnConnectFail, Cancelled
  <2>3. CASE Established BY <2>3, DeliverType DEF Established
  <2>4. CASE FirstRecv BY <2>4 DEF FirstRecv, Armed
  <2>5. CASE OnRecv BY <2>5 DEF OnRecv, Cancelled
  <2>6. CASE OnSent BY <2>6 DEF OnSent
  <2>7. ASSUME NEW o \in {"recv", "send"}, OnFail(o) PROVE TypeOK'
    BY <2>7 DEF OnFail, Cancelled
  <2>8. ASSUME NEW o \in {"recv", "send"}, Again(o) PROVE TypeOK'
    BY <2>8 DEF Again, Armed
  <2>9. ASSUME NEW x \in Timers, OnTimeout(x) PROVE TypeOK'
    BY <2>9 DEF OnTimeout
  <2> QED BY <1>4, <2>1, <2>2, <2>3, <2>4, <2>5, <2>6, <2>7, <2>8, <2>9 DEF Handlers
<1>5. ASSUME NEW x \in Contexts, CloseStep(x) PROVE TypeOK'
  <2>1. CASE RaiseError(x) BY <2>1, DeliverType DEF RaiseError
  <2>2. CASE UnsetCb(x) BY <2>2 DEF UnsetCb
  <2>3. CASE Lookup(x) BY <2>3 DEF Lookup
  <2>4. CASE Erase(x) BY <2>4 DEF Erase
  <2>5. CASE TestConn(x) BY <2>5 DEF TestConn
  <2>6. CASE ClearConn(x) BY <2>6 DEF ClearConn
  <2>7. CASE Shutdown(x) BY <2>7, DeliverType DEF Shutdown
  <2>8. CASE RunPosted(x) BY <2>8 DEF RunPosted
  <2> QED BY <1>5, <2>1, <2>2, <2>3, <2>4, <2>5, <2>6, <2>7, <2>8 DEF CloseStep
<1>6. CASE Destroy BY <1>6 DEF Destroy
<1>7. CASE UNCHANGED vars BY <1>7 DEF vars
<1> QED BY <1>1, <1>2, <1>3, <1>4, <1>5, <1>6, <1>7 DEF Next

\* A channel's state always has its declared shape, and bconn_ is set only once
\* the socket has been connected.
THEOREM TypeCorrect == Spec => []TypeOK
BY TypeInit, TypeStep, PTL DEF Spec

----------------------------------------------------------------------------
(* Without a connect timer, and with applications that close only what     *)
(* they have seen connected                                                *)

\* Until the user has been told of the connection.
Early == sock = "none" \/ pc["con"] \in {"pending", "ok", "bad", "estab"}

\* While it is early nobody but con_handle touches the channel.
EarlyInv ==
    /\ sock = "none" => pc["con"] = "off"
    /\ pc["con"] = "arm" => pc["recv"] = "off" /\ pc["rtimer"] = "off"
    /\ Early => /\ inMap /\ events = <<>>
                /\ \A x \in Apps : pc[x] = "lookup"
                /\ \A x \in {"recv", "send", "ctimer", "rtimer"} : pc[x] = "off"
                /\ \A x \in Contexts : posted[x] = "none"

ChannelInv ==
    /\ TypeOK /\ EarlyInv /\ NoOrphanConnection /\ DestroyedDisconnected
    /\ ~alive => ~inMap

Patient == ~ConnectTimer /\ ~EarlyClose

\* Nobody gets hold of the channel before the user was told of it.
LEMMA EarlyStep ==
    ASSUME Patient, TypeOK, EarlyInv, [Next]_vars
    PROVE  EarlyInv'
<1> USE ContextNames, ChannelAssumption DEF TypeOK, EarlyInv, Early, Goto, Seen,
        Contexts, Ops, Timers
<1>1. CASE Connect BY <1>1 DEF Connect, Armed, Patient
<1>2. CASE StartSend BY <1>2 DEF StartSend
<1>3. CASE Network
  <2>1. CASE ConnectCompletes BY <2>1 DEF ConnectCompletes
  <2>2. CASE PeerReset BY <2>2 DEF PeerReset
  <2>3. ASSUME NEW o \in {"recv", "send"}, Completes(o) PROVE EarlyInv'
    BY <2>3 DEF Completes
  <2>4. ASSUME NEW x \in Timers, Expires(x) PROVE EarlyInv'
    BY <2>4 DEF Expires
  <2> QED BY <1>3, <2>1, <2>2, <2>3, <2>4 DEF Network
<1>4. CASE Handlers
  <2>1. CASE OnConnected BY <2>1 DEF OnConnected, Cancelled
  <2>2. CASE OnConnectFail BY <2>2 DEF OnConnectFail, Cancelled
  <2>3. CASE Established BY <2>3 DEF Established, Deliver
  <2>4. CASE FirstRecv BY <2>4 DEF FirstRecv, Armed
  <2>5. CASE OnRecv BY <2>5 DEF OnRecv, Cancelled
  <2>6. CASE OnSent BY <2>6 DEF OnSent
  <2>7. ASSUME NEW o \in {"recv", "send"}, OnFail(o) PROVE EarlyInv'
    BY <2>7 DEF OnFail, Cancelled
  <2>8. ASSUME NEW o \in {"recv", "send"}, Again(o) PROVE EarlyInv'
    BY <2>8 DEF Again
  <2>9. ASSUME NEW x \in Timers, OnTimeout(x) PROVE EarlyInv'
    BY <2>9 DEF OnTimeout
  <2> QED BY <1>4, <2>1, <2>2, <2>3, <2>4, <2>5, <2>6, <2>7, <2>8, <2>9 DEF Handlers
<1>5. ASSUME NEW x \in Contexts, CloseStep(x) PROVE EarlyInv'
  <2>1. CASE RaiseError(x) BY <2>1 DEF RaiseError, Deliver
  <2>2. CASE UnsetCb(x) BY <2>2 DEF UnsetCb
  <2>3. CASE Lookup(x) BY <2>3 DEF Lookup, Patient
  <2>4. CASE Erase(x) BY <2>4 DEF Erase
  <2>5. CASE TestConn(x) BY <2>5 DEF TestConn
  <2>6. CASE ClearConn(x) BY <2>6 DEF ClearConn
  <2>7. CASE Shutdown(x) BY <2>7 DEF Shutdown, Deliver
  <2>8. CASE RunPosted(x) BY <2>8 DEF RunPosted
  <2> QED BY <1>5, <2>1, <2>2, <2>3, <2>4, <2>5, <2>6, <2>7, <2>8 DEF CloseStep
<1>6. CASE Destroy BY <1>6 DEF Destroy
<1>7. CASE UNCHANGED vars BY <1>7 DEF vars
<1> QED BY <1>1, <1>2, <1>3, <1>4, <1>5, <1>6, <1>7 DEF Next

\* bconn_ goes up only while the handle is in the map; whoever takes the handle
\* out stays between erase and clear until bconn_ is down.
LEMMA OrphanStep ==
    ASSUME Patient, TypeOK, EarlyInv, NoOrphanConnection, [Next]_vars
    PROVE  NoOrphanConnection'
<1> USE ContextNames, ChannelAssumption DEF TypeOK, NoOrphanConnection, Closing, Goto
<1>1. CASE Connect BY <1>1 DEF Connect
<1>2. CASE StartSend BY <1>2 DEF StartSend
<1>3. CASE Network
  <2>1. CASE ConnectCompletes BY <2>1 DEF ConnectCompletes
  <2>2. CASE PeerReset BY <2>2 DEF PeerReset
  <2>3. ASSUME NEW o \in {"recv", "send"}, Completes(o) PROVE NoOrphanConnection'
    BY <2>3 DEF Completes
  <2>4. ASSUME NEW x \in Timers, Expires(x) PROVE NoOrphanConnection'
    BY <2>4 DEF Expires
  <2> QED BY <1>3, <2>1, <2>2, <2>3, <2>4 DEF Network
<1>4. CASE Handlers
  <2>1. CASE OnConnected BY <2>1 DEF OnConnected, EarlyInv, Early, Cancelled
  <2>2. CASE OnConnectFail BY <2>2 DEF OnConnectFail, Cancelled
  <2>3. CASE Established BY <2>3 DEF Established
  <2>4. CASE FirstRecv BY <2>4 DEF FirstRecv, EarlyInv, Armed
  <2>5. CASE OnRecv BY <2>5 DEF OnRecv, Cancelled
  <2>6. CASE OnSent BY <2>6 DEF OnSent
  <2>7. ASSUME NEW o \in {"recv", "send"}, OnFail(o) PROVE NoOrphanConnection'
    BY <2>7 DEF OnFail, Cancelled
  <2>8. ASSUME NEW o \in {"recv", "send"}, Again(o) PROVE NoOrphanConnection'
    BY <2>8 DEF Again
  <2>9. ASSUME NEW x \in Timers, OnTimeout(x) PROVE NoOrphanConnection'
    BY <2>9 DEF OnTimeout
  <2> QED BY <1>4, <2>1, <2>2, <2>3, <2>4, <2>5, <2>6, <2>7, <2>8, <2>9 DEF Handlers
<1>5. ASSUME NEW x \in Contexts, CloseStep(x) PROVE NoOrphanConnection'
  <2>1. CASE RaiseError(x) BY <2>1 DEF RaiseError
  <2>2. CASE UnsetCb(x) BY <2>2 DEF UnsetCb
  <2>3. CASE Lookup(x) BY <2>3 DEF Lookup
  <2>4. CASE Erase(x) BY <2>4 DEF Erase
  <2>5. CASE TestConn(x) BY <2>5 DEF TestConn
  <2>6. CASE ClearConn(x) BY <2>6 DEF ClearConn
  <2>7. CASE Shutdown(x) BY <2>7 DEF Shutdown
  <2>8. CASE RunPosted(x) BY <2>8 DEF RunPosted
  <2> QED BY <1>5, <2>1, <2>2, <2>3, <2>4, <2>5, <2>6, <2>7, <2>8 DEF CloseStep
<1>6. CASE Destroy BY <1>6 DEF Destroy
<1>7. CASE UNCHANGED vars BY <1>7 DEF vars
<1> QED BY <1>1, <1>2, <1>3, <1>4, <1>5, <1>6, <1>7 DEF Next

\* A context between erase and clear holds the channel, so the channel is not
\* destroyed under it.
LEMMA ClosingHolds == \A x \in Contexts : Closing(x) => x \in Holders
BY DEF Closing, Holders, Contexts, Timers, Ops

LEMMA DestroyStep ==
    ASSUME Patient, ChannelInv, [Next]_vars
    PROVE  DestroyedDisconnected' /\ (~alive' => ~inMap')
<1> USE DEF ChannelInv, DestroyedDisconnected
<1>1. CASE Destroy BY <1>1, ClosingHolds DEF Destroy, NoOrphanConnection
<1>2. CASE OnConnected BY <1>2 DEF OnConnected, EarlyInv, Early
<1>3. CASE ~Destroy /\ ~OnConnected
  <2>1. alive' = alive /\ (inMap' => inMap) /\ (bconn' => bconn)
    BY <1>3 DEF Next, vars, Connect, StartSend, Network, ConnectCompletes, PeerReset,
         Completes, Expires, Handlers, OnConnectFail, Established, FirstRecv,
         OnRecv, OnSent, OnFail, Again, OnTimeout, CloseStep, RaiseError,
         UnsetCb, Lookup, Erase, TestConn, ClearConn, Shutdown, RunPosted
  <2> QED BY <2>1
<1> QED BY <1>1, <1>2, <1>3

LEMMA ChannelInit == Init => ChannelInv
<1> SUFFICES ASSUME Init PROVE ChannelInv
  OBVIOUS
<1>1. TypeOK
  BY TypeInit
<1>2. EarlyInv
  <2>1. \A x \in Contexts : pc[x] = IF x \in Apps THEN "lookup" ELSE "off"
    BY DEF Init
  <2>2. Apps \subseteq Contexts
    BY DEF Contexts
  <2>3. \A x \in {"con", "recv", "send", "ctimer", "rtimer"} : pc[x] = "off"
    BY <2>1, ContextNames
  <2>4. \A x \in Contexts : posted[x] = "none"
    BY DEF Init
  <2> QED BY <2>1, <2>2, <2>3, <2>4 DEF Init, EarlyInv, Early
<1> QED BY <1>1, <1>2 DEF Init, ChannelInv, NoOrphanConnection, DestroyedDisconnected

\* For any number of threads that close a connected channel while its read and
\* write chains fail: no connection stays up outside the channel map, and the
\* destructor never runs on a connected channel (its close() would call
\* shared_from_this() there).  That rests on the absence of a connect time-out
\* and of a close before the connection is reported: either takes the handle
\* out of the map while bconn_ is not set yet, and the attempt goes on.
THEOREM ChannelCleanup ==
    ASSUME Patient
    PROVE  Spec => [](NoOrphanConnection /\ DestroyedDisconnected)
<1>1. ChannelInv /\ [Next]_vars => ChannelInv'
  BY Patient, TypeStep, EarlyStep, OrphanStep, DestroyStep DEF ChannelInv
<1>2. ChannelInv => NoOrphanConnection /\ DestroyedDisconnected
  BY DEF ChannelInv
<1> QED BY ChannelInit, <1>1, <1>2, PTL DEF Spec

\* In particular a handle that is gone leaves no connection behind.
THEOREM NoConnectionOutsideMap ==
    ASSUME Patient
    PROVE  Spec => []NoOrphanConnection
<1>1. Spec => [](NoOrphanConnection /\ DestroyedDisconnected)
  BY Patient, ChannelCleanup
<1> QED BY <1>1, PTL

----------------------------------------------------------------------------
(* CLOSED is reported once, with all timers and closes at any time         *)

\* At most one thread of the application closes the channel.
SingleCloser == \A a, b \in Apps : a = b

\* Who closes because of an ERROR has cleared the callback before: one that was
\* too late for that finds no handle to close either.
Muted(x) ==
    /\ pc[x] \in {"erase", "test", "clear"} \/ (pc[x] = "lookup" /\ inMap) => cb = "null"
    /\ posted[x] # "user"

\* A thread of the application is before, in or behind its only close.
AppClose(a) ==
    /\ pc[a] \in {"lookup", "erase", "test", "clear", "shut", "off"}
    /\ pc[a] \in {"lookup", "erase", "test", "clear"} => posted[a] = "none" /\ ~Seen("CLOSED")
    /\ posted[a] = "user" => ~Seen("CLOSED")

Once == \A i, j \in 1..Len(events) : events[i] = "CLOSED" /\ events[j] = "CLOSED" => i = j

CloseInv ==
    /\ TypeOK
    /\ \A x \in Ops \cup Timers : Muted(x)
    /\ \A a \in Apps : AppClose(a)
    /\ Once

\* An event of another kind changes nothing about CLOSED.
LEMMA OtherEvent ==
    ASSUME TypeOK, Once, NEW e \in {"ESTABLISH", "ERROR"},
           events' = events \/ events' = Append(events, e)
    PROVE  Once' /\ Seen("CLOSED")' = Seen("CLOSED")
<1>1. CASE events' = events BY <1>1 DEF Once, Seen
<1>2. CASE events' = Append(events, e)
  <2>1. /\ Len(events) \in Nat /\ Len(events') = Len(events) + 1
        /\ \A i \in 1..Len(events) : events'[i] = events[i]
        /\ events'[Len(events) + 1] = e
    BY <1>2 DEF TypeOK
  <2>2. \A i \in 1..Len(events') : events'[i] = "CLOSED" => i \in 1..Len(events) /\ events[i] = "CLOSED"
    BY <2>1
  <2> QED BY <2>1, <2>2 DEF Once, Seen
<1> QED BY <1>1, <1>2

\* The first CLOSED.
LEMMA FirstClosed ==
    ASSUME TypeOK, ~Seen("CLOSED"), events' = Append(events, "CLOSED")
    PROVE  Once'
<1>1. /\ Len(events) \in Nat /\ Len(events') = Len(events) + 1
      /\ \A i \in 1..Len(events) : events'[i] = events[i]
  BY DEF TypeOK
<1>2. \A i \in 1..Len(events') : events'[i] = "CLOSED" => i = Len(events) + 1
  BY <1>1 DEF Seen
<1> QED BY <1>2 DEF Once

LEMMA MutedStep ==
    ASSUME CloseInv, [Next]_vars, NEW y \in Ops \cup Timers
    PROVE  Muted(y)'
<1> USE ContextNames, ChannelAssumption DEF CloseInv, TypeOK, Steps, Goto, Muted, Ops, Timers, Contexts
<1>1. CASE Connect BY <1>1 DEF Connect, Armed
<1>2. CASE StartSend BY <1>2 DEF StartSend
<1>3. CASE Network
  <2>1. CASE ConnectCompletes BY <2>1 DEF ConnectCompletes
  <2>2. CASE PeerReset BY <2>2 DEF PeerReset
  <2>3. ASSUME NEW o \in {"recv", "send"}, Completes(o) PROVE Muted(y)'
    BY <2>3 DEF Completes
  <2>4. ASSUME NEW x \in Timers, Expires(x) PROVE Muted(y)'
    BY <2>4 DEF Expires
  <2> QED BY <1>3, <2>1, <2>2, <2>3, <2>4 DEF Network
<1>4. CASE Handlers
  <2>1. CASE OnConnected BY <2>1 DEF OnConnected, Cancelled
  <2>2. CASE OnConnectFail BY <2>2 DEF OnConnectFail, Cancelled
  <2>3. CASE Established BY <2>3 DEF Established
  <2>4. CASE FirstRecv BY <2>4 DEF FirstRecv, Armed
  <2>5. CASE OnRecv BY <2>5 DEF OnRecv, Cancelled
  <2>6. CASE OnSent BY <2>6 DEF OnSent
  <2>7. ASSUME NEW o \in {"recv", "send"}, OnFail(o) PROVE Muted(y)'
    BY <2>7 DEF OnFail, Cancelled
  <2>8. ASSUME NEW o \in {"recv", "send"}, Again(o) PROVE Muted(y)'
    BY <2>8 DEF Again, Armed
  <2>9. ASSUME NEW x \in Timers, OnTimeout(x) PROVE Muted(y)'
    BY <2>9 DEF OnTimeout
  <2> QED BY <1>4, <2>1, <2>2, <2>3, <2>4, <2>5, <2>6, <2>7, <2>8, <2>9 DEF Handlers
<1>5. ASSUME NEW x \in Contexts, CloseStep(x) PROVE Muted(y)'
  <2>1. CASE RaiseError(x) BY <2>1 DEF RaiseError
  <2>2. CASE UnsetCb(x) BY <2>2 DEF UnsetCb
  <2>3. CASE Lookup(x) BY <2>3 DEF Lookup
  <2>4. CASE Erase(x) BY <2>4 DEF Erase
  <2>5. CASE TestConn(x) BY <2>5 DEF TestConn
  <2>6. CASE ClearConn(x) BY <2>6 DEF ClearConn
  <2>7. CASE Shutdown(x) BY <2>7 DEF Shutdown
  <2>8. CASE RunPosted(x) BY <2>8 DEF RunPosted
  <2> QED BY <1>5, <2>1, <2>2, <2>3, <2>4, <2>5, <2>6, <2>7, <2>8 DEF CloseStep
<1>6. CASE Destroy BY <1>6 DEF Destroy
<1>7. CASE UNCHANGED vars BY <1>7 DEF vars
<1> QED BY <1>1, <1>2, <1>3, <1>4, <1>5, <1>6, <1>7 DEF Next

\* A step that is not one of the application's threads' closes and posts no
\* CLOSED to the user leaves them as they are.
LEMMA AppKept ==
    ASSUME CloseInv, NEW e \in {"ESTABLISH", "ERROR"},
           events' = events \/ events' = Append(events, e),
           \A a \in Apps : pc'[a] = pc[a] /\ posted'[a] = posted[a]
    PROVE  Once' /\ \A a \in Apps : AppClose(a)'
<1>1. Once' /\ Seen("CLOSED")' = Seen("CLOSED")
  BY OtherEvent DEF CloseInv
<1> QED BY <1>1 DEF CloseInv, AppClose

LEMMA AppStep ==
    ASSUME SingleCloser, CloseInv, [Next]_vars
    PROVE  Once' /\ \A a \in Apps : AppClose(a)'
<1> DEFINE Goal == Once' /\ \A a \in Apps : AppClose(a)'
<1> USE ContextNames, ChannelAssumption DEF Goto, Ops, Timers
<1>0. TypeOK /\ Once /\ pc \in [Contexts -> Steps] /\ posted \in [Contexts -> {"none", "user", "null"}]
      /\ Apps \subseteq Contexts
  BY DEF CloseInv, TypeOK, Contexts
<1>1. CASE Connect BY <1>0, <1>1, AppKept DEF Connect
<1>2. CASE StartSend BY <1>0, <1>2, AppKept DEF StartSend
<1>3. CASE Network BY <1>0, <1>3, AppKept DEF Network, ConnectCompletes, PeerReset, Completes, Expires
<1>4. CASE Handlers
  <2>1. CASE OnConnected \/ OnConnectFail BY <1>0, <2>1, AppKept DEF OnConnected, OnConnectFail
  <2>2. CASE Established BY <1>0, <2>2, AppKept DEF Established, Deliver
  <2>3. CASE FirstRecv \/ OnRecv \/ OnSent BY <1>0, <2>3, AppKept DEF FirstRecv, OnRecv, OnSent
  <2>4. ASSUME NEW o \in {"recv", "send"}, OnFail(o) \/ Again(o) PROVE Goal
    BY <1>0, <2>4, AppKept DEF OnFail, Again
  <2>5. ASSUME NEW x \in Timers, OnTimeout(x) PROVE Goal
    BY <1>0, <2>5, AppKept DEF OnTimeout
  <2> QED BY <1>4, <2>1, <2>2, <2>3, <2>4, <2>5 DEF Handlers
<1>5. ASSUME NEW x \in Contexts, CloseStep(x) PROVE Goal
  <2>1. CASE x \in Ops \cup Timers
    <3>1. posted[x] # "user" /\ x \notin Apps
      BY <2>1 DEF CloseInv, Muted
    <3>2. \A a \in Apps : pc'[a] = pc[a] /\ posted'[a] = posted[a]
      BY <1>0, <1>5, <3>1 DEF CloseStep, RaiseError, UnsetCb, Lookup, Erase, TestConn, ClearConn,
                              Shutdown, RunPosted
    <3>3. events' = events \/ events' = Append(events, "ERROR")
      BY <1>5, <3>1 DEF CloseStep, RaiseError, UnsetCb, Lookup, Erase, TestConn, ClearConn,
                        Shutdown, RunPosted, Deliver
    <3> QED BY <3>2, <3>3, AppKept
  <2>2. CASE x \in Apps
    <3>1. Apps = {x} /\ AppClose(x)
      BY <2>2 DEF SingleCloser, CloseInv
    <3>2. pc[x] \notin {"err", "unset"}
      BY <3>1 DEF AppClose
    <3>3. CASE Shutdown(x)
      <4>1. Once' /\ Seen("CLOSED")' = Seen("CLOSED")
        BY <1>0, <3>3, OtherEvent DEF Shutdown, Deliver
      <4> QED BY <1>0, <3>1, <3>3, <4>1 DEF Shutdown, AppClose
    <3>4. CASE RunPosted(x)
      <4>1. pc[x] \in {"shut", "off"} /\ pc' = pc /\ posted'[x] = "none"
        BY <1>0, <3>1, <3>4 DEF RunPosted, AppClose
      <4>2. Once'
        <5>1. CASE posted[x] = "user" BY <1>0, <3>1, <3>4, <5>1, FirstClosed DEF RunPosted, AppClose
        <5>2. CASE posted[x] # "user" BY <1>0, <3>4, <5>2 DEF RunPosted, Once
        <5> QED BY <5>1, <5>2
      <4> QED BY <3>1, <4>1, <4>2 DEF AppClose
    <3>5. CASE Lookup(x) \/ Erase(x) \/ TestConn(x) \/ ClearConn(x)
      <4>1. Once' /\ Seen("CLOSED")' = Seen("CLOSED") /\ ~Seen("CLOSED")
        BY <1>0, <3>1, <3>5 DEF Lookup, Erase, TestConn, ClearConn, Once, Seen, AppClose
      <4>2. /\ pc'[x] \in {"erase", "test", "clear", "shut", "off"}
            /\ pc'[x] # "shut" => posted'[x] = "none"
        BY <1>0, <3>1, <3>5 DEF Lookup, Erase, TestConn, ClearConn, AppClose
      <4> QED BY <3>1, <4>1, <4>2 DEF AppClose
    <3> QED BY <1>5, <3>2, <3>3, <3>4, <3>5 DEF CloseStep, RaiseError, UnsetCb
  <2> QED BY <2>1, <2>2 DEF Contexts
<1>6. CASE Destroy BY <1>0, <1>6, AppKept DEF Destroy
<1>7. CASE UNCHANGED vars BY <1>0, <1>7, AppKept DEF vars
<1> QED BY <1>1, <1>2, <1>3, <1>4, <1>5, <1>6, <1>7 DEF Next

\* Where CLOSED stands at no two places it is counted at most once.
LEMMA OnceCounts == TypeOK /\ Once => ClosedAtMostOnce
<1> SUFFICES ASSUME TypeOK, Once PROVE ClosedAtMostOnce
  OBVIOUS
<1> DEFINE S == {i \in 1..Len(events) : events[i] = "CLOSED"}
<1>1. S = {} \/ \E i : S = {i}
  <2>1. SUFFICES ASSUME NEW i \in S PROVE S = {i}
    OBVIOUS
  <2>2. \A j \in S : j = i
    BY DEF Once
  <2> QED BY <2>1, <2>2, Zenon
<1>2. Cardinality(S) = 0 \/ Cardinality(S) = 1
  BY <1>1, FS_EmptySet, FS_Singleton
<1> QED BY <1>2 DEF ClosedAtMostOnce, Count

\* However time-outs, failing reads, writes and attempts to connect and the
\* close of one thread of the application race: the user is told CLOSED at most
\* once.  It rests on event_cb clearing the callback before it closes.
THEOREM ToldClosedOnce ==
    ASSUME SingleCloser
    PROVE  Spec => []ClosedAtMostOnce
<1>1. Init => CloseInv
  <2> SUFFICES ASSUME Init PROVE CloseInv
    OBVIOUS
  <2>1. TypeOK
    BY TypeInit
  <2>2. Once /\ ~Seen("CLOSED")
    BY DEF Init, Once, Seen
  <2>3. \A x \in Ops \cup Timers : Muted(x)
    BY ContextNames, ChannelAssumption DEF Init, Muted, Ops, Timers, Contexts
  <2>4. \A a \in Apps : AppClose(a)
    BY <2>2 DEF Init, AppClose, Contexts
  <2> QED BY <2>1, <2>2, <2>3, <2>4 DEF CloseInv
<1>2. CloseInv /\ [Next]_vars => CloseInv'
  <2> SUFFICES ASSUME CloseInv, [Next]_vars PROVE CloseInv'
    OBVIOUS
  <2>1. TypeOK'
    BY TypeStep DEF CloseInv
  <2>2. \A x \in Ops \cup Timers : Muted(x)'
    BY MutedStep
  <2>3. Once' /\ \A a \in Apps : AppClose(a)'
    BY SingleCloser, AppStep
  <2> QED BY <2>1, <2>2, <2>3 DEF CloseInv, Ops, Timers
<1>3. CloseInv => ClosedAtMostOnce
  BY OnceCounts DEF CloseInv
<1> QED BY <1>1, <1>2, <1>3, PTL DEF Spec
=============================================================================
