------------------------- MODULE HttpServiceProofs --------------------------
(***************************************************************************)
(* Proofs about the two sides of http::Service: HttpServer, for any number *)
(* of accept loops, closing threads and connections, and HttpRequest.      *)
(***************************************************************************)
EXTENDS HttpServer, HttpRequest, TLAPS

\* The loop is handling a connection.
Handling == {"before", "add", "event", "after"}

\* A loop inside the accept handler has a connection, and no other has it.
OwnClient ==
    /\ \A l \in Loops : pc[l] \in Handling => cli[l] \in Clients
    /\ \A l, k \in Loops : l # k /\ cli[l] = cli[k] => cli[l] = Nobody

\* Until the loop has put it into the map nobody else has heard of it.
NewClient ==
    \A l \in Loops : pc[l] \in {"before", "add"} =>
        cli[l] \notin channelMap \cup closing \cup told

\* The server's handle is gone before its acceptor is closed and before its
\* CLOSED event is posted; that of a client before its CLOSED event is.
GoneBefore ==
    /\ \A x \in Contexts : pc[x] = "close" \/ posted[x] # "none" => Srv \notin channelMap
    /\ closing \cap channelMap = {}

ServerInv ==
    /\ TypeOK /\ OwnClient /\ NewClient /\ GoneBefore
    /\ ServerAccepts /\ ServerHasSession /\ ToldHasSession

LEMMA InitServerInv == Init => ServerInv
BY ServerAssumption
DEF Init, ServerInv, TypeOK, OwnClient, NewClient, GoneBefore, ServerAccepts,
    ServerHasSession, ToldHasSession, Handles, Contexts, Steps, Handling

LEMMA NextServerInv == ServerInv /\ [Next]_vars => ServerInv'
<1> SUFFICES ASSUME ServerInv, [Next]_vars PROVE ServerInv'
  OBVIOUS
<1> USE ServerAssumption
    DEF ServerInv, TypeOK, OwnClient, NewClient, GoneBefore, ServerAccepts,
        ServerHasSession, ToldHasSession, Handles, Contexts, Steps, Handling,
        mapVars, clientVars, Goto
<1>1. ASSUME NEW l \in Loops, AsyncOneAccept(l)
      PROVE ServerInv'
  BY <1>1 DEF AsyncOneAccept
<1>2. ASSUME NEW l \in Loops, AcceptFails(l)
      PROVE ServerInv'
  BY <1>2 DEF AcceptFails
<1>3. ASSUME NEW l \in Loops, BeforeAccept(l)
      PROVE ServerInv'
  BY <1>3 DEF BeforeAccept
<1>4. ASSUME NEW l \in Loops, AddChannelToMap(l)
      PROVE ServerInv'
  BY <1>4 DEF AddChannelToMap
<1>5. ASSUME NEW l \in Loops, AcceptEvent(l)
      PROVE ServerInv'
  BY <1>5 DEF AcceptEvent
<1>6. ASSUME NEW l \in Loops, AfterAccept(l)
      PROVE ServerInv'
  BY <1>6 DEF AfterAccept, Error, Disconnected
<1>7. ASSUME NEW l \in Loops, RaiseError(l)
      PROVE ServerInv'
  BY <1>7 DEF RaiseError
<1>8. ASSUME NEW l \in Loops, UnsetCb(l)
      PROVE ServerInv'
  BY <1>8 DEF UnsetCb
<1>9. ASSUME NEW l \in Loops, NEW c \in Clients, Accepted(l, c)
      PROVE ServerInv'
  BY <1>9 DEF Accepted, Fresh
<1>10. ASSUME NEW x \in Contexts, Lookup(x)
      PROVE ServerInv'
  BY <1>10 DEF Lookup
<1>11. ASSUME NEW x \in Contexts, Erase(x)
      PROVE ServerInv'
  BY <1>11 DEF Erase
<1>12. ASSUME NEW x \in Contexts, CloseAcceptor(x)
      PROVE ServerInv'
  BY <1>12 DEF CloseAcceptor
<1>13. ASSUME NEW x \in Contexts, OnServerClosed(x)
      PROVE ServerInv'
  BY <1>13 DEF OnServerClosed
<1>14. ASSUME NEW c \in Clients, ReadFails(c)
      PROVE ServerInv'
  BY <1>14 DEF ReadFails, Error, Disconnected
<1>15. ASSUME NEW c \in Clients, DropUnknown(c)
      PROVE ServerInv'
  BY <1>15 DEF DropUnknown, Close, Disconnected
<1>16. ASSUME NEW c \in Clients, CloseClient(c)
      PROVE ServerInv'
  BY <1>16 DEF CloseClient, Close, Disconnected
<1>17. ASSUME NEW c \in Clients, OnClientClosed(c)
      PROVE ServerInv'
  BY <1>17 DEF OnClientClosed
<1>18. ASSUME NEW l \in Loops, HandshakeFails(l)
      PROVE ServerInv'
  BY <1>18 DEF HandshakeFails
<1>19. CASE UNCHANGED vars
  BY <1>19 DEF vars
<1> QED
  BY <1>1, <1>2, <1>3, <1>4, <1>5, <1>6, <1>7, <1>8, <1>9,
     <1>10, <1>11, <1>12, <1>13, <1>14, <1>15, <1>16, <1>17, <1>18, <1>19
  DEF Next, LoopStep, CloseStep, ClientStep

\* Whatever the loops, the peers and the application do, a server with a valid
\* handle has its session and all of its accept loops, and a connection the
\* application was told of has its session as long as its channel is there.
THEOREM ServerSafe == Spec => [](ServerAccepts /\ ServerHasSession /\ ToldHasSession)
<1>1. ServerInv => ServerAccepts /\ ServerHasSession /\ ToldHasSession
  BY DEF ServerInv
<1> QED
  BY InitServerInv, NextServerInv, <1>1, PTL DEF Spec

\* In particular event_cb finds the session of the server and of every
\* connection the application knows of.
THEOREM SessionsAlwaysFound == Spec => []SessionsFound
<1>1. ServerInv => SessionsFound
  BY DEF ServerInv, SessionsFound
<1> QED
  BY InitServerInv, NextServerInv, <1>1, PTL DEF Spec

\* Every variable keeps its type.
THEOREM ServerTypeCorrect == Spec => []TypeOK
<1>1. ServerInv => TypeOK
  BY DEF ServerInv
<1> QED
  BY InitServerInv, NextServerInv, <1>1, PTL DEF Spec

----------------------------------------------------------------------------
(* One-shot calls, for any number of reads and of responses in one read    *)

Answered == answers # <<>>

\* The steps that lead to a close, and come after an answer or after the loss
\* of the callback or the session.
Leaving == {"unset", "close", "drop", "done", "end", "fail"}

\* The user is told before a callback is cleared, a session removed or about
\* to be removed, or a context turns to closing the handle.
ToldFirst ==
    /\ ~callHeard \/ ~inSessions \/ callPosted => Answered
    /\ \A x \in CallContexts : callPc[x] \in Leaving => Answered

RequestInv == CallTypeOK /\ GoneMeansAnswered /\ ToldFirst

LEMMA InitRequestInv == CallInit => RequestInv
<1> SUFFICES ASSUME CallInit PROVE RequestInv
  OBVIOUS
<1>1. answers \in Seq({"ok", "err"})
  BY DEF CallInit
<1>2. callPc \in [CallContexts -> CallSteps]
  BY DEF CallInit, CallContexts, CallSteps
<1>3. CallTypeOK
  <2>1. left \in 0..MaxPerRead /\ reads \in 0..MaxReads
    BY RequestAssumption DEF CallInit
  <2>2. callPc["timer"] = "off"
    BY DEF CallInit, CallContexts
  <2> QED
    BY <1>1, <1>2, <2>1, <2>2 DEF CallInit, CallTypeOK
<1> QED
  BY <1>3 DEF CallInit, RequestInv, GoneMeansAnswered, ToldFirst, Answered, CallContexts, Leaving

\* A call of the callback is recorded, and stays recorded.
LEMMA AnswerRecorded ==
    ASSUME answers \in Seq({"ok", "err"}), NEW a \in {"ok", "err"}, Answer(a)
    PROVE  answers' \in Seq({"ok", "err"}) /\ Answered'
BY DEF Answer, Answered

LEMMA CloseRecorded ==
    ASSUME answers \in Seq({"ok", "err"}), CloseHandle
    PROVE  answers' \in Seq({"ok", "err"}) /\ (Answered => Answered')
BY DEF CloseHandle, Answered

LEMMA NextRequestInv == RequestInv /\ [CallNext]_callVars => RequestInv'
<1> SUFFICES ASSUME RequestInv, [CallNext]_callVars PROVE RequestInv'
  OBVIOUS
<1> USE RequestAssumption
    DEF RequestInv, CallTypeOK, GoneMeansAnswered, ToldFirst, Answered, CallContexts,
        CallSteps, Leaving, chanVars, CallGoto
<1>1. CASE Configure
  BY <1>1 DEF Configure
<1>2. CASE ConnectEnds
  <2>1. up' \in BOOLEAN
    <3>1. up' = TRUE \/ up' = up
      BY <1>2 DEF ConnectEnds
    <3> QED
      BY <3>1
  <2>2. /\ callPc' \in [CallContexts -> CallSteps]
        /\ \A x \in CallContexts : callPc'[x] \in Leaving => callPc[x] \in Leaving
        /\ callPc'["timer"] = callPc["timer"] /\ callPc'["recv"] = callPc["recv"]
    BY <1>2 DEF ConnectEnds
  <2>3. UNCHANGED <<kind, inMap, inSessions, callHeard, bconn, timeOut, left, reads, callPosted, answers>>
    BY <1>2 DEF ConnectEnds
  <2> QED
    BY <2>1, <2>2, <2>3
<1>3. CASE Establish
  BY <1>3 DEF Establish
<1>4. CASE SendEnds
  BY <1>4 DEF SendEnds
<1>5. CASE RecvData
  BY <1>5 DEF RecvData, Cancelled
<1>6. CASE RecvFails
  BY <1>6 DEF RecvFails, Cancelled
<1>7. CASE OnData
  BY <1>7 DEF OnData
<1>8. CASE Parsed
  BY <1>8 DEF Parsed
<1>9. CASE Done
  BY <1>9 DEF Done, SetEvntCBNull
<1>10. CASE Expires
  BY <1>10 DEF Expires
<1>11. CASE OnTimeout
  BY <1>11 DEF OnTimeout
<1>12. CASE OnClosed
  BY <1>12 DEF OnClosed
<1>13. CASE FirstRecv
  BY <1>13 DEF FirstRecv, AsyncRecv
<1>14. CASE NextRecv
  BY <1>14 DEF NextRecv, AsyncRecv
<1>15. CASE CloseFailed
  <2>1. answers' \in Seq({"ok", "err"}) /\ (Answered => Answered')
    BY <1>15, CloseRecorded DEF CloseFailed
  <2> QED
    BY <1>15, <2>1 DEF CloseFailed, CloseHandle
<1>16. CASE Drop
  <2>1. answers' \in Seq({"ok", "err"}) /\ (Answered => Answered')
    BY <1>16, CloseRecorded DEF Drop
  <2> QED
    BY <1>16, <2>1 DEF Drop, CloseHandle
<1>17. CASE CloseDone
  <2>1. answers' \in Seq({"ok", "err"}) /\ (Answered => Answered')
    BY <1>17, CloseRecorded DEF CloseDone
  <2>2. /\ callPc' \in [CallContexts -> CallSteps]
        /\ callPc["recv"] = "end"
        /\ \A x \in CallContexts : callPc'[x] \in Leaving => callPc[x] \in Leaving
        /\ callPc'["timer"] = callPc["timer"]
    BY <1>17 DEF CloseDone
  <2>3. CloseHandle /\ UNCHANGED <<kind, inSessions, callHeard, timeOut, left, reads>>
    BY <1>17 DEF CloseDone
  <2>4. inMap' \in BOOLEAN /\ bconn' \in BOOLEAN /\ up' \in BOOLEAN /\ callPosted' \in BOOLEAN
    BY <2>3 DEF CloseHandle
  <2> QED
    BY <2>1, <2>2, <2>3, <2>4
<1>18. CASE EstablishFails
  <2>1. answers' \in Seq({"ok", "err"}) /\ Answered'
    BY <1>18, AnswerRecorded DEF EstablishFails
  <2> QED
    BY <1>18, <2>1 DEF EstablishFails
<1>19. ASSUME NEW a \in {"ok", "err"}, ParserEvent(a), left' \in 0..MaxPerRead
       PROVE  RequestInv'
  <2>1. CASE inSessions
    <3>1. answers' \in Seq({"ok", "err"}) /\ Answered'
      BY <1>19, <2>1, AnswerRecorded DEF ParserEvent
    <3> QED
      BY <1>19, <2>1, <3>1 DEF ParserEvent
  <2>2. CASE ~inSessions
    <3>1. Answered /\ CloseHandle
      BY <1>19, <2>2 DEF ParserEvent
    <3>2. UNCHANGED <<kind, timeOut, reads, callPc, inSessions, callHeard>>
      BY <1>19, <2>2 DEF ParserEvent
    <3>3. inMap' \in BOOLEAN /\ bconn' \in BOOLEAN /\ up' \in BOOLEAN /\ callPosted' \in BOOLEAN
      BY <3>1 DEF CloseHandle
    <3>4. answers' \in Seq({"ok", "err"}) /\ Answered'
      BY <3>1, CloseRecorded
    <3> QED
      BY <1>19, <3>1, <3>2, <3>3, <3>4
  <2> QED
    BY <2>1, <2>2
<1>a. CASE OnResponse
  <2>1. ParserEvent("ok") /\ left' \in 0..MaxPerRead
    BY <1>a DEF OnResponse
  <2> QED
    BY <1>19, <2>1
<1>b. CASE OnUnplaced
  <2>1. ParserEvent("err") /\ left' \in 0..MaxPerRead
    BY <1>b DEF OnUnplaced
  <2> QED
    BY <1>19, <2>1
<1>c. CASE OnStatusUnplaced
  <2>1. answers' \in Seq({"ok", "err"}) /\ (Answered => Answered')
    <3>1. answers' = answers \/ Answer("err")
      BY <1>c DEF OnStatusUnplaced
    <3> QED
      BY <3>1, AnswerRecorded
  <2> QED
    BY <1>c, <2>1 DEF OnStatusUnplaced
<1>20. ASSUME NEW x \in CallContexts, CallRaiseError(x)
      PROVE RequestInv'
  <2>1. CASE callHeard /\ inSessions
    <3>1. answers' \in Seq({"ok", "err"}) /\ Answered'
      BY <1>20, <2>1, AnswerRecorded DEF CallRaiseError
    <3> QED
      BY <1>20, <2>1, <3>1 DEF CallRaiseError
  <2>2. CASE ~(callHeard /\ inSessions)
    BY <1>20, <2>2 DEF CallRaiseError
  <2> QED
    BY <2>1, <2>2
<1>21. ASSUME NEW x \in CallContexts, Unset(x)
      PROVE RequestInv'
  BY <1>21 DEF Unset, SetEvntCBNull
<1>22. ASSUME NEW x \in CallContexts, CallClose(x)
      PROVE RequestInv'
  <2>1. answers' \in Seq({"ok", "err"}) /\ (Answered => Answered')
    BY <1>22, CloseRecorded DEF CallClose
  <2> QED
    BY <1>22, <2>1 DEF CallClose, CloseHandle
<1>23. CASE UNCHANGED callVars
  BY <1>23 DEF callVars
<1> QED
  BY <1>1, <1>2, <1>3, <1>4, <1>5, <1>6, <1>7, <1>8, <1>9, <1>10, <1>11, <1>12, <1>13, <1>14, <1>15, <1>16, <1>17, <1>18, <1>a, <1>b, <1>c, <1>20, <1>21, <1>22, <1>23
  DEF CallNext, Connecting, Reading, Failing

\* Every variable keeps its type, and a read's time-out runs only while the read
\* is pending.
THEOREM RequestTypeCorrect == CallSpec => []CallTypeOK
<1>1. RequestInv => CallTypeOK
  BY DEF RequestInv
<1> QED
  BY InitRequestInv, NextRequestInv, <1>1, PTL DEF CallSpec

\* The handle of a one-shot call never leaves the channel map before the user's
\* callback was called, however often and in whatever order reads, the write,
\* the time-out and the connection attempt succeed or fail.
THEOREM NeverGoneSilently == CallSpec => []GoneMeansAnswered
<1>1. RequestInv => GoneMeansAnswered
  BY DEF RequestInv
<1> QED
  BY InitRequestInv, NextRequestInv, <1>1, PTL DEF CallSpec
=============================================================================
