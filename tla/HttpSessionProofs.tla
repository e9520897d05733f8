------------------------- MODULE HttpSessionProofs --------------------------
(***************************************************************************)
(* What holds of HttpSession for every number of threads, pumps, messages  *)
(* and sizes.                                                              *)
(***************************************************************************)
EXTENDS HttpSession, TLAPS

----------------------------------------------------------------------------
(* Type correctness                                                        *)

LEMMA IsASeq ==
    ASSUME NEW S, NEW n \in Nat, NEW f \in [1..n -> S]
    PROVE  f \in Seq(S)
OBVIOUS

LEMMA WholeType ==
    ASSUME NEW m \in Messages, NEW stage \in Stages
    PROVE  Whole(m, stage) \in Cursors
<1>1. PartLen(m, stage) \in Nat
  BY SessionAssumption DEF Messages, PartLen
<1> QED BY <1>1 DEF Whole, Cursor, Cursors

\* A chunk is a sequence of units, and it leaves a cursor behind.
LEMMA ChunkType ==
    ASSUME NEW c \in Cursors
    PROVE  /\ Chunk(c) \in Seq((1..MaxMsgs) \X Nat)
           /\ Advance(c) \in Cursors
<1> USE SessionAssumption
<1>1. /\ c.msg \in Messages /\ c.stage \in Stages /\ c.left \in Nat
      /\ c.left <= PartLen(c.msg, c.stage)
  BY DEF Cursors
<1>2. c.msg.id \in 1..MaxMsgs /\ c.msg.body \in Nat
  BY <1>1 DEF Messages
<1>3. ChunkLen(c) \in 0..c.left
  BY <1>1 DEF ChunkLen
<1>4. PartLen(c.msg, c.stage) \in Nat /\ PartStart(c.stage) \in Nat
  BY <1>1, <1>2 DEF PartLen, PartStart, Stages
<1>5. Emitted(c) \in Nat
  BY <1>1, <1>4 DEF Emitted
<1>6. \A i \in 1..ChunkLen(c) : <<c.msg.id, Emitted(c) + i>> \in (1..MaxMsgs) \X Nat
  BY <1>2, <1>3, <1>5
<1>7. Chunk(c) \in [1..ChunkLen(c) -> (1..MaxMsgs) \X Nat]
  BY <1>6 DEF Chunk
<1>8. Chunk(c) \in Seq((1..MaxMsgs) \X Nat)
  BY <1>3, <1>7, IsASeq
<1>9. Advance(c) \in Cursors
  BY <1>1, <1>3, <1>4 DEF Cursors, Advance, Cursor
<1> QED BY <1>8, <1>9

\* Every step of the session keeps the types of its state.
LEMMA TypeStep == TypeOK /\ [Next]_vars => TypeOK'
<1> SUFFICES ASSUME TypeOK, [Next]_vars PROVE TypeOK'
  OBVIOUS
<1> USE SessionAssumption DEF TypeOK, ThreadStates, PumpStates, Goto, PumpTo,
        ReleaseHost, queueVars, flagVars, pumpVars, chanVars, errVars
<1>1. CASE OnConnectEstablish BY <1>1 DEF OnConnectEstablish
<1>2. CASE NotifyApplication BY <1>2 DEF NotifyApplication
<1>3. ASSUME NEW t \in Senders, Send(t) PROVE TypeOK'
  BY <1>3 DEF Send
<1>4. ASSUME NEW t \in Threads, ThreadStep(t) PROVE TypeOK'
  <2>1. CASE Push(t)
    <3>1. PICK m \in Messages : queue' = Append(queue, m) /\ submitted' = Append(submitted, m)
      <4>1. PICK b \in BodyLens, c \in BOOLEAN :
              LET m == [id |-> Len(submitted) + 1, body |-> b, close |-> c]
              IN  queue' = Append(queue, m) /\ submitted' = Append(submitted, m)
        BY <2>1 DEF Push
      <4>2. Len(submitted) + 1 \in 1..MaxMsgs
        BY <2>1 DEF Push
      <4>3. [id |-> Len(submitted) + 1, body |-> b, close |-> c] \in Messages
        BY <4>2 DEF Messages
      <4> QED BY <4>1, <4>3
    <3> QED BY <2>1, <3>1 DEF Push
  <2>2. CASE CheckFlag(t) BY <2>2 DEF CheckFlag
  <2>3. CASE CheckConnect(t) BY <2>3 DEF CheckConnect
  <2>4. CASE SetFlag(t) BY <2>4 DEF SetFlag
  <2>5. ASSUME NEW p \in Pumps, StartPump(t, p) PROVE TypeOK'
    BY <2>5 DEF StartPump
  <2>6. CASE StartFails(t) BY <2>6 DEF StartFails
  <2> QED BY <1>4, <2>1, <2>2, <2>3, <2>4, <2>5, <2>6 DEF ThreadStep
<1>5. ASSUME NEW p \in Pumps, PumpStep(p) PROVE TypeOK'
  <2>1. CASE Begin(p) BY <2>1 DEF Begin
  <2>2. CASE BeginFails(p) BY <2>2 DEF BeginFails
  <2>3. CASE ReadEmpty(p) BY <2>3 DEF ReadEmpty
  <2>4. CASE CloseAfterSend(p) BY <2>4 DEF CloseAfterSend
  <2>5. CASE ReadNext(p)
    <3>1. Head(queue) \in Messages /\ queue' \in Seq(Messages)
      BY <2>5 DEF ReadNext
    <3>2. cur' \in Cursors
      BY <2>5, <3>1, WholeType DEF ReadNext, Stages
    <3>3. closeAfter' \in BOOLEAN
      BY <2>5, <3>1 DEF ReadNext, ClosesAfter, Messages
    <3> QED BY <2>5, <3>1, <3>2, <3>3 DEF ReadNext
  <2>6. CASE NextStage(p)
    <3>1. cur \in Cursors
      BY <2>6 DEF NextStage
    <3>2. cur.msg \in Messages
      BY <3>1 DEF Cursors
    <3>3. cur' \in Cursors
      BY <2>6, <3>2, WholeType DEF NextStage, Stages
    <3> QED BY <2>6, <3>3 DEF NextStage
  <2>7. CASE ReadChunk(p)
    <3>1. cur \in Cursors
      BY <2>7 DEF ReadChunk
    <3>2. cur' \in Cursors /\ Chunk(cur) \in Seq((1..MaxMsgs) \X Nat)
      BY <2>7, <3>1, ChunkType DEF ReadChunk
    <3> QED BY <2>7, <3>2 DEF ReadChunk
  <2>8. CASE BodyEnd(p)
    <3>1. cur' = <<>> /\ UNCHANGED <<queueVars, flagVars, buf, wire, chanVars>>
      BY <2>8 DEF BodyEnd
    <3>2. /\ pump' \in [Pumps -> PumpStates] /\ host' \in [Pumps -> Threads \cup {Pool}]
          /\ pc' \in [Threads -> ThreadStates]
      BY <2>8 DEF BodyEnd
    <3> QED BY <3>1, <3>2
  <2>9. CASE WriteDone(p) BY <2>9 DEF WriteDone
  <2>10. CASE Enter(p) BY <2>10 DEF Enter
  <2>11. CASE WriteErrorUnsets(p) BY <2>11 DEF WriteErrorUnsets, UnsetCallback
  <2>12. CASE WriteErrorCloses(p) BY <2>12 DEF WriteErrorCloses
  <2> QED BY <1>5, <2>1, <2>2, <2>3, <2>4, <2>5, <2>6, <2>7, <2>8, <2>9,
         <2>10, <2>11, <2>12 DEF PumpStep
<1>6. ASSUME NEW p \in Pumps, WriteFails(p) PROVE TypeOK'
  <2>1. <<>> \in Seq((1..MaxMsgs) \X Nat)
    OBVIOUS
  <2>2. buf' \in [Pumps -> Seq((1..MaxMsgs) \X Nat)]
    BY <1>6, <2>1 DEF WriteFails
  <2> QED BY <1>6, <2>2 DEF WriteFails
<1>7. CASE ReadFails \/ ReadError
  <2>1. UNCHANGED <<queueVars, flagVars, pumpVars, pc, connectFlag, closedPosted, alive, handed>>
    BY <1>7 DEF ReadFails, ReadError, ReadErrorUnsets, ReadErrorCloses
  <2>2. bconn' \in BOOLEAN /\ heard' \in BOOLEAN
    BY <1>7 DEF ReadFails, ReadError, ReadErrorUnsets, ReadErrorCloses, UnsetCallback
  <2>3. reader' \in ReaderStates
    BY <1>7 DEF ReadFails, ReadError, ReadErrorUnsets, ReadErrorCloses, ReaderTo, ReaderStates
  <2> QED BY <2>1, <2>2, <2>3
<1>8. CASE AppClose BY <1>8 DEF AppClose
<1>9. CASE OnClosed BY <1>9 DEF OnClosed
<1>10. CASE UNCHANGED vars BY <1>10 DEF vars
<1> QED BY <1>1, <1>2, <1>3, <1>4, <1>5, <1>6, <1>7, <1>8, <1>9, <1>10 DEF Next

LEMMA TypeInit == Init => TypeOK
<1> SUFFICES ASSUME Init PROVE TypeOK
  OBVIOUS
<1> USE SessionAssumption DEF Init
<1>1. queue \in Seq(Messages) /\ submitted \in Seq(Messages) /\ wire \in Seq((1..MaxMsgs) \X Nat)
  OBVIOUS
<1>2. pc \in [Threads -> ThreadStates] /\ pump \in [Pumps -> PumpStates]
  BY DEF ThreadStates, PumpStates
<1>3. host \in [Pumps -> Threads \cup {Pool}]
  OBVIOUS
<1>4. buf \in [Pumps -> Seq((1..MaxMsgs) \X Nat)]
  <2>1. <<>> \in Seq((1..MaxMsgs) \X Nat)
    OBVIOUS
  <2> QED BY <2>1
<1> QED BY <1>1, <1>2, <1>3, <1>4 DEF TypeOK, ReaderStates

\* The session's state always has its declared shape: in particular the cursor
\* send_status_ never counts below zero or beyond its part, so move_cache and
\* read_body always copy from inside the message.
THEOREM TypeCorrect == Spec => []TypeOK
BY TypeInit, TypeStep, PTL DEF Spec

----------------------------------------------------------------------------
(* A server session with one sender                                        *)


\* Threads other than Io are inside send only when they are senders and the
\* application has been told of the connection; Io has then left start_send,
\* unless it is a sender itself.
TurnInv ==
    /\ \A t \in Threads : pc[t] # "idle" /\ t # Io => t \in Senders /\ handed
    /\ handed => pc[Io] = "idle" \/ Io \in Senders
    /\ pc[Io] = "start" => ~sendFlag

\* send_flag_ is a token: whoever is past `set' owns it.
TokenInv ==
    /\ ~sendFlag => /\ \A p \in Pumps : ~Active(p)
                    /\ \A t \in Threads : pc[t] # "sendcb"
    /\ \A t \in Threads : pc[t] \in {"conn", "set"} => ~sendFlag
    /\ \A t \in Threads, p \in Pumps : pc[t] = "sendcb" => ~Active(p)

\* A pump that runs on a thread has that thread to itself.
HostInv ==
    /\ \A p \in Pumps : host[p] # Pool => pc[host[p]] = "pump"
    /\ \A p, q \in Pumps : host[p] # Pool /\ host[p] = host[q] => p = q

PumpInv ==
    /\ TypeOK /\ TurnInv /\ TokenInv /\ HostInv
    /\ SinglePump /\ NoLostWakeup /\ FlagMeansSending

OneSender == PeerType = "Server" /\ \A s, t \in Senders : s = t

\* No two threads are inside send, start_send or a pump's first read at once.
LEMMA OneBusyThread ==
    ASSUME OneSender, TypeOK, TurnInv, NEW t \in Threads, NEW u \in Threads,
           pc[t] # "idle", pc[u] # "idle"
    PROVE  t = u
BY DEF OneSender, TurnInv

\* A thread may only leave `idle' through send when the event was delivered.
LEMMA TurnStep ==
    ASSUME OneSender, TypeOK, TurnInv, [Next]_vars
    PROVE  TurnInv'
<1> USE SessionAssumption DEF TypeOK, TurnInv, Goto, PumpTo, ReleaseHost,
        queueVars, flagVars, pumpVars, chanVars, errVars
<1>1. CASE OnConnectEstablish BY <1>1 DEF OnConnectEstablish
<1>2. CASE NotifyApplication BY <1>2 DEF NotifyApplication
<1>3. ASSUME NEW t \in Senders, Send(t) PROVE TurnInv'
  BY <1>3 DEF Send, HandleKnown, OneSender
<1>4. ASSUME NEW t \in Threads, ThreadStep(t) PROVE TurnInv'
  <2>1. CASE Push(t) BY <2>1 DEF Push
  <2>2. CASE CheckFlag(t) BY <2>2 DEF CheckFlag
  <2>3. CASE CheckConnect(t) BY <2>3 DEF CheckConnect
  <2>4. CASE SetFlag(t) BY <2>4, OneBusyThread DEF SetFlag
  <2>5. ASSUME NEW p \in Pumps, StartPump(t, p) PROVE TurnInv'
    BY <2>5 DEF StartPump
  <2>6. CASE StartFails(t) BY <2>6 DEF StartFails
  <2> QED BY <1>4, <2>1, <2>2, <2>3, <2>4, <2>5, <2>6 DEF ThreadStep
<1>5. ASSUME NEW p \in Pumps, PumpStep(p) PROVE TurnInv'
  <2>1. CASE Begin(p) BY <2>1 DEF Begin
  <2>2. CASE BeginFails(p) BY <2>2 DEF BeginFails
  <2>3. CASE ReadEmpty(p) BY <2>3 DEF ReadEmpty
  <2>4. CASE CloseAfterSend(p) BY <2>4 DEF CloseAfterSend
  <2>5. CASE ReadNext(p) BY <2>5 DEF ReadNext, ClosesAfter
  <2>6. CASE NextStage(p) BY <2>6 DEF NextStage
  <2>7. CASE ReadChunk(p) BY <2>7 DEF ReadChunk
  <2>8. CASE BodyEnd(p) BY <2>8 DEF BodyEnd
  <2>9. CASE WriteDone(p) BY <2>9 DEF WriteDone
  <2>10. CASE Enter(p) BY <2>10 DEF Enter
  <2>11. CASE WriteErrorUnsets(p) BY <2>11 DEF WriteErrorUnsets, UnsetCallback
  <2>12. CASE WriteErrorCloses(p) BY <2>12 DEF WriteErrorCloses
  <2> QED BY <1>5, <2>1, <2>2, <2>3, <2>4, <2>5, <2>6, <2>7, <2>8, <2>9,
         <2>10, <2>11, <2>12 DEF PumpStep
<1>6. ASSUME NEW p \in Pumps, WriteFails(p) PROVE TurnInv'
  BY <1>6 DEF WriteFails
<1>7. CASE ReadFails \/ ReadError
  BY <1>7 DEF ReadFails, ReadError, ReadErrorUnsets, ReadErrorCloses, ReaderTo, UnsetCallback
<1>8. CASE AppClose BY <1>8 DEF AppClose
<1>9. CASE OnClosed BY <1>9 DEF OnClosed
<1>10. CASE UNCHANGED vars BY <1>10 DEF vars
<1> QED BY <1>1, <1>2, <1>3, <1>4, <1>5, <1>6, <1>7, <1>8, <1>9, <1>10 DEF Next

\* send_flag_ stays a token: it is set by a thread that saw it down while no
\* other thread was in start_send, and taken down by the one pump that owns it.
LEMMA TokenStep ==
    ASSUME OneSender, TypeOK, TurnInv, TokenInv, SinglePump, [Next]_vars
    PROVE  (TokenInv /\ SinglePump)'
<1> USE SessionAssumption DEF TypeOK, TokenInv, SinglePump, Active, Goto, PumpTo,
        ReleaseHost, queueVars, flagVars, pumpVars, chanVars, errVars
<1>1. CASE OnConnectEstablish BY <1>1 DEF OnConnectEstablish
<1>2. CASE NotifyApplication BY <1>2 DEF NotifyApplication
<1>3. ASSUME NEW t \in Senders, Send(t) PROVE (TokenInv /\ SinglePump)'
  BY <1>3 DEF Send
<1>4. ASSUME NEW t \in Threads, ThreadStep(t) PROVE (TokenInv /\ SinglePump)'
  <2>1. CASE Push(t) BY <2>1 DEF Push
  <2>2. CASE CheckFlag(t) BY <2>2 DEF CheckFlag
  <2>3. CASE CheckConnect(t) BY <2>3 DEF CheckConnect
  <2>4. CASE SetFlag(t) BY <2>4, OneBusyThread DEF SetFlag
  <2>5. ASSUME NEW p \in Pumps, StartPump(t, p) PROVE (TokenInv /\ SinglePump)'
    BY <2>5, OneBusyThread, ZenonT(30) DEF StartPump
  <2>6. CASE StartFails(t) BY <2>6 DEF StartFails
  <2> QED BY <1>4, <2>1, <2>2, <2>3, <2>4, <2>5, <2>6 DEF ThreadStep
<1>5. ASSUME NEW p \in Pumps, PumpStep(p) PROVE (TokenInv /\ SinglePump)'
  <2>1. CASE Begin(p) BY <2>1 DEF Begin
  <2>2. CASE BeginFails(p) BY <2>2 DEF BeginFails
  <2>3. CASE ReadEmpty(p)
    <3>1. CASE closeAfter BY <2>3, <3>1 DEF ReadEmpty
    <3>2. CASE ~closeAfter BY <2>3, <3>2, ZenonT(30) DEF ReadEmpty
    <3> QED BY <3>1, <3>2
  <2>4. CASE CloseAfterSend(p) BY <2>4 DEF CloseAfterSend
  <2>5. CASE ReadNext(p) BY <2>5 DEF ReadNext, ClosesAfter
  <2>6. CASE NextStage(p) BY <2>6 DEF NextStage
  <2>7. CASE ReadChunk(p) BY <2>7 DEF ReadChunk
  <2>8. CASE BodyEnd(p) BY <2>8 DEF BodyEnd, OneSender
  <2>9. CASE WriteDone(p) BY <2>9 DEF WriteDone
  <2>10. CASE Enter(p) BY <2>10 DEF Enter
  <2>11. CASE WriteErrorUnsets(p) BY <2>11 DEF WriteErrorUnsets, UnsetCallback
  <2>12. CASE WriteErrorCloses(p) BY <2>12 DEF WriteErrorCloses
  <2> QED BY <1>5, <2>1, <2>2, <2>3, <2>4, <2>5, <2>6, <2>7, <2>8, <2>9,
         <2>10, <2>11, <2>12 DEF PumpStep
<1>6. ASSUME NEW p \in Pumps, WriteFails(p) PROVE (TokenInv /\ SinglePump)'
  BY <1>6 DEF WriteFails
<1>7. CASE ReadFails \/ ReadError
  BY <1>7 DEF ReadFails, ReadError, ReadErrorUnsets, ReadErrorCloses, ReaderTo, UnsetCallback
<1>8. CASE AppClose BY <1>8 DEF AppClose
<1>9. CASE OnClosed BY <1>9 DEF OnClosed
<1>10. CASE UNCHANGED vars BY <1>10 DEF vars
<1> QED BY <1>1, <1>2, <1>3, <1>4, <1>5, <1>6, <1>7, <1>8, <1>9, <1>10 DEF Next

\* A thread is taken by the pump it starts and given back once.
LEMMA HostStep ==
    ASSUME TypeOK, HostInv, [Next]_vars
    PROVE  HostInv'
<1> USE SessionAssumption DEF TypeOK, HostInv, Goto, PumpTo, ReleaseHost,
        queueVars, flagVars, pumpVars, chanVars, errVars
<1>1. CASE OnConnectEstablish BY <1>1 DEF OnConnectEstablish
<1>2. CASE NotifyApplication BY <1>2 DEF NotifyApplication
<1>3. ASSUME NEW t \in Senders, Send(t) PROVE HostInv'
  BY <1>3 DEF Send
<1>4. ASSUME NEW t \in Threads, ThreadStep(t) PROVE HostInv'
  <2>1. CASE Push(t) BY <2>1 DEF Push
  <2>2. CASE CheckFlag(t) BY <2>2 DEF CheckFlag
  <2>3. CASE CheckConnect(t) BY <2>3 DEF CheckConnect
  <2>4. CASE SetFlag(t) BY <2>4 DEF SetFlag
  <2>5. ASSUME NEW p \in Pumps, StartPump(t, p) PROVE HostInv'
    BY <2>5 DEF StartPump
  <2>6. CASE StartFails(t) BY <2>6 DEF StartFails
  <2> QED BY <1>4, <2>1, <2>2, <2>3, <2>4, <2>5, <2>6 DEF ThreadStep
<1>5. ASSUME NEW p \in Pumps, PumpStep(p) PROVE HostInv'
  <2>1. CASE Begin(p) BY <2>1 DEF Begin
  <2>2. CASE BeginFails(p) BY <2>2 DEF BeginFails
  <2>3. CASE ReadEmpty(p)
    <3>1. CASE closeAfter BY <2>3, <3>1 DEF ReadEmpty
    <3>2. CASE ~closeAfter
      <4>1. ReleaseHost(p)
        BY <2>3, <3>2 DEF ReadEmpty
      <4> QED BY <4>1
    <3> QED BY <3>1, <3>2
  <2>4. CASE CloseAfterSend(p) BY <2>4 DEF CloseAfterSend
  <2>5. CASE ReadNext(p) BY <2>5 DEF ReadNext, ClosesAfter
  <2>6. CASE NextStage(p) BY <2>6 DEF NextStage
  <2>7. CASE ReadChunk(p) BY <2>7 DEF ReadChunk
  <2>8. CASE BodyEnd(p)
    <3>1. CASE PeerType = "Server" BY <2>8, <3>1 DEF BodyEnd
    <3>2. CASE PeerType # "Server"
      <4>1. ReleaseHost(p)
        BY <2>8, <3>2 DEF BodyEnd
      <4> QED BY <4>1
    <3> QED BY <3>1, <3>2
  <2>9. CASE WriteDone(p) BY <2>9 DEF WriteDone
  <2>10. CASE Enter(p) BY <2>10 DEF Enter
  <2>11. CASE WriteErrorUnsets(p) BY <2>11 DEF WriteErrorUnsets, UnsetCallback
  <2>12. CASE WriteErrorCloses(p) BY <2>12 DEF WriteErrorCloses
  <2> QED BY <1>5, <2>1, <2>2, <2>3, <2>4, <2>5, <2>6, <2>7, <2>8, <2>9,
         <2>10, <2>11, <2>12 DEF PumpStep
<1>6. ASSUME NEW p \in Pumps, WriteFails(p) PROVE HostInv'
  BY <1>6 DEF WriteFails
<1>7. CASE ReadFails \/ ReadError
  BY <1>7 DEF ReadFails, ReadError, ReadErrorUnsets, ReadErrorCloses, ReaderTo, UnsetCallback
<1>8. CASE AppClose BY <1>8 DEF AppClose
<1>9. CASE OnClosed BY <1>9 DEF OnClosed
<1>10. CASE UNCHANGED vars BY <1>10 DEF vars
<1> QED BY <1>1, <1>2, <1>3, <1>4, <1>5, <1>6, <1>7, <1>8, <1>9, <1>10 DEF Next

\* A thread that queued a message either finds send_flag_ up or goes on to raise
\* it; a pump lowers it only when it sees the queue empty.
LEMMA WakeupStep ==
    ASSUME TypeOK, HostInv, NoLostWakeup, [Next]_vars
    PROVE  NoLostWakeup'
<1> USE SessionAssumption DEF TypeOK, HostInv, NoLostWakeup, Goto, PumpTo,
        ReleaseHost, queueVars, flagVars, pumpVars, chanVars, errVars
<1>1. CASE OnConnectEstablish BY <1>1 DEF OnConnectEstablish
<1>2. CASE NotifyApplication BY <1>2 DEF NotifyApplication
<1>3. ASSUME NEW t \in Senders, Send(t) PROVE NoLostWakeup'
  BY <1>3 DEF Send
<1>4. ASSUME NEW t \in Threads, ThreadStep(t) PROVE NoLostWakeup'
  <2>1. CASE Push(t) BY <2>1 DEF Push
  <2>2. CASE CheckFlag(t) BY <2>2 DEF CheckFlag
  <2>3. CASE CheckConnect(t) BY <2>3 DEF CheckConnect
  <2>4. CASE SetFlag(t) BY <2>4 DEF SetFlag
  <2>5. ASSUME NEW p \in Pumps, StartPump(t, p) PROVE NoLostWakeup'
    BY <2>5 DEF StartPump
  <2>6. CASE StartFails(t) BY <2>6 DEF StartFails
  <2> QED BY <1>4, <2>1, <2>2, <2>3, <2>4, <2>5, <2>6 DEF ThreadStep
<1>5. ASSUME NEW p \in Pumps, PumpStep(p) PROVE NoLostWakeup'
  <2>1. CASE Begin(p) BY <2>1 DEF Begin
  <2>2. CASE BeginFails(p) BY <2>2 DEF BeginFails
  <2>3. CASE ReadEmpty(p) BY <2>3 DEF ReadEmpty
  <2>4. CASE CloseAfterSend(p) BY <2>4 DEF CloseAfterSend
  <2>5. CASE ReadNext(p) BY <2>5 DEF ReadNext, ClosesAfter
  <2>6. CASE NextStage(p) BY <2>6 DEF NextStage
  <2>7. CASE ReadChunk(p) BY <2>7 DEF ReadChunk
  <2>8. CASE BodyEnd(p) BY <2>8 DEF BodyEnd
  <2>9. CASE WriteDone(p) BY <2>9 DEF WriteDone
  <2>10. CASE Enter(p) BY <2>10 DEF Enter
  <2>11. CASE WriteErrorUnsets(p) BY <2>11 DEF WriteErrorUnsets, UnsetCallback
  <2>12. CASE WriteErrorCloses(p) BY <2>12 DEF WriteErrorCloses
  <2> QED BY <1>5, <2>1, <2>2, <2>3, <2>4, <2>5, <2>6, <2>7, <2>8, <2>9,
         <2>10, <2>11, <2>12 DEF PumpStep
<1>6. ASSUME NEW p \in Pumps, WriteFails(p) PROVE NoLostWakeup'
  BY <1>6 DEF WriteFails
<1>7. CASE ReadFails \/ ReadError
  BY <1>7 DEF ReadFails, ReadError, ReadErrorUnsets, ReadErrorCloses, ReaderTo, UnsetCallback
<1>8. CASE AppClose BY <1>8 DEF AppClose
<1>9. CASE OnClosed BY <1>9 DEF OnClosed
<1>10. CASE UNCHANGED vars BY <1>10 DEF vars
<1> QED BY <1>1, <1>2, <1>3, <1>4, <1>5, <1>6, <1>7, <1>8, <1>9, <1>10 DEF Next

\* send_flag_ is up without a pump only after the channel went down.
LEMMA FlagStep ==
    ASSUME OneSender, TypeOK, TurnInv, TokenInv, HostInv, FlagMeansSending, [Next]_vars
    PROVE  FlagMeansSending'
<1> USE SessionAssumption DEF TypeOK, TurnInv, TokenInv, HostInv, FlagMeansSending,
        Active, Goto, PumpTo, ReleaseHost, queueVars, flagVars, pumpVars, chanVars, errVars
<1>1. CASE OnConnectEstablish BY <1>1 DEF OnConnectEstablish
<1>2. CASE NotifyApplication BY <1>2 DEF NotifyApplication
<1>3. ASSUME NEW t \in Senders, Send(t) PROVE FlagMeansSending'
  BY <1>3 DEF Send
<1>4. ASSUME NEW t \in Threads, ThreadStep(t) PROVE FlagMeansSending'
  <2>1. CASE Push(t) BY <2>1 DEF Push
  <2>2. CASE CheckFlag(t) BY <2>2 DEF CheckFlag
  <2>3. CASE CheckConnect(t) BY <2>3 DEF CheckConnect
  <2>4. CASE SetFlag(t) BY <2>4 DEF SetFlag
  <2>5. ASSUME NEW p \in Pumps, StartPump(t, p) PROVE FlagMeansSending'
    BY <2>5 DEF StartPump
  <2>6. CASE StartFails(t) BY <2>6 DEF StartFails
  <2> QED BY <1>4, <2>1, <2>2, <2>3, <2>4, <2>5, <2>6 DEF ThreadStep
<1>5. ASSUME NEW p \in Pumps, PumpStep(p) PROVE FlagMeansSending'
  <2>1. CASE Begin(p) BY <2>1 DEF Begin
  <2>2. CASE BeginFails(p) BY <2>2 DEF BeginFails
  <2>3. CASE ReadEmpty(p) BY <2>3 DEF ReadEmpty
  <2>4. CASE CloseAfterSend(p) BY <2>4 DEF CloseAfterSend
  <2>5. CASE ReadNext(p) BY <2>5 DEF ReadNext, ClosesAfter
  <2>6. CASE NextStage(p) BY <2>6 DEF NextStage
  <2>7. CASE ReadChunk(p) BY <2>7 DEF ReadChunk
  <2>8. CASE BodyEnd(p) BY <2>8 DEF BodyEnd, OneSender
  <2>9. CASE WriteDone(p) BY <2>9 DEF WriteDone
  <2>10. CASE Enter(p) BY <2>10 DEF Enter
  <2>11. CASE WriteErrorUnsets(p) BY <2>11 DEF WriteErrorUnsets, UnsetCallback
  <2>12. CASE WriteErrorCloses(p) BY <2>12 DEF WriteErrorCloses
  <2> QED BY <1>5, <2>1, <2>2, <2>3, <2>4, <2>5, <2>6, <2>7, <2>8, <2>9,
         <2>10, <2>11, <2>12 DEF PumpStep
<1>6. ASSUME NEW p \in Pumps, WriteFails(p) PROVE FlagMeansSending'
  BY <1>6 DEF WriteFails
<1>7. CASE ReadFails \/ ReadError
  BY <1>7 DEF ReadFails, ReadError, ReadErrorUnsets, ReadErrorCloses, ReaderTo, UnsetCallback
<1>8. CASE AppClose BY <1>8 DEF AppClose
<1>9. CASE OnClosed BY <1>9 DEF OnClosed
<1>10. CASE UNCHANGED vars BY <1>10 DEF vars
<1> QED BY <1>1, <1>2, <1>3, <1>4, <1>5, <1>6, <1>7, <1>8, <1>9, <1>10 DEF Next

LEMMA PumpInit == Init => PumpInv
<1> SUFFICES ASSUME Init PROVE PumpInv
  OBVIOUS
<1>1. TypeOK
  BY TypeInit
<1> QED BY <1>1, SessionAssumption
    DEF Init, PumpInv, TurnInv, TokenInv, HostInv, SinglePump, NoLostWakeup,
        FlagMeansSending, Active

LEMMA PumpInvStep ==
    ASSUME OneSender
    PROVE  PumpInv /\ [Next]_vars => PumpInv'
BY OneSender, TypeStep, TurnStep, TokenStep, HostStep, WakeupStep, FlagStep DEF PumpInv

\* On a server session whose application sends from one thread (its event
\* callbacks, say), for any number of worker threads, messages and sizes: at
\* most one pump walks send_status_, no queued response is left behind with
\* nobody to send it, and send_flag_ is up only while somebody sends.
THEOREM ServerPumpSafe ==
    ASSUME OneSender
    PROVE  Spec => [](SinglePump /\ NoLostWakeup /\ FlagMeansSending)
<1>1. PumpInv /\ [Next]_vars => PumpInv'
  BY OneSender, PumpInvStep
<1>2. PumpInv => SinglePump /\ NoLostWakeup /\ FlagMeansSending
  BY DEF PumpInv
<1> QED BY PumpInit, <1>1, <1>2, PTL DEF Spec

\* In particular send_flag_ can be trusted both ways by start_send and on_read.
THEOREM ServerFlagHonest ==
    ASSUME OneSender
    PROVE  Spec => []FlagHonest
<1>1. Spec => [](SinglePump /\ NoLostWakeup /\ FlagMeansSending)
  BY OneSender, ServerPumpSafe
<1>2. SinglePump /\ NoLostWakeup /\ FlagMeansSending => FlagHonest
  BY DEF FlagHonest
<1> QED BY <1>1, <1>2, PTL

----------------------------------------------------------------------------
(* What a session with one sender writes to its channel is the queued      *)
(* messages, whole and in order, and Connection: Close waits for all of    *)
(* them.                                                                   *)

Unit == (1..MaxMsgs) \X Nat

\* The units s are those of the messages sub one after the other.
Joined(sub, u, v) ==
    IF u[2] < Total(sub[u[1]]) THEN v = <<u[1], u[2] + 1>> ELSE v = <<u[1] + 1, 1>>
InOrder(sub, s) ==
    /\ s # <<>> => s[1] = <<1, 1>>
    /\ \A i \in 1..(Len(s) - 1) : Joined(sub, s[i], s[i + 1])
Known(sub, s) == \A i \in 1..Len(s) : s[i][1] \in 1..Len(sub)

\* s ends with unit e of message n, where unit 0 is the last of the one before.
EndsAt(sub, s, n, e) ==
    IF e > 0 THEN s # <<>> /\ s[Len(s)] = <<n, e>>
    ELSE IF n = 1 THEN s = <<>>
    ELSE s # <<>> /\ s[Len(s)] = <<n - 1, Total(sub[n - 1])>>

\* The message send_status_ stands in, and how many of its units are given out;
\* between two messages it is the next one.
Taken == Len(submitted) - Len(queue)
MarkMsg == IF cur = <<>> THEN Taken + 1 ELSE Taken
MarkPos == IF cur = <<>> THEN 0 ELSE Emitted(cur)

\* What was queued and not taken is what was submitted last.
QueueInv ==
    /\ Len(queue) <= Len(submitted)
    /\ \A i \in 1..Len(submitted) : submitted[i].id = i
    /\ \A i \in 1..Len(queue) : queue[i] = submitted[Taken + i]
    /\ cur # <<>> => Taken \in 1..Len(submitted) /\ cur.msg = submitted[Taken]

Ends == EndsAt(submitted, wire, MarkMsg, MarkPos)
Written(p) ==
    /\ InOrder(submitted, wire \o buf[p]) /\ Known(submitted, wire \o buf[p])
    /\ EndsAt(submitted, wire \o buf[p], MarkMsg, MarkPos)

Data == QueueInv /\ InOrder(submitted, wire) /\ Known(submitted, wire)

\* While somebody may go on writing, the wire ends where send_status_ stands; a
\* pump that writes has the difference in its buffer.
Ties ==
    /\ \A p \in Pumps : pump[p] \in {"begin", "enter", "read", "close"} => Ends
    /\ \A p \in Pumps : pump[p] = "close" => cur = <<>> /\ queue = <<>>
    /\ \A p \in Pumps : pump[p] = "write" => Written(p)
    /\ bconn /\ (\A p \in Pumps : pump[p] \notin {"write", "raised", "unset"}) => Ends
    /\ pc[Io] = "start" => Ends

WireInv == PumpInv /\ Data /\ Ties

----------------------------------------------------------------------------
LEMMA CursorFields ==
    ASSUME NEW c \in Cursors
    PROVE  /\ c # <<>>
           /\ c.msg \in Messages /\ c.stage \in Stages /\ c.left \in Nat
           /\ c.left <= PartLen(c.msg, c.stage)
           /\ c.msg.body \in Nat
<1>1. c \in [msg : Messages, stage : Stages, left : Nat] /\ c.left <= PartLen(c.msg, c.stage)
  BY DEF Cursors
<1>2. c # <<>>
  <2>1. DOMAIN c = {"msg", "stage", "left"}
    BY <1>1
  <2>2. DOMAIN <<>> = {}
    OBVIOUS
  <2> QED BY <2>1, <2>2
<1> QED BY <1>1, <1>2, SessionAssumption DEF Messages

LEMMA MessageTotal ==
    ASSUME NEW m \in Messages
    PROVE  m.body \in Nat /\ Total(m) \in Nat /\ Total(m) > 0
<1>1. m.body \in Nat
  BY SessionAssumption DEF Messages
<1> QED BY <1>1, SessionAssumption DEF Total

\* How far a cursor is in its message.
LEMMA EmittedFacts ==
    ASSUME NEW c \in Cursors
    PROVE  /\ Emitted(c) \in Nat
           /\ Emitted(c) + c.left <= Total(c.msg)
           /\ c.stage = "body" => Emitted(c) + c.left = Total(c.msg)
BY CursorFields, SessionAssumption, SMTT(30) DEF Emitted, PartStart, PartLen, Total, Stages

LEMMA WholeStarts ==
    ASSUME NEW m \in Messages
    PROVE  Emitted(Whole(m, "line")) = 0 /\ Whole(m, "line").msg = m
BY SessionAssumption, MessageTotal DEF Emitted, PartStart, PartLen, Whole, Cursor

LEMMA StageFollows ==
    ASSUME NEW c \in Cursors, c.left = 0, c.stage # "body"
    PROVE  LET d == Whole(c.msg, IF c.stage = "line" THEN "head" ELSE "body")
           IN  d \in Cursors /\ Emitted(d) = Emitted(c) /\ d.msg = c.msg
<1> DEFINE d == Whole(c.msg, IF c.stage = "line" THEN "head" ELSE "body")
<1>1. d \in Cursors /\ d.msg = c.msg
  BY CursorFields, WholeType DEF Stages, Whole, Cursor
<1>2. Emitted(d) = Emitted(c)
  BY CursorFields, SessionAssumption DEF Emitted, PartStart, PartLen, Whole, Cursor, Stages
<1> QED BY <1>1, <1>2

LEMMA AdvanceFacts ==
    ASSUME NEW c \in Cursors, c.left > 0
    PROVE  /\ Advance(c) \in Cursors /\ Advance(c).msg = c.msg
           /\ ChunkLen(c) \in Nat /\ ChunkLen(c) > 0 /\ ChunkLen(c) <= c.left
           /\ Emitted(Advance(c)) = Emitted(c) + ChunkLen(c)
<1>1. ChunkLen(c) \in Nat /\ ChunkLen(c) > 0 /\ ChunkLen(c) <= c.left
  BY CursorFields, SessionAssumption DEF ChunkLen
<1>2. Advance(c) \in Cursors /\ Advance(c).msg = c.msg
  BY ChunkType DEF Advance, Cursor
<1>3. PartStart(c.stage) \in Nat /\ PartLen(c.msg, c.stage) \in Nat
  BY CursorFields, SessionAssumption DEF PartStart, PartLen, Stages
<1>4. Emitted(Advance(c)) = Emitted(c) + ChunkLen(c)
  BY <1>1, <1>3, CursorFields DEF Emitted, Advance, Cursor
<1> QED BY <1>1, <1>2, <1>4

LEMMA ConcatFacts ==
    ASSUME NEW S, NEW s \in Seq(S), NEW c \in Seq(S)
    PROVE  /\ s \o c \in Seq(S) /\ Len(s) \in Nat /\ Len(c) \in Nat
           /\ Len(s \o c) = Len(s) + Len(c)
           /\ \A i \in 1..Len(s) : (s \o c)[i] = s[i]
           /\ \A i \in 1..Len(c) : (s \o c)[Len(s) + i] = c[i]
OBVIOUS

\* The units e + 1 to e + l of message n go on where s ends.
LEMMA GoesOn ==
    ASSUME NEW sub \in Seq(Messages), NEW s \in Seq(Unit), NEW n \in 1..Len(sub), NEW e \in Nat,
           NEW l \in Nat, l > 0, e + l <= Total(sub[n]),
           NEW c \in Seq(Unit), c = [i \in 1..l |-> <<n, e + i>>],
           InOrder(sub, s), Known(sub, s), EndsAt(sub, s, n, e)
    PROVE  InOrder(sub, s \o c) /\ Known(sub, s \o c) /\ EndsAt(sub, s \o c, n, e + l)
<1> DEFINE t == s \o c
<1>1. /\ Len(c) = l /\ Len(s) \in Nat /\ Len(t) = Len(s) + l /\ t \in Seq(Unit)
      /\ \A i \in 1..Len(s) : t[i] = s[i]
      /\ \A i \in 1..l : t[Len(s) + i] = <<n, e + i>>
  <2>1. Len(c) = l
    OBVIOUS
  <2>2. \A i \in 1..l : c[i] = <<n, e + i>>
    OBVIOUS
  <2>3. /\ t \in Seq(Unit) /\ Len(s) \in Nat /\ Len(t) = Len(s) + Len(c)
        /\ \A i \in 1..Len(s) : t[i] = s[i]
        /\ \A i \in 1..Len(c) : t[Len(s) + i] = c[i]
    BY ConcatFacts
  <2> QED BY <2>1, <2>2, <2>3
<1> HIDE DEF t
<1>2. sub[n] \in Messages /\ Total(sub[n]) \in Nat
  BY MessageTotal
<1>3. t # <<>> /\ t[Len(t)] = <<n, e + l>>
  BY <1>1
<1>4. EndsAt(sub, t, n, e + l)
  BY <1>3 DEF EndsAt
<1>5. Known(sub, t)
  <2> SUFFICES ASSUME NEW i \in 1..Len(t) PROVE t[i][1] \in 1..Len(sub)
    BY DEF Known
  <2>1. CASE i \in 1..Len(s) BY <2>1, <1>1 DEF Known
  <2>2. CASE i \notin 1..Len(s)
    <3> DEFINE k == i - Len(s)
    <3>1. k \in 1..l /\ i = Len(s) + k
      BY <1>1, <2>2
    <3> HIDE DEF k
    <3>2. t[Len(s) + k] = <<n, e + k>>
      BY <3>1, <1>1
    <3> QED BY <3>1, <3>2
  <2> QED BY <2>1, <2>2
<1>6. t[1] = <<1, 1>>
  <2>1. CASE s # <<>>
    <3>1. 1 \in 1..Len(s)
      BY <2>1
    <3> QED BY <2>1, <3>1, <1>1 DEF InOrder
  <2>2. CASE s = <<>>
    <3>1. n = 1 /\ e = 0
      BY <2>2 DEF EndsAt
    <3>2. Len(s) = 0 /\ t[Len(s) + 1] = <<n, e + 1>>
      BY <2>2, <1>1
    <3> QED BY <3>1, <3>2
  <2> QED BY <2>1, <2>2
<1>7. ASSUME NEW i \in 1..(Len(t) - 1) PROVE Joined(sub, t[i], t[i + 1])
  <2>1. CASE i < Len(s)
    <3>1. i \in 1..(Len(s) - 1) /\ t[i] = s[i] /\ t[i + 1] = s[i + 1]
      BY <2>1, <1>1, SMTT(30)
    <3> QED BY <3>1 DEF InOrder
  <2>2. CASE i = Len(s)
    <3>1. s # <<>> /\ t[i] = s[Len(s)] /\ t[i + 1] = <<n, e + 1>>
      BY <2>2, <1>1
    <3>2. CASE e > 0
      <4>1. t[i] = <<n, e>> /\ e < Total(sub[n])
        BY <3>1, <3>2, <1>2 DEF EndsAt
      <4> QED BY <3>1, <4>1 DEF Joined
    <3>3. CASE e = 0
      <4>1. t[i] = <<n - 1, Total(sub[n - 1])>> /\ n # 1
        BY <3>1, <3>3 DEF EndsAt
      <4>2. n - 1 \in 1..Len(sub) /\ Total(sub[n - 1]) \in Nat
        <5>1. n \in Nat /\ n <= Len(sub) /\ 1 <= n
          OBVIOUS
        <5>2. n - 1 \in 1..Len(sub)
          BY <4>1, <5>1
        <5>3. sub[n - 1] \in Messages
          BY <5>2
        <5> QED BY <5>2, <5>3, MessageTotal
      <4> QED BY <3>1, <3>3, <4>1, <4>2 DEF Joined
    <3> QED BY <3>2, <3>3
  <2>3. CASE i > Len(s)
    <3> DEFINE k == i - Len(s)
    <3>0. i \in Nat /\ Len(s) \in Nat /\ i < Len(s) + l
      BY <1>1
    <3>1. k \in 1..l /\ k + 1 \in 1..l /\ i = Len(s) + k /\ i + 1 = Len(s) + (k + 1)
      BY <2>3, <3>0
    <3> HIDE DEF k
    <3>2. t[Len(s) + k] = <<n, e + k>> /\ t[Len(s) + (k + 1)] = <<n, e + (k + 1)>>
      BY <3>1, <1>1
    <3>3. e + k < Total(sub[n])
      BY <3>1, <1>2
    <3> QED BY <3>1, <3>2, <3>3 DEF Joined
  <2> QED BY <2>1, <2>2, <2>3, <1>1
<1> QED BY <1>4, <1>5, <1>6, <1>7 DEF InOrder, t

\* The end of one message is the place before the next one.
LEMMA NextMessage ==
    ASSUME NEW sub \in Seq(Messages), NEW s, NEW n \in 1..Len(sub), EndsAt(sub, s, n, Total(sub[n]))
    PROVE  EndsAt(sub, s, n + 1, 0)
<1>1. Total(sub[n]) > 0
  BY MessageTotal
<1>2. s # <<>> /\ s[Len(s)] = <<n, Total(sub[n])>>
  BY <1>1 DEF EndsAt
<1>3. n + 1 # 1 /\ (n + 1) - 1 = n
  OBVIOUS
<1> QED BY <1>2, <1>3 DEF EndsAt

\* A new message does not disturb what was said of the ones before it.
LEMMA AppendKeeps ==
    ASSUME NEW sub \in Seq(Messages), NEW m \in Messages, NEW s \in Seq(Unit),
           NEW n \in 1..(Len(sub) + 1), NEW e \in Nat,
           InOrder(sub, s), Known(sub, s)
    PROVE  LET new == Append(sub, m)
           IN  /\ InOrder(new, s) /\ Known(new, s)
               /\ EndsAt(sub, s, n, e) => EndsAt(new, s, n, e)
<1> DEFINE new == Append(sub, m)
<1>1. Len(sub) \in Nat /\ Len(new) = Len(sub) + 1 /\ \A i \in 1..Len(sub) : new[i] = sub[i]
  OBVIOUS
<1> HIDE DEF new
<1>2. Known(new, s)
  BY <1>1 DEF Known
<1>3. InOrder(new, s)
  <2>1. ASSUME NEW i \in 1..(Len(s) - 1) PROVE Joined(new, s[i], s[i + 1])
    <3>1. i \in 1..Len(s)
      OBVIOUS
    <3>2. s[i][1] \in 1..Len(sub)
      BY <3>1 DEF Known
    <3>3. new[s[i][1]] = sub[s[i][1]]
      BY <3>2, <1>1
    <3> QED BY <3>3 DEF InOrder, Joined
  <2> QED BY <2>1 DEF InOrder
<1>4. EndsAt(sub, s, n, e) => EndsAt(new, s, n, e)
  <2>1. n # 1 => n - 1 \in 1..Len(sub)
    BY <1>1
  <2>2. n # 1 => new[n - 1] = sub[n - 1]
    BY <2>1, <1>1
  <2> QED BY <2>2 DEF EndsAt
<1> QED BY <1>2, <1>3, <1>4 DEF new

----------------------------------------------------------------------------
(* What the steps do to the queue, the cursor and the wire                 *)

\* Where send_status_ stands.
LEMMA MarkType ==
    ASSUME TypeOK, QueueInv
    PROVE  /\ Taken \in Nat /\ Taken <= Len(submitted) /\ Len(submitted) \in Nat
           /\ MarkMsg \in 1..(Len(submitted) + 1) /\ MarkPos \in Nat
<1>1. Taken \in Nat /\ Taken <= Len(submitted) /\ Len(submitted) \in Nat
  BY DEF TypeOK, QueueInv, Taken
<1>2. MarkMsg \in 1..(Len(submitted) + 1)
  BY <1>1 DEF QueueInv, MarkMsg
<1>3. MarkPos \in Nat
  BY EmittedFacts DEF TypeOK, MarkPos
<1> QED BY <1>1, <1>2, <1>3

LEMMA MarkKept ==
    ASSUME submitted' = submitted, wire' = wire, MarkMsg' = MarkMsg, MarkPos' = MarkPos
    PROVE  /\ Ends' = Ends
           /\ \A p \in Pumps : buf'[p] = buf[p] => Written(p)' = Written(p)
<1>1. Ends' = Ends
  BY DEF Ends
<1>2. ASSUME NEW p \in Pumps, buf'[p] = buf[p] PROVE Written(p)' = Written(p)
  BY <1>2 DEF Written
<1> QED BY <1>1, <1>2

LEMMA SameData ==
    ASSUME Data, UNCHANGED <<queue, submitted, cur, wire>>
    PROVE  /\ Data' /\ Ends' = Ends
           /\ \A p \in Pumps : buf'[p] = buf[p] => Written(p)' = Written(p)
<1>1. MarkMsg' = MarkMsg /\ MarkPos' = MarkPos /\ Taken' = Taken
  BY DEF MarkMsg, MarkPos, Taken
<1>2. Data'
  BY <1>1 DEF Data, QueueInv
<1> QED BY <1>1, <1>2, MarkKept

LEMMA PushData ==
    ASSUME TypeOK, Data, NEW t \in Threads, Push(t)
    PROVE  /\ Data' /\ (Ends => Ends')
           /\ \A p \in Pumps : Written(p) => Written(p)'
<1>1. PICK m \in Messages : /\ queue' = Append(queue, m) /\ submitted' = Append(submitted, m)
                            /\ m.id = Len(submitted) + 1
  <2>1. PICK b \in BodyLens, c \in BOOLEAN :
          LET m == [id |-> Len(submitted) + 1, body |-> b, close |-> c]
          IN  queue' = Append(queue, m) /\ submitted' = Append(submitted, m)
    BY DEF Push
  <2>2. Len(submitted) + 1 \in 1..MaxMsgs
    BY SessionAssumption DEF Push, TypeOK
  <2>3. [id |-> Len(submitted) + 1, body |-> b, close |-> c] \in Messages
    BY <2>2 DEF Messages
  <2> QED BY <2>1, <2>3
<1>2. cur' = cur /\ wire' = wire /\ buf' = buf
  BY DEF Push, pumpVars
<1>3. /\ queue \in Seq(Messages) /\ submitted \in Seq(Messages)
      /\ Len(submitted') = Len(submitted) + 1 /\ Len(queue') = Len(queue) + 1
      /\ Len(submitted) \in Nat /\ Len(queue) \in Nat
      /\ \A i \in 1..Len(submitted) : submitted'[i] = submitted[i]
      /\ \A i \in 1..Len(queue) : queue'[i] = queue[i]
      /\ submitted'[Len(submitted) + 1] = m /\ queue'[Len(queue) + 1] = m
  BY <1>1 DEF TypeOK
<1>4. Taken' = Taken /\ MarkMsg' = MarkMsg /\ MarkPos' = MarkPos
  BY <1>2, <1>3 DEF Taken, MarkMsg, MarkPos
<1>5. Taken \in Nat /\ MarkMsg \in 1..(Len(submitted) + 1) /\ MarkPos \in Nat
  BY MarkType DEF Data
<1>6. ASSUME NEW s \in Seq(Unit), InOrder(submitted, s), Known(submitted, s)
      PROVE  /\ InOrder(submitted', s) /\ Known(submitted', s)
             /\ EndsAt(submitted, s, MarkMsg, MarkPos) => EndsAt(submitted', s, MarkMsg, MarkPos)
  BY <1>6, <1>1, <1>3, <1>5, AppendKeeps
<1>7. wire \in Seq(Unit) /\ \A p \in Pumps : wire \o buf[p] \in Seq(Unit)
  <2>1. wire \in Seq(Unit) /\ \A p \in Pumps : buf[p] \in Seq(Unit)
    BY DEF TypeOK, Unit
  <2> QED BY <2>1, ConcatFacts
<1>8. QueueInv'
  <2>1. \A i \in 1..Len(submitted') : submitted'[i].id = i
    <3>1. \A i \in 1..Len(submitted') : i \in 1..Len(submitted) \/ i = Len(submitted) + 1
      BY <1>3
    <3>2. \A i \in 1..Len(submitted) : submitted[i].id = i
      BY DEF Data, QueueInv
    <3> QED BY <1>1, <1>3, <3>1, <3>2
  <2>2. \A i \in 1..Len(queue') : queue'[i] = submitted'[Taken + i]
    <3>1. ASSUME NEW i \in 1..Len(queue) PROVE queue'[i] = submitted'[Taken + i]
      <4>1. Taken + i \in 1..Len(submitted)
        BY <1>3, <1>5 DEF Taken
      <4> QED BY <4>1, <1>3 DEF Data, QueueInv
    <3>2. Taken + (Len(queue) + 1) = Len(submitted) + 1
      BY <1>3 DEF Taken
    <3>3. \A i \in 1..Len(queue') : i \in 1..Len(queue) \/ i = Len(queue) + 1
      BY <1>3
    <3> QED BY <3>1, <3>2, <3>3, <1>3
  <2>3. cur # <<>> => Taken \in 1..Len(submitted') /\ cur.msg = submitted'[Taken]
    BY <1>3 DEF Data, QueueInv
  <2>4. Len(queue') <= Len(submitted')
    BY <1>3 DEF Data, QueueInv
  <2> QED BY <2>1, <2>2, <2>3, <2>4, <1>2, <1>4 DEF QueueInv
<1>9. InOrder(submitted', wire) /\ Known(submitted', wire) /\ (Ends => Ends')
  BY <1>2, <1>4, <1>6, <1>7 DEF Data, Ends
<1>10. ASSUME NEW p \in Pumps, Written(p) PROVE Written(p)'
  BY <1>10, <1>2, <1>4, <1>6, <1>7 DEF Written
<1> QED BY <1>2, <1>8, <1>9, <1>10 DEF Data

LEMMA ReadNextData ==
    ASSUME TypeOK, Data, NEW p \in Pumps, ReadNext(p)
    PROVE  /\ Data' /\ Ends' = Ends
           /\ \A q \in Pumps : Written(q)' = Written(q)
<1>1. /\ cur = <<>> /\ queue # <<>> /\ cur' = Whole(Head(queue), "line") /\ queue' = Tail(queue)
      /\ submitted' = submitted /\ wire' = wire /\ buf' = buf
  BY DEF ReadNext
<1>2. /\ queue \in Seq(Messages) /\ Head(queue) = queue[1] /\ Head(queue) \in Messages
      /\ Len(queue') = Len(queue) - 1 /\ Len(queue) \in Nat /\ Len(queue) > 0
      /\ \A i \in 1..Len(queue') : queue'[i] = queue[i + 1]
  BY <1>1 DEF TypeOK
<1>3. cur' \in Cursors /\ cur' # <<>>
  BY <1>1, <1>2, WholeType, CursorFields DEF Stages
<1>4. Emitted(cur') = 0 /\ cur'.msg = Head(queue)
  BY <1>1, <1>2, WholeStarts
<1>5. Taken \in Nat /\ Len(submitted) \in Nat /\ Taken' = Taken + 1 /\ Taken' <= Len(submitted)
  BY <1>1, <1>2, MarkType DEF Data, Taken, QueueInv
<1>6. MarkMsg' = MarkMsg /\ MarkPos' = MarkPos
  BY <1>1, <1>3, <1>4, <1>5 DEF MarkMsg, MarkPos
<1>7. QueueInv'
  <2>1. cur'.msg = submitted[Taken']
    BY <1>2, <1>4, <1>5 DEF Data, QueueInv
  <2>2. ASSUME NEW i \in 1..Len(queue') PROVE queue'[i] = submitted[Taken' + i]
    <3>1. i + 1 \in 1..Len(queue) /\ Taken' + i = Taken + (i + 1)
      BY <1>2, <1>5
    <3>2. queue[i + 1] = submitted[Taken + (i + 1)]
      BY <3>1 DEF Data, QueueInv
    <3> QED BY <3>1, <3>2, <1>2
  <2>3. Len(queue') <= Len(submitted)
    BY <1>2, <1>5 DEF Data, QueueInv
  <2>4. \A i \in 1..Len(submitted) : submitted[i].id = i
    BY DEF Data, QueueInv
  <2>5. Taken' \in 1..Len(submitted)
    BY <1>5
  <2> QED BY <2>1, <2>2, <2>3, <2>4, <2>5, <1>1 DEF QueueInv
<1>8. Data'
  BY <1>1, <1>7 DEF Data
<1> QED BY <1>1, <1>6, <1>8, MarkKept

LEMMA NextStageData ==
    ASSUME TypeOK, Data, NEW p \in Pumps, NextStage(p)
    PROVE  /\ Data' /\ Ends' = Ends
           /\ \A q \in Pumps : Written(q)' = Written(q)
<1>1. /\ cur # <<>> /\ cur.left = 0 /\ cur.stage # "body" /\ cur \in Cursors
      /\ cur' = Whole(cur.msg, IF cur.stage = "line" THEN "head" ELSE "body")
      /\ queue' = queue /\ submitted' = submitted /\ wire' = wire /\ buf' = buf
  BY DEF NextStage, TypeOK, queueVars
<1>2. cur' \in Cursors /\ Emitted(cur') = Emitted(cur) /\ cur'.msg = cur.msg
  BY <1>1, StageFollows
<1>3. cur' # <<>>
  BY <1>2, CursorFields
<1>4. MarkMsg' = MarkMsg /\ MarkPos' = MarkPos /\ Taken' = Taken
  BY <1>1, <1>2, <1>3 DEF MarkMsg, MarkPos, Taken
<1>5. Data'
  BY <1>1, <1>2, <1>3, <1>4 DEF Data, QueueInv
<1> QED BY <1>1, <1>4, <1>5, MarkKept

LEMMA BodyEndData ==
    ASSUME TypeOK, Data, NEW p \in Pumps, BodyEnd(p)
    PROVE  /\ Data' /\ (Ends => Ends')
           /\ \A q \in Pumps : Written(q) => Written(q)'
<1>1. /\ cur # <<>> /\ cur.left = 0 /\ cur.stage = "body" /\ cur \in Cursors /\ cur' = <<>>
      /\ queue' = queue /\ submitted' = submitted /\ wire' = wire /\ buf' = buf
  BY DEF BodyEnd, TypeOK, queueVars
<1>2. /\ submitted \in Seq(Messages) /\ Taken \in 1..Len(submitted) /\ cur.msg = submitted[Taken]
      /\ Taken' = Taken
  BY <1>1 DEF TypeOK, Data, QueueInv, Taken
<1>3. MarkMsg = Taken /\ MarkPos = Total(submitted[Taken])
  BY <1>1, <1>2, EmittedFacts DEF MarkMsg, MarkPos
<1>4. MarkMsg' = Taken + 1 /\ MarkPos' = 0
  BY <1>1, <1>2 DEF MarkMsg, MarkPos
<1>5. \A s : EndsAt(submitted, s, MarkMsg, MarkPos) => EndsAt(submitted', s, MarkMsg', MarkPos')
  BY <1>1, <1>2, <1>3, <1>4, NextMessage
<1>6. Data'
  BY <1>1, <1>2 DEF Data, QueueInv
<1> QED BY <1>1, <1>5, <1>6 DEF Ends, Written

LEMMA ReadChunkData ==
    ASSUME TypeOK, Data, Ends, NEW p \in Pumps, ReadChunk(p)
    PROVE  Data' /\ Written(p)'
<1>1. /\ cur # <<>> /\ cur.left > 0 /\ cur \in Cursors /\ cur' = Advance(cur)
      /\ buf'[p] = Chunk(cur)
      /\ queue' = queue /\ submitted' = submitted /\ wire' = wire
  BY DEF ReadChunk, TypeOK, queueVars
<1>2. /\ submitted \in Seq(Messages) /\ wire \in Seq(Unit)
      /\ Taken \in 1..Len(submitted) /\ cur.msg = submitted[Taken] /\ cur.msg.id = Taken
      /\ Taken' = Taken
  BY <1>1 DEF TypeOK, Unit, Data, QueueInv, Taken
<1>3. /\ cur' \in Cursors /\ cur'.msg = cur.msg /\ Emitted(cur') = Emitted(cur) + ChunkLen(cur)
      /\ ChunkLen(cur) \in Nat /\ ChunkLen(cur) > 0 /\ ChunkLen(cur) <= cur.left
  BY <1>1, AdvanceFacts
<1>4. cur' # <<>> /\ cur.left \in Nat
  BY <1>1, <1>3, CursorFields
<1>5. Emitted(cur) \in Nat /\ Emitted(cur) + ChunkLen(cur) <= Total(submitted[Taken])
  <2>1. Emitted(cur) \in Nat /\ Emitted(cur) + cur.left <= Total(cur.msg)
    BY <1>1, EmittedFacts
  <2>2. Total(submitted[Taken]) \in Nat
    BY <1>2, MessageTotal
  <2> QED BY <2>1, <2>2, <1>2, <1>3, <1>4
<1>6. /\ Chunk(cur) \in Seq(Unit)
      /\ Chunk(cur) = [i \in 1..ChunkLen(cur) |-> <<Taken, Emitted(cur) + i>>]
  BY <1>1, <1>2, ChunkType DEF Chunk, Unit
<1>7. EndsAt(submitted, wire, Taken, Emitted(cur))
  BY <1>1 DEF Ends, MarkMsg, MarkPos
<1>8. InOrder(submitted, wire) /\ Known(submitted, wire)
  BY DEF Data
<1>9. /\ InOrder(submitted, wire \o Chunk(cur)) /\ Known(submitted, wire \o Chunk(cur))
      /\ EndsAt(submitted, wire \o Chunk(cur), Taken, Emitted(cur) + ChunkLen(cur))
  BY <1>2, <1>3, <1>5, <1>6, <1>7, <1>8, GoesOn
<1>10. MarkMsg' = Taken /\ MarkPos' = Emitted(cur) + ChunkLen(cur)
  BY <1>2, <1>3, <1>4 DEF MarkMsg, MarkPos
<1>11. Written(p)'
  BY <1>1, <1>9, <1>10 DEF Written
<1>12. Data'
  BY <1>1, <1>2, <1>3, <1>4 DEF Data, QueueInv
<1> QED BY <1>11, <1>12

LEMMA WriteDoneData ==
    ASSUME TypeOK, Data, NEW p \in Pumps, Written(p), WriteDone(p)
    PROVE  Data' /\ Ends'
<1>1. wire' = wire \o buf[p] /\ UNCHANGED <<queue, submitted, cur>>
  BY DEF WriteDone, queueVars
<1>2. MarkMsg' = MarkMsg /\ MarkPos' = MarkPos /\ Taken' = Taken
  BY <1>1 DEF MarkMsg, MarkPos, Taken
<1>3. QueueInv'
  BY <1>1, <1>2 DEF Data, QueueInv
<1> QED BY <1>1, <1>2, <1>3 DEF Data, Written, Ends

----------------------------------------------------------------------------
(* The wire stays tied to send_status_                                     *)

\* A step of a thread, or of the channel's other users.
LEMMA ThreadTies ==
    ASSUME WireInv,
           \/ OnConnectEstablish \/ NotifyApplication \/ (\E t \in Senders : Send(t))
           \/ (\E t \in Threads : ThreadStep(t))
           \/ ReadFails \/ ReadError \/ AppClose \/ OnClosed \/ UNCHANGED vars
    PROVE  Data' /\ Ties'
<1> USE SessionAssumption DEF Goto, queueVars, flagVars, pumpVars, chanVars, errVars
<1>0. TypeOK /\ Data /\ Ties /\ TokenInv /\ pc \in [Threads -> ThreadStates] /\ pump \in [Pumps -> PumpStates]
  BY DEF WireInv, PumpInv, TypeOK
<1>1. ASSUME UNCHANGED <<queue, submitted, cur, wire, buf>>
      PROVE  Data' /\ Ends' = Ends /\ \A p \in Pumps : Written(p)' = Written(p)
  BY <1>0, <1>1, SameData
<1>2. CASE OnConnectEstablish BY <1>0, <1>1, <1>2 DEF OnConnectEstablish, Ties
<1>3. CASE NotifyApplication BY <1>0, <1>1, <1>3 DEF NotifyApplication, Ties
<1>4. ASSUME NEW t \in Senders, Send(t) PROVE Data' /\ Ties'
  BY <1>0, <1>1, <1>4 DEF Send, Ties
<1>5. ASSUME NEW t \in Threads, ThreadStep(t) PROVE Data' /\ Ties'
  <2>1. CASE Push(t)
    <3>1. /\ Data' /\ (Ends => Ends')
          /\ \A p \in Pumps : Written(p) => Written(p)'
      BY <1>0, <2>1, PushData
    <3>2. \A p \in Pumps : pump[p] # "close"
      BY <2>1 DEF Push, LockFree
    <3> QED BY <1>0, <2>1, <3>1, <3>2 DEF Push, Ties
  <2>2. CASE CheckFlag(t) BY <1>0, <1>1, <2>2 DEF CheckFlag, Ties
  <2>3. CASE CheckConnect(t) BY <1>0, <1>1, <2>3 DEF CheckConnect, Ties
  <2>4. CASE SetFlag(t) BY <1>0, <1>1, <2>4 DEF SetFlag, Ties
  <2>5. ASSUME NEW p \in Pumps, StartPump(t, p) PROVE Data' /\ Ties'
    <3>1. \A q \in Pumps : pump[q] \notin {"write", "raised", "unset"}
      BY <1>0, <2>5 DEF StartPump, TokenInv, Active
    <3> QED BY <1>0, <1>1, <2>5, <3>1 DEF StartPump, Ties
  <2>6. CASE StartFails(t) BY <1>0, <1>1, <2>6 DEF StartFails, Ties
  <2> QED BY <1>5, <2>1, <2>2, <2>3, <2>4, <2>5, <2>6 DEF ThreadStep
<1>6. CASE ReadFails \/ ReadError
  BY <1>0, <1>1, <1>6 DEF ReadFails, ReadError, ReadErrorUnsets, ReadErrorCloses, ReaderTo, Ties
<1>7. CASE AppClose BY <1>0, <1>1, <1>7 DEF AppClose, Ties
<1>8. CASE OnClosed BY <1>0, <1>1, <1>8 DEF OnClosed, Ties
<1>9. CASE UNCHANGED vars BY <1>0, <1>1, <1>9 DEF vars, Ties
<1> QED BY <1>2, <1>3, <1>4, <1>5, <1>6, <1>7, <1>8, <1>9

\* A step of a pump, which is the only one that is sending.
LEMMA PumpTies ==
    ASSUME OneSender, WireInv, NEW p \in Pumps, PumpStep(p) \/ WriteFails(p)
    PROVE  Data' /\ Ties'
<1> USE SessionAssumption DEF PumpTo, queueVars, flagVars, pumpVars, chanVars, errVars
<1>0. /\ TypeOK /\ Data /\ Ties /\ SinglePump
      /\ pc \in [Threads -> ThreadStates] /\ pump \in [Pumps -> PumpStates]
      /\ buf \in [Pumps -> Seq((1..MaxMsgs) \X Nat)]
  BY DEF WireInv, PumpInv, TypeOK
<1>1. Active(p) => (\A q \in Pumps : Active(q) => q = p) /\ pc[Io] # "start"
  BY DEF WireInv, PumpInv, SinglePump, TokenInv, TurnInv
<1>2. ReleaseHost(p) => (pc'[Io] = "start" => pc[Io] = "start")
  BY <1>0 DEF ReleaseHost
<1>3. ASSUME UNCHANGED <<queue, submitted, cur, wire>>
      PROVE  Data' /\ Ends' = Ends /\ \A q \in Pumps : buf'[q] = buf[q] => Written(q)' = Written(q)
  BY <1>0, <1>3, SameData
<1>4. CASE Begin(p) BY <1>0, <1>3, <1>4 DEF Begin, Ties
<1>5. CASE BeginFails(p) BY <1>0, <1>2, <1>3, <1>5 DEF BeginFails, Ties
<1>6. CASE Enter(p) BY <1>0, <1>3, <1>6 DEF Enter, Ties
<1>7. CASE ReadEmpty(p) BY <1>0, <1>2, <1>3, <1>7 DEF ReadEmpty, Ties
<1>8. CASE CloseAfterSend(p) BY <1>0, <1>2, <1>3, <1>8 DEF CloseAfterSend, Ties
<1>9. CASE ReadNext(p)
  <2>1. Data' /\ Ends' = Ends /\ \A q \in Pumps : Written(q)' = Written(q)
    BY <1>0, <1>9, ReadNextData
  <2>2. \A q \in Pumps : pump[q] # "close"
    BY <1>9 DEF ReadNext, LockFree
  <2> QED BY <1>0, <1>9, <2>1, <2>2 DEF ReadNext, Ties
<1>10. CASE NextStage(p)
  <2>1. Data' /\ Ends' = Ends /\ \A q \in Pumps : Written(q)' = Written(q)
    BY <1>0, <1>10, NextStageData
  <2>2. \A q \in Pumps : pump[q] # "close"
    BY <1>0, <1>10 DEF NextStage, Ties
  <2> QED BY <1>0, <1>10, <2>1, <2>2 DEF NextStage, Ties
<1>11. CASE ReadChunk(p)
  <2>1. pump[p] = "read" /\ Ends /\ Active(p) /\ pump' = [pump EXCEPT ![p] = "write"]
    BY <1>0, <1>11 DEF ReadChunk, Ties, Active
  <2>2. Data' /\ Written(p)'
    BY <1>0, <1>11, <2>1, ReadChunkData
  <2>3. \A q \in Pumps : pump[q] # "close"
    BY <1>0, <1>11 DEF ReadChunk, Ties
  <2>4. \A q \in Pumps : q # p => pump'[q] \notin {"begin", "enter", "read", "write", "close"}
    BY <1>0, <1>1, <2>1, <2>3 DEF Active
  <2>5. pump'[p] = "write" /\ pc'[Io] # "start"
    BY <1>0, <1>1, <1>2, <1>11, <2>1 DEF ReadChunk
  <2> QED BY <1>0, <2>2, <2>4, <2>5 DEF Ties
<1>12. CASE BodyEnd(p)
  <2>1. Data' /\ (Ends => Ends') /\ \A q \in Pumps : Written(q) => Written(q)'
    BY <1>0, <1>12, BodyEndData
  <2>2. \A q \in Pumps : pump[q] # "close"
    BY <1>0, <1>12 DEF BodyEnd, Ties
  <2>3. pump' = pump /\ pc' = pc /\ bconn' = bconn
    BY <1>12 DEF BodyEnd, OneSender
  <2> QED BY <1>0, <2>1, <2>2, <2>3 DEF Ties
<1>13. CASE WriteDone(p)
  <2>1. pump[p] = "write" /\ Written(p) /\ Active(p) /\ pump' = [pump EXCEPT ![p] = "begin"]
    BY <1>0, <1>13 DEF WriteDone, Ties, Active
  <2>2. Data' /\ Ends'
    BY <1>0, <1>13, <2>1, WriteDoneData
  <2>3. \A q \in Pumps : pump'[q] # "write"
    BY <1>0, <1>1, <2>1 DEF Active
  <2>4. \A q \in Pumps : pump'[q] = "close" => pump[q] = "close"
    BY <1>0, <2>1
  <2> QED BY <1>0, <1>13, <2>2, <2>3, <2>4 DEF Ties, WriteDone
<1>14. CASE WriteFails(p)
  <2>1. pump[p] = "write" /\ Active(p) /\ pump' = [pump EXCEPT ![p] = "raised"]
    BY <1>0, <1>14 DEF WriteFails, Active
  <2>2. /\ pump'[p] = "raised"
        /\ \A q \in Pumps : pump'[q] # "write" /\ (pump'[q] = pump[q] \/ pump'[q] = "raised")
    BY <1>0, <1>1, <2>1 DEF Active
  <2>3. Data' /\ Ends' = Ends
    BY <1>3, <1>14 DEF WriteFails
  <2> QED BY <1>0, <1>14, <2>2, <2>3 DEF Ties, WriteFails
<1>15. CASE WriteErrorUnsets(p) BY <1>0, <1>3, <1>15 DEF WriteErrorUnsets, Ties
<1>16. CASE WriteErrorCloses(p) BY <1>0, <1>3, <1>16 DEF WriteErrorCloses, Ties
<1> QED BY <1>4, <1>5, <1>6, <1>7, <1>8, <1>9, <1>10, <1>11, <1>12, <1>13, <1>14,
       <1>15, <1>16 DEF PumpStep

LEMMA WireInit == Init => WireInv
<1> SUFFICES ASSUME Init PROVE WireInv
  OBVIOUS
<1>1. /\ queue = <<>> /\ submitted = <<>> /\ wire = <<>> /\ cur = <<>>
      /\ pump = [p \in Pumps |-> "none"]
  BY DEF Init
<1>2. Taken = 0 /\ MarkMsg = 1 /\ MarkPos = 0
  BY <1>1 DEF Taken, MarkMsg, MarkPos
<1>3. Data
  BY <1>1, <1>2 DEF Data, QueueInv, InOrder, Known
<1>4. Ends
  BY <1>1, <1>2 DEF Ends, EndsAt
<1>5. Ties
  BY <1>1, <1>4 DEF Ties
<1> QED BY <1>3, <1>5, PumpInit DEF WireInv

LEMMA WireStep ==
    ASSUME OneSender
    PROVE  WireInv /\ [Next]_vars => WireInv'
<1> SUFFICES ASSUME WireInv, [Next]_vars PROVE WireInv'
  OBVIOUS
<1>1. PumpInv'
  BY OneSender, PumpInvStep DEF WireInv
<1>2. Data' /\ Ties'
  BY OneSender, ThreadTies, PumpTies DEF Next
<1> QED BY <1>1, <1>2 DEF WireInv

\* On a server session with one sender, for every number of threads, pumps and
\* messages and all sizes of messages and buffers: what reaches the socket is
\* the queued messages, whole and in the order in which send() queued them,
\* however on_read, completed and failed writes, new calls of send and closes
\* interleave.
THEOREM ServerWireInOrder ==
    ASSUME OneSender
    PROVE  Spec => []WireInOrder
<1>1. WireInv => WireInOrder
  BY DEF WireInv, Data, InOrder, Joined, WireInOrder, Follows
<1>2. WireInv /\ [Next]_vars => WireInv'
  BY OneSender, WireStep
<1> QED BY WireInit, <1>1, <1>2, PTL DEF Spec

\* Connection: Close closes such a session only when every message that was
\* queued until then is on the wire to its last unit.
THEOREM ServerCloseWhenDrained ==
    ASSUME OneSender
    PROVE  Spec => []CloseWhenDrained
<1>1. WireInv => CloseWhenDrained
  <2> SUFFICES ASSUME WireInv, NEW p \in Pumps, pump[p] = "close"
               PROVE  queue = <<>> /\ cur = <<>> /\ AllOnWire
    BY DEF CloseWhenDrained
  <2>1. queue = <<>> /\ cur = <<>> /\ Ends
    BY DEF WireInv, Ties
  <2>2. submitted \in Seq(Messages)
    BY DEF WireInv, PumpInv, TypeOK
  <2>3. MarkMsg = Len(submitted) + 1 /\ MarkPos = 0
    BY <2>1, <2>2 DEF MarkMsg, MarkPos, Taken
  <2>4. ASSUME submitted # <<>>
        PROVE  wire # <<>> /\ wire[Len(wire)] = <<Len(submitted), Total(submitted[Len(submitted)])>>
    <3>1. MarkMsg # 1 /\ MarkMsg - 1 = Len(submitted)
      BY <2>2, <2>3, <2>4
    <3> QED BY <2>1, <2>3, <3>1 DEF Ends, EndsAt
  <2> QED BY <2>1, <2>4 DEF AllOnWire
<1>2. WireInv /\ [Next]_vars => WireInv'
  BY OneSender, WireStep
<1> QED BY WireInit, <1>1, <1>2, PTL DEF Spec
=============================================================================
