-------------------------- MODULE AsyncSendProofs ---------------------------
(***************************************************************************)
(* What async_send keeps of ByteStream, for every set of messages and      *)
(* however the socket cuts the writes.                                     *)
(***************************************************************************)
EXTENDS AsyncSend, TLAPS

\* What the socket took goes onto the stream as bytes of the message.
LEMMA TookType ==
    ASSUME NEW m \in Msgs, NEW k \in Nat, out \in Seq(Msgs \X Nat)
    PROVE  out \o Took(m, k) \in Seq(Msgs \X Nat)
<1>1. \A i \in 1..k : <<m, WriteFrom(m) + i - 1>> \in Msgs \X Nat
  BY DEF WriteFrom
<1>2. Took(m, k) \in Seq(Msgs \X Nat)
  BY <1>1 DEF Took
<1> QED BY <1>2

LEMMA SendTypeStep ==
    ASSUME TypeOK, [Next]_vars
    PROVE  TypeOK'
<1> USE SendAssumption DEF TypeOK, SendStates, Goto
<1>1. ASSUME NEW m \in Msgs, Send(m) PROVE TypeOK' BY <1>1 DEF Send
<1>2. ASSUME NEW m \in Msgs, SendEmpty(m) PROVE TypeOK' BY <1>2 DEF SendEmpty
<1>3. ASSUME NEW m \in Msgs, SendNotConnected(m) PROVE TypeOK'
  BY <1>3 DEF SendNotConnected
<1>4. ASSUME NEW m \in Msgs, StartWrite(m) PROVE TypeOK' BY <1>4 DEF StartWrite
<1>5. ASSUME NEW m \in Msgs, WriteAll(m) PROVE TypeOK'
  <2>1. out' \in Seq(Msgs \X Nat)
    BY <1>5, TookType DEF WriteAll
  <2> QED BY <1>5, <2>1 DEF WriteAll
<1>6. ASSUME NEW m \in Msgs, WriteSome(m) PROVE TypeOK'
  <2>1. PICK s \in 1..(len[m] - 1) :
            /\ out' = out \o Took(m, s)
            /\ len' = [len EXCEPT ![m] = @ - s]
            /\ beg' = [beg EXCEPT ![m] = @ + s]
    BY <1>6 DEF WriteSome
  <2>2. s \in Nat /\ len[m] \in Nat /\ beg[m] \in Nat /\ len[m] - s \in Nat
    BY <2>1
  <2>3. out' \in Seq(Msgs \X Nat)
    BY <2>1, <2>2, TookType
  <2>4. beg' \in [Msgs -> Nat] /\ len' \in [Msgs -> Nat]
    BY <2>1, <2>2
  <2>5. \A n \in Msgs : beg'[n] + len'[n] = Size[n]
    BY <2>1, <2>2
  <2>6. st' \in [Msgs -> SendStates] /\ bconn' \in BOOLEAN
    BY <1>6 DEF WriteSome
  <2> QED BY <2>3, <2>4, <2>5, <2>6
<1>7. ASSUME NEW m \in Msgs, WriteFails(m) PROVE TypeOK' BY <1>7 DEF WriteFails
<1>8. CASE Close BY <1>8 DEF Close
<1>9. CASE UNCHANGED vars BY <1>9 DEF vars
<1> QED BY <1>1, <1>2, <1>3, <1>4, <1>5, <1>6, <1>7, <1>8, <1>9 DEF Next

\* However the socket cuts the writes of any messages, the offset and the
\* length async_send is called with always add up to the size of the message:
\* the rest it computes is the right one (what write() is given is not).
THEOREM SendTypeCorrect == Spec => []TypeOK
<1>1. Init => TypeOK
  BY SendAssumption DEF Init, TypeOK, SendStates
<1> QED BY <1>1, SendTypeStep, PTL DEF Spec
----------------------------------------------------------------------------
\* Only what is not empty is written.
SendInv == TypeOK /\ \A m \in Msgs : st[m] = "write" => len[m] > 0

LEMMA SendInvInit == Init => SendInv
BY SendAssumption DEF Init, SendInv, TypeOK, SendStates

LEMMA SendInvStep ==
    ASSUME SendInv, [Next]_vars
    PROVE  SendInv'
<1>1. TypeOK'
  BY SendTypeStep DEF SendInv
<1>2. \A m \in Msgs : st'[m] = "write" => len'[m] > 0
  <2> USE DEF SendInv, TypeOK, Goto
  <2>1. ASSUME NEW m \in Msgs, Send(m) \/ SendEmpty(m) \/ SendNotConnected(m) \/ WriteAll(m) \/ WriteFails(m)
        PROVE  \A n \in Msgs : st'[n] = "write" => len'[n] > 0
    BY <2>1 DEF Send, SendEmpty, SendNotConnected, WriteAll, WriteFails
  <2>2. ASSUME NEW m \in Msgs, StartWrite(m) PROVE \A n \in Msgs : st'[n] = "write" => len'[n] > 0
    BY <2>2 DEF StartWrite
  <2>3. ASSUME NEW m \in Msgs, WriteSome(m) PROVE \A n \in Msgs : st'[n] = "write" => len'[n] > 0
    <3>1. PICK s \in 1..(len[m] - 1) : len' = [len EXCEPT ![m] = @ - s]
      BY <2>3 DEF WriteSome
    <3>2. st' = [st EXCEPT ![m] = "call"]
      BY <2>3 DEF WriteSome
    <3> QED BY <3>1, <3>2
  <2>4. CASE Close \/ UNCHANGED vars
    BY <2>4 DEF Close, vars
  <2> QED BY <2>1, <2>2, <2>3, <2>4 DEF Next
<1> QED BY <1>1, <1>2 DEF SendInv

\* The initial states of async_send are initial states of the stream.
LEMMA StreamInitial == Init => Stream!StreamInit
BY SendAssumption DEF Init, Stream!StreamInit, Position, Over

\* A message that ends without bytes written is a Finish of the stream.
LEMMA EndsIsFinish ==
    ASSUME SendInv, NEW m \in Msgs, NEW s \in {"done", "failed"},
           st[m] \in {"call", "write"}, st' = [st EXCEPT ![m] = s],
           s = "done" => len[m] = 0, UNCHANGED <<beg, len, out>>
    PROVE  Stream!Finish(m)
<1>1. m \notin Over /\ Over' = Over \cup {m}
  BY DEF Over, SendInv, TypeOK
<1>2. Position' = Position
  BY SendAssumption DEF Position, SendInv, TypeOK
<1> QED BY <1>1, <1>2 DEF Stream!Finish

\* What a completion does: k bytes from the buffer's beginning go out and the
\* position in the message advances by k.
LEMMA Advance ==
    ASSUME SendInv, NEW m \in Msgs, WriteAll(m) \/ WriteSome(m)
    PROVE  \E k \in 1..len[m] :
              /\ st[m] = "write" /\ out' = out \o Took(m, k)
              /\ Position[m] = beg[m] /\ Position' = [Position EXCEPT ![m] = @ + k]
              /\ m \notin Over /\ Over' = IF k = len[m] THEN Over \cup {m} ELSE Over
<1> USE SendAssumption DEF SendInv, TypeOK
<1>1. st[m] = "write" /\ len[m] \in Nat /\ beg[m] \in Nat /\ len[m] > 0
  BY DEF WriteAll, WriteSome, Goto
<1>2. Position \in [Msgs -> Nat] /\ Position[m] = beg[m] /\ m \notin Over
  BY <1>1 DEF Position, Over
<1>3. CASE WriteAll(m)
  <2>1. st' = [st EXCEPT ![m] = "done"] /\ out' = out \o Took(m, len[m]) /\ beg' = beg
    BY <1>3 DEF WriteAll, Goto
  <2>2. Position'[m] = Position[m] + len[m]
    BY <1>1, <1>2, <2>1 DEF Position
  <2>3. \A n \in Msgs \ {m} : Position'[n] = Position[n]
    BY <2>1 DEF Position
  <2>4. Position' \in [Msgs -> Nat]
    BY <2>1 DEF Position
  <2>5. Position' = [Position EXCEPT ![m] = @ + len[m]]
    BY <1>2, <2>2, <2>3, <2>4
  <2>6. Over' = Over \cup {m}
    BY <2>1 DEF Over
  <2>7. len[m] \in 1..len[m]
    BY <1>1
  <2> QED BY <1>1, <1>2, <2>1, <2>5, <2>6, <2>7
<1>4. CASE WriteSome(m)
  <2>1. PICK k \in 1..(len[m] - 1) : out' = out \o Took(m, k) /\ beg' = [beg EXCEPT ![m] = @ + k]
    BY <1>4 DEF WriteSome
  <2>2. st' = [st EXCEPT ![m] = "call"]
    BY <1>4 DEF WriteSome, Goto
  <2>3. Position'[m] = Position[m] + k
    BY <1>1, <1>2, <2>1, <2>2 DEF Position
  <2>4. \A n \in Msgs \ {m} : Position'[n] = Position[n]
    BY <2>1, <2>2 DEF Position
  <2>5. beg' \in [Msgs -> Nat]
    BY <1>1, <2>1
  <2>6. Position' \in [Msgs -> Nat]
    BY <2>5 DEF Position
  <2>7. Position' = [Position EXCEPT ![m] = @ + k]
    BY <1>2, <2>3, <2>4, <2>6
  <2>8. Over' = Over
    BY <1>1, <2>2 DEF Over
  <2>9. k \in 1..len[m] /\ k # len[m]
    BY <1>1, <2>1
  <2> QED BY <1>1, <1>2, <2>1, <2>7, <2>8, <2>9
<1> QED BY <1>3, <1>4

\* Every step is a step of the stream, leaves it alone or repeats bytes.
LEMMA StreamStep ==
    ASSUME SendInv, [Next]_vars
    PROVE  [Stream!StreamNext \/ \E m \in Msgs : \E k \in 1..Size[m] : Repeats(m, k)]_(Stream!streamVars)
<1> USE SendAssumption
<1>1. ASSUME NEW m \in Msgs, Send(m) \/ StartWrite(m) PROVE UNCHANGED Stream!streamVars
  BY <1>1 DEF Send, StartWrite, Goto, SendInv, TypeOK, Stream!streamVars, Position, Over
<1>2. ASSUME NEW m \in Msgs, SendEmpty(m) PROVE Stream!Finish(m)
  BY <1>2, EndsIsFinish DEF SendEmpty, Goto
<1>3. ASSUME NEW m \in Msgs, SendNotConnected(m) \/ WriteFails(m) PROVE Stream!Finish(m)
  BY <1>3, EndsIsFinish DEF SendNotConnected, WriteFails, Goto
<1>4. ASSUME NEW m \in Msgs, WriteAll(m) \/ WriteSome(m)
      PROVE  Stream!StreamNext \/ \E k \in 1..Size[m] : Repeats(m, k)
  <2>1. PICK k \in 1..len[m] :
            /\ st[m] = "write" /\ out' = out \o Took(m, k)
            /\ Position[m] = beg[m] /\ Position' = [Position EXCEPT ![m] = @ + k]
            /\ m \notin Over /\ Over' = IF k = len[m] THEN Over \cup {m} ELSE Over
    BY <1>4, Advance
  <2>2. /\ len[m] \in Nat /\ beg[m] \in Nat /\ beg[m] + len[m] = Size[m] /\ Position \in [Msgs -> Nat]
    BY DEF SendInv, TypeOK, Position
  <2>3. k \in 1..Size[m] /\ k \in Nat
    BY <2>1, <2>2
  <2>4. Took(m, k) = Stream!Bytes(m, 1, k)
    BY <2>3 DEF Took, WriteFrom, Stream!Bytes
  <2>5. CASE beg[m] > 0
    BY <2>1, <2>3, <2>4, <2>5 DEF Repeats
  <2>6. CASE beg[m] = 0
    <3>1. Position[m] + 1 = 1 /\ Position[m] + k = k /\ Size[m] - Position[m] = len[m] /\ Position'[m] = k
      BY <2>1, <2>2, <2>3, <2>6
    <3>2. out' = out \o Stream!Bytes(m, Position[m] + 1, Position[m] + k)
      BY <2>1, <2>4, <3>1
    <3>3. Over' = IF Position'[m] = Size[m] THEN Over \cup {m} ELSE Over
      BY <2>1, <2>2, <2>6, <3>1
    <3>4. k \in 1..(Size[m] - Position[m])
      BY <2>1, <3>1
    <3>5. Stream!Deliver(m, k)
      BY <2>1, <3>2, <3>3, <3>4 DEF Stream!Deliver
    <3> QED BY <2>3, <3>5 DEF Stream!StreamNext
  <2> QED BY <2>2, <2>5, <2>6
<1>5. CASE Close BY <1>5 DEF Close, Stream!streamVars, Position, Over
<1>6. CASE UNCHANGED vars BY <1>6 DEF vars, Stream!streamVars, Position, Over
<1> QED BY <1>1, <1>2, <1>3, <1>4, <1>5, <1>6 DEF Next, Stream!StreamNext

\* For any messages and lengths, any number of senders at a time and any cuts
\* of the writes, async_send is a byte stream but for the rests of cut writes,
\* which have the right lengths and the wrong bytes; the run partial_write
\* shows that they break the promise of the stream.
THEOREM SendIsStreamButForRests == Spec => StreamButForRests
<1>1. SendInv /\ [Next]_vars => SendInv'
  BY SendInvStep
<1>2. SendInv /\ [Next]_vars
      => [Stream!StreamNext \/ \E m \in Msgs : \E k \in 1..Size[m] : Repeats(m, k)]_(Stream!streamVars)
  BY StreamStep
<1> QED BY SendInvInit, StreamInitial, <1>1, <1>2, PTL DEF Spec, StreamButForRests
=============================================================================
