---------------------------- MODULE ByteStream -----------------------------
(***************************************************************************)
(* What a stream channel promises to those who send on it: the bytes of a  *)
(* message appear on the stream in order and once each, in one run or in   *)
(* several, until the message is complete or the channel breaks.  Nothing  *)
(* is promised about the order of different messages.                      *)
(***************************************************************************)
EXTENDS Naturals, Sequences

CONSTANTS Msgs,  \* the messages
          Size   \* Size[m]: the number of bytes of message m

VARIABLES
    sent,   \* how many bytes of each message are on the stream
    out,    \* the stream: <<m, i>> is byte i of message m
    over    \* the messages whose sending has ended (sent or given up)

streamVars == <<sent, out, over>>

Bytes(m, from, to) == [i \in 1..(to + 1 - from) |-> <<m, from + i - 1>>]

StreamInit ==
    /\ sent = [m \in Msgs |-> 0]
    /\ out = <<>>
    /\ over = {}

Deliver(m, k) ==
    /\ m \notin over
    /\ k \in 1..(Size[m] - sent[m])
    /\ out' = out \o Bytes(m, sent[m] + 1, sent[m] + k)
    /\ sent' = [sent EXCEPT ![m] = @ + k]
    /\ over' = IF sent'[m] = Size[m] THEN over \cup {m} ELSE over

Finish(m) ==
    /\ m \notin over
    /\ over' = over \cup {m}
    /\ UNCHANGED <<sent, out>>

StreamNext ==
    \E m \in Msgs : Finish(m) \/ \E k \in 1..Size[m] : Deliver(m, k)

StreamSpec == StreamInit /\ [][StreamNext]_streamVars
=============================================================================
