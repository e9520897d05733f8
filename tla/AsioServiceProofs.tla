-------------------------- MODULE AsioServiceProofs -------------------------
(***************************************************************************)
(* The safety of the service and its shutdown, for any number of handles,  *)
(* workers and calls.                                                      *)
(***************************************************************************)
EXTENDS AsioService, TLAPS

FrameSet == [at : Places, h : Handles \cup {NoHandle}, held : BOOLEAN,
             then : {"idle", "call", "fn"}]

\* Where a thread has a reference, and where it works on a handle.
FramesOK(ths) ==
    /\ ths \in [Threads -> FrameSet]
    /\ \A t \in Threads :
          /\ ths[t].at \in {"use", "erase", "close"} => ths[t].held
          /\ ths[t].at \in {"idle", "left", "find", "call", "fn"} => ~ths[t].held
          /\ ths[t].at \notin {"idle", "left", "fn"} => ths[t].h \in Handles

ChannelsOK(chs) ==
    /\ chs \in [Handles -> Channels]
    /\ \A h \in Handles : /\ chs[h].armed => chs[h].kind = "timer"
                          /\ chs[h].open => chs[h].kind = "udp"

\* Who is in the map, posted or referred to was created.
RefsOK(m, ps, ths, chs) ==
    /\ m \subseteq {h \in Handles : chs[h].kind # "none"}
    /\ ps \subseteq {h \in Handles : chs[h].kind = "udp"}
    /\ \A t \in Threads : ths[t].held => chs[ths[t].h].kind # "none"

\* Where shutdown() does not fail, an open socket is in the map or about to be
\* closed.
OpenIsClosed(m, ths, chs) ==
    \A h \in Handles :
        chs[h].open /\ ~throws => h \in m \/ \E t \in Threads : ths[t].at = "close" /\ ths[t].h = h

Flags ==
    /\ main \in {"up", "clear", "stuck", "stop", "reset", "work", "join", "done"}
    /\ stopped \in BOOLEAN /\ work \in BOOLEAN /\ throws \in BOOLEAN
    /\ aborted \in BOOLEAN /\ unbound \in BOOLEAN
    /\ late \subseteq Handles /\ calls \in 0..MaxCalls

\* Once the application destroys the service only its functions on the workers
\* make calls.
Down ==
    /\ main # "up" => th[Main].at = "idle"
    /\ main \in {"stop", "reset", "work", "join", "done"} => map \subseteq late
    /\ main = "done" => \A w \in Workers : th[w].at = "left"

Core == FramesOK(th) /\ ChannelsOK(ch) /\ RefsOK(map, posted, th, ch)
Safe == NothingOutlivesChannel /\ OpenIsClosed(map, th, ch) /\ AbortOnlyUnbound
IInv == Core /\ Flags /\ Safe /\ Down

\* Ended drops the reference of a thread and nothing else.
LEMMA EndedFrames ==
    ASSUME FramesOK(th), NEW t \in Threads, th[t].at \notin {"idle", "left", "fn"}
    PROVE  /\ FramesOK(Ended(t))
           /\ Ended(t)[t].at \in {"idle", "call", "fn"}
           /\ \A u \in Threads \ {t} : Ended(t)[u] = th[u]
BY DEF FramesOK, FrameSet, Ended, Frame, Places

\* A call begins without a reference.
LEMMA EnterFrames ==
    ASSUME FramesOK(th), NEW t \in Threads, th[t].at \in {"idle", "fn"},
           NEW h \in Handles, NEW at \in {"find", "lookup"}
    PROVE  /\ FramesOK(Enter(t, at, h))
           /\ ~Enter(t, at, h)[t].held /\ Enter(t, at, h)[t].at = at
           /\ \A u \in Threads \ {t} : Enter(t, at, h)[u] = th[u]
BY DEF FramesOK, FrameSet, Enter, Frame, Places

LEMMA ClosedChannels ==
    ASSUME NEW c \in Channels
    PROVE  /\ Closed(c) \in Channels /\ ~Closed(c).armed /\ Closed(c).kind = c.kind
           /\ Closed(c).open => c.open /\ (~throws => c.kind # "udp")
           /\ [Closed(c) EXCEPT !.open = FALSE] \in Channels
           /\ [Closed(c) EXCEPT !.open = FALSE].kind = c.kind
           /\ ~[Closed(c) EXCEPT !.open = FALSE].armed
           /\ ~[Closed(c) EXCEPT !.open = FALSE].open
BY DEF Closed, ClosesSocket, Channels

\* The channels add_channel creates.
LEMMA NewChannels ==
    /\ Udp \in Channels /\ Udp.kind = "udp" /\ ~Udp.armed
    /\ \A ms \in 0..1 : Timer(ms) \in Channels /\ Timer(ms).kind = "timer" /\ ~Timer(ms).open
<1>1. NoChannel \in Channels /\ ~NoChannel.armed /\ ~NoChannel.open
    BY DEF NoChannel, Channels, Callbacks
<1>2. Udp \in Channels /\ Udp.kind = "udp" /\ ~Udp.armed
    BY <1>1 DEF Udp, Channels
<1>3. \A ms \in 0..1 : Timer(ms) \in Channels /\ Timer(ms).kind = "timer" /\ ~Timer(ms).open
    BY <1>1 DEF Timer, Channels
<1> QED BY <1>2, <1>3

\* A step that ends in After keeps the shape of the state, and what its
\* destructors leave does not outlive a channel.
LEMMA AfterCore ==
    ASSUME NEW STATE m, NEW STATE ps, NEW STATE ths, NEW STATE chs,
           FramesOK(ths), ChannelsOK(chs), RefsOK(m, ps, ths, chs), After(m, ps, ths, chs)
    PROVE  /\ Core' /\ NothingOutlivesChannel'
           /\ map' = m /\ posted' = ps /\ th' = ths
           /\ \A h \in Handles : ch'[h].open => chs[h].open
           /\ aborted' \in BOOLEAN
<1> DEFINE gone == {h \in Handles : chs[h].kind # "none" /\ ~Alive(h, m, ps, ths)}
<1>1. /\ map' = m /\ posted' = ps /\ th' = ths
      /\ ch' = [h \in Handles |->
                   IF h \in gone THEN [Closed(chs[h]) EXCEPT !.open = FALSE] ELSE chs[h]]
    BY DEF After
<1>2. \A h \in Handles : chs[h] \in Channels
    BY DEF ChannelsOK
<1>3. \A h \in gone : /\ ch'[h] \in Channels /\ ch'[h].kind = chs[h].kind
                      /\ ~ch'[h].armed /\ ~ch'[h].open
    BY <1>1, <1>2, ClosedChannels
<1>4. \A h \in Handles \ gone : ch'[h] = chs[h]
    BY <1>1
<1>5. \A h \in Handles : ch'[h] \in Channels
    BY <1>2, <1>3, <1>4
<1>6. ch' \in [Handles -> Channels]
    <2> DEFINE f == [h \in Handles |->
                   IF h \in gone THEN [Closed(chs[h]) EXCEPT !.open = FALSE] ELSE chs[h]]
    <2>1. ch' = f BY <1>1
    <2>2. \A h \in Handles : f[h] \in Channels BY <1>5, <2>1
    <2> HIDE DEF gone
    <2>3. f \in [Handles -> Channels] BY <2>2
    <2> QED BY <2>1, <2>3
<1> HIDE DEF gone
<1>7. FramesOK(th')
    BY <1>1
<1>8. ChannelsOK(ch')
    BY <1>3, <1>4, <1>6 DEF ChannelsOK
<1>9. RefsOK(map', posted', th', ch')
    <2>1. \A h \in Handles : ch'[h].kind = chs[h].kind
        BY <1>3, <1>4
    <2>2. \A t \in Threads : ths[t].held => ths[t].h \in Handles
        BY DEF FramesOK
    <2> QED BY <1>1, <2>1, <2>2 DEF RefsOK
<1>10. NothingOutlivesChannel'
    <2> SUFFICES ASSUME NEW h \in Handles, ch'[h].armed \/ ch'[h].open
                 PROVE  Alive(h, map', posted', th')
        BY DEF NothingOutlivesChannel, Alive
    <2>1. h \notin gone /\ ch'[h] = chs[h]
        BY <1>3, <1>4
    <2>2. chs[h].kind # "none"
        BY <2>1 DEF ChannelsOK
    <2>3. Alive(h, m, ps, ths)
        BY <2>1, <2>2 DEF gone
    <2> QED BY <1>1, <2>3
<1>11. \A h \in Handles : ch'[h].open => chs[h].open
    BY <1>3, <1>4
<1>12. Core'
    BY <1>7, <1>8, <1>9 DEF Core, FramesOK, ChannelsOK, RefsOK
<1>13. aborted' \in BOOLEAN
    BY DEF After
<1> QED BY <1>1, <1>10, <1>11, <1>12, <1>13

\* Unless a socket was left to a destructor, nothing is terminated.
LEMMA AfterSafe ==
    ASSUME NEW STATE m, NEW STATE ps, NEW STATE ths, NEW STATE chs,
           FramesOK(ths), ChannelsOK(chs), RefsOK(m, ps, ths, chs), After(m, ps, ths, chs),
           OpenIsClosed(m, ths, chs), AbortOnlyUnbound, UNCHANGED <<throws, unbound>>
    PROVE  Core' /\ Safe' /\ map' = m /\ th' = ths /\ aborted' \in BOOLEAN
<1>1. /\ Core' /\ NothingOutlivesChannel'
      /\ map' = m /\ posted' = ps /\ th' = ths
      /\ \A h \in Handles : ch'[h].open => chs[h].open
      /\ aborted' \in BOOLEAN
    BY AfterCore
<1>2. OpenIsClosed(map, th, ch)'
    BY <1>1 DEF OpenIsClosed
<1>3. \A h \in Handles : ClosesSocket(chs[h]) => Alive(h, m, ps, ths)
    BY DEF ClosesSocket, OpenIsClosed, Alive, FramesOK
<1>4. aborted' => aborted
    <2> DEFINE gone == {h \in Handles : chs[h].kind # "none" /\ ~Alive(h, m, ps, ths)}
    <2>1. aborted' = (aborted \/ \E h \in gone : ClosesSocket(chs[h]))
        BY DEF After
    <2>2. ~\E h \in gone : ClosesSocket(chs[h])
        BY <1>3
    <2> QED BY <2>1, <2>2
<1>5. AbortOnlyUnbound'
    BY <1>4 DEF AbortOnlyUnbound
<1> QED BY <1>1, <1>2, <1>5 DEF Safe

----------------------------------------------------------------------------
\* The calls of the application.
LEMMA ApiStep ==
    ASSUME IInv, NEW t \in Threads, NEW h \in Handles, Api(t, h)
    PROVE  IInv'
<1> USE DEF IInv
<1>1. /\ UNCHANGED <<main, stopped, work, throws>> /\ ~aborted /\ calls' \in 0..MaxCalls
      /\ th[t].at = "fn" \/ (t = Main /\ th[t].at = "idle" /\ main = "up")
    <2>1. MayCall(t) /\ (Ready(t) \/ UNCHANGED calls) /\ UNCHANGED <<main, stopped, work, throws>>
        BY Zenon DEF Api, AddTimer, Config, AddUdp, BindFails, SetEvntCB, CallApi, NewChannel, Shared, Control, Ready
    <2> QED BY <2>1, ServiceAssumption DEF Ready, MayCall, Step, Flags
<1>2. ASSUME \A u \in Threads \ {t} : th'[u] = th[u],
             late \subseteq late', main = "up" \/ map' \subseteq map \cup late'
      PROVE  Down'
    <2>1. Main \in Threads /\ Workers \subseteq Threads
        BY DEF Threads
    <2>2. main # "up" => t # Main
        BY <1>1 DEF Down
    <2>3. main # "done"
        BY <1>1, <2>2 DEF Down, Threads
    <2> QED BY <1>1, <1>2, <2>1, <2>2, <2>3 DEF Down
<1>3. th[t].at \in {"idle", "fn"} /\ ~th[t].held
    BY <1>1 DEF Core, FramesOK
<1>10. ASSUME UNCHANGED late PROVE late' \subseteq Handles /\ late \subseteq late'
    BY <1>10 DEF Flags
<1>11. ASSUME NewChannel(h)
       PROVE  /\ ch[h].kind = "none" /\ UNCHANGED unbound
              /\ late \subseteq late' /\ late' \subseteq Handles
              /\ main = "up" \/ h \in late'
    BY <1>11 DEF NewChannel, NoChannel, Flags
<1>4. ASSUME NEW ms \in 0..1, AddTimer(t, h, ms) PROVE IInv'
    <2> DEFINE chs == [ch EXCEPT ![h] = Timer(ms)]
               ths == Enter(t, "find", h)
    <2>1. NewChannel(h) /\ After(map \cup {h}, posted, ths, chs)
        BY <1>4, Zenon DEF AddTimer
    <2>2. FramesOK(ths) /\ ~ths[t].held /\ ths[t].at = "find" /\ \A u \in Threads \ {t} : ths[u] = th[u]
        BY <1>3, EnterFrames DEF Core
    <2>3. ch[h].kind = "none" /\ UNCHANGED unbound
        BY <1>11, <2>1
    <2> HIDE DEF ths
    <2>4. ChannelsOK(chs) /\ RefsOK(map \cup {h}, posted, ths, chs) /\ OpenIsClosed(map \cup {h}, ths, chs)
        <3>1. Timer(ms) \in Channels /\ Timer(ms).kind = "timer" /\ ~Timer(ms).open
            BY NewChannels
        <3>2. chs \in [Handles -> Channels] /\ chs[h] = Timer(ms) /\ \A g \in Handles \ {h} : chs[g] = ch[g]
            BY <3>1 DEF Core, ChannelsOK
        <3> HIDE DEF chs
        <3>3. ChannelsOK(chs)
            BY <3>1, <3>2 DEF Core, ChannelsOK
        <3>4. RefsOK(map \cup {h}, posted, ths, chs)
            BY <2>2, <2>3, <3>1, <3>2 DEF Core, RefsOK, FramesOK
        <3>5. \A u \in Threads : th[u].at = "close" => ths[u] = th[u]
            BY <1>3, <2>2
        <3>6. OpenIsClosed(map \cup {h}, ths, chs)
            BY <3>1, <3>2, <3>5 DEF Safe, OpenIsClosed
        <3> QED BY <3>3, <3>4, <3>6
    <2>5. Core' /\ Safe' /\ map' = map \cup {h} /\ th' = ths /\ aborted' \in BOOLEAN
        <3> HIDE DEF chs
        <3> QED BY <1>1, <2>1, <2>2, <2>3, <2>4, AfterSafe DEF Safe
    <2>6. Down'
        BY <1>2, <1>11, <2>1, <2>2, <2>5
    <2> QED BY <1>1, <1>11, <2>1, <2>3, <2>5, <2>6 DEF Flags
<1>5. ASSUME AddUdp(t, h) PROVE IInv'
    <2> DEFINE chs == [ch EXCEPT ![h] = Udp]
    <2>1. NewChannel(h) /\ After(map \cup {h}, posted, th, chs)
        BY <1>5, Zenon DEF AddUdp
    <2>2. ch[h].kind = "none" /\ UNCHANGED unbound
        BY <1>11, <2>1
    <2>3. ChannelsOK(chs) /\ RefsOK(map \cup {h}, posted, th, chs) /\ OpenIsClosed(map \cup {h}, th, chs)
        <3>1. Udp \in Channels /\ Udp.kind = "udp" /\ ~Udp.armed
            BY NewChannels
        <3>2. chs \in [Handles -> Channels] /\ chs[h] = Udp /\ \A g \in Handles \ {h} : chs[g] = ch[g]
            BY <3>1 DEF Core, ChannelsOK
        <3> HIDE DEF chs
        <3>3. ChannelsOK(chs)
            BY <3>1, <3>2 DEF Core, ChannelsOK
        <3>4. RefsOK(map \cup {h}, posted, th, chs)
            BY <2>2, <3>1, <3>2 DEF Core, RefsOK, FramesOK
        <3>5. OpenIsClosed(map \cup {h}, th, chs)
            BY <3>1, <3>2 DEF Safe, OpenIsClosed
        <3> QED BY <3>3, <3>4, <3>5
    <2>4. Core' /\ Safe' /\ map' = map \cup {h} /\ th' = th /\ aborted' \in BOOLEAN
        <3> HIDE DEF chs
        <3> QED BY <1>1, <2>1, <2>2, <2>3, AfterSafe DEF Core, Safe
    <2>5. Down'
        BY <1>2, <1>11, <2>1, <2>4
    <2> QED BY <1>1, <1>11, <2>1, <2>2, <2>4, <2>5 DEF Flags
<1>6. ASSUME BindFails(t, h) PROVE IInv'
    <2> DEFINE chs == [ch EXCEPT ![h] = Udp]
    <2>1. ch[h].kind = "none" /\ After(map, posted, th, chs) /\ unbound' = TRUE /\ UNCHANGED late
        <3>1. ch[h] = NoChannel
            BY <1>6 DEF BindFails
        <3>2. ch[h].kind = "none"
            BY <3>1 DEF NoChannel
        <3> QED BY <3>2, <1>6, Zenon DEF BindFails
    <2>2. ChannelsOK(chs) /\ RefsOK(map, posted, th, chs)
        <3>1. Udp \in Channels /\ Udp.kind = "udp" /\ ~Udp.armed
            BY NewChannels
        <3>2. chs \in [Handles -> Channels] /\ chs[h] = Udp /\ \A g \in Handles \ {h} : chs[g] = ch[g]
            BY <3>1 DEF Core, ChannelsOK
        <3> HIDE DEF chs
        <3>3. ChannelsOK(chs)
            BY <3>1, <3>2 DEF Core, ChannelsOK
        <3>4. RefsOK(map, posted, th, chs)
            BY <2>1, <3>1, <3>2 DEF Core, RefsOK, FramesOK
        <3> QED BY <3>3, <3>4
    <2>3. /\ Core' /\ NothingOutlivesChannel' /\ aborted' \in BOOLEAN
          /\ map' = map /\ posted' = posted /\ th' = th
          /\ \A g \in Handles : ch'[g].open => chs[g].open
        <3> HIDE DEF chs
        <3> QED BY <2>1, <2>2, AfterCore DEF Core
    <2>4. AbortOnlyUnbound'
        <3>1. aborted' => \E g \in Handles : ClosesSocket(chs[g])
            BY <1>1, <2>1 DEF After
        <3> QED BY <1>1, <2>1, <3>1 DEF AbortOnlyUnbound, ClosesSocket
    <2>5. ~Alive(h, map, posted, th)
        BY <2>1 DEF Core, RefsOK, Alive, FramesOK
    <2>6. OpenIsClosed(map, th, ch)'
        <3> SUFFICES ASSUME NEW g \in Handles, ch'[g].open, ~throws
                     PROVE  g \in map \/ \E u \in Threads : th[u].at = "close" /\ th[u].h = g
            BY <1>1, <2>3 DEF OpenIsClosed
        <3>1. g # h
            BY <2>3, <2>5 DEF NothingOutlivesChannel, Alive
        <3>2. ch[g].open
            BY <2>3, <3>1 DEF Core, ChannelsOK
        <3> QED BY <3>2 DEF Safe, OpenIsClosed
    <2>7. Down'
        BY <1>2, <2>1, <2>3
    <2> QED BY <1>1, <1>10, <2>1, <2>3, <2>4, <2>6, <2>7 DEF Flags, Safe
<1>7. ASSUME SetEvntCB(t, h) PROVE IInv'
    <2>1. UNCHANGED <<map, posted, th, aborted, unbound, late>> /\ ch' = [ch EXCEPT ![h].cb = "user"]
        BY <1>7 DEF SetEvntCB, Shared
    <2>2. Core'
        BY <2>1 DEF Core, FramesOK, ChannelsOK, Channels, Callbacks, RefsOK
    <2>3. Safe'
        BY <1>1, <2>1 DEF Core, ChannelsOK, Channels, Safe, NothingOutlivesChannel, Alive,
            OpenIsClosed, AbortOnlyUnbound
    <2>4. Down'
        BY <1>2, <2>1
    <2> QED BY <1>1, <1>10, <2>1, <2>2, <2>3, <2>4 DEF Flags
<1>8. ASSUME NEW ms \in 0..1, Config(t, h, ms) PROVE IInv'
    <2>1. UNCHANGED <<map, posted, th, aborted, unbound, late>> /\ ch' = [ch EXCEPT ![h].timeout = ms]
        BY <1>8 DEF Config, Shared
    <2>2. Core'
        BY <2>1 DEF Core, FramesOK, ChannelsOK, Channels, RefsOK
    <2>3. Safe'
        BY <1>1, <2>1 DEF Core, ChannelsOK, Channels, Safe, NothingOutlivesChannel, Alive,
            OpenIsClosed, AbortOnlyUnbound
    <2>4. Down'
        BY <1>2, <2>1
    <2> QED BY <1>1, <1>10, <2>1, <2>2, <2>3, <2>4 DEF Flags
<1>9. ASSUME CallApi(t, h) PROVE IInv'
    <2>1. PICK at \in {"find", "lookup"} : th' = Enter(t, at, h)
        BY <1>9 DEF CallApi
    <2>2. UNCHANGED <<ch, map, posted, aborted, unbound, late>>
        BY <1>9 DEF CallApi, Shared
    <2>3. FramesOK(th') /\ ~th'[t].held /\ \A u \in Threads \ {t} : th'[u] = th[u]
        BY <1>3, <2>1, EnterFrames DEF Core
    <2>4. Core'
        BY <2>2, <2>3 DEF Core, FramesOK, ChannelsOK, RefsOK
    <2>5. \A u \in Threads : th[u].held \/ th[u].at = "close" => th'[u] = th[u]
        BY <1>3, <2>3
    <2>6. Safe'
        BY <1>1, <2>2, <2>5 DEF Safe, NothingOutlivesChannel, Alive, OpenIsClosed, AbortOnlyUnbound
    <2>7. Down'
        BY <1>2, <2>2, <2>3
    <2> QED BY <1>1, <1>10, <2>2, <2>4, <2>6, <2>7 DEF Flags
<1> QED BY <1>4, <1>5, <1>6, <1>7, <1>8, <1>9 DEF Api

\* The parts a step of one thread leaves alone.
LEMMA ThreadDown ==
    ASSUME IInv, NEW t \in Threads, th[t].at \notin {"idle", "left"},
           UNCHANGED <<main, stopped, work, throws, unbound, late, calls>>, aborted' \in BOOLEAN,
           map' \subseteq map, \A u \in Threads \ {t} : th'[u] = th[u]
    PROVE  Flags' /\ Down'
<1>1. Flags'
    BY DEF IInv, Flags
<1>2. Main \in Threads /\ Workers \subseteq Threads /\ (main # "up" => t # Main)
    BY DEF Threads, IInv, Down
<1>3. main = "done" => t \notin Workers
    BY DEF IInv, Down
<1>4. Down'
    BY <1>2, <1>3 DEF IInv, Down
<1> QED BY <1>1, <1>4

\* connect, send, close and the error path, on any thread.
LEMMA ThreadSteps ==
    ASSUME IInv, NEW t \in Threads, ThreadStep(t)
    PROVE  IInv'
<1> USE DEF IInv
<1>1. /\ th[t].at \in {"find", "use", "unset", "lookup", "erase", "close"}
      /\ UNCHANGED <<main, stopped, work, throws, unbound, late, calls>>
    BY Zenon DEF ThreadStep, Find, UseTimer, UseUdp, Unset, Lookup, Erase, CloseChannel, Step, Shared,
        Control
<1>2. th[t].h \in Handles
    BY <1>1 DEF Core, FramesOK
<1>3. /\ FramesOK(Ended(t))
      /\ Ended(t)[t].at \in {"idle", "call", "fn"}
      /\ \A u \in Threads \ {t} : Ended(t)[u] = th[u]
    BY <1>1, EndedFrames DEF Core
<1>4. ~Ended(t)[t].held
    BY <1>3 DEF FramesOK
\* Nothing but the thread's reference is dropped.
<1>5. ASSUME th[t].at # "close", After(map, posted, Ended(t), ch) PROVE IInv'
    <2>1. RefsOK(map, posted, Ended(t), ch)
        BY <1>3, <1>4 DEF Core, RefsOK
    <2>2. OpenIsClosed(map, Ended(t), ch)
        BY <1>3, <1>5 DEF Safe, OpenIsClosed
    <2>3. Core' /\ Safe' /\ map' = map /\ th' = Ended(t) /\ aborted' \in BOOLEAN
        BY <1>1, <1>3, <1>5, <2>1, <2>2, AfterSafe DEF Core, Safe
    <2> QED BY <1>1, <1>3, <2>3, ThreadDown
\* The thread moves on with its reference.
<1>6. ASSUME th[t].at # "close",
             th' = [th EXCEPT ![t].at = "use", ![t].held = TRUE]
             \/ th' = [th EXCEPT ![t].at = "erase", ![t].held = TRUE],
             th[t].h \in map, UNCHANGED <<ch, map, posted, aborted>>
      PROVE  IInv'
    <2>1. /\ th' \in [Threads -> FrameSet] /\ th'[t].held /\ th'[t].h = th[t].h
          /\ th'[t].at \in {"use", "erase"} /\ \A u \in Threads \ {t} : th'[u] = th[u]
        BY <1>6 DEF Core, FramesOK, FrameSet, Places
    <2>2. Core'
        BY <1>2, <1>6, <2>1 DEF Core, FramesOK, ChannelsOK, RefsOK
    <2>3. Safe'
        BY <1>1, <1>6, <2>1 DEF Safe, NothingOutlivesChannel, Alive, OpenIsClosed, AbortOnlyUnbound
    <2> QED BY <1>1, <1>6, <2>1, <2>2, <2>3, ThreadDown DEF Flags
<1>7. ASSUME Find(t) PROVE IInv'
    BY <1>5, <1>6, <1>7, Zenon DEF Find, Step
<1>8. ASSUME Lookup(t) PROVE IInv'
    BY <1>5, <1>6, <1>8, Zenon DEF Lookup, Step
<1>9. ASSUME UseTimer(t) PROVE IInv'
    <2> DEFINE h == th[t].h
               chs == [ch EXCEPT ![h] = Rearmed(@)]
    <2>1. th[t].at = "use" /\ ch[h].kind = "timer" /\ After(map, posted, Ended(t), chs)
        BY <1>9, Zenon DEF UseTimer, Step
    <2>2. /\ chs \in [Handles -> Channels] /\ chs[h].kind = "timer" /\ chs[h].open = ch[h].open
          /\ \A g \in Handles \ {h} : chs[g] = ch[g]
        BY <1>2, <2>1, ZenonT(40) DEF Core, ChannelsOK, Channels, Rearmed
    <2>3. h \in Handles
        BY <1>2
    <2> HIDE DEF chs, h
    <2>4. ChannelsOK(chs)
        BY <2>1, <2>2, <2>3 DEF Core, ChannelsOK
    <2>5. RefsOK(map, posted, Ended(t), chs)
        BY <1>3, <1>4, <2>1, <2>2, <2>3 DEF Core, RefsOK, FramesOK
    <2>6. OpenIsClosed(map, Ended(t), chs)
        BY <1>3, <2>1, <2>2, <2>3 DEF Safe, OpenIsClosed
    <2>7. Core' /\ Safe' /\ map' = map /\ th' = Ended(t) /\ aborted' \in BOOLEAN
        BY <1>1, <1>3, <2>1, <2>4, <2>5, <2>6, AfterSafe DEF Safe
    <2> QED BY <1>1, <1>3, <2>7, ThreadDown
<1>10. ASSUME UseUdp(t) PROVE IInv'
    <2>1. th[t].at = "use"
        BY <1>10 DEF UseUdp, Step
    <2>2. CASE After(map, posted, Ended(t), ch)
        BY <1>5, <2>1, <2>2
    <2>3. CASE th' = To(t, "unset") /\ UNCHANGED <<ch, map, posted, aborted>>
        <3>1. /\ th' \in [Threads -> FrameSet] /\ th'[t].held = th[t].held /\ th'[t].h = th[t].h
              /\ th'[t].at = "unset" /\ \A u \in Threads \ {t} : th'[u] = th[u]
            BY <2>3 DEF To, Core, FramesOK, FrameSet, Places
        <3>2. Core'
            BY <1>2, <2>3, <3>1 DEF Core, FramesOK, ChannelsOK, RefsOK
        <3>3. Safe'
            BY <1>1, <2>1, <2>3, <3>1 DEF Safe, NothingOutlivesChannel, Alive, OpenIsClosed,
                AbortOnlyUnbound
        <3> QED BY <1>1, <2>3, <3>1, <3>2, <3>3, ThreadDown DEF Flags
    <2> QED BY <1>10, <2>2, <2>3, Zenon DEF UseUdp
<1>11. ASSUME Unset(t) PROVE IInv'
    <2>1. /\ th[t].at = "unset" /\ th' = To(t, "lookup") /\ UNCHANGED <<map, posted, aborted>>
          /\ ch' = [ch EXCEPT ![th[t].h].cb = IF th[t].h \in map THEN "null" ELSE @]
        BY <1>11 DEF Unset, Step
    <2>2. /\ th' \in [Threads -> FrameSet] /\ th'[t].held = th[t].held /\ th'[t].h = th[t].h
          /\ th'[t].at = "lookup" /\ \A u \in Threads \ {t} : th'[u] = th[u]
        BY <2>1 DEF To, Core, FramesOK, FrameSet, Places
    <2>3. /\ ch' \in [Handles -> Channels]
          /\ \A h \in Handles : ch'[h].kind = ch[h].kind /\ ch'[h].armed = ch[h].armed
                                /\ ch'[h].open = ch[h].open
        BY <1>2, <2>1 DEF Core, ChannelsOK, Channels, Callbacks
    <2>4. Core'
        BY <1>2, <2>1, <2>2, <2>3 DEF Core, FramesOK, ChannelsOK, RefsOK
    <2>5. Safe'
        BY <1>1, <2>1, <2>2, <2>3 DEF Safe, NothingOutlivesChannel, Alive, OpenIsClosed,
            AbortOnlyUnbound
    <2> QED BY <1>1, <2>1, <2>2, <2>4, <2>5, ThreadDown DEF Flags
<1>12. ASSUME Erase(t) PROVE IInv'
    <2>1. /\ th[t].at = "erase" /\ th' = To(t, "close") /\ map' = map \ {th[t].h}
          /\ UNCHANGED <<ch, posted, aborted>>
        BY <1>12 DEF Erase, Step
    <2>2. /\ th' \in [Threads -> FrameSet] /\ th'[t].held = th[t].held /\ th'[t].h = th[t].h
          /\ th'[t].at = "close" /\ \A u \in Threads \ {t} : th'[u] = th[u]
        BY <2>1 DEF To, Core, FramesOK, FrameSet, Places
    <2>3. th[t].held
        BY <2>1 DEF Core, FramesOK
    <2>4. map' \subseteq map /\ \A h \in Handles \ {th[t].h} : h \in map => h \in map'
        BY <2>1
    <2>5. \A u \in Threads : th'[u].h = th[u].h /\ th'[u].held = th[u].held
                             /\ (u # t => th'[u].at = th[u].at)
        BY <2>2
    <2>6. FramesOK(th')
        BY <1>2, <2>2, <2>3 DEF Core, FramesOK
    <2>7. RefsOK(map', posted', th', ch')
        BY <2>1, <2>4, <2>5 DEF Core, RefsOK
    <2>8. Core'
        BY <2>1, <2>6, <2>7 DEF Core, FramesOK, ChannelsOK, RefsOK
    <2>9. NothingOutlivesChannel'
        <3> SUFFICES ASSUME NEW h \in Handles, ch[h].armed \/ ch[h].open
                     PROVE  Alive(h, map', posted, th')
            BY <2>1 DEF NothingOutlivesChannel, Alive
        <3>1. Alive(h, map, posted, th)
            BY DEF Safe, NothingOutlivesChannel
        <3> QED BY <2>3, <2>4, <2>5, <3>1 DEF Alive
    <2>10. OpenIsClosed(map, th, ch)'
        <3> SUFFICES ASSUME NEW h \in Handles, ch[h].open, ~throws
                     PROVE  h \in map' \/ \E u \in Threads : th'[u].at = "close" /\ th'[u].h = h
            BY <1>1, <2>1 DEF OpenIsClosed
        <3>1. h \in map \/ \E u \in Threads : th[u].at = "close" /\ th[u].h = h
            BY DEF Safe, OpenIsClosed
        <3> QED BY <2>1, <2>2, <2>4, <2>5, <3>1
    <2>11. AbortOnlyUnbound'
        BY <1>1, <2>1 DEF Safe, AbortOnlyUnbound
    <2> QED BY <1>1, <2>1, <2>2, <2>4, <2>8, <2>9, <2>10, <2>11, ThreadDown DEF Flags, Safe
<1>13. ASSUME CloseChannel(t) PROVE IInv'
    <2> DEFINE h == th[t].h
               chs == [ch EXCEPT ![h] = Closed(@)]
               ps == IF PostsClosed(ch[h]) THEN posted \cup {h} ELSE posted
    <2>1. After(map, ps, Ended(t), chs)
        BY <1>13, Zenon DEF CloseChannel
    <2>2. h \in Handles /\ ch[h] \in Channels
        BY <1>2 DEF Core, ChannelsOK
    <2>3. /\ chs \in [Handles -> Channels] /\ chs[h] = Closed(ch[h])
          /\ \A g \in Handles \ {h} : chs[g] = ch[g]
        BY <2>2, ClosedChannels DEF Core, ChannelsOK
    <2>4. /\ ~chs[h].armed /\ chs[h].kind = ch[h].kind
          /\ chs[h].open => ch[h].open /\ (~throws => ch[h].kind # "udp")
        BY <2>2, <2>3, ClosedChannels
    <2>5. ps \subseteq posted \cup {h} /\ (h \in ps \ posted => ch[h].kind = "udp")
        BY DEF PostsClosed, ClosesSocket
    <2> HIDE DEF chs, h, ps
    <2>6. ChannelsOK(chs)
        BY <2>2, <2>3, <2>4 DEF Core, ChannelsOK
    <2>7. RefsOK(map, ps, Ended(t), chs)
        BY <1>3, <1>4, <2>2, <2>3, <2>4, <2>5 DEF Core, RefsOK, FramesOK
    <2>8. OpenIsClosed(map, Ended(t), chs)
        BY <1>3, <2>2, <2>3, <2>4 DEF Core, ChannelsOK, Safe, OpenIsClosed, h
    <2>9. Core' /\ Safe' /\ map' = map /\ th' = Ended(t) /\ aborted' \in BOOLEAN
        BY <1>1, <1>3, <2>1, <2>6, <2>7, <2>8, AfterSafe DEF Safe
    <2> QED BY <1>1, <1>3, <2>9, ThreadDown
<1> QED BY <1>7, <1>8, <1>9, <1>10, <1>11, <1>12, <1>13 DEF ThreadStep

----------------------------------------------------------------------------
\* A step that changes no reference, no socket and no running timer (an armed
\* one may stop).
LEMMA SameRefs ==
    ASSUME IInv, ch' \in [Handles -> Channels], FramesOK(th'),
           \A h \in Handles : /\ ch'[h].kind = ch[h].kind /\ ch'[h].open = ch[h].open
                              /\ ch'[h].armed => ch[h].armed,
           UNCHANGED <<map, posted, aborted, throws, unbound>>,
           \A t \in Threads : /\ th[t].held \/ th[t].at = "close" => th'[t] = th[t]
                              /\ th'[t].held => th[t].held
    PROVE  Core' /\ Safe'
<1> USE DEF IInv
<1>1. ChannelsOK(ch')
    BY DEF Core, ChannelsOK
<1>2. RefsOK(map', posted', th', ch')
    BY DEF Core, FramesOK, RefsOK
<1>3. Core'
    BY <1>1, <1>2 DEF Core, FramesOK, ChannelsOK, RefsOK
<1>4. Safe'
    BY DEF Safe, NothingOutlivesChannel, Alive, OpenIsClosed, AbortOnlyUnbound
<1> QED BY <1>3, <1>4

\* A thread without a reference goes on to something else without one.
LEMMA NewFrame ==
    ASSUME FramesOK(th), NEW w \in Threads, ~th[w].held, NEW f \in FrameSet,
           ~f.held, f.at \notin {"use", "erase", "close"},
           f.at \notin {"idle", "left", "fn"} => f.h \in Handles,
           th' = [th EXCEPT ![w] = f]
    PROVE  FramesOK(th') /\ ~th'[w].held /\ \A u \in Threads \ {w} : th'[u] = th[u]
BY DEF FramesOK

\* The handlers the workers run.
LEMMA WorkerSteps ==
    ASSUME IInv, NEW w \in Workers,
           (\E h \in Handles : Expire(h) \/ Handler(w, h) \/ RunPosted(w, h)) \/ Call(w) \/ Return(w)
           \/ Leave(w)
    PROVE  IInv'
<1> USE DEF IInv
<1>1. w \in Threads /\ w # Main /\ UNCHANGED <<main, stopped, work, throws, unbound, late, calls>>
    <2>1. w \in Threads /\ w # Main
        BY ServiceAssumption DEF Threads
    <2>2. UNCHANGED <<main, stopped, work, throws, unbound, late, calls>>
        BY Zenon DEF Expire, Handler, RunPosted, Call, Return, Leave, Shared, Control
    <2> QED BY <2>1, <2>2
<1>2. ASSUME NEW h \in Handles, Expire(h) PROVE IInv'
    <2>1. /\ UNCHANGED <<map, posted, th, aborted>>
          /\ ch' = [ch EXCEPT ![h].armed = FALSE, ![h].queued = @ + 1]
        BY <1>2 DEF Expire
    <2>2. /\ ch' \in [Handles -> Channels]
          /\ \A g \in Handles : /\ ch'[g].kind = ch[g].kind /\ ch'[g].open = ch[g].open
                                /\ ch'[g].armed => ch[g].armed
        BY <2>1 DEF Core, ChannelsOK, Channels
    <2>3. Core' /\ Safe'
        BY <1>1, <2>1, <2>2, SameRefs DEF Core
    <2> QED BY <1>1, <2>1, <2>3 DEF Flags, Down
<1>3. ASSUME NEW h \in Handles, Handler(w, h) PROVE IInv'
    <2>1. /\ th[w].at = "idle" /\ ch[h].queued > 0 /\ UNCHANGED <<map, posted, aborted>>
          /\ ch' = [ch EXCEPT ![h].queued = @ - 1]
          /\ \/ th' = th
             \/ th' = [th EXCEPT ![w] = Frame("call", h, FALSE, "idle")]
             \/ th' = [th EXCEPT ![w] = Frame("unset", h, FALSE, "call")]
        BY <1>3, Zenon DEF Handler, Free, Step
    <2>2. /\ ch' \in [Handles -> Channels]
          /\ \A g \in Handles : /\ ch'[g].kind = ch[g].kind /\ ch'[g].open = ch[g].open
                                /\ ch'[g].armed => ch[g].armed
        BY <2>1 DEF Core, ChannelsOK, Channels
    <2>3. FramesOK(th') /\ ~th[w].held /\ ~th'[w].held /\ \A u \in Threads \ {w} : th'[u] = th[u]
        <3>1. FramesOK(th) /\ ~th[w].held
            BY <1>1, <2>1 DEF Core, FramesOK
        <3>2. CASE th' = th
            BY <3>1, <3>2
        <3>3. ASSUME NEW at \in {"call", "unset"}, NEW c \in {"idle", "call"},
                     th' = [th EXCEPT ![w] = Frame(at, h, FALSE, c)]
              PROVE  FramesOK(th') /\ ~th'[w].held /\ \A u \in Threads \ {w} : th'[u] = th[u]
            <4> DEFINE f == Frame(at, h, FALSE, c)
            <4>1. f \in FrameSet /\ ~f.held /\ f.at = at /\ f.h = h
                BY DEF Frame, FrameSet, Places
            <4>2. th' = [th EXCEPT ![w] = f]
                BY <3>3
            <4> HIDE DEF f
            <4> QED BY <1>1, <3>1, <4>1, <4>2, NewFrame
        <3> QED BY <2>1, <3>1, <3>2, <3>3, Zenon
    <2>4. Core' /\ Safe'
        BY <1>1, <2>1, <2>2, <2>3, SameRefs
    <2>5. Down'
        BY <1>1, <2>1, <2>3 DEF Down, Threads
    <2> QED BY <1>1, <2>1, <2>4, <2>5 DEF Flags
<1>4. ASSUME Call(w) PROVE IInv'
    <2>1. th[w].at = "call" /\ th[w].h \in Handles /\ ~th[w].held /\ UNCHANGED <<map, posted, aborted>>
        BY <1>1, <1>4 DEF Call, Step, Core, FramesOK
    <2>2. ch' = ch \/ ch' = [ch EXCEPT ![th[w].h].ran = TRUE]
        BY <1>4 DEF Call
    <2>3. PICK f \in FrameSet : /\ ~f.held /\ f.at \in {"idle", "find", "lookup", "fn"}
                                /\ f.at \in {"find", "lookup"} => f.h \in Handles
                                /\ th' = [th EXCEPT ![w] = f]
        <3>1. ASSUME NEW f, th' = [th EXCEPT ![w] = f],
                     \/ f = Idle \/ f = Frame("fn", NoHandle, FALSE, "idle")
                     \/ \E g \in Handles, at \in {"find", "lookup"} : f = Frame(at, g, FALSE, "idle")
              PROVE  \E k \in FrameSet : /\ ~k.held /\ k.at \in {"idle", "find", "lookup", "fn"}
                                         /\ k.at \in {"find", "lookup"} => k.h \in Handles
                                         /\ th' = [th EXCEPT ![w] = k]
            <4>1. /\ f \in FrameSet /\ ~f.held /\ f.at \in {"idle", "find", "lookup", "fn"}
                  /\ f.at \in {"find", "lookup"} => f.h \in Handles
                <5>1. PICK at \in {"idle", "find", "lookup", "fn"}, g \in Handles \cup {NoHandle} :
                          f = Frame(at, g, FALSE, "idle") /\ (at \in {"find", "lookup"} => g \in Handles)
                    BY <3>1 DEF Idle
                <5> QED BY <5>1 DEF Frame, FrameSet, Places
            <4> QED BY <3>1, <4>1
        <3>2. CASE th' = [th EXCEPT ![w] = Idle]
            BY <3>1, <3>2
        <3>3. CASE th' = [th EXCEPT ![w] = Frame("find", th[w].h, FALSE, "idle")]
            BY <2>1, <3>1, <3>3
        <3>4. CASE th' = [th EXCEPT ![w] = Frame("fn", NoHandle, FALSE, "idle")]
            BY <3>1, <3>4
        <3>5. ASSUME NEW g \in Handles, th' = [th EXCEPT ![w] = Frame("lookup", g, FALSE, "idle")]
              PROVE  \E k \in FrameSet : /\ ~k.held /\ k.at \in {"idle", "find", "lookup", "fn"}
                                         /\ k.at \in {"find", "lookup"} => k.h \in Handles
                                         /\ th' = [th EXCEPT ![w] = k]
            BY <3>1, <3>5
        <3>6. \/ th' = [th EXCEPT ![w] = Idle]
              \/ th' = [th EXCEPT ![w] = Frame("find", th[w].h, FALSE, "idle")]
              \/ th' = [th EXCEPT ![w] = Frame("fn", NoHandle, FALSE, "idle")]
              \/ \E g \in Handles : th' = [th EXCEPT ![w] = Frame("lookup", g, FALSE, "idle")]
            BY <1>4, Zenon DEF Call
        <3> QED BY <3>2, <3>3, <3>4, <3>5, <3>6
    <2>4. /\ ch' \in [Handles -> Channels]
          /\ \A g \in Handles : /\ ch'[g].kind = ch[g].kind /\ ch'[g].open = ch[g].open
                                /\ ch'[g].armed => ch[g].armed
        <3>1. CASE ch' = ch
            BY <3>1 DEF Core, ChannelsOK
        <3>2. CASE ch' = [ch EXCEPT ![th[w].h].ran = TRUE]
            BY <2>1, <3>2, ZenonT(40) DEF Core, ChannelsOK, Channels
        <3> QED BY <2>2, <3>1, <3>2
    <2>5. FramesOK(th') /\ ~th'[w].held /\ \A u \in Threads \ {w} : th'[u] = th[u]
        BY <1>1, <2>1, <2>3, NewFrame DEF Core
    <2>6. Core' /\ Safe'
        BY <1>1, <2>1, <2>4, <2>5, SameRefs
    <2> QED BY <1>1, <2>1, <2>5, <2>6, ThreadDown DEF Flags
<1>5. ASSUME NEW h \in Handles, RunPosted(w, h) PROVE IInv'
    <2>1. After(map, posted \ {h}, th, ch)
        BY <1>5, Zenon DEF RunPosted
    <2>2. RefsOK(map, posted \ {h}, th, ch)
        BY DEF Core, RefsOK
    <2>3. Core' /\ Safe' /\ map' = map /\ th' = th /\ aborted' \in BOOLEAN
        BY <1>1, <2>1, <2>2, AfterSafe DEF Core, Safe
    <2> QED BY <1>1, <2>3 DEF Flags, Down
<1>6. ASSUME Leave(w) PROVE IInv'
    <2>1. th[w].at = "idle" /\ th' = [th EXCEPT ![w].at = "left"] /\ UNCHANGED <<ch, map, posted, aborted>>
        BY <1>6 DEF Leave, Step, To
    <2>2. FramesOK(th') /\ ~th[w].held /\ ~th'[w].held /\ \A u \in Threads \ {w} : th'[u] = th[u]
        BY <1>1, <2>1 DEF Core, FramesOK, FrameSet, Places
    <2>3. Core' /\ Safe'
        BY <1>1, <2>1, <2>2, SameRefs DEF Core, ChannelsOK
    <2>4. Down'
        BY <1>1, <2>1, <2>2 DEF Down, Threads
    <2> QED BY <1>1, <2>1, <2>3, <2>4 DEF Flags
<1>7. ASSUME Return(w) PROVE IInv'
    <2>1. th[w].at = "fn" /\ th' = [th EXCEPT ![w] = Idle] /\ UNCHANGED <<ch, map, posted, aborted>>
        BY <1>7 DEF Return, Step
    <2>2. Idle \in FrameSet /\ ~Idle.held /\ Idle.at = "idle"
        BY DEF Idle, Frame, FrameSet, Places
    <2>3. ~th[w].held
        BY <1>1, <2>1 DEF Core, FramesOK
    <2>4. FramesOK(th') /\ ~th'[w].held /\ \A u \in Threads \ {w} : th'[u] = th[u]
        BY <1>1, <2>1, <2>2, <2>3, NewFrame DEF Core
    <2>5. Core' /\ Safe'
        BY <1>1, <2>1, <2>3, <2>4, SameRefs DEF Core, ChannelsOK
    <2> QED BY <1>1, <2>1, <2>4, <2>5, ThreadDown DEF Flags
<1> QED BY <1>2, <1>3, <1>4, <1>5, <1>6, <1>7

\* Exit, the destructor and the io_service that runs out of work.
LEMMA DestructorSteps ==
    ASSUME IInv, OutOfWork \/ Exit \/ Destructor
    PROVE  IInv'
<1> USE DEF IInv
<1>1. ASSUME OutOfWork \/ Exit \/ Cleared \/ Stop \/ Reset \/ ReleaseWork \/ Join PROVE IInv'
    <2>1. UNCHANGED <<ch, map, posted, th, aborted, throws, unbound, late, calls>>
        BY <1>1, Zenon DEF OutOfWork, Exit, Cleared, Stop, Reset, ReleaseWork, Join, Rest
    <2>2. Core' /\ Safe'
        BY <2>1 DEF Core, FramesOK, ChannelsOK, RefsOK, Safe, NothingOutlivesChannel, Alive,
            OpenIsClosed, AbortOnlyUnbound
    <2>3. Flags'
        BY <1>1, <2>1 DEF Flags, OutOfWork, Exit, Cleared, Stop, Reset, ReleaseWork, Join
    <2>4. Down'
        BY <1>1, <2>1 DEF Down, Step, OutOfWork, Exit, Cleared, Stop, Reset, ReleaseWork, Join
    <2> QED BY <2>1, <2>2, <2>3, <2>4
<1>2. ASSUME NEW h \in Handles, ClearOne(h) PROVE IInv'
    <2> DEFINE chs == [ch EXCEPT ![h] = Closed(@)]
               ps == IF PostsClosed(ch[h]) THEN posted \cup {h} ELSE posted
    <2>1. main = "clear" /\ h \in map /\ UNCHANGED <<stopped, work, throws, unbound, late, calls>>
        BY <1>2, Zenon DEF ClearOne
    <2>2. CASE main' = "stuck" /\ UNCHANGED <<ch, map, posted, th, aborted>>
        <3>1. Core' /\ Safe'
            BY <2>1, <2>2 DEF Core, FramesOK, ChannelsOK, RefsOK, Safe, NothingOutlivesChannel, Alive,
                OpenIsClosed, AbortOnlyUnbound
        <3> QED BY <2>1, <2>2, <3>1 DEF Flags, Down
    <2>3. CASE After(map \ {h}, ps, th, chs) /\ UNCHANGED main
        <3>1. ch[h] \in Channels
            BY DEF Core, ChannelsOK
        <3>2. /\ chs \in [Handles -> Channels] /\ chs[h] = Closed(ch[h])
              /\ \A g \in Handles \ {h} : chs[g] = ch[g]
            BY <3>1, ClosedChannels DEF Core, ChannelsOK
        <3>3. /\ ~chs[h].armed /\ chs[h].kind = ch[h].kind
              /\ chs[h].open => ch[h].open /\ (~throws => ch[h].kind # "udp")
            BY <3>1, <3>2, ClosedChannels
        <3>4. ps \subseteq posted \cup {h} /\ (h \in ps \ posted => ch[h].kind = "udp")
            BY DEF PostsClosed, ClosesSocket
        <3> HIDE DEF chs, ps
        <3>5. ChannelsOK(chs)
            BY <3>2, <3>3 DEF Core, ChannelsOK
        <3>6. RefsOK(map \ {h}, ps, th, chs)
            BY <3>2, <3>3, <3>4 DEF Core, RefsOK, FramesOK
        <3>7. OpenIsClosed(map \ {h}, th, chs)
            BY <3>2, <3>3 DEF Core, ChannelsOK, Safe, OpenIsClosed
        <3>8. Core' /\ Safe' /\ map' = map \ {h} /\ th' = th /\ aborted' \in BOOLEAN
            BY <2>1, <2>3, <3>5, <3>6, <3>7, AfterSafe DEF Core, Safe
        <3> QED BY <2>1, <2>3, <3>8 DEF Flags, Down
    <2> QED BY <1>2, <2>2, <2>3, Zenon DEF ClearOne
<1> QED BY <1>1, <1>2 DEF Destructor

----------------------------------------------------------------------------
LEMMA ServiceInit == Init => IInv
<1> SUFFICES ASSUME Init PROVE IInv
    OBVIOUS
<1> USE DEF Init
<1>1. Core
    BY DEF Core, FramesOK, FrameSet, Idle, Frame, Places, ChannelsOK, Channels, NoChannel, Callbacks, RefsOK
<1>2. Flags
    <2>1. calls \in 0..MaxCalls
        BY ServiceAssumption
    <2> QED BY <2>1, Zenon DEF Flags
<1>3. Safe
    BY DEF Safe, NothingOutlivesChannel, OpenIsClosed, AbortOnlyUnbound, NoChannel
<1>4. Down
    BY DEF Down, Threads, Idle, Frame
<1> QED BY <1>1, <1>2, <1>3, <1>4 DEF IInv

LEMMA ServiceStep == IInv /\ [Next]_vars => IInv'
<1> SUFFICES ASSUME IInv, [Next]_vars PROVE IInv'
    OBVIOUS
<1>1. CASE UNCHANGED vars
    BY <1>1 DEF vars, IInv, Core, FramesOK, ChannelsOK, RefsOK, Flags, Safe, NothingOutlivesChannel,
        Alive, OpenIsClosed, AbortOnlyUnbound, Down
<1>2. CASE Next
    <2>1. \E w \in Workers : TRUE
        BY ServiceAssumption
    <2>2. ASSUME NEW h \in Handles, Expire(h) PROVE IInv'
        BY <2>1, <2>2, WorkerSteps
    <2>3. ASSUME NEW t \in Threads, ThreadStep(t) \/ \E h \in Handles : Api(t, h) PROVE IInv'
        BY <2>3, ThreadSteps, ApiStep
    <2>4. ASSUME NEW w \in Workers, NEW h \in Handles, Handler(w, h) \/ RunPosted(w, h) PROVE IInv'
        BY <2>4, WorkerSteps
    <2>5. ASSUME NEW w \in Workers, Call(w) \/ Return(w) \/ Leave(w) PROVE IInv'
        BY <2>5, WorkerSteps
    <2> QED BY <1>2, <2>2, <2>3, <2>4, <2>5, DestructorSteps, Zenon DEF Next
<1> QED BY <1>1, <1>2

\* The state of the service keeps its type: in particular only UDP channels
\* ever post a CLOSED event.
THEOREM ServiceTypeCorrect == Spec => []TypeOK
<1>1. IInv => TypeOK
    BY DEF IInv, Core, FramesOK, FrameSet, ChannelsOK, RefsOK, Flags, TypeOK
<1> QED BY <1>1, ServiceInit, ServiceStep, PTL DEF Spec

\* For any number of channels, workers and calls: no running timer or open
\* socket outlives its channel, no destructor of an added channel terminates
\* the process, and the destructor of the service leaves nothing behind but what
\* functions on the workers added while it ran.
THEOREM ServiceSafe == Spec => [](NothingOutlivesChannel /\ AbortOnlyUnbound /\ ShutdownEmpties)
<1>1. IInv => NothingOutlivesChannel /\ AbortOnlyUnbound /\ ShutdownEmpties
    <2> SUFFICES ASSUME IInv PROVE NothingOutlivesChannel /\ AbortOnlyUnbound /\ ShutdownEmpties
        OBVIOUS
    <2>1. NothingOutlivesChannel /\ AbortOnlyUnbound
        BY DEF IInv, Safe
    <2>2. main \in {"join", "done"} => map \subseteq late
        BY DEF IInv, Down
    <2>3. main = "done" => \A t \in Threads : ~th[t].held
        BY DEF IInv, Down, Threads, Core, FramesOK
    <2>4. main = "done" => \A h \in Handles : ch[h].armed => h \in late
        <3> SUFFICES ASSUME main = "done", NEW h \in Handles, ch[h].armed PROVE h \in late
            OBVIOUS
        <3>1. Alive(h, map, posted, th) /\ map \subseteq late /\ ch[h].kind = "timer"
            BY <2>1, <2>2 DEF NothingOutlivesChannel, IInv, Core, ChannelsOK
        <3>2. h \notin posted
            BY <3>1 DEF IInv, Core, RefsOK
        <3> QED BY <2>3, <3>1, <3>2 DEF Alive
    <2> QED BY <2>1, <2>2, <2>3, <2>4 DEF ShutdownEmpties
<1> QED BY <1>1, ServiceInit, ServiceStep, PTL DEF Spec

\* In particular the process is never terminated by the destructor of a channel
\* that was bound.
THEOREM NoAbortByDestructor == Spec => []AbortOnlyUnbound
BY ServiceSafe, PTL

\* In particular everything that was in the service when its destructor began is
\* out of the map, stopped and in nobody's hands when it has ended, whatever
\* calls the functions on the workers make meanwhile.
THEOREM DestructorEmpties == Spec => []ShutdownEmpties
BY ServiceSafe, PTL
=============================================================================
