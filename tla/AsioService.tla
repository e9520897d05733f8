---------------------------- MODULE AsioService -----------------------------
(***************************************************************************)
(* hnw::Service and AsioService: the channel map with its lock, the worker *)
(* threads of the io_service, and the destructor that stops them, with     *)
(* timer and UDP channels (TCP and SSL channels have their own modules).   *)
(*                                                                         *)
(* A channel lives while somebody has a shared_ptr to it: the map, a       *)
(* thread inside an API call, or a posted CLOSED event.  The handler of a  *)
(* timer has none.  std::mutex is not recursive, and only the destructor   *)
(* keeps it over more than one step.  The handlers of cancelled timers do  *)
(* nothing and are left out.                                               *)
(***************************************************************************)
EXTENDS Integers, FiniteSets

CONSTANTS
    Handles,     \* the handles generate_handle gives out
    Workers,     \* the threads in run_worker
    Main,        \* the thread of the application, which destroys the service
    NoHandle,
    MaxCalls     \* bound on the application's calls, to set a callback excepted

ASSUME ServiceAssumption ==
    /\ Main \notin Workers /\ NoHandle \notin Handles
    /\ MaxCalls \in Nat /\ Workers # {}

Threads == Workers \cup {Main}

VARIABLES
    ch,        \* the channels: [kind, timeout, cb, armed, queued, open, ran]
    map,       \* channel_map_
    posted,    \* the channels whose CLOSED event is in the io_service's queue
    th,        \* where each thread is: [at, h, held, then]
    main,      \* the life of the service: up, clear, stop, reset, work, join, done
    stopped,   \* io_service::stopped
    work,      \* work_ is alive
    throws,    \* shutdown() fails on an unconnected UDP socket (POSIX; not Windows)
    aborted,   \* std::terminate was called
    unbound,   \* history: a UDP channel could not be bound
    late,      \* history: the channels added after the destructor began
    calls      \* how many calls the application made

vars == <<ch, map, posted, th, main, stopped, work, throws, aborted, unbound, late, calls>>

\* event_cb_ is empty, bound to the application's callback, or to nullptr.
Callbacks == {"none", "user", "null"}
Channels == [kind : {"none", "timer", "udp"}, timeout : 0..1, cb : Callbacks, armed : BOOLEAN,
             queued : Nat, open : BOOLEAN, ran : BOOLEAN]
Places == {"idle", "find", "use", "unset", "lookup", "erase", "close", "call", "fn", "left"}
NoChannel == [kind |-> "none", timeout |-> 0, cb |-> "none", armed |-> FALSE, queued |-> 0,
              open |-> FALSE, ran |-> FALSE]

\* then: where the thread goes on.  In a timer's handler call_ comes next, and
\* what the application's function calls returns to the function (fn).
Frame(at, h, held, then) == [at |-> at, h |-> h, held |-> held, then |-> then]
Idle == Frame("idle", NoHandle, FALSE, "idle")

Init ==
    /\ ch = [h \in Handles |-> NoChannel] /\ map = {} /\ posted = {}
    /\ th = [t \in Threads |-> Idle]
    /\ main = "up" /\ stopped = FALSE /\ work = TRUE
    /\ throws \in BOOLEAN /\ aborted = FALSE /\ unbound = FALSE
    /\ late = {} /\ calls = 0

----------------------------------------------------------------------------
\* Channel::close.  A UDP channel posts CLOSED when it has closed its socket;
\* when shutdown() fails it raises ERROR and keeps the socket.
ClosesSocket(c) == c.kind = "udp" /\ c.open /\ ~throws

\* Mutant: the socket stays open.
ClosedKeepsSocket(c) == [c EXCEPT !.armed = FALSE]

Closed(c) == [c EXCEPT !.armed = FALSE, !.open = @ /\ ~ClosesSocket(c)]

\* Mutant: a timer posts CLOSED as well.
PostsClosedTimer(c) == c.kind = "timer" \/ ClosesSocket(c)

PostsClosed(c) == ClosesSocket(c)

Alive(h, m, ps, ths) == h \in m \/ h \in ps \/ \E t \in Threads : ths[t].held /\ ths[t].h = h

\* The state after a step that leaves these references: a channel without one
\* is destroyed.  Its destructor closes it, which must not post anything:
\* shared_from_this() would throw out of a destructor.
\* Mutant: the destructor does not close.
AfterNoClose(m, ps, ths, chs) ==
    map' = m /\ posted' = ps /\ th' = ths /\ ch' = chs /\ UNCHANGED aborted

After(m, ps, ths, chs) ==
    LET gone == {h \in Handles : chs[h].kind # "none" /\ ~Alive(h, m, ps, ths)}
    IN  /\ map' = m /\ posted' = ps /\ th' = ths
        /\ ch' = [h \in Handles |->
                     IF h \in gone THEN [Closed(chs[h]) EXCEPT !.open = FALSE] ELSE chs[h]]
        /\ aborted' = (aborted \/ \E h \in gone : ClosesSocket(chs[h]))

\* channel_map_lock_ is free.
Unlocked == main \notin {"clear", "stuck"}
Step(t, at) == ~aborted /\ th[t].at = at
To(t, at) == [th EXCEPT ![t].at = at]
\* The end of a call or of a handler's first part: references are dropped.
Ended(t) ==
    [th EXCEPT ![t] = Frame(@.then, IF @.then = "call" THEN @.h ELSE NoHandle, FALSE, "idle")]

\* What belongs to the destructor and the environment.
Control == <<main, stopped, work, throws>>
Shared == <<Control, unbound, late>>

----------------------------------------------------------------------------
\* The application's calls: from its own thread until it destroys the service,
\* and from a timer's function on a worker at any time.
MayCall(t) == (t = Main /\ Step(t, "idle") /\ main = "up") \/ Step(t, "fn")
Ready(t) == MayCall(t) /\ calls < MaxCalls /\ calls' = calls + 1
Enter(t, at, h) == [th EXCEPT ![t] = Frame(at, h, FALSE, @.at)]

\* add_channel: nothing keeps a channel out of the map of a service that is
\* going down.
NewChannel(h) ==
    /\ ch[h] = NoChannel /\ Unlocked
    /\ late' = IF main = "up" THEN late ELSE late \cup {h}
    /\ UNCHANGED <<Control, unbound>>

\* add_timer: add_channel, two times config, and then connect.
Timer(ms) == [NoChannel EXCEPT !.kind = "timer", !.timeout = ms]
AddTimer(t, h, ms) ==
    /\ Ready(t) /\ NewChannel(h)
    /\ After(map \cup {h}, posted, Enter(t, "find", h), [ch EXCEPT ![h] = Timer(ms)])

Udp == [NoChannel EXCEPT !.kind = "udp", !.open = TRUE]
AddUdp(t, h) ==
    /\ Ready(t) /\ NewChannel(h)
    /\ After(map \cup {h}, posted, th, [ch EXCEPT ![h] = Udp])

\* bind fails when the socket is open: the channel goes without being added.
BindFails(t, h) ==
    /\ Ready(t) /\ ch[h] = NoChannel
    /\ unbound' = TRUE
    /\ After(map, posted, th, [ch EXCEPT ![h] = Udp])
    /\ UNCHANGED <<Control, late>>

\* To set a callback is not counted as a call: it can happen any time.
SetEvntCB(t, h) ==
    /\ MayCall(t) /\ h \in map /\ Unlocked
    /\ ch' = [ch EXCEPT ![h].cb = "user"]
    /\ UNCHANGED <<map, posted, th, aborted, Shared, calls>>

Config(t, h, ms) ==
    /\ Ready(t) /\ h \in map /\ ch[h].kind = "timer" /\ Unlocked
    /\ ch' = [ch EXCEPT ![h].timeout = ms]
    /\ UNCHANGED <<map, posted, th, aborted, Shared>>

\* HnwBase_Connect, HnwBase_Send and HnwBase_Close begin by looking up the
\* handle.  To send on a timer, or to connect to a bad address, does nothing.
CallApi(t, h) ==
    /\ Ready(t) /\ ch[h].kind # "none"
    /\ \E at \in {"find", "lookup"} : th' = Enter(t, at, h)
    /\ UNCHANGED <<ch, map, posted, aborted, Shared>>

----------------------------------------------------------------------------
\* connect and send.
Find(t) ==
    /\ Step(t, "find") /\ Unlocked
    /\ IF th[t].h \in map
       THEN th' = [th EXCEPT ![t].at = "use", ![t].held = TRUE] /\ UNCHANGED <<ch, map, posted, aborted>>
       ELSE After(map, posted, Ended(t), ch)
    /\ UNCHANGED <<Shared, calls>>

\* ASIOTimerChannel::connect cancels the old timer and starts a new one.
Rearmed(c) == [c EXCEPT !.armed = c.timeout # 0, !.ran = FALSE]

UseTimer(t) ==
    /\ Step(t, "use") /\ ch[th[t].h].kind = "timer"
    /\ After(map, posted, Ended(t), [ch EXCEPT ![th[t].h] = Rearmed(@)])
    /\ UNCHANGED <<Shared, calls>>

\* Nothing sets bconn_ of a UDP channel: to read or to send is an error.
UseUdp(t) ==
    /\ Step(t, "use") /\ ch[th[t].h].kind = "udp"
    /\ IF ch[th[t].h].cb = "none" THEN After(map, posted, Ended(t), ch)
       ELSE th' = To(t, "unset") /\ UNCHANGED <<ch, map, posted, aborted>>
    /\ UNCHANGED <<Shared, calls>>

\* Service::event_cb after an ERROR: the callback is replaced by nullptr and
\* the channel closed.
Unset(t) ==
    /\ Step(t, "unset") /\ Unlocked
    /\ th' = To(t, "lookup")
    /\ ch' = [ch EXCEPT ![th[t].h].cb = IF th[t].h \in map THEN "null" ELSE @]
    /\ UNCHANGED <<map, posted, aborted, Shared, calls>>

\* Service::close.
Lookup(t) ==
    /\ Step(t, "lookup") /\ Unlocked
    /\ IF th[t].h \in map
       THEN th' = [th EXCEPT ![t].at = "erase", ![t].held = TRUE] /\ UNCHANGED <<ch, map, posted, aborted>>
       ELSE After(map, posted, Ended(t), ch)
    /\ UNCHANGED <<Shared, calls>>

Erase(t) ==
    /\ Step(t, "erase") /\ Unlocked
    /\ map' = map \ {th[t].h}
    /\ th' = To(t, "close")
    /\ UNCHANGED <<ch, posted, aborted, Shared, calls>>

\* The ERROR of a shutdown() that fails finds no channel to close any more.
CloseChannel(t) ==
    /\ Step(t, "close")
    /\ LET h == th[t].h
       IN  After(map, IF PostsClosed(ch[h]) THEN posted \cup {h} ELSE posted, Ended(t),
                 [ch EXCEPT ![h] = Closed(@)])
    /\ UNCHANGED <<Shared, calls>>

----------------------------------------------------------------------------
\* The io_service.  A worker takes what is queued unless it is stopped.
Free(w) == Step(w, "idle") /\ ~stopped

Expire(h) ==
    /\ ~aborted /\ ch[h].armed
    /\ ch' = [ch EXCEPT ![h].armed = FALSE, ![h].queued = @ + 1]
    /\ UNCHANGED <<map, posted, th, aborted, Shared, calls>>

\* Mutant: without an event callback the handler returns before call_.
HandlerNeedsCallback(w, h) ==
    /\ Free(w) /\ ch[h].queued > 0
    /\ ch' = [ch EXCEPT ![h].queued = @ - 1]
    /\ th' = IF ~Alive(h, map, posted, th) \/ ch[h].cb = "none" THEN th
             ELSE [th EXCEPT ![w] = Frame("unset", h, FALSE, "call")]
    /\ UNCHANGED <<map, posted, aborted, Shared, calls>>

\* The handler of a timer knows its channel by a bare this.  Whatever happens
\* when that is gone, the model ends the handler there.
Handler(w, h) ==
    /\ Free(w) /\ ch[h].queued > 0
    /\ ch' = [ch EXCEPT ![h].queued = @ - 1]
    /\ th' = IF ~Alive(h, map, posted, th) THEN th
             ELSE IF ch[h].cb = "none" THEN [th EXCEPT ![w] = Frame("call", h, FALSE, "idle")]
             ELSE [th EXCEPT ![w] = Frame("unset", h, FALSE, "call")]
    /\ UNCHANGED <<map, posted, aborted, Shared, calls>>

\* call_: the application's function returns, starts its timer again or closes a
\* channel, however often it runs, or makes any of the application's calls.
Call(w) ==
    /\ Step(w, "call")
    /\ IF ~Alive(th[w].h, map, posted, th)
       THEN th' = [th EXCEPT ![w] = Idle] /\ UNCHANGED ch
       ELSE /\ ch' = [ch EXCEPT ![th[w].h].ran = TRUE]
            /\ \/ th' = [th EXCEPT ![w] = Idle]
               \/ th' = [th EXCEPT ![w] = Frame("find", @.h, FALSE, "idle")]
               \/ th' = [th EXCEPT ![w] = Frame("fn", NoHandle, FALSE, "idle")]
               \/ \E h \in Handles :
                     ch[h].kind # "none" /\ th' = [th EXCEPT ![w] = Frame("lookup", h, FALSE, "idle")]
    /\ UNCHANGED <<map, posted, aborted, Shared, calls>>

Return(w) ==
    /\ Step(w, "fn")
    /\ th' = [th EXCEPT ![w] = Idle]
    /\ UNCHANGED <<ch, map, posted, aborted, Shared, calls>>

RunPosted(w, h) ==
    /\ Free(w) /\ h \in posted
    /\ After(map, posted \ {h}, th, ch)
    /\ UNCHANGED <<Shared, calls>>

Leave(w) ==
    /\ Step(w, "idle") /\ stopped
    /\ th' = To(w, "left")
    /\ UNCHANGED <<ch, map, posted, aborted, Shared, calls>>

\* What the destructor leaves alone.
Rest == <<ch, map, posted, th, aborted, throws, unbound, late, calls>>

\* The io_service stops itself when it runs out of work.
Outstanding ==
    \/ work \/ posted # {} \/ \E h \in Handles : ch[h].armed \/ ch[h].queued > 0
    \/ \E w \in Workers : th[w].at \notin {"idle", "left"}

OutOfWork ==
    /\ ~aborted /\ ~stopped /\ ~Outstanding
    /\ stopped' = TRUE
    /\ UNCHANGED <<Rest, main, work>>

----------------------------------------------------------------------------
\* ~AsioService.
Exit ==
    /\ Step(Main, "idle") /\ main = "up"
    /\ main' = "clear"
    /\ UNCHANGED <<Rest, stopped, work>>

\* clear_and_close_channels holds the lock.  The ERROR of a close that fails
\* asks for the lock again.
ClearOne(h) ==
    /\ ~aborted /\ main = "clear" /\ h \in map
    /\ IF ch[h].kind = "udp" /\ throws /\ ch[h].cb # "none"
       THEN main' = "stuck" /\ UNCHANGED <<ch, map, posted, th, aborted>>
       ELSE /\ After(map \ {h}, IF PostsClosed(ch[h]) THEN posted \cup {h} ELSE posted, th,
                     [ch EXCEPT ![h] = Closed(@)])
            /\ UNCHANGED main
    /\ UNCHANGED <<stopped, work, throws, unbound, late, calls>>

\* Mutant: the last channel is forgotten.
ClearedButOne ==
    /\ ~aborted /\ main = "clear" /\ Cardinality(map) <= 1
    /\ main' = "stop"
    /\ UNCHANGED <<Rest, stopped, work>>

Cleared ==
    /\ ~aborted /\ main = "clear" /\ map = {}
    /\ main' = "stop"
    /\ UNCHANGED <<Rest, stopped, work>>

Stop ==
    /\ main = "stop" /\ main' = "reset"
    /\ stopped' = TRUE
    /\ UNCHANGED <<Rest, work>>

Reset ==
    /\ main = "reset" /\ main' = "work"
    /\ stopped' = FALSE
    /\ UNCHANGED <<Rest, work>>

\* Mutant: work_ is not released.
ReleaseWorkForgotten ==
    /\ main = "work" /\ main' = "join"
    /\ UNCHANGED <<Rest, stopped, work>>

ReleaseWork ==
    /\ main = "work" /\ main' = "join"
    /\ work' = FALSE
    /\ UNCHANGED <<Rest, stopped>>

Join ==
    /\ main = "join" /\ \A w \in Workers : th[w].at = "left"
    /\ main' = "done"
    /\ UNCHANGED <<Rest, stopped, work>>

----------------------------------------------------------------------------
Api(t, h) ==
    \/ \E ms \in 0..1 : AddTimer(t, h, ms) \/ Config(t, h, ms)
    \/ AddUdp(t, h) \/ BindFails(t, h) \/ SetEvntCB(t, h) \/ CallApi(t, h)
ThreadStep(t) ==
    Find(t) \/ UseTimer(t) \/ UseUdp(t) \/ Unset(t) \/ Lookup(t) \/ Erase(t) \/ CloseChannel(t)
Destructor == (\E h \in Handles : ClearOne(h)) \/ Cleared \/ Stop \/ Reset \/ ReleaseWork \/ Join

Next ==
    \/ \E h \in Handles : Expire(h)
    \/ \E t \in Threads : ThreadStep(t) \/ \E h \in Handles : Api(t, h)
    \/ \E w \in Workers, h \in Handles : Handler(w, h) \/ RunPosted(w, h)
    \/ \E w \in Workers : Call(w) \/ Return(w) \/ Leave(w)
    \/ OutOfWork \/ Exit \/ Destructor

\* The queue of the io_service is first in, first out: what is in it is taken
\* when a worker is free again and again.  The application's functions return.
\* Nobody has to call the API or to destroy the service.
Fairness ==
    /\ \A h \in Handles :
          /\ WF_vars(Expire(h))
          /\ SF_vars(\E w \in Workers : Handler(w, h)) /\ SF_vars(\E w \in Workers : RunPosted(w, h))
    /\ \A t \in Threads : WF_vars(ThreadStep(t))
    /\ \A w \in Workers : WF_vars(Call(w)) /\ WF_vars(Return(w)) /\ WF_vars(Leave(w))
    /\ WF_vars(OutOfWork) /\ WF_vars(Destructor)

Spec == Init /\ [][Next]_vars /\ Fairness

----------------------------------------------------------------------------
TypeOK ==
    /\ ch \in [Handles -> Channels] /\ map \subseteq Handles
    /\ posted \subseteq {h \in Handles : ch[h].kind = "udp"}
    /\ th \in [Threads -> [at : Places, h : Handles \cup {NoHandle}, held : BOOLEAN,
                          then : {"idle", "call", "fn"}]]
    /\ main \in {"up", "clear", "stuck", "stop", "reset", "work", "join", "done"}
    /\ {stopped, work, throws, aborted, unbound} \subseteq BOOLEAN
    /\ late \subseteq Handles /\ calls \in 0..MaxCalls

\* No timer that runs, and no open socket, outlives its channel, also when
\* connect starts a timer on a channel another thread has closed meanwhile.
NothingOutlivesChannel ==
    \A h \in Handles : ch[h].armed \/ ch[h].open => Alive(h, map, posted, th)

\* The destructor of a channel that was added never has anything left to post:
\* the process is terminated only if bind failed (and shutdown() did not).
AbortOnlyUnbound == aborted => unbound /\ ~throws

\* Whatever was in the service when its destructor began is gone when it waits
\* for the workers, also what threads were adding, starting or closing then.
\* When it has ended no thread is left in a call with a channel in its hands,
\* and only a timer that a function on a worker added meanwhile can still run.
ShutdownEmpties ==
    /\ main \in {"join", "done"} => map \subseteq late
    /\ main = "done" => /\ \A t \in Threads : ~th[t].held
                        /\ \A h \in Handles : ch[h].armed => h \in late

\* A timer that was started runs its function, unless it is closed, stopped by
\* a connect with time-out 0, or the service goes down.
TimerFires ==
    \A h \in Handles :
        ch[h].armed ~> \/ ch[h].ran \/ h \notin map \/ ch[h].timeout = 0
                       \/ main # "up" \/ aborted

\* The destructor ends: no worker waits for the lock or for work that never
\* comes, also if it missed the stop before the reset.  A UDP channel with a
\* callback, on a system where shutdown() fails, keeps it from ending, and so
\* can a timer that was added after the clear and starts itself again.
ShutdownEnds ==
    main = "clear" /\ (throws => \A h \in map : ch[h].kind = "udp" => ch[h].cb = "none")
        ~> main = "done" \/ late # {} \/ aborted
=============================================================================
