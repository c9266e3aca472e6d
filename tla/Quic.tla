-------------------------------- MODULE Quic --------------------------------
(***************************************************************************)
(* HTTP/3: one QUIC connection of an endpoint, in both runtimes.           *)
(* protocol/quic.py with the connection ids it routes datagrams by and the *)
(* timer each connection needs, protocol/h3.py with one request, the       *)
(* UDPServers, and the SingleTask of */worker_context.py that is the timer.*)
(*                                                                         *)
(* The reader task takes datagrams; the timer tasks sleep and let the QUIC *)
(* connection look at the clock.  Both pop and handle the connection's     *)
(* events and then flush it (send_all), which restarts the timer.  The H3  *)
(* sender flushes as well.  The application is a client of the stream.     *)
(*                                                                         *)
(* aioquic and the network are external.  The client has a script: what    *)
(* the QUIC connection will report of it, in order, however its datagrams  *)
(* are lost or delayed; one datagram brings any number of its events.  A   *)
(* silent client, or one that closed, makes the connection expire; it then *)
(* terminates when a timer looks (handle_timer()) and has no timer left.   *)
(*                                                                         *)
(* A step runs from one suspension to the next, or to the next event; cpu  *)
(* is the task that has not suspended yet.  An exception that leaves the   *)
(* reader, a timer or the application ends the endpoint's task group.      *)
(***************************************************************************)
EXTENDS Naturals, Sequences

CONSTANTS
    Scripts,        \* the clients: sequences of events
    QueueSize,      \* quic_receive_queue_size
    AppQueueSize,   \* what the queues of a stream hold
    Timers,         \* bound: the timer tasks there may be at once
    MaxFlushes,     \* bound: how often the sender flushes
    MaxPackets      \* bound: how many datagrams arrive

ASSUME QuicAssumption ==
    /\ Scripts \subseteq
         Seq({"negotiated", "issued", "retired", "headers", "data"})
    /\ QueueSize \in Nat \ {0} /\ AppQueueSize \in Nat \ {0}
    /\ Timers \cap {"reader", "sender", "none"} = {}
    /\ MaxFlushes \in Nat /\ MaxPackets \in Nat

Reader == "reader"
Sender == "sender"
NoTask == "none"
NoTimer == NoTask
Tasks == {Reader, Sender} \cup Timers

VARIABLES
    trio,           \* TRUE: the trio worker; FALSE: the asyncio worker
    terminated,     \* the worker is shutting down
    inbox,          \* how many datagrams wait to be received
    client,         \* its script, the datagrams it has sent, whether it is silent
    quic,           \* the QuicConnection: its state, events, whether it expired
    cids,           \* connection.cids: the ids "issued" and the "first" two
    table,          \* the ids in QuicProtocol.connections
    h3,             \* connection.h3: "none", "open" or "closed"
    stream,         \* the request: whether it is in H3Protocol.streams, and how
                    \* much its queues hold
    app,            \* "none", "running", "responding" or "ended"
    handle,         \* connection.task._handle, a timer or NoTimer
    starting,       \* trio: the timer that nursery.start() has started
    lock,           \* connection.task._lock: its queue, the head holds it
    cancelled,      \* the timer tasks that are cancelled but have not ended
    pc,
    cpu,
    flushes,        \* how often the sender has flushed
    crash           \* what has ended the endpoint's task group, or "none"

worldVars == <<trio, terminated, inbox, client>>
idVars == <<cids, table>>
streamVars == <<stream, app>>
taskVars == <<handle, starting, lock, cancelled, pc, cpu, flushes>>
vars == <<worldVars, quic, idVars, h3, streamVars, taskVars, crash>>

Init ==
    /\ trio \in BOOLEAN /\ terminated = FALSE /\ inbox = 0
    /\ \E script \in Scripts :
         client = [script |-> script, packets |-> 0, silent |-> FALSE]
    /\ quic = [state |-> "none", events |-> <<>>, expired |-> FALSE]
    /\ cids = {} /\ table = {} /\ h3 = "none"
    /\ stream = [open |-> FALSE, queued |-> 0] /\ app = "none"
    /\ handle = NoTimer /\ starting = NoTimer /\ lock = <<>> /\ cancelled = {}
    /\ pc = [t \in Tasks |-> "idle"]
    /\ cpu = NoTask /\ flushes = 0 /\ crash = "none"

-----------------------------------------------------------------------------
(* The tasks.                                                              *)

Goto(t, place) == pc' = [pc EXCEPT ![t] = place]

\* Where a trio task that is cancelled has been woken, or only yields: it runs
\* on to its next checkpoint.
Woken == {"awake", "put", "close", "flush"}

Dying(t) == trio /\ t \in cancelled

\* The task t may take its next step, at the given place.
At(t, place) ==
    /\ pc[t] = place /\ cpu \in {NoTask, t}
    /\ t \in cancelled => trio /\ (cpu = t \/ place \in Woken)

GoOn(t, place) == Goto(t, place) /\ cpu' = t /\ UNCHANGED cancelled

\* A checkpoint: trio ends a cancelled task here.
Suspend(t, place) ==
    /\ cpu' = NoTask
    /\ Goto(t, IF Dying(t) THEN "idle" ELSE place)
    /\ cancelled' = IF Dying(t) THEN cancelled \ {t} ELSE cancelled

\* Only trio yields here.
Yield(t, place, next) == IF trio THEN Suspend(t, place) ELSE GoOn(t, next)

\* A cancelled task ends where it is suspended, and leaves the lock.
CancelledEnds(t) ==
    /\ t \in cancelled /\ cpu = NoTask /\ ~(trio /\ pc[t] \in Woken)
    /\ Goto(t, "idle") /\ cancelled' = cancelled \ {t}
    /\ lock' = SelectSeq(lock, LAMBDA u : u # t)
    /\ UNCHANGED <<worldVars, quic, idVars, h3, streamVars, handle, starting, cpu,
                   flushes, crash>>

Ended(t) == t = NoTimer \/ pc[t] = "idle"
Cancel(t) == IF Ended(t) THEN cancelled ELSE cancelled \cup {t}
Live(t) == pc[t] # "idle" /\ t \notin cancelled

\* Where a task goes at the end of its send_all(): the reader looks whether it
\* is to leave.
Home(t) == IF t = Reader /\ terminated /\ table = {} THEN "done" ELSE "idle"

-----------------------------------------------------------------------------
(* The client, the network, the clock and the worker.                      *)

\* A datagram arrives; one too many for the queue is thrown away.
Arrive ==
    /\ ~client.silent /\ client.packets < MaxPackets
    /\ client' = [client EXCEPT !.packets = @ + 1]
    /\ inbox' = IF inbox < QueueSize THEN inbox + 1 ELSE inbox
    /\ UNCHANGED <<trio, terminated, quic, idVars, h3, streamVars, taskVars, crash>>

FallSilent ==
    /\ ~client.silent /\ client' = [client EXCEPT !.silent = TRUE]
    /\ UNCHANGED <<trio, terminated, inbox, quic, idVars, h3, streamVars, taskVars,
                   crash>>

Expire ==
    /\ client.silent /\ inbox = 0 /\ quic.state = "open" /\ ~quic.expired
    /\ quic' = [quic EXCEPT !.expired = TRUE]
    /\ UNCHANGED <<worldVars, idVars, h3, streamVars, taskVars, crash>>

Terminate ==
    /\ ~terminated /\ terminated' = TRUE
    /\ UNCHANGED <<trio, inbox, client, quic, idVars, h3, streamVars, taskVars, crash>>

-----------------------------------------------------------------------------
(* The application, behind HTTPStream and its QueuedStream.                *)

AppRuns == app \in {"running", "responding"} /\ cpu = NoTask

AppReads ==
    /\ AppRuns /\ stream.queued > 0
    /\ stream' = [stream EXCEPT !.queued = @ - 1]
    /\ UNCHANGED <<worldVars, quic, idVars, h3, app, taskVars, crash>>

AppResponds ==
    /\ AppRuns /\ app = "running" /\ h3 = "open" /\ app' = "responding"
    /\ UNCHANGED <<worldVars, quic, idVars, h3, stream, taskVars, crash>>

\* Without a response HTTPStream sends one when the application ends, which a
\* closed sender refuses: the error leaves the application's task.
AppEnds ==
    /\ AppRuns /\ app' = "ended"
    /\ IF app = "running" /\ h3 = "closed"
       THEN crash' = "late send" /\ UNCHANGED stream
       ELSE stream' = [stream EXCEPT !.open = FALSE] /\ UNCHANGED crash
    /\ UNCHANGED <<worldVars, quic, idVars, h3, taskVars>>

-----------------------------------------------------------------------------
(* SingleTask: its lock, restart() and stop().                             *)

\* Mutated: restart() and stop() take no lock.
NoLock(t, place) ==
    /\ lock' = IF Dying(t) THEN lock ELSE <<t>> \o lock
    /\ IF trio THEN Suspend(t, place) ELSE GoOn(t, place)

\* A task asks for the lock.  asyncio goes on at once if the lock is free.
ToLock(t, place) ==
    /\ lock' = IF Dying(t) THEN lock ELSE Append(lock, t)
    /\ IF trio \/ lock # <<>> THEN Suspend(t, place) ELSE GoOn(t, place)

Locked(t, place) == At(t, place) /\ lock # <<>> /\ Head(lock) = t

\* The timer that the next restart() creates.
Idle == {n \in Timers : pc[n] = "idle"}
NewTimer == CHOOSE n \in Idle : TRUE

\* asyncio: the new timer, the end of restart() and of send_all().
Create(t) ==
    /\ Idle # {}
    /\ pc' = [pc EXCEPT ![NewTimer] = "sleep", ![t] = Home(t)]
    /\ handle' = NewTimer /\ lock' = Tail(lock) /\ cpu' = NoTask
    /\ UNCHANGED <<starting, cancelled>>

\* asyncio cancels the old timer and awaits it.  A timer that restarts itself
\* cancels itself, and swallows the CancelledError it gets at the await.
AwaitOld(t, place) ==
    /\ cancelled' = Cancel(handle) \ {t}
    /\ Goto(t, place) /\ cpu' = NoTask
    /\ UNCHANGED <<handle, starting, lock>>

\* trio cancels it and starts the next one.  A timer that restarts itself has
\* cancelled itself, so it starts nothing and ends.
StartNext(t) ==
    /\ cancelled' = Cancel(handle)
    /\ IF handle = t
       THEN starting' = NoTimer /\ Goto(t, "start")
       ELSE /\ Idle # {} /\ starting' = NewTimer
            /\ pc' = [pc EXCEPT ![NewTimer] = "sleep", ![t] = "start"]
    /\ cpu' = NoTask
    /\ UNCHANGED <<handle, lock>>

Restart(t) ==
    /\ Locked(t, "restart")
    /\ IF trio THEN StartNext(t)
       ELSE IF Ended(handle) THEN Create(t) ELSE AwaitOld(t, "await")
    /\ UNCHANGED <<worldVars, quic, idVars, h3, streamVars, flushes, crash>>

\* Mutated: a timer awaits itself in earnest.
OverOld(t) == Ended(handle)

\* The await is over.
Over(t) == handle = t \/ Ended(handle)

Restarted(t) ==
    /\ \/ Locked(t, "await") /\ Over(t) /\ Create(t)
       \/ /\ Locked(t, "start")
          /\ handle' = starting /\ starting' = NoTimer /\ lock' = Tail(lock)
          /\ Goto(t, Home(t)) /\ cpu' = NoTask /\ UNCHANGED cancelled
    /\ UNCHANGED <<worldVars, quic, idVars, h3, streamVars, flushes, crash>>

\* The end of stop(), after which the connection's ids are forgotten.
Removed(t) ==
    /\ handle' = NoTimer /\ lock' = Tail(lock)
    /\ table' = table \ cids /\ cids' = {}
    /\ Goto(t, "next") /\ cpu' = t /\ UNCHANGED starting

Stop(t) ==
    /\ \/ /\ Locked(t, "stop") /\ (trio \/ Ended(handle))
          /\ cancelled' = Cancel(handle) /\ Removed(t)
       \/ /\ Locked(t, "stop") /\ ~trio /\ ~Ended(handle)
          /\ AwaitOld(t, "stopping") /\ UNCHANGED idVars
       \/ /\ Locked(t, "stopping") /\ Over(t)
          /\ Removed(t) /\ UNCHANGED cancelled
    /\ UNCHANGED <<worldVars, quic, h3, streamVars, flushes, crash>>

-----------------------------------------------------------------------------
(* QuicProtocol: the events of the connection, each until the handler      *)
(* suspends or has returned.                                               *)

\* The reader takes a datagram: it is the connection's first, or has one of its
\* ids; another's is none of this connection.
Receive ==
    LET known == table # {}
        first == quic.state = "none" /\ ~terminated
    IN
    /\ At(Reader, "idle") /\ inbox > 0 /\ inbox' = inbox - 1
    /\ IF known \/ first
       THEN /\ \E n \in 0..Len(client.script) :
                 /\ quic.state = "terminated" => n = 0
                 /\ client' = [client EXCEPT
                                 !.script = SubSeq(@, n + 1, Len(@))]
                 /\ quic' = [quic EXCEPT
                               !.events = @ \o SubSeq(client.script, 1, n),
                               !.state = IF first THEN "open" ELSE @]
            /\ table' = IF first THEN {"first"} ELSE table
            /\ cids' = IF first THEN {"first"} ELSE cids
            /\ GoOn(Reader, "next")
       ELSE /\ Goto(Reader, Home(Reader))
            /\ UNCHANGED <<client, quic, idVars, cpu, cancelled>>
    /\ UNCHANGED <<trio, terminated, h3, streamVars, handle, starting, lock, flushes,
                   crash>>

\* A timer's sleep is over; it lets the connection look at the clock.  asyncio
\* runs its tasks in turn: one that has been given the lock comes before the timer
\* that was created just then.
Wake(t) ==
    /\ At(t, "sleep") /\ cpu = NoTask /\ Goto(t, "awake")
    /\ trio \/ lock = <<>>
    /\ UNCHANGED <<worldVars, quic, idVars, h3, streamVars, handle, starting, lock,
                   cancelled, cpu, flushes, crash>>

LookAtClock(t) ==
    /\ At(t, "awake") /\ GoOn(t, "next")
    /\ quic' = IF quic.expired /\ quic.state = "open"
               THEN [quic EXCEPT !.state = "terminated",
                                 !.events = Append(@, "terminated")]
               ELSE quic
    /\ UNCHANGED <<worldVars, idVars, h3, streamVars, handle, starting, lock, flushes,
                   crash>>

\* next_event() of the loop of _handle_events().
Popped(t, event) ==
    /\ At(t, "next") /\ quic.events # <<>> /\ Head(quic.events) = event
    /\ quic' = [quic EXCEPT !.events = Tail(@)]

Negotiated(t) ==
    /\ Popped(t, "negotiated") /\ h3' = "open" /\ GoOn(t, "next")
    /\ UNCHANGED <<worldVars, idVars, streamVars, handle, starting, lock, flushes,
                   crash>>

Issued(t) ==
    /\ Popped(t, "issued") /\ GoOn(t, "next")
    /\ cids' = cids \cup {"issued"} /\ table' = table \cup {"issued"}
    /\ UNCHANGED <<worldVars, h3, streamVars, handle, starting, lock, flushes, crash>>

\* An id that is not there is a KeyError.
Retired(t) ==
    /\ Popped(t, "retired") /\ GoOn(t, "next")
    /\ cids' = cids \ {"issued"} /\ table' = table \ {"issued"}
    /\ crash' = IF "issued" \in cids \cap table THEN crash ELSE "id"
    /\ UNCHANGED <<worldVars, h3, streamVars, handle, starting, lock, flushes>>

\* H3Protocol.handle(): a request, unless the worker is shutting down.
Headers(t) ==
    /\ Popped(t, "headers")
    /\ IF terminated
       THEN GoOn(t, "next") /\ UNCHANGED streamVars
       ELSE /\ stream' = [stream EXCEPT !.open = TRUE]
            /\ app' = IF Dying(t) THEN app ELSE "running"
            /\ Yield(t, "put", "next")
    /\ UNCHANGED <<worldVars, idVars, h3, handle, starting, lock, flushes, crash>>

\* Its data, for a stream that may have gone and a queue that may be full.
Put(t) ==
    /\ stream' = [stream EXCEPT !.queued = @ + 1]
    /\ Yield(t, "put", "next")

HasRoom == stream.queued < AppQueueSize

Data(t) ==
    /\ Popped(t, "data")
    /\ \/ /\ ~stream.open /\ crash' = "data"
          /\ UNCHANGED <<stream, pc, cpu, cancelled>>
       \/ /\ stream.open /\ HasRoom /\ Put(t) /\ UNCHANGED crash
       \/ /\ stream.open /\ ~HasRoom /\ Suspend(t, "full")
          /\ UNCHANGED <<stream, crash>>
    /\ UNCHANGED <<worldVars, idVars, h3, app, handle, starting, lock, flushes>>

Room(t) ==
    /\ At(t, "full") /\ HasRoom /\ Put(t)
    /\ UNCHANGED <<worldVars, quic, idVars, h3, app, handle, starting, lock, flushes,
                   crash>>

PutReturns(t) ==
    /\ At(t, "put") /\ GoOn(t, "next")
    /\ UNCHANGED <<worldVars, quic, idVars, h3, streamVars, handle, starting, lock,
                   flushes, crash>>

\* The connection is over: its H3 sender is closed, then its timer stopped.
Terminated(t) ==
    /\ Popped(t, "terminated")
    /\ h3' = IF h3 = "open" THEN "closed" ELSE h3
    /\ IF trio /\ h3 = "open"
       THEN Suspend(t, "close") /\ UNCHANGED lock
       ELSE ToLock(t, "stop")
    /\ UNCHANGED <<worldVars, idVars, streamVars, handle, starting, flushes, crash>>

Closed(t) ==
    /\ At(t, "close") /\ ToLock(t, "stop")
    /\ UNCHANGED <<worldVars, quic, idVars, h3, streamVars, handle, starting, flushes,
                   crash>>

-----------------------------------------------------------------------------
(* send_all(): the datagrams, then the timer, if the connection has one.   *)

NoMoreEvents(t) == At(t, "next") /\ quic.events = <<>>

SendDatagrams(t) ==
    /\ NoMoreEvents(t) /\ trio /\ Suspend(t, "flush")
    /\ UNCHANGED <<worldVars, quic, idVars, h3, streamVars, handle, starting, lock,
                   flushes, crash>>

\* Mutated: the timer is restarted without a look at get_timer().
ToTimerAlways(t) == ToLock(t, "restart")

ToTimer(t) ==
    IF quic.state = "terminated"
    THEN /\ Goto(t, Home(t)) /\ cpu' = NoTask /\ cancelled' = cancelled \ {t}
         /\ UNCHANGED lock
    ELSE ToLock(t, "restart")

SetTimer(t) ==
    /\ NoMoreEvents(t) \/ At(t, "flush")
    /\ ToTimer(t)
    /\ UNCHANGED <<worldVars, quic, idVars, h3, streamVars, handle, starting, flushes,
                   crash>>

\* The H3 sender flushes a batch, with send_all().
SenderFlush ==
    /\ At(Sender, "idle") /\ h3 = "open" /\ flushes < MaxFlushes
    /\ flushes' = flushes + 1
    /\ IF trio THEN Suspend(Sender, "flush") /\ UNCHANGED lock
       ELSE ToTimer(Sender)
    /\ UNCHANGED <<worldVars, quic, idVars, h3, streamVars, handle, starting, crash>>

-----------------------------------------------------------------------------

Handle(t) ==
    \/ Negotiated(t) \/ Issued(t) \/ Retired(t) \/ Headers(t) \/ Data(t)
    \/ Room(t) \/ PutReturns(t) \/ Terminated(t) \/ Closed(t)
    \/ Restart(t) \/ Restarted(t) \/ Stop(t)
    \/ SendDatagrams(t) \/ SetTimer(t)

TimerStep(t) == CancelledEnds(t) \/ Wake(t) \/ LookAtClock(t)

Next ==
    /\ crash = "none"
    /\ \/ Arrive \/ FallSilent \/ Expire \/ Terminate
       \/ AppReads \/ AppResponds \/ AppEnds
       \/ Receive \/ SenderFlush
       \/ \E t \in Tasks : Handle(t)
       \/ \E t \in Timers : TimerStep(t)

\* The loop runs every task that is ready, a timer's sleep ends, and an
\* application that has not ended reads.
Fairness ==
    /\ WF_vars(crash = "none" /\ Receive) /\ WF_vars(crash = "none" /\ AppReads)
    /\ \A t \in Tasks : WF_vars(crash = "none" /\ Handle(t))
    /\ \A t \in Timers : WF_vars(crash = "none" /\ TimerStep(t))

Spec == Init /\ [][Next]_vars /\ Fairness

-----------------------------------------------------------------------------
(* Properties.                                                             *)

\* Every variable has its type; the queues are within their bounds, and a task
\* waits for the lock once.
TypeOK ==
    /\ inbox \in 0..QueueSize /\ stream.queued \in 0..AppQueueSize
    /\ handle \in Timers \cup {NoTimer} /\ starting \in Timers \cup {NoTimer}
    /\ cancelled \subseteq Timers /\ cpu \in Tasks \cup {NoTask}
    /\ \A t \in cancelled : pc[t] # "idle"
    /\ \A i, j \in 1..Len(lock) : lock[i] = lock[j] => i = j

\* "A single QUIC timer task per connection": whichever of the reader, the H3
\* sender and the timer itself restart or stop the timer, in whatever order, a
\* timer that is not cancelled is the only one, and SingleTask knows it.
OneTimer ==
    \A t, u \in Timers :
        Live(t) /\ Live(u) => t = u /\ (cpu = NoTask => t \in {handle, starting})

\* asyncio: while nobody handles its events, a connection has a timer, or nothing
\* would ever end it (trio loses the timer that restarts itself).
TimerKept ==
    ~trio /\ table # {} /\ pc[Reader] = "idle" /\ pc[Sender] = "idle"
    => \E t \in Timers : Live(t)

\* The timer of a connection: never two, and under asyncio never none.
SingleTimer == TypeOK /\ OneTimer /\ TimerKept

\* A connection that was removed has left nothing: no timer that would handle it
\* again, nobody who waits to restart one, no id, and no id that was lost.
NothingLeft ==
    /\ crash # "id"
    /\ quic.state = "terminated" /\ table = {} /\ cpu = NoTask =>
         /\ \A t \in Timers : ~Live(t)
         /\ lock = <<>> /\ cids = {} /\ h3 # "open" /\ quic.events = <<>>

\* A full queue of an application that has ended holds up the task that has data
\* for it.
HeldUp == app = "ended" /\ \E t \in Tasks : pc[t] = "full"

\* asyncio: a connection whose client has gone is removed, unless its endpoint
\* fails or the task that should do it is held up.
ConnectionsLeave ==
    quic.expired /\ ~trio ~> table = {} \/ crash # "none" \/ HeldUp

=============================================================================
