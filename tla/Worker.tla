-------------------------------- MODULE Worker --------------------------------
(***************************************************************************)
(* One worker: worker_serve of asyncio/run.py and of trio/run.py, with the *)
(* Lifespan of either runtime, the application's lifespan task and the     *)
(* connections the worker serves.                                          *)
(*                                                                         *)
(* The worker starts the application's lifespan, asks it to start up,      *)
(* serves until a signal or max_requests, gives the connections that are   *)
(* left the graceful timeout, asks the application to shut down, and ends. *)
(* A step of `main` runs from one await to the next.  A connection is what *)
(* TCPServer makes of it: it becomes idle and busy, and closes once the    *)
(* worker is terminated and its response is over.                          *)
(*                                                                         *)
(* The application is free within what `world.may` holds.  Signals,        *)
(* clients and timeouts belong to the environment; so does the version of  *)
(* Python: since 3.12 Server.wait_closed() waits for every transport.      *)
(***************************************************************************)
EXTENDS Naturals, Sequences

CONSTANTS
    Conns,          \* bound: the connections clients make
    MaxQueue,       \* config.max_app_queue_size
    MaxRequests,    \* context.max_requests
    RequestBound,   \* bound: the requests clients make
    Worlds          \* records [trio, waits, may], one per behaviour: the
                    \* runtime, what wait_closed() does, what may happen

\* The lifespan application may return or raise at any time, report a failure,
\* take its time to unwind from it, go on after its last message, or be too
\* slow for the timeouts; a connection's task may raise; an application may
\* never end a request.
Happenings == {"return", "raise", "fail", "cleanup", "linger", "slow", "crash", "endless"}

ASSUME WorkerAssumption ==
    /\ MaxQueue \in Nat \ {0} /\ MaxRequests \in Nat /\ RequestBound \in Nat
    /\ Worlds \subseteq [trio : BOOLEAN, waits : BOOLEAN, may : SUBSET Happenings]

VARIABLES
    world,          \* what is fixed for a behaviour
    startup, shutdown,  \* Lifespan.startup and shutdown are set
    supported,      \* Lifespan.supported
    queue,          \* the messages the application has still to receive
    channel,        \* trio: "open" or "closed"
    app,            \* the lifespan task: "new", "running", "unwinding", or how
                    \* it ended: "returned", "raised" or "cancelled"
    heard, said,    \* history: what the application received and sent
    main,           \* where worker_serve is
    outcome,        \* how it ended: "none", "ok" or "error"
    conns,          \* per connection: "none", "new" (its task has not run
                    \* yet), "idle", "busy", "leaving" (the transport is
                    \* closed, the application goes on) or "closed"
    gathered,       \* the connections the worker waits for
    triggered,      \* the shutdown trigger has returned
    terminated,     \* context.terminated is set
    requests,       \* context.requests
    faults          \* history: the timeouts that ran out and tasks that raised

appVars == <<startup, shutdown, supported, queue, channel, app, heard, said>>
connVars == <<conns, requests>>
mainVars == <<main, outcome, gathered, terminated>>
vars == <<world, appVars, connVars, mainVars, triggered, faults>>

May(what) == what \in world.may
Ended == {"returned", "raised", "cancelled"}

Init ==
    /\ world \in Worlds
    /\ startup = FALSE /\ shutdown = FALSE /\ supported = TRUE
    /\ queue = <<>> /\ channel = "open"
    /\ app = "new" /\ heard = {} /\ said = {}
    /\ main = "begin" /\ outcome = "none"
    /\ conns = [c \in Conns |-> "none"] /\ gathered = {}
    /\ triggered = FALSE /\ terminated = FALSE
    /\ requests = 0 /\ faults = {}

-----------------------------------------------------------------------------
(* handle_lifespan() and the application in it.                            *)

Running == app = "running" /\ main # "over"

\* Mutated: the events are not set in the end.
EndQuietly(how) ==
    /\ app' = how
    /\ channel' = IF world.trio THEN "closed" ELSE channel
    /\ UNCHANGED <<startup, shutdown>>

\* `finally`: whoever waits for the application goes on.
End(how) ==
    /\ app' = how
    /\ startup' = TRUE /\ shutdown' = TRUE
    /\ channel' = IF world.trio THEN "closed" ELSE channel

AppStarts ==
    /\ app = "new" /\ main # "over"
    /\ app' = "running"
    /\ UNCHANGED <<world, startup, shutdown, supported, queue, channel, heard, said,
                   connVars, mainVars, triggered, faults>>

AppReceives ==
    /\ Running /\ queue # <<>>
    /\ queue' = Tail(queue) /\ heard' = heard \cup {Head(queue)}
    /\ UNCHANGED <<world, startup, shutdown, supported, channel, app, said,
                   connVars, mainVars, triggered, faults>>

\* asgi_send() of startup.complete.
StartupComplete ==
    /\ Running /\ "startup" \in heard /\ said = {}
    /\ said' = {"startup.complete"}
    /\ startup' = TRUE
    /\ UNCHANGED <<world, shutdown, supported, queue, channel, app, heard,
                   connVars, mainVars, triggered, faults>>

\* asgi_send() of shutdown.complete, with which the application usually returns.
ShutdownComplete ==
    /\ Running /\ "shutdown" \in heard /\ "startup.complete" \in said
    /\ said' = said \cup {"shutdown.complete"}
    /\ \/ End("returned")
       \/ May("linger") /\ shutdown' = TRUE /\ UNCHANGED <<startup, channel, app>>
    /\ UNCHANGED <<world, supported, queue, heard, connVars, mainVars, triggered, faults>>

\* asgi_send() of startup.failed or shutdown.failed raises LifespanFailureError
\* in the application, which unwinds: at once, or with awaits of its own.
\* Under asyncio the event is set first.
StartupFailed ==
    /\ Running /\ May("fail") /\ "startup" \in heard /\ said = {}
    /\ said' = {"startup.failed"}
    /\ \/ End("raised")
       \/ /\ May("cleanup") /\ app' = "unwinding"
          /\ startup' = (startup \/ ~world.trio) /\ UNCHANGED <<shutdown, channel>>
    /\ UNCHANGED <<world, supported, queue, heard, connVars, mainVars, triggered, faults>>

ShutdownFailed ==
    /\ Running /\ May("fail") /\ "shutdown" \in heard /\ said = {"startup.complete"}
    /\ said' = said \cup {"shutdown.failed"}
    /\ \/ End("raised")
       \/ /\ May("cleanup") /\ app' = "unwinding"
          /\ shutdown' = (shutdown \/ ~world.trio) /\ UNCHANGED <<startup, channel>>
    /\ UNCHANGED <<world, supported, queue, heard, connVars, mainVars, triggered, faults>>

AppUnwinds ==
    /\ app = "unwinding" /\ main # "over"
    /\ End("raised")
    /\ UNCHANGED <<world, supported, queue, heard, said, connVars, mainVars, triggered, faults>>

AppReturns ==
    /\ Running /\ May("return")
    /\ End("returned")
    /\ UNCHANGED <<world, supported, queue, heard, said, connVars, mainVars, triggered, faults>>

\* Any other exception: the application does not support lifespans.
AppRaises ==
    /\ Running /\ May("raise")
    /\ supported' = FALSE
    /\ End("returned")
    /\ UNCHANGED <<world, queue, heard, said, connVars, mainVars, triggered, faults>>

AppWorks == AppStarts \/ AppReceives \/ StartupComplete \/ ShutdownComplete \/ AppUnwinds
AppMisbehaves == StartupFailed \/ ShutdownFailed \/ AppReturns \/ AppRaises

-----------------------------------------------------------------------------
(* The connections.                                                        *)

Live == {"new", "idle", "busy", "leaving"}
Terminate == requests > MaxRequests \* context.terminate is set

\* A nursery knows the tasks of its connections, server_tasks only those that
\* run.  While one listener is waited for the next one is still open.
Accept(c) ==
    /\ main \in {"serving", "closing"} /\ conns[c] = "none"
    /\ world.trio => app # "raised"     \* the nursery is cancelled
    /\ conns' = [conns EXCEPT ![c] = IF world.trio THEN "idle" ELSE "new"]
    /\ UNCHANGED <<world, appVars, mainVars, requests, triggered, faults>>

Move(c, from, to) ==
    /\ main # "over" /\ conns[c] = from
    /\ conns' = [conns EXCEPT ![c] = to]
    /\ UNCHANGED <<world, appVars, mainVars, triggered, faults>>

ConnStarts(c) == Move(c, "new", "idle") /\ UNCHANGED requests

\* A request, with mark_request().
Request(c) ==
    /\ requests < RequestBound
    /\ Move(c, "idle", "busy")
    /\ requests' = requests + 1

\* The response is over: the next cycle, or the end if the worker is terminated.
Respond(c) ==
    /\ Move(c, "busy", IF terminated THEN "closed" ELSE "idle")
    /\ UNCHANGED requests

\* The client leaves, or the idle timer runs out: at once if terminated.
IdleCloses(c) == Move(c, "idle", "closed") /\ UNCHANGED requests
ClientLeaves(c) == Move(c, "busy", "leaving") /\ UNCHANGED requests
AppFinishes(c) == Move(c, "leaving", "closed") /\ UNCHANGED requests

\* Whatever is left of a worker that ends by an error is cancelled.
Fail ==
    /\ main' = "over" /\ outcome' = "error"
    /\ conns' = [c \in Conns |-> IF conns[c] \in Live THEN "closed" ELSE conns[c]]
    /\ UNCHANGED <<gathered, terminated>>

\* The task of a connection raises.  asyncio reports it, or passes it to the
\* gather() that waits for it; trio's nursery cancels everything else.
ConnCrashes(c) ==
    /\ main # "over" /\ conns[c] \in {"idle", "busy"} /\ May("crash")
    /\ IF world.trio
       THEN /\ Fail /\ faults' = faults \cup {"crash"}
       ELSE /\ conns' = [conns EXCEPT ![c] = "closed"]
            /\ IF main = "gathering" /\ c \in gathered
               THEN /\ main' = "stop" /\ faults' = faults \cup {"crash"}
                    /\ UNCHANGED <<outcome, gathered, terminated>>
               ELSE UNCHANGED <<mainVars, faults>>
    /\ UNCHANGED <<world, appVars, requests, triggered>>

ConnWorks(c) ==
    \/ ConnStarts(c)
    \/ terminated /\ IdleCloses(c)
    \/ ~May("endless") /\ (Respond(c) \/ AppFinishes(c))

ConnStep(c) ==
    \/ Accept(c) \/ ConnStarts(c) \/ Request(c) \/ Respond(c) \/ IdleCloses(c)
    \/ ClientLeaves(c) \/ AppFinishes(c) \/ ConnCrashes(c)

-----------------------------------------------------------------------------
(* worker_serve().                                                         *)

MainGoes(place) ==
    /\ main' = place
    /\ UNCHANGED <<outcome, gathered, terminated, conns>>

\* wait_for_startup() and wait_for_shutdown(): an application that supports
\* lifespans is asked; under trio its channel may have been closed.
Ask(message, wait, skip) ==
    IF ~supported THEN MainGoes(skip) /\ UNCHANGED queue
    ELSE IF channel = "closed" THEN Fail /\ UNCHANGED queue
    ELSE /\ Len(queue) < MaxQueue
         /\ queue' = Append(queue, message)
         /\ MainGoes(wait)

AskStartup ==
    /\ main = "begin" /\ app # "new"
    /\ Ask("startup", "startup", "started")
    /\ UNCHANGED <<world, startup, shutdown, supported, channel, app, heard, said,
                   requests, triggered, faults>>

\* Startup is over, or there is none.
Started == main = "started" \/ (main = "startup" /\ startup)

\* Mutated: the failure of the lifespan task is not looked for.
ReadyRegardless == Started

\* asyncio looks whether the lifespan task has failed already; under trio its
\* nursery cancels what comes next.
Ready == Started /\ (world.trio \/ app # "raised")

Serve ==
    /\ Ready
    /\ MainGoes("serving")
    /\ UNCHANGED <<world, appVars, requests, triggered, faults>>

LifespanRaised ==
    /\ app = "raised"
    /\ main # "over" /\ (world.trio \/ Started \/ main = "finish")
    /\ Fail
    /\ UNCHANGED <<world, appVars, requests, triggered, faults>>

Timeout(phase, event) ==
    /\ main = phase /\ ~event /\ May("slow")
    /\ Fail /\ faults' = faults \cup {"timeout"}
    /\ UNCHANGED <<world, appVars, requests, triggered>>

Trigger ==
    /\ main # "over" /\ ~triggered
    /\ triggered' = TRUE
    /\ UNCHANGED <<world, appVars, connVars, mainVars, faults>>

\* The connections whose tasks have run.
Known == {c \in Conns : conns[c] \in Live \ {"new"}}

\* The trigger or max_requests: terminated is set, the listeners are closed.
StopServing ==
    /\ main = "serving" /\ (triggered \/ Terminate)
    /\ terminated' = TRUE
    /\ IF ~world.trio /\ world.waits
       THEN main' = "closing" /\ UNCHANGED gathered
       ELSE main' = "gathering" /\ gathered' = Known
    /\ UNCHANGED <<world, appVars, connVars, outcome, triggered, faults>>

\* await server.wait_closed() returns, where it waits.
WaitClosed ==
    /\ main = "closing"
    /\ \A c \in Conns : conns[c] \notin {"new", "idle", "busy"}
    /\ main' = "gathering" /\ gathered' = Known
    /\ UNCHANGED <<world, appVars, connVars, outcome, terminated, triggered, faults>>

Gathered ==
    /\ main = "gathering"
    /\ \A c \in gathered : conns[c] = "closed"
    /\ MainGoes("stop")
    /\ UNCHANGED <<world, appVars, requests, triggered, faults>>

\* The graceful timeout: what it waited for is cancelled.
GraceOver ==
    /\ main = "gathering"
    /\ \E c \in gathered : conns[c] # "closed"
    /\ main' = "stop"
    /\ conns' = [c \in Conns |-> IF c \in gathered THEN "closed" ELSE conns[c]]
    /\ faults' = faults \cup {"grace"}
    /\ UNCHANGED <<world, appVars, requests, outcome, gathered, terminated, triggered>>

AskShutdown ==
    /\ main = "stop"
    /\ Ask("shutdown", "shutdown", "finish")
    /\ UNCHANGED <<world, startup, shutdown, supported, channel, app, heard, said,
                   requests, triggered, faults>>

ShutDown ==
    /\ main = "shutdown" /\ shutdown
    /\ MainGoes("finish")
    /\ UNCHANGED <<world, appVars, requests, triggered, faults>>

\* Mutated: the lifespan task is cancelled and not awaited.
FinishUnawaited ==
    /\ main = "finish"
    /\ IF app \in Ended THEN UNCHANGED app ELSE app' = "cancelled"
    /\ main' = "over"
    /\ outcome' = IF ~world.trio /\ (app' = "cancelled" \/ "crash" \in faults)
                  THEN "error" ELSE "ok"
    /\ UNCHANGED <<world, startup, shutdown, supported, queue, channel, heard, said,
                   connVars, gathered, terminated, triggered, faults>>

\* The lifespan task is cancelled if it still runs, which asyncio's worker
\* awaits and so is cancelled with; a task of a connection that raised is
\* raised now.
Finish ==
    /\ main = "finish" /\ app # "raised"
    /\ IF app \in Ended THEN UNCHANGED app ELSE app' = "cancelled"
    /\ main' = "over"
    /\ outcome' = IF ~world.trio /\ (app' = "cancelled" \/ "crash" \in faults)
                  THEN "error" ELSE "ok"
    /\ UNCHANGED <<world, startup, shutdown, supported, queue, channel, heard, said,
                   connVars, gathered, terminated, triggered, faults>>

MainStep ==
    \/ AskStartup \/ Serve \/ LifespanRaised
    \/ Timeout("startup", startup) \/ Timeout("shutdown", shutdown)
    \/ StopServing \/ WaitClosed \/ Gathered \/ GraceOver
    \/ AskShutdown \/ ShutDown \/ Finish

-----------------------------------------------------------------------------
Next ==
    \/ MainStep \/ Trigger
    \/ AppWorks \/ AppMisbehaves
    \/ \E c \in Conns : ConnStep(c)

Spec == Init /\ [][Next]_vars

\* The loop runs every task that is ready, and timeouts run out.  The lifespan
\* application answers, unless it may be slow, and requests end, unless they
\* may be endless.
Fairness ==
    /\ WF_vars(MainStep)
    /\ WF_vars(AppStarts)
    /\ May("slow") \/ WF_vars(AppWorks)
    /\ \A c \in Conns : WF_vars(ConnWorks(c))

FairSpec == Spec /\ Fairness

-----------------------------------------------------------------------------
(* Properties.                                                             *)

\* Every variable has its type; the lifespan's queue is within its bound, and
\* there is an outcome when the worker is over.
TypeOK ==
    /\ world \in Worlds
    /\ {startup, shutdown, supported, triggered, terminated} \subseteq BOOLEAN
    /\ queue \in Seq({"startup", "shutdown"}) /\ Len(queue) <= MaxQueue
    /\ channel \in {"open", "closed"}
    /\ app \in {"new", "running", "unwinding"} \cup Ended
    /\ heard \subseteq {"startup", "shutdown"}
    /\ said \subseteq {"startup.complete", "startup.failed",
                       "shutdown.complete", "shutdown.failed"}
    /\ main \in {"begin", "startup", "started", "serving", "closing", "gathering",
                 "stop", "shutdown", "finish", "over"}
    /\ outcome \in {"none", "ok", "error"} /\ (outcome = "none" <=> main # "over")
    /\ conns \in [Conns -> {"none", "closed"} \cup Live]
    /\ gathered \subseteq Conns
    /\ requests \in 0..RequestBound
    /\ faults \subseteq {"timeout", "crash", "grace"}

\* A connection is accepted only once the application has completed its startup,
\* or has ended without asking for lifespans: a startup that failed crashes the
\* server (CHANGELOG.rst:18) before it serves anyone.
ServesOnlyStarted ==
    (\E c \in Conns : conns[c] # "none") =>
        "startup.complete" \in said \/ app = "returned"

Asked == "shutdown" \in heard \/ \E i \in DOMAIN queue : queue[i] = "shutdown"

\* The application is asked to shut down only once every connection has ended,
\* or the graceful timeout or a task that raised has ended the wait.  Before
\* Python 3.12 a connection whose task has not run yet escapes asyncio's worker.
DrainedBeforeShutdown ==
    Asked /\ (world.trio \/ world.waits) /\ faults \cap {"grace", "crash"} = {} =>
        \A c \in Conns : conns[c] \notin Live

\* A worker that served and has ended had asked the application to shut down
\* (CHANGELOG.rst:132), unless lifespans are not supported, one has failed, or
\* trio's nursery was cancelled by a task that raised.
ShutdownOffered ==
    main = "over" /\ terminated /\ supported =>
        \/ Asked \/ app = "raised"
        \/ world.trio /\ "crash" \in faults

\* The worker serves after the application's startup, and asks it to shut down
\* after the last connection.
ServesBetween ==
    TypeOK /\ ServesOnlyStarted /\ DrainedBeforeShutdown /\ ShutdownOffered

\* How the worker ends is what happened: by an error exactly if the application
\* reported a failure, was too slow, or had to be cancelled by asyncio, or the
\* task of a connection raised where the worker waits for it.
OutcomeTold ==
    main = "over" =>
        (outcome = "error" <=>
            \/ said \cap {"startup.failed", "shutdown.failed"} # {}
            \/ faults \cap {"timeout", "crash"} # {}
            \/ ~world.trio /\ app = "cancelled")

\* A worker starts to serve or ends, and once it is triggered, or max_requests
\* are exceeded, it ends: whatever the application and the connections do.
Settles ==
    (main # "serving" \/ triggered \/ Terminate) ~>
        (main = "over" \/ (main = "serving" /\ ~triggered /\ ~Terminate))
=============================================================================
