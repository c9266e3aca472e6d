------------------------------ MODULE TrioServer ------------------------------
(***************************************************************************)
(* trio/tcp_server.py: a connection of HTTP/1.1 under trio, around its     *)
(* BufferedWriter (TcpWriter): the reader, the applications of successive  *)
(* requests, the idle timers and the writer's task.                        *)
(*                                                                         *)
(* `todo[t]` is what a task is still to do, one awaited call at a time; a  *)
(* call of the writer is going on while pc[t] is not "idle".  H11Protocol  *)
(* is reduced to `h11`; H11Connection has the rest, pipelining included.   *)
(* An application sends the end of its response and nothing before it.     *)
(* The handshake and the read timeout are left out.                        *)
(*                                                                         *)
(* In the world "alone" the writer has no server, and whoever is Free      *)
(* calls it at will.                                                       *)
(***************************************************************************)
EXTENDS TcpWriter

CONSTANTS
    Free,           \* the callers of a writer alone
    Chunk,          \* what a server sends at a time
    MaxTimers       \* bound: how often the idle timer is started

Reader == "reader"
Apps == Callers \ {Reader}
Timers == 1..MaxTimers
None == "none"

ASSUME TrioServerAssumption ==
    /\ Reader \in Callers /\ Free \subseteq Callers
    /\ Chunk \in Sizes
    /\ None \notin Callers
    /\ MaxTimers \in Nat

VARIABLES
    world,          \* "alone", or what happens to the server: the client may
                    \* "leave", a write "fail", the worker "terminate"
    todo,
    phase,          \* run(): "reading", "leaving", "closing" or "over"
    app,            \* an application's task: "new", "runs", "ending", "over"
    stream,         \* protocol.stream: the application it belongs to, or None
    h11,            \* its state: "idle", "busy", or "closed" to more requests
    timers,         \* _idle_timeout(): "new", "waits", "woken", "closes", "over"
    handle,         \* idle_task._handle, or 0
    locked,         \* idle_task._lock is held
    conn,           \* the stream is open, the client has gone, output_failed
    terminated,     \* context.terminated is set
    history         \* who closed the stream; whether a timer was started late;
                    \* whether one has cut a response off

protocolVars == <<app, stream, h11>>
timerVars == <<timers, handle, locked>>
serverVars == <<todo, phase, protocolVars, timerVars, conn, terminated, history>>

Alone == world = "alone"

-----------------------------------------------------------------------------
(* Calls.                                                                  *)

Idle(t) == ~Alone /\ pc[t] = "idle" /\ todo[t] = <<>>
NextIs(t, op) == todo[t] # <<>> /\ Head(todo[t]) = op
Does(t, op) == ~Alone /\ pc[t] = "idle" /\ NextIs(t, op)
Then(t, ops) == todo' = [todo EXCEPT ![t] = ops \o Tail(@)]
Begin(t, ops) == todo' = [todo EXCEPT ![t] = ops]

\* protocol.handle(Closed()): the application is sent a disconnect.
CloseStream == stream' = None

\* _handle_output_failure().
OutputFails ==
    /\ conn' = [conn EXCEPT !.failed = TRUE]
    /\ stream' = IF conn.failed THEN stream ELSE None

\* protocol_send() calls the writer.
CallWriter(t) ==
    /\ \/ Does(t, "send") /\ CallSend(t) /\ want'[t] = Chunk
       \/ Does(t, "drain") /\ CallDrain(t)
       \/ Does(t, "stop") /\ CallStop(t)
    /\ Then(t, <<>>)
    /\ UNCHANGED <<world, phase, protocolVars, timerVars, conn, terminated, history>>

\* It returns; or raises, which stop() may do with impunity, and after which a
\* drain() is not followed by a restart of the timer.
WriterRaises(t) ==
    /\ \/ SendRaises(t) /\ UNCHANGED todo
       \/ Drained(t) /\ error /\ NextIs(t, "rearm") /\ Then(t, <<>>)
    /\ OutputFails

WriterServes(t) ==
    /\ \/ Drained(t) /\ ~error
       \/ SendWaits(t) \/ Send(t) \/ Aim(t) \/ Waits(t) \/ Closed(t) \/ Stopped(t)
    /\ UNCHANGED <<todo, conn, stream>>

InWriter(t) ==
    /\ ~Alone
    /\ WriterRaises(t) \/ WriterServes(t)
    /\ UNCHANGED <<world, phase, app, h11, timerVars, terminated, history>>

\* The stream is closed: by whom, if it was open.
Close(who) ==
    /\ conn' = [conn EXCEPT !.open = FALSE]
    /\ history' = IF conn.open THEN [history EXCEPT !.closedBy = who] ELSE history

\* _close().
Aclose(t) ==
    /\ Does(t, "aclose") /\ Then(t, <<>>)
    /\ Close("server")
    /\ UNCHANGED <<vars, world, phase, protocolVars, timerVars, terminated>>

HandleClosed(t) ==
    /\ Does(t, "closed") /\ Then(t, <<>>)
    /\ CloseStream
    /\ UNCHANGED <<vars, world, phase, app, h11, timerVars, conn, terminated, history>>

\* What protocol_send() does with Closed.
HangUpOps == <<"stop", "aclose", "closed">>

-----------------------------------------------------------------------------
(* TrioSingleTask, whose lock a restart holds until the new task runs.     *)

\* There is a request, or will be as soon as the reader goes on.
InRequest == stream # None \/ NextIs(Reader, "spawn")

Cancelled ==
    [i \in Timers |-> IF i = handle /\ timers[i] = "waits" THEN "over" ELSE timers[i]]

\* Mutated: the timer goes on.
StopTimerNot(t) ==
    /\ Does(t, "disarm") /\ ~locked /\ Then(t, <<>>)
    /\ handle' = 0
    /\ UNCHANGED <<vars, world, phase, protocolVars, timers, locked, conn, terminated, history>>

StopTimer(t) ==
    /\ Does(t, "disarm") /\ ~locked /\ Then(t, <<>>)
    /\ timers' = Cancelled /\ handle' = 0
    /\ UNCHANGED <<vars, world, phase, protocolVars, locked, conn, terminated, history>>

RestartTimer(t) ==
    /\ Does(t, "rearm") /\ ~locked /\ Then(t, <<"arm">>)
    /\ timers' = Cancelled /\ locked' = TRUE
    /\ UNCHANGED <<vars, world, phase, protocolVars, handle, conn, terminated, history>>

StartTimer(t) ==
    /\ Does(t, "arm") /\ Then(t, <<>>)
    /\ \E i \in Timers :
         /\ timers[i] = "new" /\ \A j \in 1..(i - 1) : timers[j] # "new"
         /\ timers' = [timers EXCEPT ![i] = "waits"] /\ handle' = i
    /\ locked' = FALSE
    /\ history' = [history EXCEPT !.late = @ \/ InRequest]
    /\ UNCHANGED <<vars, world, phase, protocolVars, conn, terminated>>

\* _idle_timeout(): its time comes, or the worker is terminated; from then on it
\* cannot be cancelled.
WakesUp(i) ==
    /\ ~Alone /\ timers[i] = "waits" /\ terminated
    /\ timers' = [timers EXCEPT ![i] = "woken"]
    /\ UNCHANGED <<vars, world, todo, phase, protocolVars, handle, locked, conn, terminated,
                   history>>

\* _initiate_server_close().
InitiatesClose(i) ==
    /\ ~Alone /\ timers[i] \in {"waits", "woken"}
    /\ timers' = [timers EXCEPT ![i] = "closes"]
    /\ CloseStream
    /\ history' = [history EXCEPT !.cut = @ \/ stream # None]
    /\ UNCHANGED <<vars, world, todo, phase, app, h11, handle, locked, conn, terminated>>

HangsUp(i) ==
    /\ timers[i] = "closes"
    /\ timers' = [timers EXCEPT ![i] = "over"]
    /\ Close("timer")
    /\ UNCHANGED <<vars, world, todo, phase, protocolVars, handle, locked, terminated>>

TimerStep(i) == WakesUp(i) \/ InitiatesClose(i) \/ HangsUp(i)

-----------------------------------------------------------------------------
(* The applications.                                                       *)

\* The end of a response, after which h11 can begin another cycle or not; or of a
\* task that has left it unfinished, which goes unnoticed if the stream is closed.
AppEnds(a) ==
    /\ Idle(a) /\ app[a] = "runs"
    /\ app' = [app EXCEPT ![a] = "ending"]
    /\ \/ \E op \in {"recycle", "hangup"} : Begin(a, <<"send", op>>)
       \/ world = "fail" /\ Begin(a, IF stream = a THEN <<"hangup">> ELSE <<>>)
    /\ UNCHANGED <<vars, world, phase, stream, h11, timerVars, conn, terminated, history>>

\* _maybe_recycle().
Recycle(a) ==
    LET again == Does(a, "recycle") /\ ~terminated /\ h11 = "busy" IN
    /\ Does(a, "recycle") \/ Does(a, "hangup")
    /\ CloseStream
    /\ h11' = IF again THEN "idle" ELSE "closed"
    /\ Then(a, IF again THEN <<"drain", "rearm">> ELSE HangUpOps)
    /\ UNCHANGED <<vars, world, phase, app, timerVars, conn, terminated, history>>

AppOver(a) ==
    /\ Idle(a) /\ app[a] = "ending"
    /\ app' = [app EXCEPT ![a] = "over"]
    /\ UNCHANGED <<vars, world, todo, phase, stream, h11, timerVars, conn, terminated, history>>

-----------------------------------------------------------------------------
(* run() and _read_data().                                                 *)

IsNext(a) == app[a] = "new" /\ a = CHOOSE b \in Apps : app[b] = "new"
Reads == Idle(Reader) /\ phase = "reading"

\* A request; or something else, which is answered and ends the connection.
Receive ==
    /\ Reads /\ conn.open /\ ~conn.gone
    /\ h11 = "idle" /\ \E a \in Apps : IsNext(a)
    /\ \/ h11' = "busy" /\ Begin(Reader, <<"disarm", "spawn">>)
       \/ world = "fail" /\ h11' = "closed" /\ Begin(Reader, <<"send">> \o HangUpOps)
    /\ UNCHANGED <<vars, world, phase, app, stream, timerVars, conn, terminated, history>>

\* H11Protocol._create_stream().
Spawn ==
    /\ Does(Reader, "spawn") /\ Then(Reader, <<>>)
    /\ \E a \in Apps : IsNext(a) /\ stream' = a /\ app' = [app EXCEPT ![a] = "runs"]
    /\ UNCHANGED <<vars, world, phase, h11, timerVars, conn, terminated, history>>

\* The client has gone, in the middle of its request or not; or the stream is
\* closed or broken, of which h11 hears nothing.
ReadEnds ==
    /\ Reads /\ (conn.gone \/ ~conn.open)
    /\ phase' = "leaving"
    /\ \/ /\ CloseStream /\ UNCHANGED todo
          /\ h11' = IF conn.open /\ world = "leave" THEN "closed" ELSE h11
       \/ /\ conn.open /\ world = "leave" /\ stream # None
          /\ Begin(Reader, HangUpOps) /\ h11' = "closed" /\ UNCHANGED stream
    /\ UNCHANGED <<vars, world, app, timerVars, conn, terminated, history>>

\* The task group ends when the applications and the timers have.
Leaves ==
    /\ Idle(Reader) /\ phase = "leaving"
    /\ \A a \in Apps : app[a] \in {"new", "over"}
    /\ \A i \in Timers : timers[i] \in {"new", "over"}
    /\ phase' = "closing" /\ Begin(Reader, <<"stop", "aclose">>)
    /\ UNCHANGED <<vars, world, protocolVars, timerVars, conn, terminated, history>>

RunEnds ==
    /\ Idle(Reader) /\ phase = "closing" /\ pc[Runner] = "done"
    /\ phase' = "over"
    /\ UNCHANGED <<vars, world, todo, protocolVars, timerVars, conn, terminated, history>>

-----------------------------------------------------------------------------
(* The writer's task, the client and the worker.                           *)

\* A closed stream takes nothing, and one whose write fails is broken.
Writes ==
    /\ ~Alone
    /\ \/ /\ \/ Awake \/ TakeNothing \/ TakeBatch \/ Written \/ Failed
             \/ conn.open /\ WriteReturns
          /\ UNCHANGED conn
       \/ /\ world = "fail" \/ conn.gone \/ ~conn.open
          /\ WriteFails
          /\ conn' = [conn EXCEPT !.gone = TRUE]
    /\ UNCHANGED <<world, todo, phase, protocolVars, timerVars, terminated, history>>

ClientLeaves ==
    /\ world = "leave" /\ phase = "reading" /\ conn.open /\ ~conn.gone
    /\ conn' = [conn EXCEPT !.gone = TRUE]
    /\ UNCHANGED <<vars, world, todo, phase, protocolVars, timerVars, terminated, history>>

Terminate ==
    /\ world = "terminate" /\ ~terminated
    /\ terminated' = TRUE
    /\ UNCHANGED <<vars, world, todo, phase, protocolVars, timerVars, conn, history>>

-----------------------------------------------------------------------------
ServerInit ==
    /\ Init
    /\ world \in {"alone", "leave", "fail", "terminate"}
    /\ todo = [t \in Callers |-> <<>>]
    /\ phase = "reading"
    /\ app = [a \in Apps |-> "new"]
    /\ stream = None /\ h11 = "idle"
    /\ timers = [i \in Timers |-> IF i = 1 THEN "waits" ELSE "new"]
    /\ handle = 1 /\ locked = FALSE
    /\ conn = [open |-> TRUE, gone |-> FALSE, failed |-> FALSE]
    /\ terminated = FALSE
    /\ history = [closedBy |-> None, late |-> FALSE, cut |-> FALSE]

\* The writer alone.
Calls(t) == Alone /\ CallerStep(t) /\ UNCHANGED <<world, serverVars>>
Runs == Alone /\ RunnerStep /\ UNCHANGED <<world, serverVars>>
FreeStep(t) ==
    /\ Alone
    /\ CallSend(t) \/ CallDrain(t) \/ CallStop(t)
    /\ UNCHANGED <<world, serverVars>>

Serves(t) ==
    \/ CallWriter(t) \/ InWriter(t) \/ Aclose(t) \/ HandleClosed(t)
    \/ StopTimer(t) \/ RestartTimer(t) \/ StartTimer(t)

ReaderStep == Serves(Reader) \/ Spawn \/ ReadEnds \/ Leaves \/ RunEnds
AppStep(a) == Serves(a) \/ AppEnds(a) \/ Recycle(a) \/ AppOver(a)

ServerNext ==
    \/ \E t \in Free : Calls(t) \/ FreeStep(t)
    \/ Runs
    \/ ReaderStep \/ Receive
    \/ \E a \in Apps : AppStep(a)
    \/ \E i \in Timers : TimerStep(i)
    \/ Writes \/ ClientLeaves \/ Terminate

allVars == <<vars, world, serverVars>>

ServerSpec == ServerInit /\ [][ServerNext]_allVars

\* Trio runs every task that is ready, send_all() returns or raises, the idle
\* timer's time comes, and an application ends.
ServerFairness ==
    /\ WF_allVars(Runs \/ Writes)
    /\ WF_allVars(ReaderStep \/ Calls(Reader))
    /\ \A a \in Apps : WF_allVars(AppStep(a) \/ Calls(a))
    /\ WF_allVars(\E i \in Timers : TimerStep(i))

ServerFairSpec == ServerSpec /\ ServerFairness

-----------------------------------------------------------------------------
(* Properties; HighWaterKept and Delivered are the writer's.               *)

\* A server that hangs up has first written all that was accepted, unless a write
\* has failed.
NothingCut == history.closedBy = "server" => error \/ Len(wire) = submitted

\* The idle timer never cuts a response off, however its timeout falls between
\* the stops and restarts of the reader and the applications.  Not so if a request
\* came while the timer's restart waited for the last response to drain, or with
\* the worker's termination.
TimedBetween == history.cut => history.late \/ terminated

\* A connection is closed when it should be, and by whom.
ClosedInTurn == NothingCut /\ TimedBetween

\* A caller of the writer gets its call back (callers of a writer alone are all
\* alike); and a connection that is closed, whose client has gone or whose worker is
\* terminated ends with all its tasks.
Ends ==
    /\ CallsReturn(Reader)
    /\ conn.gone \/ ~conn.open \/ terminated ~> phase = "over"
=============================================================================
