--------------------------- MODULE H11Connection ---------------------------
(***************************************************************************)
(* One HTTP/1.1 connection of an asyncio worker: asyncio/tcp_server.py and *)
(* tcp_writer.py, protocol/h11.py, and per request protocol/http_stream.py *)
(* with the task and the queue asyncio/task_group.py gives an application. *)
(*                                                                         *)
(* Three kinds of task share the connection's objects: the reader (run and *)
(* _read_data), one application task per request, and the task the idle    *)
(* timer starts when it fires.  A coroutine keeps the event loop from one  *)
(* suspension to the next, so `cpu` names the task that is running on and  *)
(* a step of another task needs it released.  `pc` is the place in the     *)
(* code a task is at, `after` where the call it is making returns to.      *)
(*                                                                         *)
(* The library h11 is modelled by the states it documents; bytes by the    *)
(* events they parse into.  Upgrades (h2c, WebSocket), Expect: 100-continue*)
(* and the cancellation of the whole task group are left out.              *)
(***************************************************************************)
EXTENDS Integers, Sequences, FiniteSets

CONSTANTS
    MaxRequests,    \* bound: the requests a client sends on the connection
    MaxData,        \* bound: the body chunks of a request
    MaxChunks,      \* bound: the body messages of a response
    MaxQueue,       \* config.max_app_queue_size
    KeepAliveLimits,\* the values config.keep_alive_max_requests may have
    FaultSets       \* the sets of things that may happen beyond the plain
                    \* exchange; a behaviour has one of them

\* What a fault set may hold: the client half-closes, is lost, sends bytes h11
\* rejects or a Host the configuration refuses; the transport pauses writing;
\* the application stops before its response is complete, or answers without
\* having received the whole request; the keep-alive timeout runs out; the
\* worker terminates.
AllFaults == {"eof", "lost", "bad", "badhost", "backpressure", "abandon",
              "unread", "timeout", "terminate"}

ASSUME H11Assumption ==
    /\ MaxRequests \in Nat /\ MaxData \in Nat /\ MaxChunks \in Nat
    /\ MaxQueue \in Nat \ {0} /\ KeepAliveLimits \subseteq Nat
    /\ FaultSets \subseteq SUBSET AllFaults

Requests == 1..MaxRequests
Reader == 0
Idler == MaxRequests + 1
Tasks == 0..(MaxRequests + 1)
NoTask == -1

VARIABLES
    client,     \* what the peer has done, and the bytes asyncio holds for us
    h11,        \* h11.Connection: its receive buffer and the two peers' states
    stream,     \* H11Protocol.stream: the request it serves, or 0 for None
    count,      \* keep_alive_requests
    streams,    \* HTTPStream and its application, per request
    idle,       \* the idle timer's task: "off" or "armed"
    out,        \* BufferedWriter, output_failed, and the transport
    wire,       \* history: what was written, in order
    worker,     \* context.terminated, and what is fixed for a behaviour: its
                \* fault set and its keep_alive_max_requests
    pc, after, arg, cpu

May(fault) == fault \in worker.faults

taskVars == <<pc, after, arg, cpu>>
vars == <<client, h11, stream, count, streams, idle, out, wire, worker,
          pc, after, arg, cpu>>

-----------------------------------------------------------------------------
(* h11, the library: the part of its state machine the protocol drives.    *)

Settle(h) ==
    [h EXCEPT
        !.our = IF \/ h.our = "DONE" /\ (~h.keepAlive \/ h.their \in {"CLOSED", "ERROR"})
                   \/ h.our = "IDLE" /\ h.their = "CLOSED"
                THEN "MUST_CLOSE" ELSE @,
        !.their = IF h.their = "DONE" /\ (~h.keepAlive \/ h.our = "ERROR")
                  THEN "MUST_CLOSE" ELSE @]

NextEvent(h) ==
    CASE h.their = "ERROR" -> "error"
      [] h.their = "DONE" /\ h.buf # <<>> -> "paused"
      [] h.their \in {"MUST_CLOSE", "CLOSED"} /\ h.buf # <<>> -> "error"
      [] h.their # "ERROR" /\ h.buf = <<>> ->
            IF ~h.eof THEN "needData"
            ELSE IF h.their = "SEND_BODY" THEN "error" ELSE "closed"
      [] OTHER -> IF Head(h.buf) = "bad" THEN "error" ELSE Head(h.buf)

Received(h, event) ==
    LET rest == [h EXCEPT !.buf = Tail(@)] IN
    Settle(CASE event = "error" -> [h EXCEPT !.their = "ERROR"]
             [] event = "closed" -> [h EXCEPT !.their = "CLOSED"]
             [] event \in {"request", "last"} ->
                    [rest EXCEPT !.their = "SEND_BODY", !.our = "SEND_RESPONSE",
                                 !.keepAlive = @ /\ event = "request"]
             [] event = "data" -> rest
             [] event = "eom" -> [rest EXCEPT !.their = "DONE"]
             [] OTHER -> h)

MaySend(h, part) ==
    IF part = "Response" THEN h.our \in {"IDLE", "SEND_RESPONSE"}
                         ELSE h.our = "SEND_BODY"

Sent(h, part, close) ==
    Settle(IF ~MaySend(h, part) THEN [h EXCEPT !.our = "ERROR"]
           ELSE CASE part = "Response" -> [h EXCEPT !.our = "SEND_BODY",
                                                    !.keepAlive = @ /\ ~close]
                  [] part = "Data" -> h
                  [] part = "End" -> [h EXCEPT !.our = "DONE"])

NextCycle(h) == [h EXCEPT !.our = "IDLE", !.their = "IDLE"]

-----------------------------------------------------------------------------
(* Moving a task: it runs on, waits, or calls and comes back to `back`.    *)

At(t, place) == pc[t] = place /\ cpu \in {NoTask, t}

\* Who runs once t is at `place`: some places are awaits that suspend, some
\* first take the writer's lock.
Runs(t, place) ==
    IF \/ place \in {"run", "over", "read", "paused", "done"}
       \/ place \in {"write", "stop", "flush"} /\ out.lock # NoTask
    THEN NoTask ELSE t

Go(t, place) == /\ pc' = [pc EXCEPT ![t] = place] /\ cpu' = Runs(t, place)
                /\ UNCHANGED <<after, arg>>
Wait(t, place) == /\ pc' = [pc EXCEPT ![t] = place] /\ cpu' = NoTask
                  /\ UNCHANGED <<after, arg>>
Call(t, place, back) == /\ pc' = [pc EXCEPT ![t] = place] /\ cpu' = Runs(t, place)
                        /\ after' = [after EXCEPT ![t] = back]
                        /\ UNCHANGED arg

Full(i) == Len(streams[i].queue) = MaxQueue

\* A call that hands `item` of request i to the writer or to a queue.
Hand(t, place, back, i, item) ==
    /\ pc' = [pc EXCEPT ![t] = place]
    /\ cpu' = IF place = "put" /\ Full(i) THEN NoTask ELSE Runs(t, place)
    /\ after' = [after EXCEPT ![t] = back]
    /\ arg' = [arg EXCEPT ![t] = [to |-> i, item |-> item]]

-----------------------------------------------------------------------------
(* Calls any task makes.                                                    *)

\* H11Protocol._send_h11_event, up to the write.
SendEvent(t, i, part, close, back) ==
    /\ h11' = Sent(h11, part, close)
    /\ IF MaySend(h11, part)
       THEN Hand(t, "write", back, i, part)
       ELSE Go(t, IF h11.their = "ERROR" THEN back ELSE "raised")

\* TCPServer._handle_output_failure: the first failure closes the protocol.
\* After a failed drain, protocol_send returns before it restarts the timer.
Fail(t, o) ==
    /\ out' = [o EXCEPT !.failed = TRUE]
    /\ LET back == IF after[t] = "rearm" THEN "wake" ELSE after[t] IN
       Call(t, IF out.failed THEN back ELSE "close", back)

\* BufferedWriter.send: under the high-water mark it returns at once, over it
\* it drains, which fails if the connection is lost and may have to wait.
Write(t) ==
    /\ At(t, "write") /\ out.lock = NoTask
    /\ \/ /\ out.stopped \/ out.error
          /\ Fail(t, out)
          /\ UNCHANGED wire
       \/ /\ ~out.stopped /\ ~out.error
          /\ wire' = IF out.closed \/ client.lost THEN wire ELSE Append(wire, arg[t])
          /\ \/ Go(t, after[t]) /\ UNCHANGED out
             \/ client.lost /\ Fail(t, [out EXCEPT !.error = TRUE])
             \/ /\ May("backpressure") /\ ~client.lost
                /\ out' = [out EXCEPT !.lock = t]
                /\ Wait(t, "drain")
    /\ UNCHANGED <<client, h11, stream, count, streams, idle, worker>>

\* The end of a drain that waited, in send or in Updated(idle=True).
Drained(t) ==
    /\ At(t, "drain")
    /\ IF client.lost THEN Fail(t, [out EXCEPT !.lock = NoTask, !.error = TRUE])
       ELSE Go(t, after[t]) /\ out' = [out EXCEPT !.lock = NoTask]
    /\ UNCHANGED <<client, h11, stream, count, streams, idle, wire, worker>>

\* H11Protocol._close_stream, which handle(Closed) calls too, and
\* HTTPStream.handle(StreamClosed) up to its put.
\* Mutant: the stream is not marked closed.
CloseStreamUnmarked(s) == [s EXCEPT !.logged = IF s.state = "CLOSED" THEN @ ELSE @ + 1]

CloseStream(s) == [s EXCEPT !.closed = TRUE,
                            !.logged = IF s.state = "CLOSED" THEN @ ELSE @ + 1]

Close(t) ==
    /\ At(t, "close")
    /\ IF stream = 0 \/ (stream # 0 /\ streams[stream].closed)
       THEN Go(t, after[t]) /\ stream' = 0 /\ UNCHANGED streams
       ELSE /\ streams' = [streams EXCEPT ![stream] = CloseStream(@)]
            /\ Hand(t, "put", after[t], stream, "disconnect")
            /\ UNCHANGED stream
    /\ UNCHANGED <<client, h11, count, idle, out, wire, worker>>

\* asyncio.Queue.put, and what follows it in _close_stream.
PutItem(s, item) == [s EXCEPT !.queue = Append(@, item),
                              !.disconnects = IF item = "disconnect" THEN @ + 1 ELSE @]

Put(t) ==
    LET i == arg[t].to IN
    /\ At(t, "put") /\ ~Full(i)
    /\ streams' = [streams EXCEPT ![i] = PutItem(@, arg[t].item)]
    /\ stream' = IF arg[t].item = "disconnect" THEN 0 ELSE stream
    /\ Go(t, after[t])
    /\ UNCHANGED <<client, h11, count, idle, out, wire, worker>>

\* TCPServer.protocol_send(Closed): output.stop, then _close: the transport,
\* and once that is gone the idle timer.
Stop(t) ==
    /\ At(t, "stop") /\ out.lock = NoTask
    /\ \/ out' = [out EXCEPT !.stopped = TRUE] /\ Go(t, "shut")
       \/ /\ May("backpressure") /\ ~out.stopped /\ ~out.error
          /\ out' = [out EXCEPT !.stopped = TRUE, !.lock = t]
          /\ Wait(t, "stopping")
    /\ UNCHANGED <<client, h11, stream, count, streams, idle, wire, worker>>

Stopped(t) ==
    /\ At(t, "stopping")
    /\ out' = [out EXCEPT !.lock = NoTask, !.error = client.lost]
    /\ Go(t, "shut")
    /\ UNCHANGED <<client, h11, stream, count, streams, idle, wire, worker>>

Shut(t) ==
    /\ At(t, "shut")
    /\ out' = [out EXCEPT !.closed = TRUE]
    /\ Wait(t, "unwatch")
    /\ UNCHANGED <<client, h11, stream, count, streams, idle, wire, worker>>

Unwatch(t) ==
    /\ At(t, "unwatch") /\ (client.eof \/ client.lost)
    /\ idle' = "off"
    /\ Go(t, after[t])
    /\ UNCHANGED <<client, h11, stream, count, streams, out, wire, worker>>

Shared(t) == \/ Write(t) \/ Drained(t) \/ Close(t) \/ Put(t)
             \/ Stop(t) \/ Stopped(t) \/ Shut(t) \/ Unwatch(t)

-----------------------------------------------------------------------------
(* The reader: TCPServer._read_data and H11Protocol._handle_events.        *)

InHand == client.inbox
AtEof == client.eof /\ InHand = <<>>

\* _handle_events ends: read again, or handle(Closed) at the end of the input.
ToRead == IF AtEof THEN Call(Reader, "close", "done") ELSE Go(Reader, "read")

Read ==
    /\ At(Reader, "read")
    /\ \/ client.lost /\ Call(Reader, "close", "done") /\ UNCHANGED <<client, h11>>
       \/ /\ ~client.lost /\ (client.eof \/ InHand # <<>>)
          /\ h11' = [h11 EXCEPT !.buf = @ \o InHand, !.eof = @ \/ InHand = <<>>]
          /\ client' = [client EXCEPT !.inbox = <<>>]
          /\ Go(Reader, "loop")
    /\ UNCHANGED <<stream, count, streams, idle, out, wire, worker>>

Event == NextEvent(h11)
Take == h11' = Received(h11, Event)
Cycle == IF h11.our = "IDLE" THEN count + 1 ELSE count

\* RemoteProtocolError: answer 400 if nothing was sent yet, then send(Closed).
LoopError ==
    LET seen == Received(h11, "error") IN
    /\ At(Reader, "loop") /\ Event = "error"
    /\ IF h11.our \in {"IDLE", "SEND_RESPONSE"}
       THEN /\ h11' = Sent(seen, "Response", TRUE)
            /\ Hand(Reader, "write", "responding", Cycle, "Response")
       ELSE h11' = seen /\ Call(Reader, "stop", "next")
    /\ UNCHANGED <<client, stream, count, streams, idle, out, wire, worker>>

Responding ==
    /\ At(Reader, "responding")
    /\ SendEvent(Reader, arg[Reader].to, "End", FALSE, "responded")
    /\ UNCHANGED <<client, stream, count, streams, idle, out, wire, worker>>

Responded ==
    /\ At(Reader, "responded")
    /\ Call(Reader, "stop", "next")
    /\ UNCHANGED <<client, h11, stream, count, streams, idle, out, wire, worker>>

\* can_read.clear(); can_read.wait(): always waits for the next set().
LoopPaused ==
    /\ At(Reader, "loop") /\ Event = "paused"
    /\ Wait(Reader, "paused")
    /\ UNCHANGED <<client, h11, stream, count, streams, idle, out, wire, worker>>

LoopEnds ==
    /\ \/ At(Reader, "next") /\ UNCHANGED h11
       \/ /\ At(Reader, "loop") /\ Take
          /\ Event \in {"needData", "closed"} \/ (Event \in {"data", "eom"} /\ stream = 0)
    /\ ToRead
    /\ UNCHANGED <<client, stream, count, streams, idle, out, wire, worker>>

\* Updated(idle=False) awaits the cancelled idle task, if there is one; a task
\* that one has already started to close the connection runs before it ends.
IdlerAhead == pc[Idler] = "close"

LoopRequest ==
    /\ At(Reader, "loop") /\ Event \in {"request", "last"}
    /\ Take
    /\ idle' = "off"
    /\ IF idle = "off" THEN Go(Reader, "request") ELSE Wait(Reader, "request")
    /\ UNCHANGED <<client, stream, count, streams, out, wire, worker>>

\* _create_stream: HTTPStream.handle(Request) spawns the application, which
\* first runs when the reader suspends, or answers 404 for an unknown host.
NewStream == [state |-> "REQUEST", closed |-> FALSE, queue |-> <<>>,
              disconnects |-> 0, logged |-> 0, chunks |-> 0,
              heard |-> FALSE, returned |-> FALSE]

CreateStream ==
    LET i == count + 1 IN
    /\ At(Reader, "request") /\ ~IdlerAhead
    /\ stream' = i
    /\ streams' = [streams EXCEPT ![i] = NewStream]
    /\ \/ /\ pc' = [pc EXCEPT ![Reader] = "loop", ![i] = "run"]
          /\ cpu' = Reader
          /\ count' = i
          /\ UNCHANGED <<after, arg, h11>>
       \/ /\ May("badhost")
          /\ SendEvent(Reader, i, "Response", TRUE, "refusing")
          /\ UNCHANGED count
    /\ UNCHANGED <<client, idle, out, wire, worker>>

Refusing ==
    /\ At(Reader, "refusing")
    /\ SendEvent(Reader, count + 1, "End", FALSE, "refused")
    /\ UNCHANGED <<client, stream, count, streams, idle, out, wire, worker>>

Refused ==
    /\ At(Reader, "refused")
    /\ streams' = [streams EXCEPT ![count + 1] =
                      [@ EXCEPT !.state = "CLOSED", !.closed = TRUE, !.logged = @ + 1]]
    /\ count' = count + 1
    /\ Go(Reader, "loop")
    /\ UNCHANGED <<client, h11, stream, idle, out, wire, worker>>

\* HTTPStream.handle of a Body or an EndBody: a closed stream ignores it.
LoopBody ==
    /\ At(Reader, "loop") /\ Event \in {"data", "eom"} /\ stream # 0
    /\ Take
    /\ IF streams[stream].closed THEN Go(Reader, "loop")
       ELSE Hand(Reader, "put", "loop", stream, Event)
    /\ UNCHANGED <<client, stream, count, streams, idle, out, wire, worker>>

\* run() leaves the task group once every task in it is over.
RunEnds ==
    /\ At(Reader, "done") /\ idle = "off" /\ pc[Idler] = "none"
    /\ \A i \in Requests : pc[i] \in {"none", "over"}
    /\ out' = [out EXCEPT !.stopped = TRUE, !.closed = TRUE]
    /\ Wait(Reader, "over")
    /\ UNCHANGED <<client, h11, stream, count, streams, idle, wire, worker>>

ReaderStep ==
    \/ Read \/ LoopError \/ Responding \/ Responded \/ LoopPaused \/ LoopEnds
    \/ LoopRequest \/ CreateStream \/ Refusing \/ Refused \/ LoopBody
    \/ RunEnds \/ Shared(Reader)

-----------------------------------------------------------------------------
(* The application of request i, whose sends are HTTPStream.app_send.      *)

KeepAliveOver == count >= worker.limit

\* The application's receive(), from the task that sends or another of its own.
Receive(i) ==
    /\ cpu \in {NoTask, i} /\ ~streams[i].returned /\ streams[i].queue # <<>>
    /\ streams' = [streams EXCEPT
                     ![i] = [@ EXCEPT !.queue = Tail(@),
                                      !.heard = @ \/ Head(streams[i].queue) # "data"]]
    /\ UNCHANGED <<client, h11, stream, count, idle, out, wire, worker, taskVars>>

Start(i) ==
    /\ At(i, "run") /\ streams[i].state = "REQUEST"
    /\ SendEvent(i, i, "Response", KeepAliveOver, "started")
    /\ UNCHANGED <<client, stream, count, streams, idle, out, wire, worker>>

Started(i) ==
    /\ At(i, "started")
    /\ streams' = [streams EXCEPT ![i].state = "RESPONSE"]
    /\ Wait(i, "run")
    /\ UNCHANGED <<client, h11, stream, count, idle, out, wire, worker>>

SendBody(i) ==
    /\ At(i, "run") /\ streams[i].state = "RESPONSE" /\ streams[i].chunks < MaxChunks
    /\ streams' = [streams EXCEPT ![i].chunks = @ + 1]
    /\ SendEvent(i, i, "Data", FALSE, "run")
    /\ UNCHANGED <<client, stream, count, idle, out, wire, worker>>

Answerable(i) == May("unread") \/ streams[i].heard

\* The last body message: _send_closed.
SendEnd(i) ==
    /\ At(i, "run") /\ streams[i].state = "RESPONSE" /\ Answerable(i)
    /\ SendEvent(i, i, "End", FALSE, "ended")
    /\ UNCHANGED <<client, stream, count, streams, idle, out, wire, worker>>

Finished(s) == [s EXCEPT !.state = "CLOSED", !.logged = @ + 1]

\* ... then StreamClosed: _maybe_recycle first closes the stream.
Ended(i) ==
    /\ At(i, "ended") \/ At(i, "erred")
    /\ streams' = [streams EXCEPT ![i] = Finished(@)]
    /\ Call(i, "close", "recycle")
    /\ UNCHANGED <<client, h11, stream, count, idle, out, wire, worker>>

\* The application returns or raises: app_send(None).
Return(i) ==
    /\ At(i, "run")
    /\ streams[i].state = "CLOSED" \/ May("abandon")
    /\ Answerable(i)
    /\ streams' = [streams EXCEPT ![i].returned = TRUE]
    /\ \/ /\ streams[i].closed
          /\ Wait(i, "over") /\ UNCHANGED h11
       \/ /\ ~streams[i].closed /\ streams[i].state = "REQUEST"
          /\ SendEvent(i, i, "Response", TRUE, "erring")
       \/ /\ ~streams[i].closed /\ streams[i].state # "REQUEST"
          /\ Call(i, "close", "recycle") /\ UNCHANGED h11
    /\ UNCHANGED <<client, stream, count, idle, out, wire, worker>>

Erring(i) ==
    /\ At(i, "erring")
    /\ SendEvent(i, i, "End", FALSE, "erred")
    /\ UNCHANGED <<client, stream, count, streams, idle, out, wire, worker>>

\* app_send returns into the application, or the task ends.
Back(i) == IF streams[i].returned THEN "over" ELSE "run"

\* can_read.set(): the paused reader goes on when it gets to run.
\* Mutant: can_read is not set.
WakeReaderNot(places) == places

WakeReader(places) ==
    IF pc[Reader] = "paused" THEN [places EXCEPT ![Reader] = "loop"] ELSE places

\* _maybe_recycle, after _close_stream.
\* Mutant: whatever h11 says of the two peers.
MayRecycleEarly == ~worker.terminated

MayRecycle == ~worker.terminated /\ h11.our = "DONE" /\ h11.their = "DONE"

Recycle(i) ==
    /\ At(i, "recycle")
    /\ IF MayRecycle
       THEN /\ h11' = NextCycle(h11)
            /\ Call(i, "flush", "rearm")
       ELSE /\ pc' = WakeReader([pc EXCEPT ![i] = "stop"])
            /\ after' = [after EXCEPT ![i] = Back(i)]
            /\ cpu' = Runs(i, "stop")
            /\ UNCHANGED <<arg, h11>>
    /\ UNCHANGED <<client, stream, count, streams, idle, out, wire, worker>>

\* Updated(idle=True): drain what is buffered, then restart the idle timer; if the
\* drain fails, at once or later, only the reader is woken.
Flush(i) ==
    /\ At(i, "flush") /\ out.lock = NoTask
    /\ \/ ~out.error /\ Go(i, "rearm") /\ UNCHANGED out
       \/ out.error /\ Fail(i, out)
       \/ client.lost /\ ~out.error /\ Fail(i, [out EXCEPT !.error = TRUE])
       \/ /\ May("backpressure") /\ ~out.error /\ ~client.lost
          /\ out' = [out EXCEPT !.lock = i]
          /\ Wait(i, "drain")
    /\ UNCHANGED <<client, h11, stream, count, streams, idle, wire, worker>>

\* Mutant: the timer is not started again.
RearmForgotten(i) ==
    /\ At(i, "rearm")
    /\ Go(i, "wake")
    /\ UNCHANGED <<client, h11, stream, count, streams, idle, out, wire, worker>>

Rearm(i) ==
    /\ At(i, "rearm")
    /\ idle' = "armed"
    /\ IF idle = "off" THEN Go(i, "wake") ELSE Wait(i, "wake")
    /\ UNCHANGED <<client, h11, stream, count, streams, out, wire, worker>>

Wake(i) ==
    /\ At(i, "wake") /\ ~IdlerAhead
    /\ pc' = WakeReader([pc EXCEPT ![i] = Back(i)])
    /\ cpu' = NoTask
    /\ UNCHANGED <<client, h11, stream, count, streams, idle, out, wire, worker, after, arg>>

AppWorks(i) ==
    \/ Start(i) \/ Started(i) \/ SendBody(i) \/ SendEnd(i)
    \/ Ended(i) \/ Return(i) \/ Erring(i) \/ Recycle(i)
    \/ Flush(i) \/ Rearm(i) \/ Wake(i) \/ Shared(i)

AppStep(i) == Receive(i) \/ AppWorks(i)

-----------------------------------------------------------------------------
(* The idle timer: _idle_timeout, and the shielded _initiate_server_close. *)

IdleFires ==
    /\ cpu = NoTask /\ idle = "armed" /\ pc[Idler] = "none"
    /\ May("timeout") \/ worker.terminated
    /\ idle' = "fired"
    /\ pc' = [pc EXCEPT ![Idler] = "close"]
    /\ after' = [after EXCEPT ![Idler] = "hangup"]
    /\ UNCHANGED <<client, h11, stream, count, streams, out, wire, worker, arg, cpu>>

HangUp ==
    /\ At(Idler, "hangup")
    /\ out' = [out EXCEPT !.closed = TRUE]
    /\ idle' = IF idle = "fired" THEN "off" ELSE idle
    /\ Wait(Idler, "none")
    /\ UNCHANGED <<client, h11, stream, count, streams, wire, worker>>

IdlerStep == IdleFires \/ HangUp \/ Shared(Idler)

-----------------------------------------------------------------------------
(* The client, the transport and the worker.                               *)

\* A client follows HTTP: a "last" request, one with Connection: close, ends
\* what it sends.
Deliver(item, phase) ==
    client' = [client EXCEPT !.inbox = Append(@, item), !.phase = phase,
                             !.last = @ \/ item = "last",
                             !.requests = IF item \in {"request", "last"} THEN @ + 1 ELSE @,
                             !.data = IF item = "data" THEN @ + 1
                                      ELSE IF item = "eom" THEN 0 ELSE @]

ClientSends ==
    /\ cpu = NoTask /\ ~client.eof /\ ~client.lost
    /\ \/ /\ client.phase = "between" /\ client.requests < MaxRequests
          /\ \E item \in {"request", "last"} : Deliver(item, "body")
       \/ client.phase = "body" /\ client.data < MaxData /\ Deliver("data", "body")
       \/ /\ client.phase = "body"
          /\ Deliver("eom", IF client.last THEN "over" ELSE "between")
       \/ May("bad") /\ client.phase # "over" /\ Deliver("bad", "over")
    /\ UNCHANGED <<h11, stream, count, streams, idle, out, wire, worker, taskVars>>

ClientLeaves ==
    /\ cpu = NoTask /\ ~client.lost
    /\ \/ May("eof") /\ ~client.eof /\ client' = [client EXCEPT !.eof = TRUE]
       \/ May("lost") /\ client' = [client EXCEPT !.lost = TRUE]
    /\ UNCHANGED <<h11, stream, count, streams, idle, out, wire, worker, taskVars>>

\* asyncio calls connection_lost some time after close(): the reader's input ends.
TransportCloses ==
    /\ cpu = NoTask /\ out.closed /\ ~client.eof
    /\ client' = [client EXCEPT !.eof = TRUE]
    /\ UNCHANGED <<h11, stream, count, streams, idle, out, wire, worker, taskVars>>

Terminate ==
    /\ cpu = NoTask /\ May("terminate") /\ ~worker.terminated
    /\ worker' = [worker EXCEPT !.terminated = TRUE]
    /\ UNCHANGED <<client, h11, stream, count, streams, idle, out, wire, taskVars>>

-----------------------------------------------------------------------------
NoStream == [NewStream EXCEPT !.closed = TRUE]

Init ==
    /\ client = [inbox |-> <<>>, eof |-> FALSE, lost |-> FALSE, requests |-> 0,
                 phase |-> "between", last |-> FALSE, data |-> 0]
    /\ h11 = [buf |-> <<>>, eof |-> FALSE, their |-> "IDLE", our |-> "IDLE",
              keepAlive |-> TRUE]
    /\ stream = 0
    /\ count = 0
    /\ streams = [i \in Requests |-> NoStream]
    /\ idle = "armed"
    /\ out = [lock |-> NoTask, stopped |-> FALSE, error |-> FALSE, failed |-> FALSE,
              closed |-> FALSE]
    /\ wire = <<>>
    /\ worker \in [terminated : {FALSE}, faults : FaultSets, limit : KeepAliveLimits]
    /\ pc = [t \in Tasks |-> IF t = Reader THEN "read" ELSE "none"]
    /\ after = [t \in Tasks |-> "none"]
    /\ arg = [t \in Tasks |-> [to |-> 0, item |-> "none"]]
    /\ cpu = NoTask

Next ==
    \/ ReaderStep
    \/ \E i \in Requests : AppStep(i)
    \/ IdlerStep
    \/ ClientSends \/ ClientLeaves \/ TransportCloses \/ Terminate

Spec == Init /\ [][Next]_vars

\* The event loop runs every task that can run, the timer expires, the
\* transport finishes closing, and an application receives what it is sent,
\* unless it may leave its request unread.
Fairness ==
    /\ WF_vars(ReaderStep)
    /\ \A i \in Requests : WF_vars(AppWorks(i))
    /\ \A i \in Requests : May("unread") \/ WF_vars(Receive(i))
    /\ WF_vars(IdlerStep)
    /\ WF_vars(TransportCloses)

FairSpec == Spec /\ Fairness

-----------------------------------------------------------------------------
(* Properties.                                                             *)

States == {"IDLE", "SEND_RESPONSE", "SEND_BODY", "DONE", "MUST_CLOSE", "CLOSED", "ERROR"}
Items == {"request", "last", "data", "eom", "bad"}
Places == {"none", "run", "over", "write", "drain", "close", "put", "stop", "stopping",
           "shut", "unwatch", "read", "loop", "responding", "responded", "paused",
           "next", "request", "refusing", "refused", "done", "started", "ended",
           "erring", "erred", "recycle", "flush", "rearm", "wake", "hangup"}

\* What each variable holds: the queue of an application is within its bound.
TypeOK ==
    /\ client.inbox \in Seq(Items)
    /\ h11.buf \in Seq(Items) /\ {h11.their, h11.our} \subseteq States
    /\ stream \in 0..MaxRequests /\ count \in 0..MaxRequests /\ count <= worker.limit
    /\ \A i \in Requests :
          /\ streams[i].state \in {"REQUEST", "RESPONSE", "CLOSED"}
          /\ streams[i].queue \in Seq({"data", "eom", "disconnect"})
          /\ Len(streams[i].queue) <= MaxQueue
    /\ idle \in {"off", "armed", "fired"}
    /\ out.lock \in Tasks \cup {NoTask}
    /\ pc \in [Tasks -> Places] /\ after \in [Tasks -> Places]
    /\ cpu \in Tasks \cup {NoTask}
    /\ worker.terminated \in BOOLEAN

AppRuns(i) == pc[i] \notin {"none", "over"}

\* The disconnect message is sent at most once to each application, whichever
\* of the application's end, the end of the input, a failed write and the idle
\* timer close its stream, and none of them reaches another request's stream.
DisconnectedOnce == \A i \in Requests : streams[i].disconnects <= 1

\* An application whose response is not over is the one the protocol serves,
\* unless its stream was closed: no later request takes its place.  (And the
\* variables have their types.)
ServedInTurn ==
    /\ TypeOK
    /\ \A i \in Requests : AppRuns(i) /\ ~streams[i].closed => stream = i

\* The responses leave whole and in the order of their requests: what one
\* application writes never falls inside another's response.
Follows(a, b) ==
    \/ a.to = b.to /\ a.item # "End" /\ b.item # "Response"
    \/ a.to < b.to /\ a.item = "End" /\ b.item = "Response"
ResponsesInOrder ==
    \A n \in 1..(Len(wire) - 1) : Follows(wire[n], wire[n + 1])

\* No send is refused by h11 as out of turn: LocalProtocolError never reaches
\* an application whose peer did nothing wrong.
NoLocalError == \A t \in Tasks : pc[t] # "raised"

\* Whatever fails, what leaves is orderly, and nobody is told otherwise.
Orderly == ResponsesInOrder /\ NoLocalError

\* The idle timer is off while a request is being processed.
NotTimedInRequest ==
    \A i \in Requests : AppRuns(i) /\ ~streams[i].closed => idle # "armed"

\* A connection that waits for its client's next request is timed.
InactiveIsTimed ==
    /\ cpu = NoTask /\ pc[Reader] = "read" /\ client.inbox = <<>>
    /\ ~client.eof /\ ~client.lost /\ client.phase = "between"
    /\ \A i \in Requests : ~AppRuns(i)
    /\ pc[Idler] = "none"
    => idle # "off" \/ out.closed

\* The idle timer runs while the connection waits for a request, and not while
\* one is being processed (docs/discussion/dos_mitigations.rst:43), whatever
\* way the last response ended.
TimedExactly == NotTimedInRequest /\ InactiveIsTimed

\* Every send an application makes returns, unless the peer stops reading; and
\* once the input has ended the connection's coroutine ends.
Ends ==
    /\ \A i \in Requests : (AppRuns(i) /\ pc[i] # "run") ~> (pc[i] \in {"run", "over"})
    /\ (client.eof \/ client.lost) ~> pc[Reader] = "over"

=============================================================================
