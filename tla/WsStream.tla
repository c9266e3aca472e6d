------------------------------ MODULE WsStream ------------------------------
(***************************************************************************)
(* A WebSocket over HTTP/1.1 under asyncio: protocol/ws_stream.py, with the*)
(* parts of h11.py (H11WSConnection), tcp_server.py, tcp_writer.py and     *)
(* task_group.py it runs on.  A behaviour begins when H11Protocol hands the*)
(* upgrade request to the stream.                                          *)
(*                                                                         *)
(* Three tasks use the stream: the reader, the application, and the pinger.*)
(* `todo` is what the coroutine of a task still has to do, an await or an  *)
(* assignment after one at a time; a coroutine keeps the event loop from   *)
(* one suspension to the next, and `cpu` names the one that has it.        *)
(*                                                                         *)
(* The library wsproto is modelled by its connection states and by frames. *)
(* An application has one call of send() in progress, and may receive()    *)
(* meanwhile.  What an exception in the reader cancels is left out: the    *)
(* place "raised" is an end.                                               *)
(***************************************************************************)
EXTENDS Integers, Sequences, FiniteSets

CONSTANTS
    MaxFrames,      \* bound: the frames of data a client sends, of length 1
    MaxSize,        \* config.websocket_max_message_size
    MaxQueue,       \* config.max_app_queue_size
    MaxSends,       \* bound: the messages the application sends
    MaxChunks,      \* bound: the body messages of a refusal
    MaxPings,       \* bound: the pings sent, and those the client sends
    FaultSets       \* the sets of things that may happen beyond a plain
                    \* exchange; a behaviour has one of them

\* What a fault set may hold: the client is lost, or sends data before it is
\* accepted; the request is no valid handshake or has an unknown host; the
\* transport pauses writing; the application refuses the WebSocket, names an
\* invalid subprotocol, or returns at any time; both sides send pings.
AllFaults == {"lost", "early", "badrequest", "backpressure", "reject",
              "badsubprotocol", "leaves", "pings"}

ASSUME WsAssumption ==
    /\ MaxFrames \in Nat /\ MaxSize \in Nat
    /\ MaxQueue \in Nat \ {0} /\ MaxSends \in Nat /\ MaxChunks \in Nat /\ MaxPings \in Nat
    /\ FaultSets \subseteq SUBSET AllFaults

Reader == "reader"
App == "app"
Pinger == "pinger"
Tasks == {Reader, App, Pinger}
NoTask == "none"

VARIABLES
    client,     \* the bytes on their way to the reader, and what the peer did
    stream,     \* WSStream, and whether H11Protocol.stream still is it
    ws,         \* WSStream.connection, of wsproto: "none" before acceptance
    h11,        \* the state of the server in the wrapped h11.Connection
    out,        \* BufferedWriter (lock: its holder, then the tasks in line),
                \* output_failed, and the transport
    wire,       \* history: what was written, in order
    app,        \* given: history of what was put on the application's queue;
                \* the first `taken` of it have been received; what it sent
    faults,     \* the fault set of the behaviour
    pc, todo, cpu

vars == <<client, stream, ws, h11, out, wire, app, faults, pc, todo, cpu>>

May(fault) == fault \in faults

-----------------------------------------------------------------------------
(* Tasks.                                                                  *)

Do(op, item) == [op |-> op, item |-> item]
Write(item) == Do("write", item)
Send(part) == Do("h11", part)

\* StreamClosed sent to H11Protocol: _maybe_recycle closes the stream and, as
\* H11WSConnection has no state, always the connection.
Recycle == <<Do("close", "none"), Do("stop", "none"), Do("gone", "none")>>

\* WSStream._send_error_response.
ErrorResponse == <<Send("Head"), Send("End")>>

At(t, op) == cpu \in {NoTask, t} /\ todo[t] # <<>> /\ Head(todo[t]).op = op
Idle(t) == cpu = NoTask /\ todo[t] = <<>> /\ pc[t] = "run"
Item(t) == Head(todo[t]).item
Rest(t) == Tail(todo[t])

\* t goes on with ops, or suspends before them.
Go(t, ops) == /\ todo' = [todo EXCEPT ![t] = ops]
              /\ cpu' = IF ops = <<>> THEN NoTask ELSE t
              /\ UNCHANGED pc
Suspend(t, ops) == todo' = [todo EXCEPT ![t] = ops] /\ cpu' = NoTask /\ UNCHANGED pc
Become(t, place, ops) == /\ pc' = [pc EXCEPT ![t] = place]
                         /\ todo' = [todo EXCEPT ![t] = ops]
                         /\ cpu' = IF ops = <<>> THEN NoTask ELSE t

\* An exception reaches the application, which may go on, or ends the task.
Raise(t) == IF t = App /\ pc[App] = "run" THEN Go(App, <<>>) ELSE Become(t, "raised", <<>>)

-----------------------------------------------------------------------------
(* What any task may have to do.                                           *)

\* H11Protocol._send_h11_event: a LocalProtocolError is raised, as their_state
\* of H11WSConnection is None.
After(part) == CASE part = "Accept" -> "SWITCHED" [] part = "Head" -> "SEND_BODY"
                 [] part = "Data" -> "SEND_BODY" [] part = "End" -> "DONE"
MaySend(part) == h11 = IF part \in {"Accept", "Head"} THEN "SEND_RESPONSE" ELSE "SEND_BODY"

SendH11(t) ==
    /\ At(t, "h11")
    /\ h11' = IF MaySend(Item(t)) THEN After(Item(t)) ELSE "ERROR"
    /\ IF MaySend(Item(t)) THEN Go(t, <<Write(Item(t))>> \o Rest(t)) ELSE Raise(t)
    /\ UNCHANGED <<client, stream, ws, out, wire, app, faults>>

\* The writer's lock is taken in turn.
HasTurn(t) == \A n \in DOMAIN out.lock : n = 1 => out.lock[n] = t
Release(o, t) == IF o.lock = <<>> THEN o ELSE [o EXCEPT !.lock = Tail(@)]

Queue(t) ==
    /\ At(t, "write") \/ At(t, "stop")
    /\ ~HasTurn(t) /\ \A n \in DOMAIN out.lock : out.lock[n] # t
    /\ out' = [out EXCEPT !.lock = Append(@, t)]
    /\ Suspend(t, todo[t])
    /\ UNCHANGED <<client, stream, ws, h11, wire, app, faults>>

\* TCPServer._handle_output_failure: the first closes the protocol.
Fail(t, o) ==
    /\ out' = [Release(o, t) EXCEPT !.failed = TRUE]
    /\ Go(t, (IF out.failed THEN <<>> ELSE <<Do("close", "none")>>) \o Rest(t))

Drain(t, o) ==
    /\ out' = IF o.lock = <<>> THEN [o EXCEPT !.lock = <<t>>] ELSE o
    /\ Suspend(t, <<Do("drain", Head(todo[t]).op)>> \o Rest(t))

\* protocol_send(RawData), by BufferedWriter.send.
WriteOut(t) ==
    /\ At(t, "write") /\ HasTurn(t)
    /\ \/ (out.stopped \/ out.error) /\ Fail(t, out) /\ UNCHANGED wire
       \/ /\ ~out.stopped /\ ~out.error
          /\ wire' = IF out.closed \/ client.lost THEN wire ELSE Append(wire, Item(t))
          /\ \/ Go(t, Rest(t)) /\ out' = Release(out, t)
             \/ client.lost /\ Fail(t, [out EXCEPT !.error = TRUE])
             \/ May("backpressure") /\ ~client.lost /\ Drain(t, out)
    /\ UNCHANGED <<client, stream, ws, h11, app, faults>>

\* protocol_send(Closed): BufferedWriter.stop, writer.close and wait_closed.
Shut(t, o) == /\ out' = [Release(o, t) EXCEPT !.stopped = TRUE, !.closed = TRUE]
              /\ Suspend(t, Rest(t))

Stop(t) ==
    /\ At(t, "stop") /\ HasTurn(t)
    /\ \/ Shut(t, out)
       \/ /\ May("backpressure") /\ ~out.stopped /\ ~out.error
          /\ Drain(t, [out EXCEPT !.stopped = TRUE])
    /\ UNCHANGED <<client, stream, ws, h11, wire, app, faults>>

Drained(t) ==
    /\ At(t, "drain")
    /\ CASE Item(t) = "stop" -> Shut(t, [out EXCEPT !.error = client.lost])
         [] Item(t) = "write" /\ client.lost -> Fail(t, [out EXCEPT !.error = TRUE])
         [] OTHER -> Go(t, Rest(t)) /\ out' = Release(out, t)
    /\ UNCHANGED <<client, stream, ws, h11, wire, app, faults>>

Gone(t) ==
    /\ At(t, "gone") /\ (client.eof \/ client.lost)
    /\ Go(t, Rest(t))
    /\ UNCHANGED <<client, stream, ws, h11, out, wire, app, faults>>

\* asyncio.Queue.put; which of several waiting calls is first is not modelled.
Full == Len(app.given) - app.taken = MaxQueue

Put(t) ==
    /\ At(t, "put") /\ ~Full
    /\ app' = [app EXCEPT !.given = Append(@, Item(t))]
    /\ Go(t, Rest(t))
    /\ UNCHANGED <<client, stream, ws, h11, out, wire, faults>>

PutWaits(t) ==
    /\ cpu = t /\ At(t, "put") /\ Full
    /\ Suspend(t, todo[t])
    /\ UNCHANGED <<client, stream, ws, h11, out, wire, app, faults>>

Told(type) == [type |-> type, parts |-> <<>>]

\* H11Protocol._close_stream and WSStream.handle(StreamClosed).
\* Mutant: the stream is not marked closed.
ClosingUnmarked(s) == s

Closing(s) == [s EXCEPT !.closed = TRUE]

Close(t) ==
    /\ At(t, "close")
    /\ IF stream.present /\ ~stream.closed
       THEN /\ stream' = Closing(stream)
            /\ Go(t, <<Do("put", Told("disconnect")), Do("drop", "none")>> \o Rest(t))
       ELSE stream' = [stream EXCEPT !.present = FALSE] /\ Go(t, Rest(t))
    /\ UNCHANGED <<client, ws, h11, out, wire, app, faults>>

\* The assignments that follow an await.
Assign(t) ==
    /\ \/ /\ At(t, "drop") /\ stream' = [stream EXCEPT !.present = FALSE]
       \/ At(t, "refused") /\ stream' = [stream EXCEPT !.closed = TRUE]
       \/ At(t, "state") /\ stream' = [stream EXCEPT !.state = Item(t)]
    /\ Go(t, Rest(t))
    /\ UNCHANGED <<client, ws, h11, out, wire, app, faults>>

Shared(t) == \/ SendH11(t) \/ Queue(t) \/ WriteOut(t) \/ Drained(t) \/ Stop(t) \/ Gone(t) \/ Put(t) \/ PutWaits(t) \/ Close(t) \/ Assign(t)

-----------------------------------------------------------------------------
(* wsproto, and WSStream._send_wsproto_event, which ignores what is out of *)
(* turn.                                                                   *)

Sendable(w, event) ==
    w.state = "OPEN" \/ (event = "close" /\ w.state = "REMOTE_CLOSING")

Sent(w, event) ==
    [w EXCEPT !.state = IF event # "close" THEN @
                        ELSE IF @ = "OPEN" THEN "LOCAL_CLOSING" ELSE "CLOSED"]

\* Mutant: the event is written although wsproto refuses it.
SendWsAlways(t, w, event, rest) ==
    /\ ws' = IF Sendable(w, event) THEN Sent(w, event) ELSE w
    /\ Go(t, <<Write(event)>> \o rest)

SendWs(t, w, event, rest) ==
    /\ ws' = IF Sendable(w, event) THEN Sent(w, event) ELSE w
    /\ Go(t, IF Sendable(w, event) THEN <<Write(event)>> \o rest ELSE rest)

-----------------------------------------------------------------------------
(* The reader: WSStream.handle.                                            *)

\* The request is no handshake of version 13, or for a host not served.
Invalid == May("badrequest")

\* The request: the application is spawned, or 400 or 404 is the answer.
HandleRequest ==
    /\ At(Reader, "request")
    /\ \/ /\ pc' = [pc EXCEPT ![App] = "run"]
          /\ todo' = [todo EXCEPT ![Reader] = <<Do("put", Told("connect"))>>]
          /\ cpu' = Reader
       \/ Invalid /\ Go(Reader, ErrorResponse \o <<Do("refused", "none")>>)
    /\ UNCHANGED <<client, stream, ws, h11, out, wire, app, faults>>

\* Data: refused before acceptance; wsproto drops what follows a Close.
Receiving(w, frames) ==
    IF w.state \in {"OPEN", "LOCAL_CLOSING"} THEN [w EXCEPT !.frames = @ \o frames] ELSE w

Early == ~stream.accepted

HandleData ==
    /\ Idle(Reader) /\ client.inbox # <<>> /\ ~client.lost
    /\ client' = [client EXCEPT !.inbox = <<>>]
    /\ \/ (~stream.present \/ stream.closed) /\ UNCHANGED ws /\ Go(Reader, <<>>)
       \/ /\ stream.present /\ ~stream.closed /\ Early
          /\ Go(Reader, ErrorResponse \o <<Do("refused", "none")>>) /\ UNCHANGED ws
       \/ /\ stream.present /\ ~stream.closed /\ ~Early
          /\ ws' = Receiving(ws, client.inbox)
          /\ Go(Reader, <<Do("frames", "none")>>)
    /\ UNCHANGED <<stream, h11, out, wire, app, faults>>

\* WSStream._handle_events, one frame at a time.
Frame == Head(ws.frames)
Popped == [ws EXCEPT !.frames = Tail(@)]
Extended == Append(stream.buffer, Frame.message)

\* Mutant: the buffer is not cleared.
ClearedNot(s) == s

TooLarge == Len(Extended) > MaxSize
Cleared(s) == [s EXCEPT !.buffer = <<>>]
ToMessage(parts) == [type |-> "message", parts |-> parts]

NoFrames ==
    /\ At(Reader, "frames") /\ ws.frames = <<>>
    /\ Go(Reader, Rest(Reader))
    /\ UNCHANGED <<client, stream, ws, h11, out, wire, app, faults>>

\* The frame that makes the message too large ends the loop; those after it
\* stay with wsproto, and the buffer as it is.
MessageFrame ==
    /\ At(Reader, "frames") /\ ws.frames # <<>> /\ Frame.kind \in {"part", "last"}
    /\ \/ /\ TooLarge
          /\ stream' = [stream EXCEPT !.buffer = Extended]
          /\ SendWs(Reader, Popped, "close", Rest(Reader))
       \/ /\ ~TooLarge /\ ws' = Popped
          /\ IF Frame.kind = "part"
             THEN stream' = [stream EXCEPT !.buffer = Extended] /\ Go(Reader, todo[Reader])
             ELSE /\ stream' = Cleared([stream EXCEPT !.buffer = Extended])
                  /\ Go(Reader, <<Do("put", ToMessage(Extended))>> \o todo[Reader])
    /\ UNCHANGED <<client, h11, out, wire, app, faults>>

PingFrame ==
    /\ At(Reader, "frames") /\ ws.frames # <<>> /\ Frame.kind = "ping"
    /\ SendWs(Reader, Popped, "pong", todo[Reader])
    /\ UNCHANGED <<client, stream, h11, out, wire, app, faults>>

\* A Close is answered, unless it is an answer; both end in StreamClosed.
CloseFrame ==
    /\ At(Reader, "frames") /\ ws.frames # <<>> /\ Frame.kind = "close"
    /\ LET closing == [Popped EXCEPT !.state = IF @ = "LOCAL_CLOSING" THEN "CLOSED"
                                                 ELSE "REMOTE_CLOSING"]
       IN  SendWs(Reader, closing, "close", Recycle \o todo[Reader])
    /\ UNCHANGED <<client, stream, h11, out, wire, app, faults>>

\* The end of the input, or a read that fails: handle(Closed).
ReadEnds ==
    /\ Idle(Reader) /\ (client.lost \/ (client.eof /\ client.inbox = <<>>))
    /\ Become(Reader, "ending", <<Do("close", "none")>>)
    /\ UNCHANGED <<client, stream, ws, h11, out, wire, app, faults>>

\* run() leaves the task group once every task in it is over.
RunEnds ==
    /\ cpu = NoTask /\ pc[Reader] = "ending" /\ todo[Reader] = <<>>
    /\ \A t \in {App, Pinger} : pc[t] \in {"none", "over"}
    /\ out' = [out EXCEPT !.stopped = TRUE, !.closed = TRUE]
    /\ Become(Reader, "over", <<>>)
    /\ UNCHANGED <<client, stream, ws, h11, wire, app, faults>>

ReaderStep == \/ HandleRequest \/ HandleData \/ NoFrames \/ MessageFrame \/ PingFrame
              \/ CloseFrame \/ ReadEnds \/ RunEnds \/ Shared(Reader)

-----------------------------------------------------------------------------
(* The application, whose sends are WSStream.app_send: without effect once *)
(* the stream is closed, and refused in the states that are not listed.    *)

Heard(type) == \E n \in 1..app.taken : app.given[n].type = type

Receive ==
    /\ cpu = NoTask /\ pc[App] = "run" /\ ~Heard("disconnect")
    /\ app.taken < Len(app.given)
    /\ app' = [app EXCEPT !.taken = @ + 1]
    /\ UNCHANGED <<client, stream, ws, h11, out, wire, faults, pc, todo, cpu>>

\* Handshake.accept returns a new connection, or raises.
NewConnection == [state |-> "OPEN", frames |-> <<>>]

\* websocket.accept: the state changes before the handshake may raise.
Accept ==
    /\ Idle(App) /\ ~stream.closed /\ stream.state = "HANDSHAKE"
    /\ \/ /\ stream' = [stream EXCEPT !.state = "CONNECTED", !.accepted = TRUE]
          /\ ws' = NewConnection
          /\ Go(App, <<Send("Accept"), Do("spawn", "none")>>)
       \/ /\ May("badsubprotocol")
          /\ stream' = [stream EXCEPT !.state = "CONNECTED"]
          /\ UNCHANGED ws /\ Raise(App)
    /\ UNCHANGED <<client, h11, out, wire, app, faults>>

SpawnPings ==
    /\ At(App, "spawn")
    /\ pc' = [pc EXCEPT ![Pinger] = IF May("pings") THEN "run" ELSE "none"]
    /\ todo' = [todo EXCEPT ![App] = Rest(App)]
    /\ cpu' = NoTask
    /\ UNCHANGED <<client, stream, ws, h11, out, wire, app, faults>>

\* websocket.http.response.start and .body: _send_rejection.
Refuse ==
    /\ Idle(App) /\ ~stream.closed /\ May("reject")
    /\ stream.state \in {"HANDSHAKE", "RESPONSE"} /\ app.sent < MaxChunks
    /\ \E body, more \in BOOLEAN :
          Go(App, (IF stream.state = "HANDSHAKE"
                   THEN <<Send("Head"), Do("state", "RESPONSE")>> ELSE <<>>)
                  \o (IF body THEN <<Send("Data")>> ELSE <<>>)
                  \o (IF more THEN <<>> ELSE <<Do("state", "HTTPCLOSED"), Send("End")>>))
    /\ app' = [app EXCEPT !.sent = @ + 1]
    /\ UNCHANGED <<client, stream, ws, h11, out, wire, faults>>

\* websocket.send; without a connection, after a handshake that raised, it
\* raises too.
SendMessage ==
    /\ Idle(App) /\ ~stream.closed
    /\ stream.state = "CONNECTED" /\ stream.accepted /\ app.sent < MaxSends
    /\ SendWs(App, ws, "message", <<>>)
    /\ app' = [app EXCEPT !.sent = @ + 1]
    /\ UNCHANGED <<client, stream, h11, out, wire, faults>>

\* websocket.close: a 403 before acceptance, a Close after it; in the middle of
\* a refusal it raises, but has changed the state.
AskClose ==
    /\ Idle(App) /\ ~stream.closed
    /\ \/ /\ stream.state = "HANDSHAKE" /\ May("reject")
          /\ stream' = [stream EXCEPT !.state = "HTTPCLOSED"]
          /\ Go(App, ErrorResponse) /\ UNCHANGED ws
       \/ /\ stream.state # "HANDSHAKE"
          /\ stream' = [stream EXCEPT !.state = "CLOSED"]
          /\ IF stream.accepted THEN SendWs(App, ws, "close", <<>>)
                                ELSE Raise(App) /\ UNCHANGED ws
    /\ UNCHANGED <<client, h11, out, wire, app, faults>>

\* The application has returned or raised: app_send(None), from _handle.
Done == Heard("disconnect") \/ stream.state = "HTTPCLOSED"

Return ==
    /\ Idle(App) /\ (Done \/ May("leaves"))
    /\ CASE stream.closed -> Become(App, "over", <<>>) /\ UNCHANGED ws
         [] ~stream.closed /\ stream.state = "HANDSHAKE" ->
               Become(App, "ended", ErrorResponse \o Recycle) /\ UNCHANGED ws
         [] ~stream.closed /\ stream.state = "CONNECTED" /\ ~stream.accepted ->
               Become(App, "raised", <<>>) /\ UNCHANGED ws
         [] ~stream.closed /\ stream.state = "CONNECTED" /\ stream.accepted ->
               /\ ws' = IF Sendable(ws, "close") THEN Sent(ws, "close") ELSE ws
               /\ Become(App, "ended", (IF Sendable(ws, "close") THEN <<Write("close")>>
                                        ELSE <<>>) \o Recycle)
         [] OTHER -> Become(App, "ended", Recycle) /\ UNCHANGED ws
    /\ UNCHANGED <<client, stream, h11, out, wire, app, faults>>

Over ==
    /\ cpu = NoTask /\ pc[App] = "ended" /\ todo[App] = <<>>
    /\ Become(App, "over", <<>>)
    /\ UNCHANGED <<client, stream, ws, h11, out, wire, app, faults>>

\* What an application that awaits its calls does without a choice of its own.
AppWorks == SpawnPings \/ Over \/ Shared(App) \/ Receive \/ (Done /\ Return)

AppStep == \/ AppWorks \/ Accept \/ Refuse \/ SendMessage \/ AskClose \/ Return

\* WSStream._send_pings wakes up.
Ping ==
    /\ Idle(Pinger)
    /\ IF stream.closed THEN Become(Pinger, "over", <<>>) /\ UNCHANGED <<ws, stream>>
       ELSE /\ stream.pings < MaxPings
            /\ stream' = [stream EXCEPT !.pings = @ + 1]
            /\ SendWs(Pinger, ws, "ping", <<>>)
    /\ UNCHANGED <<client, h11, out, wire, app, faults>>

PingerStep == Ping \/ Shared(Pinger)

-----------------------------------------------------------------------------
(* The client, which follows the WebSocket protocol but for a fault, and   *)
(* the transport.                                                          *)

Accepted == wire # <<>> /\ wire[1] = "Accept"

ClientSends ==
    /\ cpu = NoTask /\ ~client.eof /\ ~client.lost /\ ~client.closing
    /\ Accepted \/ May("early")
    /\ \/ \E kind \in {"part", "last"} :
            LET sizes == IF client.open THEN [client.sizes EXCEPT ![Len(client.sizes)] = @ + 1]
                                        ELSE Append(client.sizes, 1)
            IN  /\ client.frames < MaxFrames
                /\ client' = [client EXCEPT !.sizes = sizes, !.open = kind = "part",
                                 !.frames = @ + 1,
                                 !.inbox = Append(@, [kind |-> kind, message |-> Len(sizes)])]
       \/ /\ May("pings") /\ client.pings < MaxPings
          /\ client' = [client EXCEPT !.pings = @ + 1,
                                      !.inbox = Append(@, [kind |-> "ping", message |-> 0])]
       \/ client' = [client EXCEPT !.closing = TRUE,
                                   !.inbox = Append(@, [kind |-> "close", message |-> 0])]
    /\ UNCHANGED <<stream, ws, h11, out, wire, app, faults, pc, todo, cpu>>

ClientLeaves ==
    /\ cpu = NoTask /\ ~client.lost /\ ~client.eof
    /\ \/ client' = [client EXCEPT !.eof = TRUE]
       \/ May("lost") /\ client' = [client EXCEPT !.lost = TRUE]
    /\ UNCHANGED <<stream, ws, h11, out, wire, app, faults, pc, todo, cpu>>

\* Some time after close() the connection is gone: the reader's input ends.
TransportCloses ==
    /\ cpu = NoTask /\ out.closed /\ ~client.eof
    /\ client' = [client EXCEPT !.eof = TRUE]
    /\ UNCHANGED <<stream, ws, h11, out, wire, app, faults, pc, todo, cpu>>

-----------------------------------------------------------------------------
Init ==
    /\ client = [inbox |-> <<>>, sizes |-> <<>>, open |-> FALSE, frames |-> 0, pings |-> 0,
                 closing |-> FALSE, eof |-> FALSE, lost |-> FALSE]
    /\ stream = [present |-> TRUE, state |-> "HANDSHAKE", closed |-> FALSE,
                 accepted |-> FALSE, buffer |-> <<>>, pings |-> 0]
    /\ ws = [state |-> "none", frames |-> <<>>]
    /\ h11 = "SEND_RESPONSE"
    /\ out = [lock |-> <<>>, stopped |-> FALSE, error |-> FALSE, failed |-> FALSE,
              closed |-> FALSE]
    /\ wire = <<>>
    /\ app = [given |-> <<>>, taken |-> 0, sent |-> 0]
    /\ faults \in FaultSets
    /\ pc = [t \in Tasks |-> IF t = Reader THEN "run" ELSE "none"]
    /\ todo = [t \in Tasks |-> IF t = Reader THEN <<Do("request", "none")>> ELSE <<>>]
    /\ cpu = NoTask

Next ==
    \/ ReaderStep \/ AppStep \/ PingerStep
    \/ ClientSends \/ ClientLeaves \/ TransportCloses

Spec == Init /\ [][Next]_vars

\* The event loop runs every task that can run, the ping interval ends, the
\* transport finishes closing, and an application receives what it is sent and
\* returns once it is disconnected.
FairSpec == /\ Spec
            /\ WF_vars(ReaderStep) /\ WF_vars(AppWorks) /\ WF_vars(PingerStep)
            /\ WF_vars(TransportCloses)

-----------------------------------------------------------------------------
(* Properties.                                                             *)

States == {"HANDSHAKE", "CONNECTED", "RESPONSE", "CLOSED", "HTTPCLOSED"}
Ops == {"request", "frames", "h11", "write", "drain", "put", "close", "drop", "stop",
        "gone", "refused", "state", "spawn"}

\* What each variable holds: the queue of the application is within its bound.
TypeOK ==
    /\ stream.state \in States /\ stream.present \in BOOLEAN /\ stream.closed \in BOOLEAN
    /\ stream.accepted <=> ws.state # "none"
    /\ ws.state \in {"none", "OPEN", "LOCAL_CLOSING", "REMOTE_CLOSING", "CLOSED"}
    /\ h11 \in {"SEND_RESPONSE", "SWITCHED", "SEND_BODY", "DONE", "ERROR"}
    /\ out.lock \in Seq(Tasks)
    /\ Len(app.given) - app.taken \in 0..MaxQueue
    /\ pc \in [Tasks -> {"none", "run", "ending", "ended", "over", "raised"}]
    /\ \A t \in Tasks : \A n \in DOMAIN todo[t] : todo[t][n].op \in Ops
    /\ cpu \in Tasks \cup {NoTask}

\* The peer sees one answer: an acceptance, frames, and at most one Close after
\* which there is nothing; or a refusal, whole and with nothing after it.
\* Whatever task writes, wherever it had to wait for the writer.  (And the
\* variables have their types.)
Follows(a, b) ==
    CASE a \in {"Accept", "message", "ping", "pong"} -> b \in {"message", "ping", "pong", "close"}
      [] a \in {"Head", "Data"} -> b \in {"Data", "End"}
      [] OTHER -> FALSE
WireInOrder ==
    /\ TypeOK
    /\ wire # <<>> => wire[1] \in {"Accept", "Head"}
    /\ \A n \in 1..(Len(wire) - 1) : Follows(wire[n], wire[n + 1])

\* The application is told of the connection first, then of every message of
\* the client in order and whole, none larger than the limit, and of the end at
\* most once, whoever closes the stream.
Messages == SelectSeq(app.given, LAMBDA item : item.type = "message")
Ending == {n \in DOMAIN app.given : app.given[n].type = "disconnect"}
GivenInOrder ==
    /\ app.given # <<>> => app.given[1].type = "connect"
    /\ Cardinality(Ending) <= 1
    /\ \A n \in DOMAIN Messages :
          /\ client.sizes[n] <= MaxSize
          /\ Messages[n].parts = [k \in 1..client.sizes[n] |-> n]

\* Once the client leaves, the application is disconnected and the connection's
\* tasks end.  Not so if the client sent data before it was accepted, a write
\* failed, or the application returned with its queue full.
Ends == (client.eof /\ faults \cap {"early", "lost", "leaves"} = {})
            ~> \A t \in Tasks : pc[t] \in {"none", "over"}
=============================================================================
