----------------------------- MODULE HttpStream -----------------------------
(***************************************************************************)
(* protocol/http_stream.py behind a stream of HTTP/2 or HTTP/3, with every *)
(* message an ASGI application may send, and app_wrappers.py's WSGIWrapper *)
(* as an application whose WSGI part runs in a thread.                     *)
(*                                                                         *)
(* Two tasks share an HTTPStream: the consumer of its QueuedStream calls   *)
(* handle() with what the client sends, the application's task app_send(). *)
(* Both call the protocol's stream_send(), which may suspend them, so the  *)
(* other runs between what is sent and what is assigned after it.  An      *)
(* operation is what is sent and the state assigned once that returns.     *)
(*                                                                         *)
(* The QueuedStream is the queue of BoundedFifo, which it implements; its  *)
(* limits are QueuedStream's matter.  HTTP/2 closes a stream through that  *)
(* queue and swallows what is sent on one that is closed; HTTP/3 forgets a *)
(* stream, and raises once its connection is closed.                       *)
(***************************************************************************)
EXTENDS Naturals, Sequences

CONSTANTS
    Worlds,         \* what is fixed for a behaviour, see WorldRecords
    MaxChunks,      \* bound: the chunks of a request's body
    MaxMessages,    \* bound: the messages an application sends
    AppQueueSize,   \* config.max_app_queue_size
    MaxBodySize     \* config.wsgi_max_body_size, in chunks

\* The version and runtime; whether the application is of WSGI; whether the host
\* is served, the method is HEAD and the headers have "te: trailers"; whether the
\* client may reset the stream or be lost.
WorldRecords ==
    [version : {2, 3}, trio : BOOLEAN, wsgi : BOOLEAN, served : BOOLEAN,
     head : BOOLEAN, te : BOOLEAN, breaks : BOOLEAN]

ASSUME HttpStreamAssumption ==
    /\ Worlds \subseteq WorldRecords /\ AppQueueSize \in Nat \ {0}
    /\ MaxChunks \in Nat /\ MaxMessages \in Nat /\ MaxBodySize \in Nat

VARIABLES
    world,
    client,         \* how many chunks of its body it has sent, and whether its
                    \* request is complete
    queue,          \* the events in the QueuedStream
    known,          \* whether the stream is in the protocol's streams
    broken,         \* whether the client has reset it or its connection is closed
    stream,         \* HTTPStream: its state and closed, and whether its response
                    \* promised trailers
    logged,         \* how often the request is in the access log
    missed,         \* whether the end of its response has raised before it was there
    consumer,       \* where it is, and the message it puts
    appQueue,       \* the application's queue
    app,            \* where its task is, the messages it has still to send, and
                    \* how many it has sent
    wsgi,           \* the WSGI part: what of the body it has, whether it has called
                    \* start_response and sent the headers
    ops,            \* per task, the operations it is at; the first one's send has
                    \* begun
    wire            \* what stream_send() has accepted of the response

queueVars == <<queue, known>>
streamVars == <<stream, logged, missed>>
appVars == <<app, wsgi>>
vars == <<world, client, queueVars, broken, streamVars, consumer, appQueue, appVars,
          ops, wire>>

Op(send, then) == [send |-> send, then |-> then]
When(condition, list) == IF condition THEN list ELSE <<>>

Init ==
    /\ world \in Worlds
    /\ client = [chunks |-> 0, done |-> FALSE] /\ queue = <<"Request">> /\ known = TRUE /\ broken = FALSE
    /\ stream = [state |-> "REQUEST", closed |-> FALSE, promised |-> FALSE]
    /\ logged = 0 /\ missed = FALSE
    /\ consumer = [at |-> "wait", puts |-> "none"]
    /\ appQueue = <<>>
    /\ app = [at |-> "none", calls |-> <<>>, sent |-> 0]
    /\ wsgi = [size |-> 0, whole |-> FALSE, started |-> FALSE, headers |-> FALSE]
    /\ ops = [consumer |-> <<>>, app |-> <<>>]
    /\ wire = <<>>

-----------------------------------------------------------------------------
(* stream_send() of the protocol, and the operations of a task.            *)

\* Mutated: the stream is forgotten and not told.
CloseStreamUntold == known' = FALSE /\ UNCHANGED queue

\* _close_stream(): HTTP/2 tells the stream, HTTP/3 does not.
CloseStream ==
    /\ known' = FALSE
    /\ queue' = IF known /\ world.version = 2 THEN Append(queue, "StreamClosed")
                                              ELSE queue

\* The send of the first operation begins.
Begin(list) ==
    CASE list = <<>> -> UNCHANGED <<queueVars, wire>>
      [] list # <<>> /\ Head(list).send = "StreamClosed" ->
            CloseStream /\ UNCHANGED wire
      [] list # <<>> /\ Head(list).send # "StreamClosed" ->
            /\ wire' = IF broken \/ Head(list).send \in {"nothing", "Push"} THEN wire
                       ELSE Append(wire, Head(list).send)
            /\ UNCHANGED queueVars

\* H3SendClosedError.
Raises(list) ==
    /\ list # <<>> /\ world.version = 3 /\ broken
    /\ Head(list).send \notin {"StreamClosed", "nothing"}

\* The state a send assigns when it returns.
Assigned(then) ==
    CASE then = "same" -> stream.state
      [] then = "UNLOGGED" -> "CLOSED"
      [] OTHER -> then

\* A send returns: the state is assigned, and logged at the end of a response.  The
\* logging raises if there has been no response.
Return(t) ==
    LET then == Head(ops[t]).then
        rest == Tail(ops[t])
        fails == Raises(rest) \/ then = "UNLOGGED"
    IN
    /\ ops[t] # <<>>
    /\ ops' = [ops EXCEPT ![t] = When(~fails, rest)]
    /\ Begin(When(~fails, rest))
    /\ stream' = [stream EXCEPT !.state = Assigned(then)]
    /\ logged' = IF then = "CLOSED" THEN logged + 1 ELSE logged
    /\ missed' = (missed \/ then = "UNLOGGED")
    /\ IF t = "app" /\ fails
       THEN app' = [app EXCEPT !.at = IF @ = "ending" THEN "over" ELSE "failed",
                               !.calls = <<>>]
       ELSE UNCHANGED app
    /\ consumer' = IF t = "consumer" /\ fails THEN [consumer EXCEPT !.at = "over"]
                   ELSE consumer
    /\ UNCHANGED <<world, client, broken, appQueue, wsgi>>

EndOps == <<Op("EndBody", "CLOSED"), Op("StreamClosed", "same")>>
UnloggedOps == <<Op("EndBody", "UNLOGGED")>>
ErrorOps == <<Op("Response", "same"), Op("EndBody", "CLOSED")>>

-----------------------------------------------------------------------------
(* The client and its connection's reader.                                 *)

Sends(event) ==
    /\ known /\ ~broken /\ ~client.done /\ queue' = Append(queue, event)
    /\ UNCHANGED <<world, known, broken, streamVars, consumer, appQueue, appVars, ops,
                   wire>>

SendChunk ==
    /\ Sends("Body") /\ client.chunks < MaxChunks
    /\ client' = [client EXCEPT !.chunks = @ + 1]

EndRequest == Sends("EndBody") /\ client' = [client EXCEPT !.done = TRUE]

\* A reset, or the end of the connection.  HTTP/3 tells the stream of neither.
Break ==
    /\ world.breaks /\ ~broken /\ broken' = TRUE
    /\ IF world.version = 2 THEN CloseStream ELSE UNCHANGED queueVars
    /\ UNCHANGED <<world, client, streamVars, consumer, appQueue, appVars, ops, wire>>

-----------------------------------------------------------------------------
(* The consumer: HTTPStream.handle().                                      *)

Take(event) ==
    /\ consumer.at = "wait" /\ queue # <<>> /\ Head(queue) = event

Puts(message) == consumer' = [at |-> "put", puts |-> message]

HandleRequest ==
    /\ Take("Request") /\ queue' = Tail(queue)
    /\ IF world.served
       THEN /\ app' = [app EXCEPT !.at = IF world.wsgi THEN "read" ELSE "run"]
            /\ UNCHANGED <<consumer, ops, wire>>
       ELSE /\ consumer' = [consumer EXCEPT !.at = IF Raises(ErrorOps) THEN "over"
                                                   ELSE "refuse"]
            /\ ops' = [ops EXCEPT !["consumer"] = When(~Raises(ErrorOps), ErrorOps)]
            /\ wire' = IF broken THEN wire ELSE Append(wire, "Response")
            /\ UNCHANGED app
    /\ UNCHANGED <<world, client, known, broken, streamVars, appQueue, wsgi>>

Refused ==
    /\ consumer.at = "refuse" /\ ops["consumer"] = <<>>
    /\ consumer' = [consumer EXCEPT !.at = "wait"]
    /\ stream' = [stream EXCEPT !.closed = TRUE]
    /\ UNCHANGED <<world, client, queueVars, broken, logged, missed, appQueue, appVars,
                   ops, wire>>

HandleInput ==
    /\ \E event \in {"Body", "EndBody"} :
         /\ Take(event)
         /\ IF stream.closed \/ app.at = "none" THEN UNCHANGED consumer
                                                ELSE Puts(event)
    /\ queue' = Tail(queue)
    /\ UNCHANGED <<world, client, known, broken, streamVars, appQueue, appVars, ops,
                   wire>>

\* Mutated: the state is not looked at.
HandleClosedLogged ==
    /\ Take("StreamClosed") /\ queue' = Tail(queue)
    /\ stream' = [stream EXCEPT !.closed = TRUE]
    /\ logged' = IF ~stream.closed THEN logged + 1 ELSE logged
    /\ IF stream.closed \/ app.at = "none"
       THEN consumer' = [consumer EXCEPT !.at = "over"]
       ELSE Puts("disconnect")
    /\ UNCHANGED <<world, client, known, broken, missed, appQueue, appVars, ops, wire>>

\* A stream that is closed before its response is complete is logged without one.
HandleClosed ==
    /\ Take("StreamClosed") /\ queue' = Tail(queue)
    /\ stream' = [stream EXCEPT !.closed = TRUE]
    /\ logged' = IF ~stream.closed /\ stream.state # "CLOSED" THEN logged + 1
                                                             ELSE logged
    /\ IF stream.closed \/ app.at = "none"
       THEN consumer' = [consumer EXCEPT !.at = "over"]
       ELSE Puts("disconnect")
    /\ UNCHANGED <<world, client, known, broken, missed, appQueue, appVars, ops, wire>>

\* app_put(), when the application's queue has room.
Put ==
    /\ consumer.at = "put" /\ Len(appQueue) < AppQueueSize
    /\ appQueue' = Append(appQueue, consumer.puts)
    /\ consumer' = [at |-> IF consumer.puts = "disconnect" THEN "over" ELSE "wait",
                    puts |-> "none"]
    /\ UNCHANGED <<world, client, queueVars, broken, streamVars, appVars, ops, wire>>

-----------------------------------------------------------------------------
(* app_send(): the messages of an application.                             *)

Message(type, more, flag) == [type |-> type, more |-> more, flag |-> flag]
Start(trailers) == Message("start", FALSE, trailers)
BodyOf(data, more) == Message("body", more, data)
LastBody == BodyOf(FALSE, FALSE)

Messages ==
    [type : {"start"}, more : {FALSE}, flag : BOOLEAN]
    \cup [type : {"body"}, more : BOOLEAN, flag : BOOLEAN]
    \cup [type : {"trailers"}, more : BOOLEAN, flag : {FALSE}]
    \cup [type : {"hint", "push"}, more : {FALSE}, flag : {FALSE}]

\* Mutated: early hints are sent at any time.
ExpectedHints(m) ==
    CASE m.type = "start" -> stream.state = "REQUEST"
      [] m.type = "body" -> stream.state = "RESPONSE"
      [] m.type = "trailers" -> stream.state \in {"REQUEST", "TRAILERS"}
      [] m.type \in {"push", "hint"} -> TRUE

Expected(m) ==
    CASE m.type \in {"start", "hint"} -> stream.state = "REQUEST"
      [] m.type = "body" -> stream.state = "RESPONSE"
      [] m.type = "trailers" -> stream.state \in {"REQUEST", "TRAILERS"}
      [] m.type = "push" -> TRUE

\* Trailers before any response are sent as one by "te: trailers", and not sent
\* otherwise; the end of the response then finds none to log.
OpsOf(m) ==
    CASE m.type = "start" -> <<Op("Response", "RESPONSE")>>
      [] m.type = "hint" -> <<Op("Informational", "same")>>
      [] m.type = "push" -> <<Op("Push", "same")>>
      [] m.type = "body" ->
            When(m.flag /\ ~world.head, <<Op("Body", "same")>>)
            \o When(~m.more, IF stream.promised THEN <<Op("nothing", "TRAILERS")>>
                                                ELSE EndOps)
      [] m.type = "trailers" /\ stream.state = "REQUEST" ->
            IF world.te THEN <<Op("Response", "TRAILERS")>> \o When(~m.more, EndOps)
                        ELSE When(~m.more, UnloggedOps)
      [] m.type = "trailers" /\ stream.state # "REQUEST" ->
            When(~m.more, When(world.te, <<Op("Trailers", "same")>>) \o EndOps)

\* The next message is sent; one that is not expected, or a connection that is
\* closed, raises in the application.
Call ==
    LET m == Head(app.calls)
        list == OpsOf(m)
        fails == ~Expected(m) \/ Raises(list)
    IN
    /\ app.calls # <<>> /\ ops["app"] = <<>>
    /\ app' = IF fails THEN [app EXCEPT !.at = "failed", !.calls = <<>>]
              ELSE [app EXCEPT !.calls = Tail(@)]
    /\ ops' = [ops EXCEPT !["app"] = When(~fails, list)]
    /\ Begin(When(~fails, list))
    /\ stream' = IF m.type = "start" /\ Expected(m)
                 THEN [stream EXCEPT !.promised = m.flag] ELSE stream
    /\ UNCHANGED <<world, client, broken, logged, missed, consumer, appQueue, wsgi>>

Idle(place) == app.at = place /\ app.calls = <<>> /\ ops["app"] = <<>>

\* Mutated: an application without a response is only closed.
NoneOpsClose == When(~stream.closed, <<Op("StreamClosed", "same")>>)

\* The task calls app_send(None) when the application has ended, however it has.
NoneOps ==
    IF stream.closed THEN <<>>
    ELSE When(stream.state = "REQUEST", ErrorOps) \o <<Op("StreamClosed", "same")>>

SendNone(next) ==
    LET fails == Raises(NoneOps) IN
    /\ app' = [app EXCEPT !.at = IF fails THEN "over" ELSE next]
    /\ ops' = [ops EXCEPT !["app"] = When(~fails, NoneOps)]
    /\ Begin(When(~fails, NoneOps))
    /\ UNCHANGED <<world, client, broken, streamVars, consumer, appQueue, wsgi>>

\* The task of the application; trio calls it twice after an exception group.
Finish ==
    \/ Idle("returned") /\ SendNone("ending")
    \/ Idle("failed") /\ SendNone("ending")
    \/ Idle("failed") /\ world.trio /\ SendNone("failed again")
    \/ Idle("failed again") /\ SendNone("ending")
    \/ /\ Idle("ending") /\ app' = [app EXCEPT !.at = "over"]
       /\ UNCHANGED <<world, client, queueVars, broken, streamVars, consumer, appQueue,
                      wsgi, ops, wire>>

-----------------------------------------------------------------------------
(* An ASGI application: it receives, sends anything, returns or raises.    *)

AppAlone(place) ==
    /\ Idle(place)
    /\ UNCHANGED <<world, client, queueVars, broken, streamVars, consumer, ops, wire>>

Receive ==
    /\ AppAlone("run") /\ appQueue # <<>> /\ appQueue' = Tail(appQueue)
    /\ UNCHANGED appVars

Say(list) == app' = [app EXCEPT !.calls = list, !.sent = @ + 1]

SendMessage ==
    /\ AppAlone("run") /\ app.sent < MaxMessages
    /\ \E m \in Messages : Say(<<m>>)
    /\ UNCHANGED <<appQueue, wsgi>>

AppEnds ==
    /\ \/ AppAlone("run") /\ app' = [app EXCEPT !.at = "returned"]
       \/ \E place \in {"run", "thread"} :
            AppAlone(place) /\ app' = [app EXCEPT !.at = "failed"]
    /\ UNCHANGED <<appQueue, wsgi>>

-----------------------------------------------------------------------------
(* WSGIWrapper: handle_http() and, in a thread, run_app().                 *)

\* Mutated: the limit includes what is one too many.
ReadOneMore ==
    LET message == Head(appQueue)
        size == wsgi.size + (IF message = "Body" THEN 1 ELSE 0)
    IN
    /\ AppAlone("read") /\ appQueue # <<>> /\ appQueue' = Tail(appQueue)
    /\ wsgi' = [wsgi EXCEPT !.size = size, !.whole = message = "EndBody"]
    /\ IF size > MaxBodySize + 1
       THEN app' = [app EXCEPT !.at = "returned", !.calls = <<Start(FALSE), LastBody>>]
       ELSE app' = IF message = "Body" THEN app ELSE [app EXCEPT !.at = "thread"]

\* The body is read until a message says that no more of it comes, or it is too
\* large.  A path outside root_path is not found.
Read ==
    LET message == Head(appQueue)
        size == wsgi.size + (IF message = "Body" THEN 1 ELSE 0)
    IN
    /\ AppAlone("read") /\ appQueue # <<>> /\ appQueue' = Tail(appQueue)
    /\ wsgi' = [wsgi EXCEPT !.size = size, !.whole = message = "EndBody"]
    /\ \/ /\ size > MaxBodySize
          /\ app' = [app EXCEPT !.at = "returned", !.calls = <<Start(FALSE), LastBody>>]
       \/ /\ size <= MaxBodySize /\ message = "Body"
          /\ UNCHANGED app
       \/ /\ size <= MaxBodySize /\ message # "Body"
          /\ \/ app' = [app EXCEPT !.at = "thread"]
             \/ app' = [app EXCEPT !.at = "returned",
                                   !.calls = <<Start(FALSE), LastBody>>]

Fails == app' = [app EXCEPT !.at = "failed"]

\* start_response() sends nothing; a second call needs exc_info, and raises that
\* if the headers have been sent.
StartResponse ==
    /\ AppAlone("thread")
    /\ \E excInfo \in BOOLEAN :
         IF (excInfo /\ wsgi.headers) \/ (~excInfo /\ wsgi.started)
         THEN Fails /\ UNCHANGED wsgi
         ELSE wsgi' = [wsgi EXCEPT !.started = TRUE] /\ UNCHANGED app
    /\ UNCHANGED appQueue

\* The headers go with the first output that is not empty.
Output ==
    /\ AppAlone("thread") /\ app.sent < MaxMessages
    /\ \E data \in BOOLEAN :
         LET begins == data /\ ~wsgi.headers IN
         IF begins /\ ~wsgi.started THEN Fails /\ UNCHANGED wsgi
         ELSE /\ Say(When(begins, <<Start(FALSE)>>) \o <<BodyOf(data, TRUE)>>)
              /\ wsgi' = [wsgi EXCEPT !.headers = @ \/ begins]
    /\ UNCHANGED appQueue

\* Or at the end, if there was none; then the body ends.
OutputEnds ==
    /\ AppAlone("thread")
    /\ IF ~wsgi.started THEN Fails
       ELSE app' = [app EXCEPT
                      !.at = "returned",
                      !.calls = When(~wsgi.headers, <<Start(FALSE)>>) \o <<LastBody>>]
    /\ UNCHANGED <<appQueue, wsgi>>

-----------------------------------------------------------------------------

Consume ==
    HandleRequest \/ Refused \/ HandleInput \/ HandleClosed \/ Put

Next ==
    \/ SendChunk \/ EndRequest \/ Break
    \/ Consume
    \/ Call \/ Finish \/ \E t \in DOMAIN ops : Return(t)
    \/ Receive \/ SendMessage \/ AppEnds
    \/ Read \/ StartResponse \/ Output \/ OutputEnds

\* The tasks run, the protocol's sends return (SendsReturn of H2Send and H3Send),
\* and an application that has not ended reads.
Fairness ==
    /\ WF_vars(Consume) /\ WF_vars(Call) /\ WF_vars(Finish)
    /\ \A t \in {"consumer", "app"} : WF_vars(Return(t))
    /\ WF_vars(Receive) /\ WF_vars(Read)

Spec == Init /\ [][Next]_vars /\ Fairness

-----------------------------------------------------------------------------
(* Properties.                                                             *)

\* Every variable has its type; the application's queue is within its bound.
TypeOK ==
    /\ app.sent \in 0..MaxMessages /\ client.chunks \in 0..MaxChunks
    /\ stream.state \in {"REQUEST", "RESPONSE", "TRAILERS", "CLOSED"}
    /\ consumer.at \in {"wait", "put", "refuse", "over"}
    /\ Len(appQueue) <= AppQueueSize /\ logged \in 0..2
    /\ \A t \in DOMAIN ops : Len(ops[t]) <= 4

Before(i, items) == \E j \in 1..(i - 1) : wire[j] \in items

\* Whatever an application sends, or fails to send, in whatever order, what leaves
\* is early hints, one response, its body, at most one set of trailers, one end.
\* (Trailers without "te: trailers" and without a response leave a bare end.)
WireInOrder ==
    /\ TypeOK
    /\ \A i \in 1..Len(wire) :
          /\ ~Before(i, {"EndBody"})
          /\ wire[i] \in {"Informational", "Response"} => ~Before(i, {"Response"})
          /\ wire[i] \in {"Body", "Trailers"} =>
               Before(i, {"Response"}) /\ ~Before(i, {"Trailers"})
          /\ wire[i] = "EndBody" =>
               Before(i, {"Response"}) \/ ~(world.te \/ world.wsgi)

\* A request is in the access log once, and is there when its stream has ended;
\* only a stream that breaks while the end of its response is being sent is logged
\* with and without it.  One alone is left out, unless its stream breaks: that whose
\* response was ended by trailers that nobody asked for, sent before anything else.
LoggedOnce ==
    /\ logged = 2 \/ (logged = 1 /\ missed) => world.version = 2 /\ broken
    /\ missed => logged < 2 /\ ~world.te /\ ~world.wsgi
    /\ world.version = 2 /\ consumer.at = "over" /\ app.at \in {"none", "over"}
         => logged >= 1 \/ missed

\* A client that stays is answered, however its application ends: there is a
\* response when the task has ended, whole if the application said so, and the
\* stream has left the protocol.
Answered ==
    app.at = "over" /\ ~broken =>
        /\ ~known
        /\ \E i \in 1..Len(wire) : wire[i] \in {"Response", "EndBody"}
        /\ stream.state = "CLOSED" <=> \E i \in 1..Len(wire) : wire[i] = "EndBody"

\* A WSGI application runs with a whole body within the limit, unless the stream
\* has broken before it was there.
WholeBody ==
    app.at = "thread" =>
        /\ wsgi.size <= MaxBodySize
        /\ IF wsgi.whole THEN client.done /\ wsgi.size = client.chunks
                         ELSE world.version = 2 /\ broken

\* Nobody will make room for the message the consumer puts.
Stranded ==
    app.at = "over" /\ consumer.at = "put" /\ Len(appQueue) = AppQueueSize

\* HTTP/2: once a stream is closed, by either side, its application is told and
\* its consumer ends, unless the application ended without reading its queue.
ConsumerEnds ==
    world.version = 2 /\ ~known ~> consumer.at = "over" \/ Stranded

=============================================================================
