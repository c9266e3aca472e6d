# Hypercorn in TLA+

Hypercorn is an ASGI server: it accepts connections over TCP, TLS or QUIC, speaks HTTP/1.1,
HTTP/2, HTTP/3 and WebSocket on them, and runs an application once per request.  It has two
runtimes, asyncio and trio, over one set of protocol classes.  This directory holds TLA+ models of
the parts of it in which several tasks share state, the TLC configurations that check them, and
proofs for TLAPS.  Paths below are relative to `src/src/hypercorn/`.

- [The system](#the-system): its parts, their state and how they interact
- [The modules](#the-modules): what is modelled and how it corresponds to the code
- [The runs](#the-runs): what TLC checks, with which bounds and fairness
- [What is proved](#what-is-proved)
- [Disagreements](#disagreements) between the code and its documentation or tests
- [Not modelled](#not-modelled), and [the plan](#plan)

How to use it: `tlc -config X.cfg M` for a run of the table below, `tlapm M.tla` with a module whose
name ends in `Proofs` for the proofs.

## The system

```
 worker process                          (run.py spawns and joins them)
   Worker ── Lifespan ── application      startup / shutdown
   │ WorkerContext: terminated, terminate, max_requests
   └─ TCPServer, per connection ── TCP writer ── transport
        │  reads bytes, idle timer, closes
        └─ ProtocolWrapper ─┬─ H11Protocol ── HTTPStream | WSStream ── application task
                            └─ H2Protocol ─┬─ QueuedStream ── HTTPStream | WSStream ── application task
                                           └─ H2SendScheduler (StreamBuffer per stream, sender task)
   └─ UDPServer ── QuicProtocol ── H3Protocol ── QueuedStream, H3SendScheduler
```

Everything on a connection runs in coroutines of one event loop.  A coroutine keeps the processor
from one suspension to the next, so what matters is which awaits suspend.  That differs between the
runtimes: under trio every operation on an event takes a lock and yields; under asyncio setting or
clearing an event, and waiting for one that is set, never do.

| Part | State | Operations | Interacts with | Hard |
|---|---|---|---|---|
| EventWrapper, WorkerContext (`*/worker_context.py`) | a flag and its waiters; the request counter; the idle timer's task | set, clear, wait; mark_request; restart, stop | everything that waits | which operations yield |
| QueuedStream (`protocol/queued_stream.py`) | the queue, its byte count, `_closed`, two events | `handle` (producers), `_handle` (consumer task), merging | H2/H3 reader, the stream, acknowledgement callbacks | two limits, merging, two blocked producers on one event, closing while full |
| HTTP/1.1 connection (`protocol/h11.py`) | h11's two state machines, the current stream, `can_read`, request count | `handle` (bytes, closed), `stream_send`, `_maybe_recycle` | server, HTTPStream | pipelining: the reader pauses until the application ends the response |
| HTTPStream (`protocol/http_stream.py`) | ASGI state, `closed`, the response | `handle` (request, body, end, closed), `app_send` | protocol, application task, access log | closed by four parties, across awaits |
| asyncio TCP server and writer (`asyncio/tcp_server.py`, `tcp_writer.py`, `task_group.py`) | reader, idle timer, output failure, writer lock | `_read_data`, `protocol_send`, `_write_data`, `_close`, `_idle_timeout` | transport, protocol | failing writes in the middle of a send, the timer racing a request |
| HTTP/2 connection (`protocol/h2.py`) | streams, `closed`, request count | events of the h2 library, `stream_send`, `_create_server_push`, `_close_stream` | QueuedStream, scheduler | a handler suspended while the connection closes |
| HTTP/2 scheduler (`protocol/h2_send.py`) | a buffer per stream, the priority tree, `has_data`, the batch | `push`, `push_trailers`, `pop`, `run`, `_send_data`, `close_stream`, window events | H2Protocol, applications, h2 windows | stale windows, sleeping on work, releasing blocked senders |
| WSStream (`protocol/ws_stream.py`) | handshake, state, message buffer | `handle`, `app_send` | protocol, application | both sides may close |
| ProtocolWrapper and events (`protocol/__init__.py`, `events.py`) | the current protocol | ALPN, upgrade from HTTP/1.1 | servers | the switch in the middle of input |
| trio TCP writer (`trio/tcp_writer.py`) | the queue, its byte count, submitted and completed counters, a condition | `send`, `drain`, `stop`, `run` | reader, applications, idle timer, transport | one writer task for many callers, batches, errors with callers waiting |
| trio TCP server (`trio/tcp_server.py`, `task_group.py`) | as under asyncio | as under asyncio | TCP writer, protocol | closing from inside a send; a timer that is cancelled or shielded |
| HTTP/3 scheduler (`protocol/h3_send.py`) | pending operations and bytes | `send`, `run`, `close` | H3Protocol | who enters when several wait |
| HTTP/3, QUIC (`protocol/h3.py`, `quic.py`, `*/udp_server.py`) | streams, connection ids, timers | datagrams in and out | aioquic | connection ids, timers, closing |
| Lifespan (`*/lifespan.py`) | startup, shutdown events, `supported` | wait_for_startup, wait_for_shutdown | application, Worker | failures on either side of the timeouts |
| Worker (`*/run.py`) | terminated, sockets, tasks | start, serve, drain, stop | Lifespan, TCPServer | graceful shutdown |
| Master (`run.py`) | worker processes, exit code | spawn, reload, join | Worker | exits racing with termination |
| WSGI wrapper, middleware (`app_wrappers.py`, `middleware/`) | response started or not; per-app lifespan | app_send | application | a thread between two loops |
| Configuration, logging, metrics, helpers (`config.py`, `logging.py`, `statsd.py`, `utils.py`, `typing.py`, ...) | settings | | | none over time |

What makes each part correct:

- *QueuedStream*: both bounds hold, the byte count is exact, events are handled once and in order,
  data is acknowledged once and after it was handled, every blocked call gets through, the
  consumer never spins on an empty queue, nor sleeps on a full one, and ends when the stream closes.
- *HTTP/1.1 connection, HTTPStream, TCP server*: one response at a time, whole and in the order of
  the requests; an application hears of the end of its stream once; the connection is timed exactly
  while it waits for its client; a paused reader is woken; every send returns; the connection ends;
  requests are logged; no more requests are served than configured.
- *HTTP/2 scheduler*: what an application writes is sent in full and ended once, within a bounded
  buffer; the sender never sleeps while it could send; an application is told its response is over
  only when the end has left the connection's buffer and the sender's hand; every send returns.
- *WSStream*: the peer sees one acceptance or one refusal, no frame before the first or after a Close;
  the application gets whole messages within the limit, and one disconnect; everything ends.
- *TCP writer (trio)*: what is accepted is written once and in order, within the high-water mark;
  drain and stop return normally only when it is; a failed write releases everyone; the writer
  never sleeps on data or on a stop.
- *TCP server (trio)*: a connection is closed by its server only when its output is written, by its
  idle timer only between requests, and ends.
- *HTTPStream, WSGI*: whatever an application sends, one whole response leaves; a request is logged
  once, unless its end raises before there was a response; a WSGI application gets the whole body or a refusal.
- *HTTP/3 scheduler*: operations reach the library once and in order, within a window that counts what
  really waits; who is told that its response ended has had it flushed; every send returns.
- *QUIC*: a connection has one timer, and while it lives has it; one that has terminated leaves nothing
  behind; one whose client has gone leaves.
- *Lifespan, Worker, Master*: no request is served before startup completes; requests in progress
  have the grace period; shutdown comes after the last; the process ends with the right code.

`PROJECT.json` lists the hazards, each at the line where it bites, with the properties that cover it.

## The modules

| Module | Models | Built on |
|---|---|---|
| `EventWrapper` | the event of both runtimes, as operators on a record | |
| `QueuedStream` | `queued_stream.py`, its producers and its consumer | `EventWrapper` |
| `BoundedFifo` | abstract: what a QueuedStream promises | |
| `QueuedStreamProofs` | theorems about `QueuedStream` | `QueuedStream`, TLAPS |
| `HttpStream` | `http_stream.py` behind HTTP/2 or HTTP/3, and `WSGIWrapper` of `app_wrappers.py` as its application | |
| `HttpStreamProofs` | theorems about `HttpStream` | `HttpStream`, TLAPS |
| `H11Connection` | one HTTP/1.1 connection under asyncio: server, writer, protocol, streams, applications, idle timer | |
| `WsStream` | one WebSocket over HTTP/1.1 under asyncio: stream, application, pinger, reader and writer | |
| `H2Send` | the HTTP/2 scheduler, and `h2.py` where it uses it | `EventWrapper` |
| `H2SendProofs` | theorems about `H2Send` | `H2Send`, TLAPS |
| `H3Send` | the HTTP/3 scheduler, and `h3.py` where it uses it | `EventWrapper` |
| `H3SendProofs` | theorems about `H3Send` | `H3Send`, TLAPS |
| `Quic` | one QUIC connection of an endpoint: `quic.py`, `h3.py`, the UDP servers and the timer | |
| `TcpWriter` | `trio/tcp_writer.py`: its callers and its writer task | |
| `TcpWriterProofs` | theorems about `TcpWriter` | `TcpWriter`, TLAPS |
| `TrioServer` | `trio/tcp_server.py` around its writer: a connection under trio, or the writer alone | `TcpWriter` |
| `TrioServerProofs` | theorems about `TrioServer` | `TrioServer`, `TcpWriterProofs` |
| `Worker` | `worker_serve` and `Lifespan` of both runtimes, with abstract connections | |
| `Master` | `run()` of `run.py` with worker processes | |
| `MasterProofs` | theorems about `Master` | `Master`, TLAPS |
| `HttpStreamMC`, `H2SendMC`, `QuicMC`, `WorkerMC` | the worlds and clients TLC checks these in | each its module |

All of them share three conventions.  A step runs from one suspension to the next; where a coroutine
makes several calls between two suspensions and other code can be entered from them, the step is
divided, and `cpu` names the task nobody may overtake.  `pc` holds the place in the code a task has
reached.  Variables marked *history* are there for the properties only.  Definitions marked
*mutated* or *mutants* are wrong on purpose: they are the form a plausible bug would give the
definition after them, and `PROJECT.json` says which property notices.

**EventWrapper.**  An event is `[set, turn, waiters]`.  Under trio `turn` is the queue of the
condition's lock and only its head may act; under asyncio `turn` holds tasks that `set()` has
scheduled, which return from `wait()` without testing the flag again, so that the flag may have been
cleared by then.  `Returns`, `Blocks`, `AfterSet`, ... are what the code awaits.

**QueuedStream.**  `handle()` is `Attempt` (one turn of its loop: merge, append, or wait),
`SetEvents`, `ParkForSpace`, `SpaceSeen`, `Retry`; `_handle()` is `EventsSeen`, `Pop`, `SetSpace`,
`ClearEvents`, `Handled`, `Callback`, `Finish`.  There are two producers, as in `h2.py` and `h3.py`:
the reader task and the task that pops the stream and sends StreamClosed, once.  `OfferClosed`
happens only after the stream was created and `Call` only while it is in the table.  Data is its
length.  `log` records what was accepted, with running byte totals.

**BoundedFifo.**  A log and how much of it was taken.  `QueuedStream!ImplementsFifo` is the
refinement, with `Popped` for `taken`: queue, merging, events and tasks disappear.

**H11Connection.**  The reader is task 0, the application of request *i* is task *i*, and the last
task is the one the idle timer starts when it fires.  `h11` is the library's documented state
machine for the two peers, over the kinds of its events (`NextEvent`, `Received`, `Sent`,
`NextCycle`); bytes are the events they parse into.  `Call` puts a task at the beginning of a method
and remembers in `after` where it returns to.  Which application does what is free: it may receive,
send the start, a part or the end of its response, or stop early.  `FaultSets` holds what may go
wrong; a behaviour has one of these sets, so that each combination is checked without the product of
all.

**H2Send.**  Tasks are the reader, the sender and an application per stream.  `todo[t]` holds the
event operations a task is still to await, in order, and `pc[t]` where it comes to after them.
`push`, `push_trailers`, `set_complete`, `pop`, `close`, `_send_ready_batch`, `_send_data`, `run` and
the reader's handlers are the actions between those awaits.  `_flush` is two steps: `Take` empties the
connection's buffer (`unflushed`) into the task's hand (`inHand[t]`) and awaits the socket, `HandOver` is its
return.  Everyone who flushes is there: the reader at the end of its handlers (`ReaderFlush`), an application
with its headers (`Respond`), a push (`Promise`) or the goodbye of a stopping server (`Depart`), the sender
with its batch (`BatchEnds`), and the tasks that acknowledge the data of requests, which share one place
(`Consumers`: `Acknowledge` takes, `Acknowledged` hands over a stream's frames at a time).  `window` is the peer's, as h2 keeps it:
one for the connection, one per stream, which a SETTINGS frame may make negative.  The library's
priority tree is a free choice among the streams that are not blocked.  `Worlds` says, per behaviour,
the runtime, what may happen and how much a response writes.

**WsStream.**  A behaviour begins when `H11Protocol` hands the upgrade request to `WSStream.handle`.
`todo[t]` is what a task still has to do: an await, or an assignment that follows one, at a time.  What a
handler does at once is one action that puts the rest there (`HandleRequest`, `HandleData`, `Accept`,
`Refuse`, `AskClose`, `Return`, ...), and `Shared` are the awaits themselves: `SendH11` (h11 may refuse),
`WriteOut` and `Stop` behind the writer's lock, whose queue is `out.lock`, `Put` and `Close`.  `ws` is
wsproto's connection state with the frames it holds; a frame of data has length 1 and carries the number
of its message, and the bytes of a read are the frames sent since the last one.  `app.given` is what was
ever put on the application's queue, the queue what follows the first `taken`.

**HttpStream.**  `consumer` is the task of the stream's queue, which calls `handle()`, and `app` the
application's, which calls `app_send()`.  `ops[t]` is what a call still has to do, each element what is
sent to the protocol and the state assigned when that has returned: `Begin` sends it, `Return` assigns, and
the other task runs in between.  `Raises` is HTTP/3 refusing what is sent on a closed connection, where
HTTP/2 swallows it.  `UnloggedOps` is the end of a response that was never begun: trailers that were not
asked for, as the first message, close the stream and then raise at the log, for want of `self.response`;
`missed` (history) keeps that.  An application sends any messages in any order: `Expected` and `OpsOf` are
`app_send` for one, `NoneOps` for its end.  With `world.wsgi` the application is the wrapper: `Read`
collects the body, whose size is its number of chunks, and `StartResponse`, `Output` and `OutputEnds`
are what the WSGI part does in its thread.  The stream's queue is that of `BoundedFifo`, without a limit.

**H3Send.**  Operations are numbered as they are accepted; `pending` and `pendingBytes` are the window,
`queue` what `run()` has not taken.  `send()` is the test of the window and the wait for the oldest
pending operation, `run()` a batch, its flush and its completion, `close()` the failing of what is
left; `cpu` and `EventWrapper` say where each may be interrupted in either runtime.  An operation that
raises when it is applied, and a flush that raises, are choices.

**Quic.**  `inbox` is the endpoint's queue of datagrams, bounded as `quic_receive_queue_size` says; a
client is a script of what aioquic will report, and a datagram brings any number of its events.  The
reader and the timers share `_handle_events()` and `send_all()`: a task is at `pc[t]`, one event or one
await at a time.  `restart()` and `stop()` of SingleTask are modelled await by await for each runtime,
with the lock's queue, the cancellation of the old timer, and a timer that restarts itself.
Cancellation is `cancelled`: trio ends such a task at its next checkpoint, asyncio where it waits.
`crash` is an exception that leaves a task and with it ends the endpoint.

**TcpWriter.**  `turn` is the queue of the condition's lock, `parked` who waits for `notify_all`; a step
is what the holder does until it gives the lock up.  `send()` is `SendRaises`, `SendWaits` or `Send`,
`drain()` and `stop()` share `Aim`, `Waits` and end in `Drained` or `Closed` and `Stopped`, `run()` is
`Awake`, `TakeNothing`, `TakeBatch`, `WriteReturns` or `WriteFails`, `Written` and `Failed`.  Any caller
may make any call at any time.  A send is its number; the deque keeps the numbers and the length of
what joining it would give.  A write that fails may have sent part of its batch.

**TrioServer.**  A connection is the writer's variables and the server's.  `todo[t]` lists the awaited
calls a task still makes, by name: `HangUpOps` is what `protocol_send` does with Closed, `drain` and
`rearm` what it does with Updated, `disarm` and `spawn` what a request does.  `CallWriter` and `InWriter`
are the calls of the writer, the latter with `_handle_output_failure`; `StopTimer`, `RestartTimer` and
`StartTimer` are `TrioSingleTask`, whose lock a restart holds until the new timer runs; `timers[i]` are
its tasks, several of which may exist since `_initiate_server_close` shields itself.  Requests come one
after the other, an application sends the end of its response, or leaves without.  In the world
`alone` there is no server, and two tasks call the writer as they like: what the writer promises it
does not owe to the way it is used.

**Worker.**  `main` is the place in `worker_serve`: it asks the application to start up (`Ask`), serves,
stops serving, waits for the connections it knows (`gathered`), asks for the shutdown and finishes.
The lifespan task is `app`, with `heard` and `said` for the messages; `End` is the `finally` that sets
both events and, under trio, closes the channel.  A failed nursery or an exception out of
`worker_serve` is `Fail`.  A connection is idle, busy, leaving or closed; what it does in between is the
business of the other modules.  `new` is a connection of asyncio whose task has not run yet, and is not
in `server_tasks`.  `Worlds` says per behaviour which runtime it is, whether `Server.wait_closed()`
waits (Python 3.12 and later) and how the application and the connections may misbehave.

**Master.**  A process is a number; `processes` is the list of the code as a set.  Signal handlers are
actions that are enabled between any two steps; while `reloading` holds the handler joins and the main
thread stands still, but another handler may interrupt it.  `Start` and `Append` are apart since a
handler may come between `process.start()` and `processes.append()`.  Exit codes are zero or not.
`Rejoin` chooses which of the processes killed a moment ago have exited by the time they are looked at.

## The runs

| Run | Module, configuration | Properties | Question |
|---|---|---|---|
| `queued_stream` | `QueuedStream` | `WithinLimits`, `Acked`, `WakesExactly`, `ImplementsFifo`, `CallsReturn` | both bounds by an exact byte count, acknowledgements, wake-ups, refinement of `BoundedFifo`, every call returns, in both runtimes |
| `http_stream` | `HttpStreamMC`, `HttpStream.cfg` | `WireInOrder`, `LoggedOnce`, `Answered`, `WholeBody`, `ConsumerEnds` | any messages of an ASGI application, or a WSGI one, over HTTP/2 and HTTP/3, with a client that breaks its stream |
| `h11_exchange` | `H11Connection`, `H11Exchange.cfg` | `ServedInTurn`, `TimedExactly`, `Ends` | pipelined requests, half-closing clients, the timer, the request limit |
| `h11_faults` | `H11Connection`, `H11Faults.cfg` | `DisconnectedOnce`, `Orderly` | four combinations of faults: one disconnect, whole and ordered responses, no refused send |
| `ws_stream` | `WsStream` | `WireInOrder`, `GivenInOrder`, `Ends` | six combinations of faults: one orderly exchange, whole messages within the limit, one disconnect, an end |
| `h2_alone` | `H2SendMC`, `H2Alone.cfg` | `BufferBounded`, `SendsReturn` | one response, several times the high-water mark, in both runtimes, or disturbed |
| `h2_shared` | `H2SendMC`, `H2Shared.cfg` | `ReadyIsScheduled`, `EndIsTaken`, `DeliveredWhole` | two responses, one window, one sender, and other tasks that flush: whole, never asleep on work, told only after the frames were taken |
| `h3_send` | `H3Send` | `WindowKept`, `HandedInOrder`, `EndIsFlushed`, `SendsReturn` | two streams behind a full window, operations and flushes that raise, a connection that closes, in both runtimes |
| `quic` | `QuicMC`, `Quic.cfg` | `SingleTimer`, `NothingLeft`, `ConnectionsLeave` | one connection with its reader, sender and timers, in both runtimes, an upload to an application that may end early, a client that falls silent, a worker that terminates |
| `trio_server` | `TrioServer` | `HighWaterKept`, `Delivered`, `ClosedInTurn`, `Ends` | the writer alone with two callers, and in its connection: two requests, the idle timer, a client that leaves, a write that fails, a worker that terminates |
| `worker` | `WorkerMC`, `Worker.cfg` | `ServesBetween`, `OutcomeTold`, `Settles` | misbehaving applications and connections in both runtimes: serving only between startup and shutdown, draining, outcome, ending |
| `master` | `Master` | `Capacity`, `Replenished`, `Ends` | exits, failures, two reloads, shutdown: never too many workers, a full set again, an end |

They reach between 15 thousand (`master`) and 5.1 million states (`h2_shared`), in two and a half minutes at most.  Each property has a mutant in `PROJECT.json` that it refutes.

**Bounds.**  *QueuedStream*: two entries and three bytes of room against data of 1, 2 and 4 bytes and
up to four of them.  A single piece can be over the limit, two can be merged, a third can be refused
on either limit, and both producers can be blocked together; a fourth lets the cycle repeat.
*H11Connection*: two requests are what pipelining needs (the second waits for the first); one body
part, one part of a response and a queue of one make the queue full and the reader blocked.  *H2Send*:
a high-water mark of 2 against data of 1 or 2, frames of 1, batches of 2 and windows of 0 or 1: each
limit is met and passed, the window opens and closes several times in a response of up to 7 bytes.
*TrioServer*: a mark of 2 against sends of 1, 2
and 3, four of them by two callers: one send over the mark alone, batches of two, both callers waiting; in a
connection two applications and three timers, the first and one after each response, with sends over the
mark, so that a second one waits.  *H3Send*: two pending operations and two bytes against operations of 1
and 3, batches of two, three operations: the third waits, for an oldest one that may fail, on either limit.
*Quic*: three timer tasks are one that sleeps, one that is cancelled and one being started; a queue of one
datagram is overrun by the second; an upload of two pieces fills an application's queue of one.
*HttpStream*: three messages reach every state of the response and go one beyond it; a body of two
chunks exceeds a limit of one, and a queue of one is full when the disconnect comes.
*H2Send* has two streams because that is what sharing needs: the code treats streams alike, and relates at most two of them
(the one being sent and the one being closed).  *WsStream*: three frames of data against a limit of two
make a message that is too large, one that is whole in two frames, and two in a row; a queue of two is
filled by the connect and a message; refusals have two body messages.  *Worker*: two connections, so that one can end or crash while the other
goes on, and two requests against a limit of one.  *Master*: two workers, one to exit while the other goes on,
two reloads (one inside the other), two exits and a failure; `MaxStarts` follows from these.  With larger responses of *H2Send*, and all of the disturbances at
once, the state space of two streams is beyond a few minutes, which is why a single response is
checked apart, and why the disturbances are divided among worlds.

**Deadlock** is not checked: a connection that has ended, and a bounded client that has sent all it
may, do stop.  That nobody who should go on is stuck is stated by the liveness properties.

**Fairness.**  The event loop runs every task that is ready: weak fairness of the consumer, the
producers, the reader's, the sender's and the applications' own steps.  *QueuedStream* assumes that
`stream.handle()` and the callbacks return, *H3Send* that `flush()` returns or raises, *HttpStream* that the
protocols' sends return (`SendsReturn` of the schedulers) and that an application that has not ended
reads.  *TrioServer* assumes that `send_all()` returns or raises, that the idle timer's time comes and that
an application ends; `CallsReturn` is checked for one caller of a writer alone, since the callers are all
alike.  *Quic* assumes that a sleeping timer wakes and that an application reads; `Wake` has in its guard that
asyncio runs the tasks that are ready in turn.  *H11Connection* assumes that the timer expires, that a
closed transport reports it, and that an application receives the messages it is sent unless the
world lets it answer without (`unread`); nothing makes it complete its response, the client send, or
a paused transport resume.  *H2Send* assumes that the socket takes what is flushed, and strong fairness of `Pick` (the
priority tree gives every stream that stays unblocked its share) and of `Grant` and `GrantAll` (the
peer goes on reading and so returns window): strong, because a stream may be blocked and unblocked
again by the other's use of the window.  Where the peer stops, a send may block for ever, as documented.
*WsStream* assumes that an application receives what it is given and returns once it is disconnected or has
refused, that the ping interval ends, and that a paused transport resumes or fails.
*Worker* assumes that the lifespan application answers unless its world lets it be too slow, that
requests end unless they may be endless, and that timeouts expire; *Master* that workers poll their
event and drain.

**Safety worth a word.**  `ByteCount` (part of `WithinLimits`) and `Acked` relate the queue to everything ever accepted.
`WakesExactly` says that neither a flag left set over an empty queue, which the interleaving of `set` and
`clear` under trio might produce, lets the consumer in, nor an event is left in a queue whose flag is
down.  `AtMostOneStranded` (part of `Acked`) bounds what is left to a queue whose consumer has returned: a
producer that was blocked may still enter.  `ReadyIsScheduled` is the absence of lost wake-ups of the sender,
with the tasks that are about to wake it named.  `BufferBounded` allows one more Body than
`BUFFER_HIGH_WATER` suggests: `_paused` may be left set by a pop nobody waited for, so the first full
buffer does not block.  `DeliveredWhole` is two halves: a response ends only when it is whole, and one that
was completed has ended.  `WindowHonest` (part of `WindowKept`) says that an operation leaves the pending
window only when it is flushed or has failed, so that back-pressure counts what really waits.
`EndIsTaken` does not say that the END_STREAM of a response is with the socket when its application is told: the
sender's flush may find that another task has just taken it and waits for the socket with it
([below](#disagreements)).  What holds is that the frames have left the connection's buffer, that those the
sender took itself have left its hand, and that any other task that has them is in its flush.  Without the flush at
the end of a batch this fails.
`SingleTimer` is two: never two timers that are not cancelled, and under asyncio, while nobody handles the
connection, never none.  `NothingLeft` and `ConnectionsLeave` are the same promise from two sides.

`Delivered` of the writer has the order of the wire and what `drain()` and `stop()` promise; `ClosedInTurn`
uses it: a server that closes its connection has cut nothing off, and a timer that fires in a request was
started late or has been woken by the worker's termination (`history` has these).  `Orderly` joins the
order of the responses on the wire with h11 never refusing a send.  `LoggedOnce`, `Answered` and `WholeBody`
say where they stop: at a stream that breaks, and `LoggedOnce` at a response ended by trailers alone.  `WireInOrder` and `GivenInOrder` of `WsStream` need the lock's
order and the buffer's clearing; `Ends` of it leaves out early data, failed writes and applications that
return in the middle, for the reasons [below](#disagreements).  `OutcomeTold` is an equivalence: a worker that
should have failed does not end well, nor the other way round.  `DrainedBeforeShutdown` (part of
`ServesBetween`) leaves out asyncio before Python 3.12, where a connection accepted in the last moment escapes
the wait, and the two ways the wait is ended.  `Ends` of `Master` leaves out the behaviours with both SIGTERM
and SIGHUP: `reload()`, interrupted by `shutdown()` while the workers are being replaced, clears the event
that `shutdown()` has set, and the workers started after it never hear of it.

## What is proved

`QueuedStreamProofs` proves, for every `MaxQueueSize`, `MaxQueueBytes`, set of sizes, number of bodies
and both runtimes (assumption: `QueuedStreamAssumption`, which only types the constants):

- `Invariance`: `Spec => []IInv`, with `IInv == TypeOK /\ Control /\ Accounting /\ Bounded`;
- `QueueTypes`, `QueueBounded`, `QueueCountsBytes`, `QueueInOrder`: `TypeOK`, `Bounded`, `ByteCount`
  and `InOrder` always hold; `QueueWithinLimits` joins the second and the third.

None of these is inductive alone.  That the byte count does not go below zero (`TypeOK`) when an entry
is popped needs the count to be the sum of what is queued; that a merged entry's size is what it
added needs each entry to be a run of consecutive log entries.  `Accounting` says both: `Grows` (the
log's running totals do not decrease), the entries are consecutive and end where the log ends, and
each entry's `bytes`, and the whole, is the difference of two running totals.  `Control` says which
task holds what at which place.  `Bounded` is preserved because an append or a merge tests the
limits in the same step, and needs the count to be exact when the queue becomes empty.

The argument is divided by what happens to the queue, not by action: `AppendKeeps`, `MergeKeeps` and
`PopKeeps` are lemmas about the relation of a queue to a log alone; `AttemptKeeps` lifts the first two
to a turn of `handle()`; `PopConsumes`, `IdleConsumes`, `ToWaitConsumes` and `FinishConsumes` lift the
third to the ways `_handle()` goes on; then there is a lemma for each action, and the theorem combines
them.  `EventTypes` covers the event operations.

Three theorems build on `IInv`, each with the invariant it adds:

- `QueueImplementsFifo`: `Spec => ImplementsFifo`, the refinement of `BoundedFifo`.  A step is an
  acceptance (`Accepts`), a delivery (`Takes`) or leaves the channel alone (`Stays`).  It needs `Labelled`
  (theorem `Labels`): an entry has the kind of every event merged into it, and only a Body has more
  than one, so that a merge hides no event of another kind.
- `QueueAcked`: `Spec => []Acked`.  `Acknowledging` counts what is still due of the entry whose callbacks run
  (`Due`): what was handled before it is acknowledged, in order, and what is due is Body.  `Ending` adds
  how a stream ends: once `StreamClosed` is accepted, or the stream closed, nothing else is accepted but
  what a producer already held.
- `QueueWakes`: `Spec => []WakesExactly`.  `Waking` says for each runtime where the tasks are in the line of
  `has_events`.  The flag is up, or about to be, while there is an event (`Flagged`).  Under trio the lock's
  line holds nobody twice, and a producer behind the consumer's `clear()` will set the flag again
  (`TrioLine`); under asyncio the consumer, scheduled and not yet run, finds what `set()` was called for
  because nobody else clears the flag (`AsyncioAlone`).

`TcpWriterProofs` proves, for every set of callers, sizes and high-water mark (`TcpWriterAssumption`:
the mark is a natural number and nothing empty is sent, which `send()` sees to):

- `WriterInvariance`: `Spec => []IInv`;
- `WriterTypes`, `WriterHighWater`, `WriterOrder`, `WriterPromises`, `WriterNoSleep`:
  `TypeOK`, `HighWaterKept`, `WrittenInOrder`, `PromisesKept` and `NoSleep` always hold;
- `WriterDelivers` joins the order and the promises in `Delivered`.

Its `IInv` adds to them `Control` (the target of a waiting caller was submitted, and is completed once
it waits for the end), `Accounting` (batch and queue hold, numbered without a gap, exactly what is
submitted and not completed, and the byte count is the sum of both), `OnTheWire` (how far the wire is
ahead of `completed` at each place of `run()`), `Ending` (`run()` ends by an error, which completes
everything, or by a stop with an empty queue) and `Signalled` (the event is set for whatever the
runner has not taken, also while it writes).  The last is why `NoSleep` needs `if self._closing:
self._has_data.set()`: taking a batch discards a set() that a stop made.  `CallerMoves` treats all
steps of callers that leave the buffer alone at once; each step of `run()` has its lemma.

`TrioServerProofs` proves, for every set of applications, number of timers, chunk and mark (in addition
`TrioServerAssumption`: the reader is a caller, the chunk a size, and no application is called `none`):

- `ServerImplementsWriter`: `ServerSpec => Spec`.  Every step of a connection is a step of the writer, or
  leaves the writer's variables alone; so whatever is proved of the writer holds in a connection;
- `ServerHighWater` and `ServerDelivers`: `HighWaterKept` and `Delivered` in a connection;
- `ServerClosesInTurn`: `ClosedInTurn` always holds.

The last rests on `SInv == Plans /\ Single /\ Timely /\ Known` beside the writer's `IInv`.  `Plans` is about
what the tasks are still to do: each list keeps `InOrder` (the transport is closed after a `stop()`, a request
follows the stop of the timer, the start of a timer is never put off), and who is about to close the
transport has stopped the writer, or is in `stop()`.  With `StoppedIsComplete` of the writer that is
`NothingCut`.  `Single` says that only the timer `TrioSingleTask` knows can fire, and none while its lock is
held for a restart; `Timely` that none can while a request is there, or about to be, unless one was started
late; that is `TimedBetween`.  `Remains` and `PutsOff` say what a list becomes when its head is done;
`PlansKeep`, `TimersKeep` and `QuietKeeps` what a step must do to keep each part; then there is a lemma for
each action.

`MasterProofs` proves, for every number of workers, reloads, exits and failures (`MasterAssumption`):
`MasterInvariance`, `MasterTypes`, `MasterCapacity` (`Capacity` always holds) and `MasterLeavesNone`
(when `run()` has returned no worker is alive).  `Capacity` is not inductive: that `_populate()` does not
start too many needs `Counted`, which relates what the list holds to what is left to start at each
place, with the process between `start()` and `append()` counted apart; that nothing alive is forgotten
needs `Listed`, and that only ended processes leave the list.  `NoneLeft` covers the two places after
`terminate()`.

`H3SendProofs` proves, for every set of streams, limits and sizes and both runtimes (`H3SendAssumption`):

- `Invariant`: `Spec => []IInv`;
- `WindowIsKept`, `HandedOver`, `EndsAreFlushed`: `WindowKept`, `HandedInOrder` and `EndIsFlushed` always hold.

Its `IInv` has `Places` (what each task holds where), `WithinLimits` (the byte count is the sum over the
pending operations, and both limits hold), `Queued` (what is queued follows what was handed over, without a
gap until something ends), `Honest` (an operation is pending, flushed or failed), `Settled`, `Released` and
`Reported` (a task completes, an event releases and a sender reports only what has left the window).  The
sum is over a finite set, not a sequence: `SumExists` gets the function of all partial sums, and its
uniqueness, from the smallest subset for which they would be wrong (`SmallestSet`, by the library's
`FS_StrictSubsetOrderingWellFounded` and `WFMin`), which is an induction without an operator parameter.

`HttpStreamProofs` proves, for every set of worlds and all bounds (`HttpStreamAssumption`):

- `Invariant`: `Spec => []IInv`;
- `WireIsInOrder`, `IsLogged`, `IsAnswered`, `BodyIsWhole`: `WireInOrder`, `LoggedOnce`, `Answered` and
  `WholeBody` always hold.

Its `IInv` is built in layers, each proved with those before it.  `Types` and `Roles`: which task is
where, that only one of consumer and application has operations left, and which lists of operations can be
left in which state of the stream (`Lists`, `Refusals`, `NoneLists`).  With these alone every step is one of
`Steps`, a sheet of what each action does to the rest of the state (`NextSteps`), and the other layers look
at that sheet only.  `Closings`: `Logging` (the state, `closed` and `missed` say how often was logged), `Telling` (where
the end of the stream is on its way from the protocol through queue and consumer to the application) and
`Leaving` (when the protocol has let go of the stream).  `Wired`: the wire is in order, and state and
operation at hand say what is on it (`Told`); `AppContinues` shows that whatever an operation list goes on
with keeps that.  `Conserved`: the chunks read, in the application's queue, in the consumer's hand and in
the stream's queue are, in this order, what the client has sent, its end last; without it `WholeBody`,
which looks at the moment the thread starts, cannot be kept.

`H2SendProofs` proves, for any number of streams, every size of data, buffer, frame, batch and window, every
set of worlds and both runtimes (`H2SendAssumption`: the marks are positive, and a stream is not called
`reader`, `sender`, `consumers` or `none`):

- `Invariant`: `Spec => []IInv`;
- `MemoryIsBounded`, `NoWakeIsLost`, `EndsAreTaken`: `BufferBounded`, `ReadyIsScheduled` and `EndIsTaken`
  always hold, also in the worlds the runs leave out for their size;
- `EndsAreWhole`: `EndsWhole`, the first half of `DeliveredWhole`, always holds;
- `ResponsesAreDelivered`: `DeliveredWhole` always holds, if no world has both trio and `shrink`, where
  the [code discards data](#disagreements).

Each layer of its `IInv` is proved with those before it.  `Types`, `Plans` and `Lines`: what a task may still have
to await at its place, and that it stands in the line of the event it awaits and in no other.  With these
alone every step is one of `Steps` (`StepDoes`), a sheet of what each action does, and a step of an event is
`Acted`; the other layers look at these only.  `Sprung`: under asyncio whoever set() has scheduled finds the
flag up.  `Books`: what is written is sent, buffered or popped by the sender.  `Hands`: who has
frames in hand is in its flush, and the sender got them from the connection's buffer (`Gathers`).  `Telling`,
`Ending` and `Excuses`: who is told that a response is over, that it was complete, and otherwise why it ended; `Fits` says
why the connection refuses no data that was popped.  `Rooms`: the bound at each place of an application,
which depends on whether it will find `_paused` set, or the sender is about to set it.  That needs, under
trio, the order of the line of `_paused`: an application that comes to wait after the sender has decided to
wake it is behind it.  `Emptied` and `Scheduled`: a stream that can be sent is unblocked, or a task is about to
unblock it; the difficult step is the one that blocks a stream of which nothing was popped while a push may
have come in between, and `Emptied` says that this push is then not over.

Only model-checked: everything about `H11Connection`, `WsStream`, `Quic` and `Worker`.  Liveness
under fairness and `ENABLED` are beyond the prover and stay with TLC (`ConsumerEnds`, `SendsReturn`,
`Settles`, `Ends`, ...); so does induction over data, and with it what a recursively defined operator
computes.  No module here uses `RECURSIVE`, so that theorems can be added to each.

## Disagreements

These were met while modelling.  The models behave as the code does in all of them; the properties they
would break are checked where they do hold.

Worker and master:

- Under trio `handle_lifespan` closes the channel when the application returns, and the worker then fails
  on it (`trio/lifespan.py:70`), although an application may just return (`CHANGELOG.rst:209`;
  `OutcomeTold`, with a world of trio in which the application may `return`).
- `run()` calls `_join_exited()` a second time after a failure and returns what that says; the failed
  worker has left the list by then, so the exit code is 0 (`run.py:106`) instead of the worker's
  (`CHANGELOG.rst:53`; in `Master` `exitcode` becomes 1 and then 0).
- An asyncio application that awaits anything between `lifespan.startup.failed` and its end (a task
  group with a child does) is not done when `asyncio/run.py:86` looks: the worker serves, against
  `CHANGELOG.rst:18` (`ServesOnlyStarted`; the worlds of asyncio leave `cleanup` out).
- Since Python 3.12 `Server.wait_closed()` waits for every connection without a limit, so that
  `graceful_timeout` is not reached while a request goes on (`asyncio/run.py:166`; `Settles`, whose
  worlds with that version leave `endless` out).
- An asyncio application that goes on after `lifespan.shutdown.complete` is cancelled, and the
  cancellation leaves `worker_serve` as an error.  With `max_app_queue_size = 1` an asyncio application
  that returned without receiving blocks the worker's shutdown for ever.
- After SIGTERM `run()` waits for the first worker that exits and then terminates the others, which have
  no handler for it, in the middle of the graceful timeout that
  `docs/how_to_guides/configuring.rst:101` promises them (`run.py:104`; in `Master` a process becomes
  `killed` though none has failed).
- SIGTERM and SIGHUP together, see `Ends` above.

HTTP/1.1 and HTTPStream:

- An application that ends its response with its request queue full waits for itself
  (`http_stream.py:142`; `Ends` of `H11Connection` with `unread` among the faults).
- The idle timer of a connection is restarted after an awaited drain, by when the next request may be
  in progress and is then timed (`asyncio/tcp_server.py:106`; `TimedExactly` with `backpressure`).
- When an application stops in the middle of its response and a pipelined request waits, the paused
  reader is woken, pauses again, and is never woken a second time (`h11.py:288`; `Ends` with
  `abandon`).
- If a stream breaks while the end of its response is being sent, the request is logged by both sides
  (`http_stream.py:258`; `LoggedOnce` allows it), and a request for a refused host leaves the connection
  neither closed nor timed (`http_stream.py:123`), over HTTP/2 the stream in the protocol.
- Trailers as the first message of an application whose client did not send `te: trailers` end a
  response that has not begun (`http_stream.py:212`; `WireInOrder` allows the bare end).  The state is then
  CLOSED, and `self.response`, which line 70 only annotates, raises AttributeError at line 261: the request is
  never logged and no StreamClosed is sent from there (`LoggedOnce` names the case as `missed`).
- A WSGI application runs with what there is of its body when the stream breaks while it is read
  (`app_wrappers.py:71`; `WholeBody` allows it).
- The consumer of a stream whose application has ended with a full queue waits for ever with the
  disconnect (`ConsumerEnds` allows it, as `Stranded`); its producers then wait too.

HTTP/2 and HTTP/3:

- A server push whose flush is in progress when the connection closes registers a stream nobody closes
  (`h2.py:270`; `SendsReturn` of `H2Send` with `push` and `lost`).
- Under trio the window may shrink between reading it and sending; popped data and the rest of the
  response are discarded without a reset (`h2_send.py:280`; `Delivered` with `shrink`).
- A flush takes the frames of all streams and then awaits the socket (`h2.py:193`).  An application may therefore
  be told that its response is over while the reader, another application or an acknowledgement still waits
  with its END_STREAM, and a connection lost by then loses it (`EndIsTaken` allows it; told only after
  `HandOver` does not hold).  Under trio the writer lets a small send pass one that waits for the high-water
  mark (`trio/tcp_writer.py:46`), so what two tasks took may also change places on the wire; the order of
  flushes is not in `H2Send`.
- When an HTTP/3 connection has closed, what an application sends raises `H3SendClosedError`, and the error of
  the last send, made for an application that ended without a response, ends the endpoint
  (`h3_send.py:99`; `crash = "late send"` in `Quic`), although "Hypercorn will not error and instead
  no-op" (`docs/discussion/closing.rst:44`).
- `H3Protocol.close()` sends no stream a StreamClosed, so that applications never hear of the disconnect
  that `closing.rst:48` guarantees.
- Data for an HTTP/3 stream that has ended is a `KeyError` that ends the endpoint, with all its connections
  (`h3.py:69`; `crash = "data"`); over HTTP/2 it is never acknowledged (`h2.py:155`).
- A full queue of one stream holds up the reader, and with it every connection of the endpoint
  (`ConnectionsLeave` allows it, as `HeldUp`); and a worker that shuts down waits for one more datagram
  before its reader leaves (`*/udp_server.py`).
- Under trio a timer that restarts itself cancels the scope it runs in and starts no other: the connection
  has no timer left (`trio/worker_context.py:33`; `TimerKept` and `ConnectionsLeave` are about asyncio).

The trio server:

- A client that leaves an idle connection is let go only when the idle timer fires, since the task group
  waits for it (`trio/tcp_server.py:65`).
- As under asyncio the timer is restarted after an awaited drain and may then time a request
  (`trio/tcp_server.py:117`; `late` in `history`, which `ClosedInTurn` allows).

WebSocket:

- Data before the acceptance is answered 400 (`CHANGELOG.rst:43`) as if nothing had been sent: if the
  application has begun a refusal, or has accepted while the 400 waits for the transport, h11 raises,
  in the reader or out of the accept (`ws_stream.py:245`; `WsStream` with `early` and `reject`: the
  reader reaches `raised`; with `early` and `backpressure`: `WireInOrder`).  After the 400 `closed` is
  set, so that an application that waits never gets a `websocket.disconnect` and the connection's tasks
  never end (`Ends` with `early`).
- `_handle_events` goes on handing over the messages of one read after the stream was closed by a write
  that failed: they follow the disconnect, and if they fill the queue the reader waits for an
  application that has gone (`ws_stream.py:329`; `Ends` with `lost` and a queue of one).  The same
  happens to the application itself if it returns with its queue full (`leaves`).
- A subprotocol the client did not offer makes `Handshake.accept` raise with the state already
  `CONNECTED`; the end of the application then sends on a connection that is None, which ends the
  task group of the connection (`ws_stream.py:362`).
- A message over the limit is answered by a Close, but the connection stays until the peer answers, and
  the buffer keeps what it has; text after binary data in it raises TypeError.

## Not modelled

- TLS handshakes, the read timeout and the cancellation of a connection's task group: they cut a
  connection off as a whole.
- Within HTTP/1.1: the upgrade to h2c, `Expect: 100-continue`, and informational responses (early hints,
  push and trailers are in `HttpStream`).
- Within HTTP/2: the keep-alive limit, GOAWAY, the receive window, priorities (a free choice), and the
  composition of `QueuedStream` with `H2Send`.
- Within `WsStream`: text and binary data, subprotocols and extensions, HTTP/2 and trio, several calls of
  send() at once, and what is cancelled when a task raises (`raised` is an end).
- Within `TcpWriter`: the cancellation of a caller that waits.  Within `TrioServer`: exceptions that end the
  task group, pipelined requests (in `H11Connection`), parts of a response before its end, and HTTP/2.
- Within `Quic`: version negotiation, retry tokens, several connections, pushes and WebSockets.
- Within `Worker`: creating sockets, QUIC endpoints, several listeners but for the moment in which one
  is closed before the next, errors of the shutdown trigger.  Within `Master`: no workers at all,
  Windows, signals before the handlers are installed, and sockets.
- The middlewares: header and path rewriting is sequential; the dispatcher is left to the plan.
- Configuration, command line, logging format, statsd, header filtering, address parsing: sequential,
  with no state over time.
- The libraries h11, h2, priority, wsproto and aioquic, beyond the part of their state the code
  depends on.

## Plan

Done: `EventWrapper`, `QueuedStream`, `BoundedFifo` and proofs; `H11Connection`; `WsStream`; `HttpStream` with
the WSGI wrapper, and proofs; `H2Send` and proofs; `H3Send` and proofs; `Quic`; `TcpWriter`, `TrioServer` and proofs;
`Worker` with `Lifespan`; `Master` and proofs.

Left, in this order:

1. `H2Connection`, composing `QueuedStream` and `H2Send`: a full queue against the release of a sender, the
   receive window, the keep-alive limit and GOAWAY.
2. Within `H11Connection`: 100-continue and the upgrade to h2c, with `ProtocolWrapper`.
3. The dispatcher's lifespan fan-out.

Proofs to follow: `ServesBetween` and `OutcomeTold` of `Worker`; `SingleTimer` of `Quic`; `GivenInOrder` of `WsStream`; `DisconnectedOnce`
and `ServedInTurn` of `H11Connection`.
