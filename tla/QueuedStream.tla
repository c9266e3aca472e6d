---------------------------- MODULE QueuedStream ----------------------------
(***************************************************************************)
(* protocol/queued_stream.py: the bounded queue HTTP/2 and HTTP/3 put      *)
(* between the connection's reader task and one stream.                    *)
(*                                                                         *)
(* Producers call handle(): the reader task with Request, Body* and        *)
(* EndBody, and whichever task closes the stream (the application's on the *)
(* end of a response, the reader's, one whose write failed) with a single  *)
(* StreamClosed.  The consumer task runs _handle(): it pops a queued event,*)
(* awaits stream.handle() and then the event's callbacks, which give the   *)
(* peer back its flow-control window.                                      *)
(*                                                                         *)
(* A step runs from one await to the next.  The await stream.handle() is   *)
(* left to the environment: the step Handled is its return.                *)
(***************************************************************************)
EXTENDS Sequences, Naturals

CONSTANTS
    MaxQueueSize,   \* max_queue_size, 0 for no bound
    MaxQueueBytes,  \* max_queue_bytes, 0 for no bound
    Sizes,          \* the lengths of the data of a Body
    MaxBodies       \* bound: how many Body events the reader offers

ASSUME QueuedStreamAssumption ==
    /\ MaxQueueSize \in Nat
    /\ MaxQueueBytes \in Nat
    /\ Sizes \subseteq Nat
    /\ MaxBodies \in Nat

Producers == {"reader", "closer"}
Consumer == "consumer"
Kinds == {"Request", "Body", "EndBody", "StreamClosed"}

VARIABLES
    trio,           \* TRUE: the trio worker; FALSE: the asyncio worker
    queue,          \* _queue: records [kind, events, callbacks, bytes]
    queuedBytes,    \* _queued_bytes
    closed,         \* _closed
    hasEvents,      \* _has_events
    hasSpace,       \* _has_space
    pc,             \* where each task is: the await it has reached
    held,           \* the event each producer's handle() call is about
    current,        \* `queued` in _handle, its callbacks those still to call
    cpu,            \* the task that has not suspended yet, or NoTask
    request,        \* how much of the request the reader has offered
    bodies,         \* how many Body events it has offered
    closing,        \* StreamClosed has been offered: the stream is popped
    log,            \* history: the accepted events [kind, upto], upto being
                    \* the bytes accepted up to and including that event
    handled,        \* history: the log indices stream.handle() returned for
    acked           \* history: the log indices whose callback was called

INSTANCE EventWrapper WITH Trio <- trio

bufferVars == <<queue, queuedBytes, hasEvents, hasSpace>>
callerVars == <<request, bodies, closing>>
vars == <<trio, queue, queuedBytes, closed, hasEvents, hasSpace, pc, held,
          current, cpu, request, bodies, closing, log, handled, acked>>

Nothing == [kind |-> "None", events |-> <<>>, callbacks |-> <<>>, bytes |-> 0]
NoEvent == [kind |-> "None", size |-> 0]

Upto(events, n) == IF n = 0 THEN 0 ELSE events[n].upto

Init ==
    /\ trio \in BOOLEAN
    /\ queue = <<>> /\ queuedBytes = 0 /\ closed = FALSE
    /\ hasEvents = Reach(NewEvent, Consumer) /\ hasSpace = NewEvent
    /\ pc = [t \in Producers \cup {Consumer} |->
                IF t = Consumer THEN "wait" ELSE "idle"]
    /\ held = [p \in Producers |-> NoEvent]
    /\ current = Nothing
    /\ cpu = CpuAt(Consumer)
    /\ request = "none" /\ bodies = 0 /\ closing = FALSE
    /\ log = <<>> /\ handled = <<>> /\ acked = <<>>

-----------------------------------------------------------------------------
(* handle()                                                                *)

(* H2Protocol gives every Body the callback that acknowledges its data.    *)
CreateQueuedEvent(ev) ==
    LET id == Len(log) + 1
    IN  [kind |-> ev.kind, events |-> <<id>>, bytes |-> ev.size,
         callbacks |-> IF ev.kind = "Body" THEN <<id>> ELSE <<>>]

(* Mutated forms of MergeInto: the size is not counted, the new callback   *)
(* comes first.                                                            *)
MergeForgetsSize(first, second) ==
    [first EXCEPT !.events = @ \o second.events,
                  !.callbacks = @ \o second.callbacks]

MergePrependsCallback(first, second) ==
    [first EXCEPT !.events = @ \o second.events,
                  !.callbacks = second.callbacks \o @,
                  !.bytes = @ + second.bytes]

MergeInto(first, second) ==
    [first EXCEPT !.events = @ \o second.events,
                  !.callbacks = @ \o second.callbacks,
                  !.bytes = @ + second.bytes]

HasCountSpace == MaxQueueSize = 0 \/ Len(queue) < MaxQueueSize

(* Mutated: the new event's own size is left out.                          *)
HasByteSpaceBefore(ev) ==
    \/ MaxQueueBytes = 0
    \/ queue = <<>> /\ queuedBytes = 0
    \/ queuedBytes =< MaxQueueBytes

HasByteSpace(ev) ==
    \/ MaxQueueBytes = 0
    \/ queue = <<>> /\ queuedBytes = 0
    \/ queuedBytes + ev.size =< MaxQueueBytes

CanMerge(ev) ==
    /\ queue # <<>>
    /\ HasByteSpace(ev)
    /\ queue[Len(queue)].kind = "Body" /\ ev.kind = "Body"

(* The event is in the queue: the call goes on to has_events.set().        *)
Accept(p, ev, newQueue) ==
    /\ queue' = newQueue
    /\ queuedBytes' = queuedBytes + ev.size
    /\ log' = Append(log, [kind |-> ev.kind, upto |-> Upto(log, Len(log)) + ev.size])
    /\ hasEvents' = Reach(hasEvents, p)
    /\ pc' = [pc EXCEPT ![p] = "set"]

(* One turn of the loop of handle(); space is has_space as the turn finds  *)
(* it.                                                                     *)
Attempt(p, ev, space) ==
    /\ cpu' = CpuAt(p)
    /\ held' = [held EXCEPT ![p] = ev]
    /\ \/ /\ CanMerge(ev)
          /\ Accept(p, ev, [queue EXCEPT ![Len(queue)] =
                                MergeInto(@, CreateQueuedEvent(ev))])
          /\ hasSpace' = space
       \/ /\ ~CanMerge(ev) /\ HasCountSpace /\ HasByteSpace(ev)
          /\ Accept(p, ev, Append(queue, CreateQueuedEvent(ev)))
          /\ hasSpace' = space
       \/ /\ ~CanMerge(ev) /\ ~(HasCountSpace /\ HasByteSpace(ev))
          /\ hasSpace' = Reach(space, p)
          /\ pc' = [pc EXCEPT ![p] = "wait"]
          /\ UNCHANGED <<queue, queuedBytes, hasEvents, log>>

(* The calls: a Request, any number of Body, an EndBody; none once the     *)
(* stream is popped.  StreamClosed is offered by the task that pops it.    *)
Call(p, ev) ==
    /\ cpu = NoTask /\ pc[p] = "idle" /\ ~closing
    /\ Attempt(p, ev, hasSpace)
    /\ UNCHANGED <<trio, closed, current, handled, acked>>

OfferRequest ==
    /\ request = "none" /\ request' = "open"
    /\ Call("reader", [kind |-> "Request", size |-> 0])
    /\ UNCHANGED <<bodies, closing>>

OfferBody ==
    /\ request = "open"
    /\ bodies < MaxBodies /\ bodies' = bodies + 1
    /\ \E s \in Sizes : Call("reader", [kind |-> "Body", size |-> s])
    /\ UNCHANGED <<request, closing>>

OfferEndBody ==
    /\ request = "open" /\ request' = "ended"
    /\ Call("reader", [kind |-> "EndBody", size |-> 0])
    /\ UNCHANGED <<bodies, closing>>

OfferClosed ==
    /\ request # "none"
    /\ closing' = TRUE
    /\ Call("closer", [kind |-> "StreamClosed", size |-> 0])
    /\ UNCHANGED <<request, bodies>>

(* await has_events.set(), after which handle() returns.                   *)
SetEvents(p) ==
    /\ pc[p] = "set" /\ MayAct(hasEvents, p, cpu)
    /\ hasEvents' = AfterSet(hasEvents, p)
    /\ pc' = [pc EXCEPT ![p] = "idle"]
    /\ held' = [held EXCEPT ![p] = NoEvent]
    /\ cpu' = NoTask
    /\ UNCHANGED <<trio, queue, queuedBytes, closed, hasSpace, current, callerVars,
                   log, handled, acked>>

(* await has_space.wait() parks, or returns and reaches has_space.clear(). *)
ParkForSpace(p) ==
    /\ pc[p] = "wait" /\ Blocks(hasSpace, p, cpu)
    /\ hasSpace' = AfterBlock(hasSpace, p)
    /\ cpu' = NoTask
    /\ UNCHANGED <<trio, queue, queuedBytes, closed, hasEvents, pc, held, current,
                   callerVars, log, handled, acked>>

SpaceSeen(p) ==
    /\ pc[p] = "wait" /\ Returns(hasSpace, p, cpu)
    /\ hasSpace' = Reach(AfterWait(hasSpace, p), p)
    /\ pc' = [pc EXCEPT ![p] = "clear"]
    /\ cpu' = CpuAt(p)
    /\ UNCHANGED <<trio, queue, queuedBytes, closed, hasEvents, held, current,
                   callerVars, log, handled, acked>>

(* await has_space.clear(), then the loop of handle() again.               *)
Retry(p) ==
    /\ pc[p] = "clear" /\ MayAct(hasSpace, p, cpu)
    /\ Attempt(p, held[p], AfterClear(hasSpace, p))
    /\ UNCHANGED <<trio, closed, current, callerVars, handled, acked>>

Producer(p) == SetEvents(p) \/ ParkForSpace(p) \/ SpaceSeen(p) \/ Retry(p)

-----------------------------------------------------------------------------
(* _handle()                                                               *)

SpaceFreed(n, bytes) ==
    \/ MaxQueueSize > 0 /\ n < MaxQueueSize
    \/ MaxQueueBytes > 0 /\ bytes < MaxQueueBytes

(* Mutated: the flag is left set over an empty queue.                      *)
ToHandleUncleared(left, events) ==
    /\ pc' = [pc EXCEPT ![Consumer] = "handle"]
    /\ hasEvents' = events
    /\ cpu' = NoTask

(* With the event popped: to has_events.clear() if it was the last, else   *)
(* straight to stream.handle().                                            *)
ToHandle(left, events) ==
    IF left = <<>>
    THEN /\ pc' = [pc EXCEPT ![Consumer] = "clear"]
         /\ hasEvents' = Reach(events, Consumer)
         /\ cpu' = CpuAt(Consumer)
    ELSE /\ pc' = [pc EXCEPT ![Consumer] = "handle"]
         /\ hasEvents' = events
         /\ cpu' = NoTask

(* The head of `while self._queue`; events is has_events as it finds it.   *)
Pop(events) ==
    /\ queue # <<>>
    /\ current' = Head(queue)
    /\ queue' = Tail(queue)
    /\ queuedBytes' = queuedBytes - Head(queue).bytes
    /\ IF SpaceFreed(Len(queue) - 1, queuedBytes - Head(queue).bytes)
       THEN /\ pc' = [pc EXCEPT ![Consumer] = "set"]
            /\ hasSpace' = Reach(hasSpace, Consumer)
            /\ hasEvents' = events
            /\ cpu' = CpuAt(Consumer)
       ELSE /\ ToHandle(Tail(queue), events)
            /\ UNCHANGED hasSpace

ToWait(events) ==
    /\ queue = <<>>
    /\ current' = Nothing
    /\ pc' = [pc EXCEPT ![Consumer] = "wait"]
    /\ hasEvents' = Reach(events, Consumer)
    /\ cpu' = CpuAt(Consumer)
    /\ UNCHANGED <<queue, queuedBytes, hasSpace>>

ParkForEvents ==
    /\ pc[Consumer] = "wait" /\ Blocks(hasEvents, Consumer, cpu)
    /\ hasEvents' = AfterBlock(hasEvents, Consumer)
    /\ cpu' = NoTask
    /\ UNCHANGED <<trio, queue, queuedBytes, closed, hasSpace, pc, held, current,
                   callerVars, log, handled, acked>>

EventsSeen ==
    /\ pc[Consumer] = "wait" /\ Returns(hasEvents, Consumer, cpu)
    /\ LET events == AfterWait(hasEvents, Consumer)
       IN  Pop(events) \/ ToWait(events)
    /\ UNCHANGED <<trio, closed, held, callerVars, log, handled, acked>>

(* await has_space.set(); the queue is tested again only after it.         *)
SetSpace ==
    /\ pc[Consumer] = "set" /\ MayAct(hasSpace, Consumer, cpu)
    /\ hasSpace' = AfterSet(hasSpace, Consumer)
    /\ ToHandle(queue, hasEvents)
    /\ UNCHANGED <<trio, queue, queuedBytes, closed, held, current, callerVars, log,
                   handled, acked>>

ClearEvents ==
    /\ pc[Consumer] = "clear" /\ MayAct(hasEvents, Consumer, cpu)
    /\ hasEvents' = AfterClear(hasEvents, Consumer)
    /\ pc' = [pc EXCEPT ![Consumer] = "handle"]
    /\ cpu' = NoTask
    /\ UNCHANGED <<trio, queue, queuedBytes, closed, hasSpace, held, current,
                   callerVars, log, handled, acked>>

(* The callbacks are done: return, or take the next event.                 *)
Finish ==
    /\ closed' = (closed \/ current.kind = "StreamClosed")
    /\ \/ /\ closed' /\ queue = <<>>
          /\ pc' = [pc EXCEPT ![Consumer] = "done"]
          /\ current' = Nothing
          /\ UNCHANGED <<bufferVars, cpu>>
       \/ /\ ~(closed' /\ queue = <<>>)
          /\ Pop(hasEvents) \/ ToWait(hasEvents)

(* await stream.handle(queued.materialize()) returns.                      *)
Handled ==
    /\ pc[Consumer] = "handle" /\ cpu = NoTask
    /\ handled' = handled \o current.events
    /\ IF current.callbacks = <<>>
       THEN Finish
       ELSE /\ pc' = [pc EXCEPT ![Consumer] = "callback"]
            /\ UNCHANGED <<bufferVars, closed, current, cpu>>
    /\ UNCHANGED <<trio, held, callerVars, log, acked>>

(* await callback() returns.                                               *)
Callback ==
    /\ pc[Consumer] = "callback" /\ cpu = NoTask
    /\ acked' = Append(acked, Head(current.callbacks))
    /\ IF Tail(current.callbacks) = <<>>
       THEN Finish
       ELSE /\ current' = [current EXCEPT !.callbacks = Tail(@)]
            /\ UNCHANGED <<bufferVars, closed, pc, cpu>>
    /\ UNCHANGED <<trio, held, callerVars, log, handled>>

Consume == ParkForEvents \/ EventsSeen \/ SetSpace \/ ClearEvents
              \/ Handled \/ Callback

-----------------------------------------------------------------------------
Next ==
    \/ OfferRequest \/ OfferBody \/ OfferEndBody \/ OfferClosed
    \/ \E p \in Producers : Producer(p)
    \/ Consume

Spec == Init /\ [][Next]_vars

(* The event loop runs every task that is ready; stream.handle() and the   *)
(* callbacks return (the application keeps receiving, the socket drains).  *)
Fairness == WF_vars(Consume) /\ \A p \in Producers : WF_vars(Producer(p))

FairSpec == Spec /\ Fairness

-----------------------------------------------------------------------------
QueuedEvents == [kind : Kinds, events : Seq(Nat), callbacks : Seq(Nat),
                 bytes : Nat]
Tasks == Producers \cup {Consumer}

(* Every variable of QueuedStream and of its callers has its type.         *)
TypeOK ==
    /\ trio \in BOOLEAN
    /\ queue \in Seq(QueuedEvents) /\ queuedBytes \in Nat
    /\ closed \in BOOLEAN
    /\ hasEvents \in Events(Tasks) /\ hasSpace \in Events(Tasks)
    /\ pc \in [Tasks -> {"idle", "set", "wait", "clear", "handle", "callback",
                         "done"}]
    /\ held \in [Producers -> [kind : Kinds \cup {"None"}, size : Nat]]
    /\ current \in QueuedEvents \cup {Nothing}
    /\ cpu \in Tasks \cup {NoTask}
    /\ request \in {"none", "open", "ended"} /\ bodies \in 0..MaxBodies
    /\ closing \in BOOLEAN
    /\ log \in Seq([kind : Kinds, upto : Nat])
    /\ handled \in Seq(Nat) /\ acked \in Seq(Nat)

(* Memory bound: the queue never holds more events than max_queue_size,    *)
(* nor more bytes than max_queue_bytes unless a single run of data that    *)
(* was let into an empty queue is alone too large.                         *)
Bounded ==
    /\ MaxQueueSize > 0 => Len(queue) =< MaxQueueSize
    /\ MaxQueueBytes > 0 => \/ queuedBytes =< MaxQueueBytes
                            \/ Len(queue) = 1

(* The log index of the last event the consumer has popped, and of the     *)
(* last event merged into the i-th entry of the queue.                     *)
Popped == Len(handled) + (IF pc[Consumer] \in {"set", "clear", "handle"}
                          THEN Len(current.events) ELSE 0)

End(entries, popped, i) ==
    IF i = 0 THEN popped ELSE entries[i].events[Len(entries[i].events)]

(* The byte counter that decides who may enter is exact: it is what was    *)
(* accepted and not yet popped, so it never drifts over a long connection. *)
ByteCount == queuedBytes = Upto(log, Len(log)) - Upto(log, Popped)

(* The queue keeps within its limits, by a counter that is exact.          *)
WithinLimits == Bounded /\ ByteCount

(* The consumer handles accepted events in the order they were accepted,   *)
(* losing and repeating none, through every merge: what it has handled,    *)
(* what it holds and what is queued are consecutive.                       *)
Consecutive(events, first) ==
    /\ events # <<>>
    /\ \A i \in 1..Len(events) : events[i] = first + i - 1

InOrder ==
    /\ \A i \in 1..Len(handled) : handled[i] = i
    /\ pc[Consumer] \in {"set", "clear", "handle"} =>
         Consecutive(current.events, Len(handled) + 1)
    /\ \A i \in 1..Len(queue) : 
         Consecutive(queue[i].events, End(queue, Popped, i-1) + 1)
    /\ End(queue, Popped, Len(queue)) = Len(log)

(* A callback is called once, in order, and only for data the stream has   *)
(* finished handling: the peer's window never reopens early or twice.      *)
AckedOnce ==
    /\ \A i \in 1..Len(acked) :
         acked[i] =< Len(handled) /\ log[acked[i]].kind = "Body"
    /\ \A i \in 1..(Len(acked) - 1) : acked[i] < acked[i+1]

(* When the consumer is about to wait, or has returned, nothing it handled *)
(* is left to acknowledge.                                                 *)
AllAcked ==
    pc[Consumer] \in {"wait", "done"} =>
        \A i \in 1..Len(handled) :
            log[i].kind = "Body" => \E j \in 1..Len(acked) : acked[j] = i

(* The consumer is only let past has_events.wait() when there is an event  *)
(* to pop: a flag left set over an empty queue would make `while True`     *)
(* spin, under asyncio without ever giving the event loop back.            *)
NoSpin ==
    pc[Consumer] = "wait" /\ Returns(hasEvents, Consumer, cpu) => queue # <<>>

(* An event in the queue is never out of sight of a consumer that waits:   *)
(* the flag is set, or a producer is about to set it.                      *)
NoLostEvent ==
    pc[Consumer] = "wait" /\ queue # <<>> =>
        \/ hasEvents.set
        \/ \E p \in Producers : pc[p] = "set"

(* The consumer that waits is woken exactly when there is something to pop.*)
WakesExactly == NoSpin /\ NoLostEvent

(* What is left to a queue nobody reads any more is at most the one event  *)
(* whose handle() call was blocked when the stream was closed.             *)
AtMostOneStranded ==
    pc[Consumer] = "done" => Len(log) - Len(handled) =< 1

(* What was handled is acknowledged, once each, in order and in time, and  *)
(* the end of the stream keeps at most one event from it.                  *)
Acked == AckedOnce /\ AllAcked /\ AtMostOneStranded

(* The queue, with its merging and its two bounds, is a bounded first-in   *)
(* first-out channel.                                                      *)
Fifo == INSTANCE BoundedFifo
            WITH Sizes <- Sizes \cup {0}, MaxBytes <- MaxQueueBytes,
                 taken <- Popped
ImplementsFifo == Fifo!FifoSpec

(* Every call of handle() returns, however full the queue was and whoever  *)
(* else was waiting: no wake-up is lost between two blocked producers; and *)
(* once StreamClosed is accepted the consumer task ends, so that the task  *)
(* group of the connection can end.                                        *)
CallsReturn ==
    /\ \A p \in Producers : pc[p] # "idle" ~> pc[p] = "idle"
    /\ closing ~> pc[Consumer] = "done"
=============================================================================
