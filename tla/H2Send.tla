------------------------------- MODULE H2Send -------------------------------
(***************************************************************************)
(* protocol/h2_send.py: the scheduler that shares one HTTP/2 connection's  *)
(* flow-control window among the responses of its streams, and the calls   *)
(* protocol/h2.py makes into it.                                           *)
(*                                                                         *)
(* One task per stream runs its application, whose sends fill a            *)
(* StreamBuffer and block while it is full.  The sender task (run) moves   *)
(* data from the buffers to the connection as far as the peer's windows    *)
(* allow.  The reader task hands out the window updates, changes of        *)
(* settings, resets and the end of the connection.                         *)
(*                                                                         *)
(* A task that awaits events has them in `todo`, in order, and is at the   *)
(* place in the code it comes to after them.  EventWrapper says which      *)
(* awaits suspend: under trio every one, under asyncio a wait() on an unset*)
(* event only; `cpu` is the task that has not suspended yet.               *)
(***************************************************************************)
EXTENDS Integers, Sequences

CONSTANTS
    Streams,        \* the streams a client or a push may open
    Sizes,          \* the lengths of the data of a Body
    HighWater,      \* BUFFER_HIGH_WATER
    MaxFrame,       \* max_outbound_frame_size
    MaxBatch,       \* MAX_BATCHED_SENDS
    MaxWindow,      \* bound: the peer's windows
    MaxShrinks,     \* bound: how often the peer lowers INITIAL_WINDOW_SIZE
    Worlds          \* records [trio, may, bytes], one per behaviour: the
                    \* runtime, what may happen, and a bound on the bytes of a
                    \* response

\* The client resets a stream, lowers its initial window, sends the data of its
\* requests or is lost; an application stops before its response is complete, or
\* pushes; the server stops.
Happenings == {"reset", "shrink", "data", "lost", "abandon", "push", "stop"}

ASSUME H2SendAssumption ==
    /\ Streams \cap {"reader", "sender", "consumers", "none"} = {}
    /\ Sizes \subseteq Nat /\ HighWater \in Nat \ {0} /\ MaxFrame \in Nat \ {0}
    /\ MaxBatch \in Nat \ {0} /\ MaxWindow \in Nat /\ MaxShrinks \in Nat
    /\ Worlds \subseteq [trio : BOOLEAN, may : SUBSET Happenings, bytes : Nat]

Reader == "reader"
Sender == "sender"
Tasks == Streams \cup {Reader, Sender}

\* The tasks that give the requests' data to the applications and acknowledge
\* it: one for all of them.
Consumers == "consumers"

VARIABLES
    world,          \* what is fixed for a behaviour
    terminated,     \* context.terminated is set
    known,          \* H2Protocol.streams, in order of insertion
    buffers,        \* stream_buffers: [present, size, complete] per stream;
                    \* the buffer outlives its entry in the dict
    active,         \* the streams of the priority tree that are not blocked
    window,         \* the peer's windows, of the connection and per stream
    shrinks,        \* how often it lowered its initial window
    resets,         \* the streams it has reset
    closed,         \* H2Protocol.closed
    unflushed,      \* the streams with frames data_to_send() would return
    inHand,         \* the streams with frames a task has taken from there and
                    \* not yet handed to the socket
    pc, todo,       \* where each task comes to after the events it awaits
    cpu,
    events,         \* has_data, and each stream's _is_empty, _paused, _finished
    batch,          \* the locals of _send_ready_batch and _send_data
    leaving,        \* the streams the reader has still to close
    touched,        \* the streams a window event it handles is about
    response        \* history, per stream: [opened, abandoned, written, sent,
                    \* ended], ended counting its END_STREAM flags

INSTANCE EventWrapper WITH Trio <- world.trio

May(what) == what \in world.may

dataVars == <<buffers, active, window, unflushed, inHand, response>>
readerVars == <<known, shrinks, resets, closed, leaving, touched>>
taskVars == <<pc, todo, cpu, events>>
vars == <<world, terminated, dataVars, readerVars, taskVars, batch>>

HasData == <<"connection", "has_data">>
IsEmpty(s) == <<s, "_is_empty">>
Paused(s) == <<s, "_paused">>
Finished(s) == <<s, "_finished">>
EventIds == {HasData} \cup {<<s, e>> : s \in Streams,
                                       e \in {"_is_empty", "_paused", "_finished"}}

Set(e) == [do |-> "set", on |-> e]
Clear(e) == [do |-> "clear", on |-> e]
WaitFor(e) == [do |-> "wait", on |-> e]
\* set() or clear() of an event nobody waits for: _is_empty, as drain() is unused.
Touch(e) == [do |-> "touch", on |-> e]

-----------------------------------------------------------------------------
(* How a task goes on.                                                     *)

\* Awaits of something else than an event: the application's next send, the
\* socket, the stream's queue.
Suspended == {"none", "app", "responding", "promising", "popping", "parting", "over",
              "read", "handled", "update", "flushing", "written"}

At(t, place) == pc[t] = place /\ todo[t] = <<>> /\ cpu \in {NoTask, t}

Go(t, place) ==
    /\ pc' = [pc EXCEPT ![t] = place]
    /\ cpu' = IF place \in Suspended THEN NoTask ELSE t
    /\ UNCHANGED <<todo, events>>

Await(t, ops, place) ==
    /\ pc' = [pc EXCEPT ![t] = place]
    /\ todo' = [todo EXCEPT ![t] = ops]
    /\ events' = [events EXCEPT ![Head(ops).on] = Reach(@, t)]
    /\ cpu' = CpuAt(t)

\* The first await of t returns, leaving its event as e.
Proceed(t, e) ==
    LET rest == Tail(todo[t])
        left == [events EXCEPT ![Head(todo[t]).on] = e]
    IN  /\ todo' = [todo EXCEPT ![t] = rest]
        /\ IF rest = <<>>
           THEN /\ events' = left
                /\ cpu' = IF pc[t] \in Suspended THEN NoTask ELSE t
           ELSE /\ events' = [left EXCEPT ![Head(rest).on] = Reach(@, t)]
                /\ cpu' = CpuAt(t)
        /\ UNCHANGED pc

EventStep(t) ==
    /\ todo[t] # <<>> /\ cpu \in {NoTask, t}
    /\ LET do == Head(todo[t]).do
           on == Head(todo[t]).on
           e == events[on]
       IN  \/ do = "set" /\ MayAct(e, t, cpu) /\ Proceed(t, AfterSet(e, t))
           \/ do = "clear" /\ MayAct(e, t, cpu) /\ Proceed(t, AfterClear(e, t))
           \/ do = "touch" /\ MayAct(e, t, cpu) /\ Proceed(t, AfterClear(e, t))
           \/ do = "wait" /\ Returns(e, t, cpu) /\ Proceed(t, AfterWait(e, t))
           \/ /\ do = "wait" /\ Blocks(e, t, cpu)
              /\ events' = [events EXCEPT ![on] = AfterBlock(e, t)]
              /\ cpu' = NoTask
              /\ UNCHANGED <<pc, todo>>
    /\ UNCHANGED <<world, terminated, dataVars, readerVars, batch>>

\* _flush: t takes whatever the connection has to send and awaits the socket;
\* meanwhile another task's flush may find nothing left to take.
Take(t, place) ==
    /\ inHand' = [inHand EXCEPT ![t] = unflushed]
    /\ unflushed' = {}
    /\ Go(t, place)

HandOver(t) == inHand' = [inHand EXCEPT ![t] = {}] /\ UNCHANGED unflushed

FlushKeeps ==
    UNCHANGED <<world, terminated, buffers, active, window, response, readerVars,
                batch>>

-----------------------------------------------------------------------------
(* StreamBuffer.                                                           *)

LowWater == HighWater \div 2

NewBuffer == [present |-> TRUE, size |-> 0, complete |-> FALSE]

\* Mutant: off by one.
FullLate(s) == buffers[s].size > HighWater

Full(s) == buffers[s].size >= HighWater

\* H2SendScheduler.close_stream, with StreamBuffer.close.
\* Mutant: nobody who waits for space is woken.
CloseStreamQuietly(t, s, place) ==
    IF buffers[s].present
    THEN /\ buffers' = [buffers EXCEPT ![s] = [present |-> FALSE, size |-> 0,
                                               complete |-> TRUE]]
         /\ active' = active \ {s}
         /\ Await(t, <<Touch(IsEmpty(s)), Set(Finished(s)), Set(HasData)>>, place)
    ELSE Go(t, place) /\ UNCHANGED <<buffers, active>>

CloseStream(t, s, place) ==
    IF buffers[s].present
    THEN /\ buffers' = [buffers EXCEPT ![s] = [present |-> FALSE, size |-> 0,
                                               complete |-> TRUE]]
         /\ active' = active \ {s}
         /\ Await(t, <<Touch(IsEmpty(s)), Set(Paused(s)), Set(Finished(s)),
                       Set(HasData)>>, place)
    ELSE Go(t, place) /\ UNCHANGED <<buffers, active>>

-----------------------------------------------------------------------------
(* The application of stream s: H2Protocol.stream_send.                    *)

\* A Response or an InformationalResponse; the connection refuses its headers
\* once the peer has reset the stream.
Respond(s) ==
    /\ At(s, "app") /\ response[s].written = 0 /\ s \notin resets
    /\ Take(s, "responding")
    /\ FlushKeeps

Responded(s) ==
    /\ At(s, "responding")
    /\ HandOver(s) /\ Go(s, "app")
    /\ FlushKeeps

\* buffer(): push, up to the clear of _is_empty.
Send(s) ==
    /\ At(s, "app") /\ buffers[s].present /\ ~buffers[s].complete
    /\ \E n \in Sizes :
          /\ response[s].written + n <= world.bytes
          /\ buffers' = [buffers EXCEPT ![s].size = @ + n]
          /\ response' = [response EXCEPT ![s].written = @ + n]
    /\ Await(s, <<Touch(IsEmpty(s))>>, "pushed")
    /\ UNCHANGED <<world, terminated, active, window, unflushed, inHand,
                   readerVars, batch>>

\* ... and the rest: unblock, wake the sender, wait for space.
Pushed(s) ==
    /\ At(s, "pushed")
    /\ IF buffers[s].present
       THEN /\ active' = active \cup {s}
            /\ Await(s, <<Set(HasData)>> \o
                        (IF Full(s) THEN <<WaitFor(Paused(s)), Clear(Paused(s))>>
                                    ELSE <<>>), "app")
       ELSE Go(s, "app") /\ UNCHANGED active
    /\ UNCHANGED <<world, terminated, buffers, window, unflushed, inHand, response,
                   readerVars, batch>>

\* end() and trailers(), a KeyError once the stream's buffer is gone.
End(s) ==
    /\ At(s, "app")
    /\ IF buffers[s].present
       THEN /\ buffers' = [buffers EXCEPT ![s].complete = TRUE]
            /\ active' = active \cup {s}
            /\ Await(s, <<Set(HasData), WaitFor(Finished(s))>>, "ended")
       ELSE Go(s, "ended") /\ UNCHANGED <<buffers, active>>
    /\ UNCHANGED <<world, terminated, window, unflushed, inHand, response,
                   readerVars, batch>>

\* The application fails or returns in the middle of its response.
Abandon(s) ==
    /\ At(s, "app") /\ May("abandon")
    /\ response' = [response EXCEPT ![s].abandoned = TRUE]
    /\ Go(s, "ended")
    /\ UNCHANGED <<world, terminated, buffers, active, window, unflushed, inHand,
                   readerVars, batch>>

\* The stream leaves H2Protocol.streams, if it is still there.
Forget(s) ==
    IF \E i \in DOMAIN known : known[i] = s
    THEN \E i \in DOMAIN known :
            /\ known[i] = s
            /\ known' = SubSeq(known, 1, i - 1) \o SubSeq(known, i + 1, Len(known))
    ELSE UNCHANGED known

\* StreamClosed: H2Protocol._close_stream, up to the await of the queue.
PopStream(s) ==
    /\ At(s, "ended")
    /\ Forget(s)
    /\ Go(s, "popping")
    /\ UNCHANGED <<world, terminated, dataVars, shrinks, resets, closed, leaving,
                   touched, batch>>

AppPopped(s) ==
    /\ At(s, "popping")
    /\ CloseStream(s, s, "closed")
    /\ UNCHANGED <<world, terminated, window, unflushed, inHand, response,
                   readerVars, batch>>

\* ... whoever leaves the connection idle once the server stops says goodbye.
Depart(s) ==
    /\ At(s, "closed")
    /\ IF known = <<>> /\ terminated
       THEN Take(s, "parting")
       ELSE Go(s, "over") /\ UNCHANGED <<unflushed, inHand>>
    /\ FlushKeeps

Departed(s) ==
    /\ At(s, "parting")
    /\ HandOver(s) /\ Go(s, "over")
    /\ FlushKeeps

\* _create_stream, by the reader for a request, by an application for a push.
Open(s) ==
    /\ ~response[s].opened
    /\ known' = Append(known, s)
    /\ buffers' = [buffers EXCEPT ![s] = NewBuffer]
    /\ response' = [response EXCEPT ![s].opened = TRUE]
    /\ UNCHANGED <<world, terminated, active, window, unflushed, shrinks, resets, closed,
                   leaving, touched, batch>>

\* _create_server_push: the promise is flushed, then the stream is created.
Promise(s) ==
    /\ May("push") /\ At(s, "app") /\ s \notin resets
    /\ \A r \in Streams : pc[r] # "promising"
    /\ \E r \in Streams : ~response[r].opened
    /\ Take(s, "promising")
    /\ FlushKeeps

Promised(s) ==
    /\ At(s, "promising")
    /\ \E r \in Streams \ {s} :
          /\ Open(r)
          /\ pc' = [pc EXCEPT ![s] = "app", ![r] = "app"]
    /\ HandOver(s)
    /\ cpu' = NoTask /\ UNCHANGED <<todo, events>>

AppResumes(s) ==
    \/ EventStep(s) \/ Responded(s) \/ Pushed(s) \/ Promised(s)
    \/ PopStream(s) \/ AppPopped(s) \/ Depart(s) \/ Departed(s)
App(s) == Respond(s) \/ Send(s) \/ End(s) \/ Abandon(s) \/ Promise(s) \/ AppResumes(s)

-----------------------------------------------------------------------------
(* The reader: H2Protocol._handle_events and handle(Closed).               *)

ReaderKeeps ==
    UNCHANGED <<world, terminated, buffers, active, unflushed, inHand, response, batch>>

RequestReceived ==
    /\ At(Reader, "read") /\ ~closed /\ ~terminated
    /\ \E s \in Streams :
          /\ \A r \in Streams : pc[r] # "promising"
          /\ Open(s)
          /\ pc' = [pc EXCEPT ![s] = "app", ![Reader] = "handled"]
    /\ cpu' = NoTask /\ UNCHANGED <<inHand, todo, events>>

\* What concerns no response: the data of a request, or one that is refused
\* because the server stops.
OtherReceived ==
    /\ At(Reader, "read")
    /\ May("data") \/ terminated
    /\ Go(Reader, "handled")
    /\ UNCHANGED <<window, known, shrinks, resets, closed, leaving, touched>>
    /\ ReaderKeeps

\* receive_data applies a window update or a change of settings at once; the
\* event for it may come after others whose handling suspends.
Windowed(streams) ==
    /\ touched' = streams
    /\ Go(Reader, "update")
    /\ UNCHANGED <<known, resets, closed, leaving>> /\ ReaderKeeps

Grant(s) ==
    /\ At(Reader, "read") /\ response[s].opened
    /\ window.of[s] < MaxWindow
    /\ window' = [window EXCEPT !.of[s] = @ + 1]
    /\ UNCHANGED shrinks
    /\ Windowed({s})

GrantAll ==
    /\ At(Reader, "read") /\ window.all < MaxWindow
    /\ window' = [window EXCEPT !.all = @ + 1]
    /\ UNCHANGED shrinks
    /\ Windowed(Streams)

Shrink ==
    /\ At(Reader, "read") /\ May("shrink") /\ shrinks < MaxShrinks
    /\ shrinks' = shrinks + 1
    /\ window' = [window EXCEPT !.of = [s \in Streams |-> @[s] - 1]]
    /\ Windowed(Streams)

\* window_updated.
\* Mutant: the sender is woken, the streams stay blocked.
UpdateBlocked ==
    /\ At(Reader, "update")
    /\ touched' = {}
    /\ Await(Reader, <<Set(HasData)>>, "flush")
    /\ UNCHANGED <<world, terminated, dataVars, known, shrinks, resets, closed,
                   leaving, batch>>

Update ==
    /\ At(Reader, "update")
    /\ active' = active \cup {s \in touched : buffers[s].present}
    /\ touched' = {}
    /\ Await(Reader, <<Set(HasData)>>, "flush")
    /\ UNCHANGED <<world, terminated, buffers, window, unflushed, inHand, response, known, shrinks,
                   resets, closed, leaving, batch>>

\* The peer resets a stream, or the connection is lost: both close streams.
StreamReset(s) ==
    /\ At(Reader, "read") /\ May("reset")
    /\ response[s].opened /\ response[s].ended = 0 /\ s \notin resets
    /\ resets' = resets \cup {s}
    /\ leaving' = <<s>>
    /\ Go(Reader, "closing")
    /\ UNCHANGED <<known, shrinks, closed, touched, window>> /\ ReaderKeeps

Lost ==
    /\ At(Reader, "read") /\ May("lost")
    /\ closed' = TRUE
    /\ leaving' = known
    /\ Go(Reader, "closing")
    /\ UNCHANGED <<known, shrinks, resets, touched, window>> /\ ReaderKeeps

\* _close_stream of the next of them, then wake() or window_updated().
Closing ==
    /\ At(Reader, "closing") /\ leaving # <<>>
    /\ Forget(Head(leaving))
    /\ Go(Reader, "popping")
    /\ UNCHANGED <<window, shrinks, resets, closed, leaving, touched>> /\ ReaderKeeps

ReaderPopped ==
    /\ At(Reader, "popping")
    /\ CloseStream(Reader, Head(leaving), "closing")
    /\ leaving' = Tail(leaving)
    /\ UNCHANGED <<world, terminated, window, unflushed, inHand, response, known, shrinks, resets,
                   closed, touched, batch>>

Closed ==
    /\ At(Reader, "closing") /\ leaving = <<>>
    /\ Await(Reader, <<Set(HasData)>>, IF closed THEN "over" ELSE "flush")
    /\ UNCHANGED <<window, known, shrinks, resets, closed, leaving, touched>>
    /\ ReaderKeeps

\* _flush, at the end of _handle_events.
ReaderFlush ==
    /\ At(Reader, "flush") \/ At(Reader, "handled")
    /\ \/ Take(Reader, "flushing")
       \/ unflushed = {} /\ Go(Reader, "read") /\ UNCHANGED <<unflushed, inHand>>
    /\ FlushKeeps

ReaderFlushed ==
    /\ At(Reader, "flushing")
    /\ HandOver(Reader) /\ Go(Reader, "read")
    /\ FlushKeeps

ReaderResumes ==
    \/ EventStep(Reader) \/ Update \/ Closing \/ ReaderPopped \/ Closed
    \/ ReaderFlush \/ ReaderFlushed

ReaderStep ==
    \/ RequestReceived \/ OtherReceived \/ GrantAll \/ Shrink \/ Lost \/ ReaderResumes
    \/ \E s \in Streams : Grant(s) \/ StreamReset(s)

-----------------------------------------------------------------------------
(* The others: the tasks that acknowledge the data of requests, and the end  *)
(* of the server.                                                          *)

OthersKeep ==
    UNCHANGED <<world, buffers, active, window, response, readerVars, taskVars,
                batch>>

\* _acknowledge_data, which flushes; several of them may wait for the socket.
Acknowledge ==
    /\ May("data") /\ cpu = NoTask
    /\ inHand' = [inHand EXCEPT ![Consumers] = @ \cup unflushed]
    /\ unflushed' = {}
    /\ UNCHANGED terminated /\ OthersKeep

Acknowledged(s) ==
    /\ cpu = NoTask /\ s \in inHand[Consumers]
    /\ inHand' = [inHand EXCEPT ![Consumers] = @ \ {s}]
    /\ UNCHANGED <<terminated, unflushed>> /\ OthersKeep

Terminate ==
    /\ May("stop") /\ cpu = NoTask /\ ~terminated
    /\ terminated' = TRUE
    /\ UNCHANGED <<unflushed, inHand>> /\ OthersKeep

OthersStep == Acknowledge \/ Terminate \/ \E s \in Streams : Acknowledged(s)

-----------------------------------------------------------------------------
(* The sender: run, _send_ready_batch and _send_data.                      *)

NoBatch == [stream |-> NoTask, data |-> 0, sends |-> 0, flush |-> FALSE,
            finished |-> <<>>]

SenderIdles ==
    /\ At(Sender, "next")
    /\ IF closed THEN Go(Sender, "over")
       ELSE active = {} /\ Await(Sender, <<WaitFor(HasData), Clear(HasData)>>, "next")
    /\ UNCHANGED <<world, terminated, dataVars, readerVars, batch>>

\* next(self.priority): any stream that is not blocked.
Pick(s) ==
    /\ s \in active
    /\ \/ At(Sender, "next") /\ ~closed
       \/ At(Sender, "sent") /\ batch.sends < MaxBatch
    /\ batch' = [batch EXCEPT !.stream = s, !.sends = @ + 1]
    /\ Go(Sender, "send")
    /\ UNCHANGED <<world, terminated, dataVars, readerVars>>

\* The end of the batch, by DeadlockError or the limit.
\* Mutant: the buffers are finished without the flush.
BatchEndsUnflushed ==
    /\ At(Sender, "sent")
    /\ active = {} \/ batch.sends = MaxBatch
    /\ Go(Sender, "written")
    /\ UNCHANGED <<world, terminated, dataVars, readerVars, batch>>

BatchEnds ==
    /\ At(Sender, "sent")
    /\ active = {} \/ batch.sends = MaxBatch
    /\ IF batch.flush /\ unflushed # {}
       THEN Take(Sender, "written")
       ELSE Go(Sender, "finish") /\ UNCHANGED <<unflushed, inHand>>
    /\ FlushKeeps

FinishBatch ==
    /\ At(Sender, "written") \/ At(Sender, "finish")
    /\ batch' = NoBatch
    /\ IF batch.finished = <<>> THEN Go(Sender, "next")
       ELSE Await(Sender, [i \in DOMAIN batch.finished |-> Set(Finished(batch.finished[i]))],
                  "next")
    /\ HandOver(Sender)
    /\ UNCHANGED <<world, terminated, buffers, active, window, response, readerVars>>

Least(a, b) == IF a < b THEN a ELSE b
Most(a, b) == IF a > b THEN a ELSE b

FlowWindow(s) == Least(window.all, window.of[s])

Frame(s) == Most(0, Least(FlowWindow(s), MaxFrame))

Length(s) == Least(buffers[s].size, Frame(s))

\* What pop sets on the way, left being the size it leaves.
PopSets(s, n, left) ==
    (IF n > 0 /\ left <= LowWater THEN <<Set(Paused(s))>> ELSE <<>>) \o
    (IF left = 0 THEN <<Touch(IsEmpty(s))>> ELSE <<>>)

\* _send_data up to the end of pop; local_flow_control_window may raise once
\* the peer has reset the stream.
Pop ==
    LET s == batch.stream
        n == Length(s)
        sets == PopSets(s, n, buffers[s].size - n)
    IN  /\ At(Sender, "send")
        /\ \/ /\ ~buffers[s].present
              /\ Go(Sender, "sent")
              /\ UNCHANGED <<buffers, active, batch>>
           \/ /\ buffers[s].present /\ s \in resets
              /\ CloseStream(Sender, s, "sent")
              /\ UNCHANGED batch
           \/ /\ buffers[s].present
              /\ buffers' = [buffers EXCEPT ![s].size = @ - n]
              /\ batch' = [batch EXCEPT !.data = n]
              /\ IF sets = <<>> THEN Go(Sender, "popped") ELSE Await(Sender, sets, "popped")
              /\ UNCHANGED active
        /\ UNCHANGED <<world, terminated, window, unflushed, inHand, response,
                       readerVars>>

\* StreamBuffer.complete.
\* Mutant: what is buffered is forgotten.
CompleteEarly(s) == buffers[s].complete

Complete(s) == buffers[s].complete /\ buffers[s].size = 0

\* The connection refuses a frame: the window has shrunk since it was read, or
\* the peer has reset the stream.
Refused(s) ==
    \/ batch.data > Most(0, FlowWindow(s))
    \/ s \in resets /\ (batch.data > 0 \/ Complete(s))

SendData ==
    LET s == batch.stream
        ends == Complete(s)
    IN  /\ At(Sender, "popped") /\ buffers[s].present /\ ~Refused(s)
        /\ window' = [all |-> window.all - batch.data,
                      of |-> [window.of EXCEPT ![s] = @ - batch.data]]
        /\ response' = [response EXCEPT ![s].sent = @ + batch.data,
                                        ![s].ended = IF ends THEN @ + 1 ELSE @]
        /\ active' = IF batch.data = 0 \/ ends THEN active \ {s} ELSE active
        /\ buffers' = [buffers EXCEPT ![s].present = ~ends]
        /\ unflushed' = IF batch.data > 0 \/ ends THEN unflushed \cup {s} ELSE unflushed
        /\ batch' = [batch EXCEPT !.flush = @ \/ batch.data > 0 \/ ends,
                                  !.finished = IF ends THEN Append(@, s) ELSE @]
        /\ Go(Sender, "sent")
        /\ UNCHANGED <<world, terminated, inHand, readerVars>>

NotSent ==
    LET s == batch.stream IN
    /\ At(Sender, "popped")
    /\ IF buffers[s].present
       THEN Refused(s) /\ CloseStream(Sender, s, "sent")
       ELSE Go(Sender, "sent") /\ UNCHANGED <<buffers, active>>
    /\ UNCHANGED <<world, terminated, window, unflushed, inHand, response,
                   readerVars, batch>>

SenderStep ==
    \/ EventStep(Sender) \/ SenderIdles \/ BatchEnds \/ FinishBatch
    \/ Pop \/ SendData \/ NotSent
    \/ \E s \in Streams : Pick(s)

-----------------------------------------------------------------------------
Init ==
    /\ world \in Worlds /\ terminated = FALSE
    /\ known = <<>>
    /\ buffers = [s \in Streams |-> [NewBuffer EXCEPT !.present = FALSE]]
    /\ active = {}
    /\ \E initial \in 0..MaxWindow :
          window = [all |-> MaxWindow, of |-> [s \in Streams |-> initial]]
    /\ shrinks = 0 /\ resets = {} /\ closed = FALSE
    /\ unflushed = {} /\ inHand = [t \in Tasks \cup {Consumers} |-> {}]
    /\ pc = [t \in Tasks |-> IF t = Reader THEN "read"
                             ELSE IF t = Sender THEN "next" ELSE "none"]
    /\ todo = [t \in Tasks |-> <<>>]
    /\ cpu = NoTask
    /\ events = [e \in EventIds |-> NewEvent]
    /\ batch = NoBatch
    /\ leaving = <<>> /\ touched = {}
    /\ response = [s \in Streams |-> [opened |-> FALSE, abandoned |-> FALSE,
                                      written |-> 0, sent |-> 0, ended |-> 0]]

Next ==
    \/ \E s \in Streams : App(s)
    \/ ReaderStep
    \/ SenderStep
    \/ OthersStep

Spec == Init /\ [][Next]_vars

\* The event loop runs every task that can run, the socket drains, the priority
\* tree serves every stream that stays unblocked, and the peer goes on granting
\* window.
Fairness ==
    /\ WF_vars(SenderStep) /\ WF_vars(ReaderResumes)
    /\ \A s \in Streams : WF_vars(AppResumes(s)) /\ SF_vars(Pick(s)) /\ SF_vars(Grant(s))
    /\ SF_vars(GrantAll)

FairSpec == Spec /\ Fairness

-----------------------------------------------------------------------------
(* Properties.                                                             *)

Places == Suspended \cup {"pushed", "ended", "closed", "flush", "closing", "next",
                          "send", "popped", "sent", "finish"}

\* Every variable has its type; the connection's window is never overdrawn.
TypeOK ==
    /\ world \in Worlds /\ terminated \in BOOLEAN
    /\ known \in Seq(Streams) /\ leaving \in Seq(Streams)
    /\ buffers \in [Streams -> [present : BOOLEAN, size : Nat, complete : BOOLEAN]]
    /\ {active, resets, unflushed, touched} \subseteq SUBSET Streams
    /\ inHand \in [Tasks \cup {Consumers} -> SUBSET Streams]
    /\ window \in [all : Nat, of : [Streams -> Int]]
    /\ shrinks \in 0..MaxShrinks /\ closed \in BOOLEAN
    /\ pc \in [Tasks -> Places] /\ cpu \in Tasks \cup {NoTask}
    /\ events \in [EventIds -> Events(Tasks)]
    /\ batch.stream \in Streams \cup {NoTask} /\ batch.finished \in Seq(Streams)
    /\ \A s \in Streams : response[s].written \in 0..world.bytes

\* Memory bound: whatever the peer's windows, an application is at most one Body
\* beyond the first that reached the high-water mark (the _paused event may be
\* left set from an earlier pop).  (And the variables have their types.)
BufferBounded ==
    /\ TypeOK
    /\ \A s \in Streams : \A n \in Sizes :
          (\A m \in Sizes : m <= n) => buffers[s].size < HighWater + 2 * n

\* A stream is ended at most once, and only when all its application wrote has
\* been sent: a window of zero or a full batch never cuts a response short.
EndsWhole ==
    \A s \in Streams :
        /\ response[s].ended <= 1
        /\ response[s].ended = 1 => response[s].sent = response[s].written

\* While the sender sleeps nothing can be sent, unless some task is about to
\* wake it: no push, end, window update or reset in between is missed.
Sendable(s) ==
    /\ buffers[s].present
    /\ (buffers[s].size > 0 /\ FlowWindow(s) > 0) \/ Complete(s)
Awoken(s) ==
    \/ s \in active /\ (events[HasData].set \/ \E t \in Tasks :
                            \E i \in DOMAIN todo[t] : todo[t][i] = Set(HasData))
    \/ pc[s] = "pushed"
    \/ pc[Reader] = "update" /\ s \in touched
Asleep == events[HasData].waiters # <<>>
ReadyIsScheduled == Asleep => \A s \in Streams : Sendable(s) => Awoken(s)

\* Where an application is whose last send has returned, or which gave up; and a
\* task that waits in its flush.
Past == {"ended", "popping", "closed", "parting", "over"}
Flushing == {"responding", "promising", "parting", "flushing", "written"}

Over(s) == pc[s] \in Past /\ todo[s] = <<>>

\* Whichever task flushes them: an application learns that its response is over
\* only after its frames, the END_STREAM flag among them, were taken from the
\* connection, those the sender took are with the socket and those another took
\* are what it waits in its flush for; and the sender sleeps with nothing left in
\* the connection's buffer or in its hand.
EndIsTaken ==
    /\ Asleep => unflushed = {} /\ inHand[Sender] = {}
    /\ \A s \in Streams :
          Over(s) /\ response[s].ended = 1
          => /\ s \notin unflushed \cup inHand[Sender]
             /\ \A t \in Tasks : s \in inHand[t] => pc[t] \in Flushing

\* A response an application completed has been sent in full and ended, unless
\* the peer reset the stream or the connection is gone.
Delivered ==
    \A s \in Streams :
        Over(s) /\ ~response[s].abandoned /\ s \notin resets /\ ~closed
        => response[s].ended = 1

\* A response is ended once, whole, and only the peer's doing prevents it.
DeliveredWhole == EndsWhole /\ Delivered

\* Every send returns: the peer grants window, or the stream or the connection
\* is closed and closing it releases whoever waits.
SendsReturn ==
    \A s \in Streams :
        (pc[s] \notin {"none", "app", "over"} \/ todo[s] # <<>>) ~>
            (pc[s] \in {"app", "over"} /\ todo[s] = <<>>)
=============================================================================
