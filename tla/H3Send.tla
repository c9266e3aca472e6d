------------------------------- MODULE H3Send -------------------------------
(***************************************************************************)
(* protocol/h3_send.py: the scheduler between the applications of an       *)
(* HTTP/3 connection and the one task that hands their headers and data to *)
(* the H3Connection and flushes.  Used as H3Protocol does (protocol/h3.py) *)
(* under both runtimes: every stream sends operations one at a time, the   *)
(* last of them with the end of the stream and waiting for its completion; *)
(* run() is a task of its own; whoever sees the connection terminate calls *)
(* close().                                                                *)
(*                                                                         *)
(* A step runs from one await to the next.  Applying an operation may      *)
(* raise, flush() returns or raises.  A call that raises at once changes   *)
(* nothing and is left out.                                                *)
(***************************************************************************)
EXTENDS FiniteSetsExt, Integers, Sequences

CONSTANTS
    Streams,            \* the tasks that send: the applications
    Sizes,              \* the lengths of headers and data
    MaxPendingSends,    \* MAX_PENDING_SENDS
    MaxPendingBytes,    \* MAX_PENDING_BYTES
    MaxBatchedSends,    \* MAX_BATCHED_SENDS
    MaxSends            \* bound: how many operations are accepted

Sender == "sender"
Closer == "closer"

ASSUME H3SendAssumption ==
    /\ Sizes \subseteq Nat
    /\ MaxPendingSends \in Nat \ {0} /\ MaxPendingBytes \in Nat
    /\ MaxBatchedSends \in Nat \ {0} /\ MaxSends \in Nat
    /\ Sender \notin Streams /\ Closer \notin Streams

Tasks == Streams \cup {Sender, Closer}

VARIABLES
    trio,           \* TRUE: the trio worker; FALSE: the asyncio worker
    sends,          \* the operations by number, [stream, size, end]
    complete,       \* their `complete` events
    failed,         \* those whose `error` is set
    queue,          \* _queue
    pending,        \* _pending; the oldest is the one with the least number
    pendingBytes,   \* _pending_bytes
    closed,         \* _closed
    error,          \* _error is not None
    hasData,        \* has_data
    pc,
    held,           \* a stream's send: [size, end], and whose completion it
                    \* waits for
    processed,      \* the operations run() and close() are completing
    cpu,            \* the task that has not suspended yet, or NoTask
    handed,         \* history: what the H3Connection has taken, in order
    flushed,        \* history: how many of those a flush() has sent
    told            \* history: the ends reported as sent

INSTANCE EventWrapper WITH Trio <- trio

operationVars == <<sends, failed, queue, pending, pendingBytes>>
flagVars == <<trio, closed, error>>
historyVars == <<handed, flushed, told>>
vars == <<flagVars, operationVars, complete, hasData, pc, held, processed, cpu,
          historyVars>>

NoSend == [size |-> 0, end |-> FALSE, on |-> 0]

Init ==
    /\ trio \in BOOLEAN
    /\ sends = <<>> /\ complete = <<>> /\ failed = {}
    /\ queue = <<>> /\ pending = {} /\ pendingBytes = 0
    /\ closed = FALSE /\ error = FALSE
    /\ hasData = Reach(NewEvent, Sender)
    /\ pc = [t \in Tasks |-> IF t = Sender THEN "wait" ELSE "idle"]
    /\ held = [s \in Streams |-> NoSend]
    /\ processed = [t \in {Sender, Closer} |-> <<>>]
    /\ cpu = CpuAt(Sender)
    /\ handed = <<>> /\ flushed = 0 /\ told = {}

Goto(t, place) == pc' = [pc EXCEPT ![t] = place]

-----------------------------------------------------------------------------
(* headers() and data(), which are _enqueue().                             *)

\* Mutated: the size of the new operation is left out.
FullBefore(n) ==
    /\ pending # {}
    /\ \/ Cardinality(pending) >= MaxPendingSends
       \/ pendingBytes > MaxPendingBytes

Full(n) ==
    /\ pending # {}
    /\ \/ Cardinality(pending) >= MaxPendingSends
       \/ pendingBytes + n > MaxPendingBytes

\* Mutated: the operation is put before those that wait.
EnqueueFirst(s, n, end) ==
    LET id == Len(sends) + 1
    IN  /\ sends' = Append(sends, [stream |-> s, size |-> n, end |-> end])
        /\ queue' = <<id>> \o queue
        /\ pending' = pending \cup {id}
        /\ pendingBytes' = pendingBytes + n
        /\ held' = [held EXCEPT ![s] = [size |-> n, end |-> end, on |-> id]]

Enqueue(s, n, end) ==
    LET id == Len(sends) + 1
    IN  /\ sends' = Append(sends, [stream |-> s, size |-> n, end |-> end])
        /\ queue' = Append(queue, id)
        /\ pending' = pending \cup {id}
        /\ pendingBytes' = pendingBytes + n
        /\ held' = [held EXCEPT ![s] = [size |-> n, end |-> end, on |-> id]]

\* One test of the loop; events are the completions as it finds them.
Attempt(s, n, end, events) ==
    /\ cpu' = CpuAt(s)
    /\ \/ /\ Full(n)
          /\ LET oldest == Min(pending)
             IN  /\ held' = [held EXCEPT ![s] = [size |-> n, end |-> end, on |-> oldest]]
                 /\ complete' = [events EXCEPT ![oldest] = Reach(@, s)]
          /\ Goto(s, "full")
          /\ UNCHANGED <<operationVars, hasData>>
       \/ /\ ~Full(n)
          /\ Enqueue(s, n, end)
          /\ complete' = Append(events, NewEvent)
          /\ hasData' = Reach(hasData, s)
          /\ Goto(s, "set")
          /\ UNCHANGED failed

\* The end of a stream is sent as data of length zero.
Send(s) ==
    /\ cpu = NoTask /\ pc[s] = "idle" /\ ~closed /\ ~error
    /\ Len(sends) < MaxSends
    /\ \/ \E n \in Sizes : Attempt(s, n, FALSE, complete)
       \/ Attempt(s, 0, TRUE, complete)
    /\ UNCHANGED <<flagVars, processed, historyVars>>

\* await oldest.complete.wait(), or await operation.complete.wait(), parks.
Park(s) ==
    /\ pc[s] \in {"full", "end"} /\ Blocks(complete[held[s].on], s, cpu)
    /\ complete' = [complete EXCEPT ![held[s].on] = AfterBlock(@, s)]
    /\ cpu' = NoTask
    /\ UNCHANGED <<flagVars, operationVars, hasData, pc, held, processed, historyVars>>

Forget(s) == held' = [held EXCEPT ![s] = NoSend]

Left(s) == [complete EXCEPT ![held[s].on] = AfterWait(@, s)]

\* The oldest has completed: raise, or test again.
OldestCompleted(s) ==
    /\ pc[s] = "full" /\ Returns(complete[held[s].on], s, cpu)
    /\ IF held[s].on \in failed \/ error \/ closed
       THEN /\ complete' = Left(s)
            /\ Goto(s, "idle") /\ Forget(s)
            /\ cpu' = NoTask
            /\ UNCHANGED <<operationVars, hasData>>
       ELSE Attempt(s, held[s].size, held[s].end, Left(s))
    /\ UNCHANGED <<flagVars, processed, historyVars>>

\* await has_data.set(); the end of a stream then waits to be sent.
SetData(s) ==
    /\ pc[s] = "set" /\ MayAct(hasData, s, cpu)
    /\ hasData' = AfterSet(hasData, s)
    /\ IF held[s].end
       THEN /\ complete' = [complete EXCEPT ![held[s].on] = Reach(@, s)]
            /\ Goto(s, "end")
            /\ cpu' = CpuAt(s)
            /\ UNCHANGED held
       ELSE /\ Goto(s, "idle") /\ Forget(s)
            /\ cpu' = NoTask
            /\ UNCHANGED complete
    /\ UNCHANGED <<flagVars, operationVars, processed, historyVars>>

EndCompleted(s) ==
    /\ pc[s] = "end" /\ Returns(complete[held[s].on], s, cpu)
    /\ complete' = Left(s) /\ Forget(s)
    /\ IF held[s].on \in failed
       THEN Goto(s, "idle") /\ UNCHANGED told
       ELSE Goto(s, "done") /\ told' = told \cup {held[s].on}
    /\ cpu' = NoTask
    /\ UNCHANGED <<flagVars, operationVars, hasData, processed, handed, flushed>>

Sending(s) == Park(s) \/ OldestCompleted(s) \/ SetData(s) \/ EndCompleted(s)

-----------------------------------------------------------------------------
(* _complete() and _fail_pending(), which run() and close() share.         *)

\* To await operation.complete.set(), with more to complete after it.
Completing(t, place, operations, events) ==
    LET op == Head(operations)
    IN  /\ pending' = pending \ {op}
        /\ pendingBytes' = IF op \in pending THEN pendingBytes - sends[op].size
                           ELSE pendingBytes
        /\ complete' = [events EXCEPT ![op] = Reach(@, t)]
        /\ processed' = [processed EXCEPT ![t] = operations]
        /\ Goto(t, place)
        /\ cpu' = CpuAt(t)

\* Where _fail_pending() returns to: the end of run(), or has_data.set().
NoneToFail(t, events, data) ==
    /\ complete' = events
    /\ processed' = [processed EXCEPT ![t] = <<>>]
    /\ IF t = Sender
       THEN Goto(t, "done") /\ cpu' = NoTask /\ hasData' = data
       ELSE Goto(t, "wake") /\ cpu' = CpuAt(t) /\ hasData' = Reach(data, t)

\* Mutated: the queue is emptied and nobody told.
FailNextQuietly(t, events, data) ==
    /\ queue' = <<>> /\ NoneToFail(t, events, data)
    /\ UNCHANGED <<failed, pending, pendingBytes>>

\* The head of the loop of _fail_pending(), with the events and has_data as
\* it finds them.
FailNext(t, events, data) ==
    \/ /\ queue # <<>>
       /\ queue' = Tail(queue) /\ failed' = failed \cup {Head(queue)}
       /\ Completing(t, "fail", <<Head(queue)>>, events)
       /\ hasData' = data
    \/ /\ queue = <<>>
       /\ NoneToFail(t, events, data)
       /\ UNCHANGED <<failed, queue, pending, pendingBytes>>

MayComplete(t) == MayAct(complete[Head(processed[t])], t, cpu)

Signalled(t) == [complete EXCEPT ![Head(processed[t])] = AfterSet(@, t)]

FailedOne(t) ==
    /\ pc[t] = "fail" /\ MayComplete(t)
    /\ FailNext(t, Signalled(t), hasData)
    /\ UNCHANGED <<flagVars, sends, held, historyVars>>

-----------------------------------------------------------------------------
(* run()                                                                   *)

Wait(events, data) ==
    /\ queue = <<>>
    /\ complete' = events
    /\ hasData' = Reach(data, Sender)
    /\ Goto(Sender, "wait") /\ cpu' = CpuAt(Sender)
    /\ processed' = [processed EXCEPT ![Sender] = <<>>]
    /\ UNCHANGED <<failed, queue, pending, pendingBytes, error, handed>>

\* How many operations _send_ready_batch() takes unless one raises.
Ready == IF Len(queue) < MaxBatchedSends THEN Len(queue) ELSE MaxBatchedSends

\* All are applied, and flush() is called.
Applied(events) ==
    /\ queue # <<>>
    /\ queue' = SubSeq(queue, Ready + 1, Len(queue))
    /\ handed' = handed \o SubSeq(queue, 1, Ready)
    /\ processed' = [processed EXCEPT ![Sender] = SubSeq(queue, 1, Ready)]
    /\ complete' = events
    /\ Goto(Sender, "flush") /\ cpu' = NoTask
    /\ UNCHANGED <<failed, pending, pendingBytes, error>>

\* The n-th raises: those before it have been applied but are not flushed.
ApplyRaises(events) ==
    \E n \in 1..Ready :
        /\ queue' = SubSeq(queue, n + 1, Len(queue))
        /\ handed' = handed \o SubSeq(queue, 1, n - 1)
        /\ error' = TRUE
        /\ failed' = failed \cup {queue[i] : i \in 1..n}
        /\ Completing(Sender, "complete", SubSeq(queue, 1, n), events)

\* The head of the loop; a batch of nothing changes nothing.
Loop(events, data) ==
    \/ closed /\ FailNext(Sender, events, data) /\ UNCHANGED <<error, handed>>
    \/ ~closed /\ Wait(events, data)
    \/ ~closed /\ hasData' = data /\ (Applied(events) \/ ApplyRaises(events))

SenderParks ==
    /\ pc[Sender] = "wait" /\ Blocks(hasData, Sender, cpu)
    /\ hasData' = AfterBlock(hasData, Sender)
    /\ cpu' = NoTask
    /\ UNCHANGED <<flagVars, operationVars, complete, pc, held, processed, historyVars>>

Woken ==
    /\ pc[Sender] = "wait" /\ Returns(hasData, Sender, cpu)
    /\ hasData' = Reach(AfterWait(hasData, Sender), Sender)
    /\ Goto(Sender, "clear") /\ cpu' = CpuAt(Sender)
    /\ UNCHANGED <<flagVars, operationVars, complete, held, processed, historyVars>>

Cleared ==
    /\ pc[Sender] = "clear" /\ MayAct(hasData, Sender, cpu)
    /\ Loop(complete, AfterClear(hasData, Sender))
    /\ UNCHANGED <<trio, closed, sends, held, flushed, told>>

\* await flush() returns, or raises.
FlushReturns ==
    /\ pc[Sender] = "flush" /\ cpu = NoTask
    /\ flushed' = Len(handed)
    /\ Completing(Sender, "complete", processed[Sender], complete)
    /\ UNCHANGED <<flagVars, sends, failed, queue, hasData, held, handed, told>>

\* Mutated: the operations of the batch get no error.
FlushRaisesUntold ==
    /\ pc[Sender] = "flush" /\ cpu = NoTask
    /\ error' = TRUE
    /\ Completing(Sender, "complete", processed[Sender], complete)
    /\ UNCHANGED <<trio, closed, sends, failed, queue, hasData, held, historyVars>>

FlushRaises ==
    /\ pc[Sender] = "flush" /\ cpu = NoTask
    /\ error' = TRUE
    /\ failed' = failed \cup {processed[Sender][i] : i \in 1..Len(processed[Sender])}
    /\ Completing(Sender, "complete", processed[Sender], complete)
    /\ UNCHANGED <<trio, closed, sends, queue, hasData, held, historyVars>>

\* An operation of the batch has been completed; after the last, has_data.set()
\* if more are queued, the failure of those, or the loop.
CompletedOne ==
    /\ pc[Sender] = "complete" /\ MayComplete(Sender)
    /\ LET rest == Tail(processed[Sender])
           events == Signalled(Sender)
       IN  \/ /\ rest # <<>>
              /\ Completing(Sender, "complete", rest, events)
              /\ UNCHANGED <<failed, queue, error, hasData, handed>>
           \/ /\ rest = <<>> /\ error
              /\ FailNext(Sender, events, hasData)
              /\ UNCHANGED <<error, handed>>
           \/ /\ rest = <<>> /\ ~error /\ queue # <<>>
              /\ complete' = events
              /\ hasData' = Reach(hasData, Sender)
              /\ Goto(Sender, "again") /\ cpu' = CpuAt(Sender)
              /\ processed' = [processed EXCEPT ![Sender] = <<>>]
              /\ UNCHANGED <<failed, queue, pending, pendingBytes, error, handed>>
           \/ /\ rest = <<>> /\ ~error /\ queue = <<>>
              /\ Loop(events, hasData)
    /\ UNCHANGED <<trio, closed, sends, held, flushed, told>>

Again ==
    /\ pc[Sender] = "again" /\ MayAct(hasData, Sender, cpu)
    /\ Loop(complete, AfterSet(hasData, Sender))
    /\ UNCHANGED <<trio, closed, sends, held, flushed, told>>

Run ==
    \/ SenderParks \/ Woken \/ Cleared \/ Again
    \/ FlushReturns \/ FlushRaises \/ CompletedOne \/ FailedOne(Sender)

-----------------------------------------------------------------------------
(* close()                                                                 *)

Close ==
    /\ pc[Closer] = "idle" /\ cpu = NoTask
    /\ closed' = TRUE
    /\ FailNext(Closer, complete, hasData)
    /\ UNCHANGED <<trio, error, sends, held, historyVars>>

Wake ==
    /\ pc[Closer] = "wake" /\ MayAct(hasData, Closer, cpu)
    /\ hasData' = AfterSet(hasData, Closer)
    /\ Goto(Closer, "done") /\ cpu' = NoTask
    /\ UNCHANGED <<flagVars, operationVars, complete, held, processed, historyVars>>

Closing == FailedOne(Closer) \/ Wake

-----------------------------------------------------------------------------
Next ==
    \/ \E s \in Streams : Send(s) \/ Sending(s)
    \/ Run \/ Close \/ Closing

Spec == Init /\ [][Next]_vars

\* The event loop runs every task that is ready, and flush() returns or raises.
Fairness ==
    /\ WF_vars(Run) /\ WF_vars(Closing)
    /\ \A s \in Streams : WF_vars(Sending(s))

FairSpec == Spec /\ Fairness

-----------------------------------------------------------------------------
Operations == 1..Len(sends)

\* Every variable has its type, and a task that completes operations has some.
TypeOK ==
    /\ trio \in BOOLEAN /\ closed \in BOOLEAN /\ error \in BOOLEAN
    /\ sends \in Seq([stream : Streams, size : Nat, end : BOOLEAN])
    /\ complete \in Seq(Events(Tasks)) /\ Len(complete) = Len(sends)
    /\ failed \subseteq Operations
    /\ queue \in Seq(Operations) /\ pending \subseteq Operations
    /\ pendingBytes \in Int
    /\ hasData \in Events(Tasks)
    /\ pc \in [Tasks -> {"idle", "full", "set", "end", "done", "wait", "clear",
                         "flush", "complete", "again", "fail", "wake"}]
    /\ held \in [Streams -> [size : Nat, end : BOOLEAN, on : Nat]]
    /\ processed \in [{Sender, Closer} -> Seq(Operations)]
    /\ \A t \in {Sender, Closer} :
         processed[t] = <<>> <=> pc[t] \notin {"flush", "complete", "fail"}
    /\ cpu \in Tasks \cup {NoTask}
    /\ handed \in Seq(Operations) /\ flushed \in 0..Len(handed)
    /\ told \subseteq Operations

\* Back-pressure: no more operations or bytes are pending than the limits allow,
\* but for a single operation alone too large; the count of bytes that lets
\* senders in is exact, whatever completes, fails or is closed meanwhile.
WithinLimits ==
    /\ Cardinality(pending) =< MaxPendingSends
    /\ pendingBytes =< MaxPendingBytes \/ Cardinality(pending) = 1
    /\ pendingBytes = MapThenSumSet(LAMBDA i : sends[i].size, pending)

Sent == {handed[i] : i \in 1..flushed}

\* The limits count what is really waiting: an operation leaves the window only
\* once it is flushed or has failed.
WindowHonest == Operations \ (Sent \cup failed) \subseteq pending

\* The pending window: within its limits, and honest.
WindowKept == TypeOK /\ WithinLimits /\ WindowHonest

\* The H3Connection gets the operations once each and in the order of the sends
\* that were accepted, and none that a closing has failed.
HandedInOrder ==
    /\ \A i \in 1..Len(handed) : handed[i] = i
    /\ (\E i \in 1..Len(handed) : handed[i] \in failed) => error

\* An application that is told its response has ended has had all of it flushed,
\* the end last.
EndIsFlushed ==
    \A i \in told : \A j \in 1..i : sends[j].stream = sends[i].stream => j \in Sent

\* Every send returns or raises, whoever it waits for and however it ends; and a
\* connection that is closed, or that an error has ended, leaves no sender and
\* nothing pending.
SendsReturn ==
    /\ \A s \in Streams : pc[s] \in {"full", "set", "end"} ~> pc[s] \in {"idle", "done"}
    /\ closed \/ error ~> pc[Sender] = "done" /\ pending = {}
=============================================================================
