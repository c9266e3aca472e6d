------------------------------ MODULE TcpWriter ------------------------------
(***************************************************************************)
(* trio/tcp_writer.py: the buffer between everything that writes to a      *)
(* connection under trio and the one task that may call stream.send_all(). *)
(*                                                                         *)
(* Callers (the reader, the applications, the idle timer) call send(),     *)
(* drain() and stop(), the runner runs run().  All of them meet at one     *)
(* trio.Condition.  Reaching `async with` or being notified puts a task at *)
(* the end of `turn`, whose head holds the lock; a step is what the holder *)
(* does until it gives the lock up.                                        *)
(*                                                                         *)
(* stream.send_all() belongs to the environment: it returns, or raises     *)
(* after some of the data.  start() comes before any call.                 *)
(***************************************************************************)
EXTENDS Integers, Sequences

CONSTANTS
    Callers,        \* the tasks that write
    Sizes,          \* the lengths of what they send
    HighWater,      \* BUFFER_HIGH_WATER
    MaxSends        \* bound: how much is accepted

ASSUME TcpWriterAssumption ==
    /\ Sizes \subseteq Nat \ {0}    \* send(b"") returns at once
    /\ HighWater \in Nat
    /\ MaxSends \in Nat
    /\ "runner" \notin Callers

Runner == "runner"
Tasks == Callers \cup {Runner}

VARIABLES
    queue,          \* _queue: its sends by number, and their length joined
    bufferedBytes,  \* _buffered_bytes
    closing,        \* _closing
    submitted, completed,
    error,          \* _error is not None
    hasData,        \* _has_data is set
    stopped,        \* _stopped is set
    turn, parked,   \* _condition: its lock's queue and who waits for notify
    pc,
    want,           \* a caller's len(data), or its target
    batch,          \* the batch run() has taken
    wire,           \* history: the sends written, in order
    assured         \* history: how many sends a drain() or stop() that
                    \* returned has promised to have written

bufferVars == <<queue, bufferedBytes, submitted>>
flagVars == <<closing, error, stopped>>
vars == <<bufferVars, completed, flagVars, hasData, turn, parked, pc, want,
          batch, wire, assured>>

Nothing == [sends |-> <<>>, bytes |-> 0]

Init ==
    /\ queue = Nothing /\ bufferedBytes = 0
    /\ submitted = 0 /\ completed = 0
    /\ closing = FALSE /\ error = FALSE
    /\ hasData = FALSE /\ stopped = FALSE
    /\ turn = <<>> /\ parked = <<>>
    /\ pc = [t \in Tasks |-> IF t = Runner THEN "wait" ELSE "idle"]
    /\ want = [t \in Callers |-> 0]
    /\ batch = Nothing
    /\ wire = <<>> /\ assured = 0

-----------------------------------------------------------------------------
(* The condition.                                                          *)

Reach(t) == turn' = Append(turn, t) /\ UNCHANGED parked
Holds(t, place) == pc[t] = place /\ turn # <<>> /\ Head(turn) = t
Release == turn' = Tail(turn) /\ UNCHANGED parked
Park(t) == turn' = Tail(turn) /\ parked' = Append(parked, t)
NotifyAll == turn' = Tail(turn) \o parked /\ parked' = <<>>

Goto(t, place) == pc' = [pc EXCEPT ![t] = place]

-----------------------------------------------------------------------------
(* send()                                                                  *)

Unavailable == error \/ closing

\* Mutated: the new data is not counted.
FullBefore(n) == bufferedBytes > 0 /\ bufferedBytes > HighWater

Full(n) == bufferedBytes > 0 /\ bufferedBytes + n > HighWater

CallSend(t) ==
    /\ pc[t] = "idle" /\ submitted < MaxSends
    /\ \E n \in Sizes : want' = [want EXCEPT ![t] = n]
    /\ Goto(t, "send") /\ Reach(t)
    /\ UNCHANGED <<bufferVars, completed, flagVars, hasData, batch, wire, assured>>

SendRaises(t) ==
    /\ Holds(t, "send") /\ Unavailable
    /\ Goto(t, "idle") /\ Release
    /\ UNCHANGED <<bufferVars, completed, flagVars, hasData, want, batch, wire, assured>>

SendWaits(t) ==
    /\ Holds(t, "send") /\ ~Unavailable /\ Full(want[t])
    /\ Park(t)
    /\ UNCHANGED <<bufferVars, completed, flagVars, hasData, pc, want, batch, wire, assured>>

Enqueue(n) ==
    /\ submitted' = submitted + 1
    /\ queue' = [sends |-> Append(queue.sends, submitted'), bytes |-> queue.bytes + n]
    /\ bufferedBytes' = bufferedBytes + n
    /\ hasData' = TRUE

Send(t) ==
    /\ Holds(t, "send") /\ ~Unavailable /\ ~Full(want[t])
    /\ Enqueue(want[t])
    /\ Goto(t, "idle") /\ Release
    /\ UNCHANGED <<completed, flagVars, want, batch, wire, assured>>

-----------------------------------------------------------------------------
(* drain() and stop(): both wait until what was submitted before them is   *)
(* completed.                                                              *)

CallDrain(t) ==
    /\ pc[t] = "idle"
    /\ Goto(t, "drain") /\ Reach(t)
    /\ UNCHANGED <<bufferVars, completed, flagVars, hasData, want, batch, wire, assured>>

CallStop(t) ==
    /\ pc[t] = "idle"
    /\ Goto(t, "stop") /\ Reach(t)
    /\ UNCHANGED <<bufferVars, completed, flagVars, hasData, want, batch, wire, assured>>

\* The first turn in the lock: the target, and for stop() the flags.
Aim(t) ==
    /\ Holds(t, "drain") \/ Holds(t, "stop")
    /\ want' = [want EXCEPT ![t] = submitted]
    /\ IF pc[t] = "drain"
       THEN Goto(t, "draining") /\ UNCHANGED <<closing, hasData>>
       ELSE Goto(t, "closing") /\ closing' = TRUE /\ hasData' = TRUE
    /\ UNCHANGED <<bufferVars, completed, error, stopped, turn, parked, batch, wire, assured>>

\* Mutated: what run() has taken but not written does not count.
PendingInQueue(t) == queue.sends # <<>> /\ ~error

Pending(t) == completed < want[t] /\ ~error

Waits(t) ==
    /\ Holds(t, "draining") \/ Holds(t, "closing")
    /\ Pending(t)
    /\ Park(t)
    /\ UNCHANGED <<bufferVars, completed, flagVars, hasData, pc, want, batch, wire, assured>>

\* A drain() or stop() returns; it raises if there was an error.
Assure(t) == assured' = IF ~error /\ want[t] > assured THEN want[t] ELSE assured

Drained(t) ==
    /\ Holds(t, "draining") /\ ~Pending(t)
    /\ Goto(t, "idle") /\ Release /\ Assure(t)
    /\ UNCHANGED <<bufferVars, completed, flagVars, hasData, want, batch, wire>>

Closed(t) ==
    /\ Holds(t, "closing") /\ ~Pending(t)
    /\ Goto(t, "stopping") /\ Release
    /\ UNCHANGED <<bufferVars, completed, flagVars, hasData, want, batch, wire, assured>>

Stopped(t) ==
    /\ pc[t] = "stopping" /\ stopped
    /\ Goto(t, "idle") /\ Assure(t)
    /\ UNCHANGED <<bufferVars, completed, flagVars, hasData, turn, parked, want, batch, wire>>

CallerStep(t) ==
    \/ SendRaises(t) \/ SendWaits(t) \/ Send(t)
    \/ Aim(t) \/ Waits(t) \/ Drained(t) \/ Closed(t) \/ Stopped(t)

-----------------------------------------------------------------------------
(* run()                                                                   *)

\* await has_data.wait(), the checkpoint, and to the lock.
Awake ==
    /\ pc[Runner] = "wait" /\ hasData
    /\ Goto(Runner, "take") /\ Reach(Runner)
    /\ UNCHANGED <<bufferVars, completed, flagVars, hasData, want, batch, wire, assured>>

\* Nothing to write: the loop goes on, or ends.
TakeNothing ==
    /\ Holds(Runner, "take") /\ queue.sends = <<>>
    /\ hasData' = FALSE
    /\ stopped' = closing
    /\ Goto(Runner, IF closing THEN "done" ELSE "wait")
    /\ Release
    /\ UNCHANGED <<bufferVars, completed, closing, error, want, batch, wire, assured>>

Empty == queue' = Nothing

TakeBatch ==
    /\ Holds(Runner, "take") /\ queue.sends # <<>>
    /\ batch' = queue /\ Empty
    /\ hasData' = FALSE
    /\ Goto(Runner, "write") /\ Release
    /\ UNCHANGED <<bufferedBytes, submitted, completed, flagVars, want, wire, assured>>

\* await send_all() returns, or raises.
WriteReturns ==
    /\ pc[Runner] = "write"
    /\ wire' = wire \o batch.sends
    /\ Goto(Runner, "written") /\ Reach(Runner)
    /\ UNCHANGED <<bufferVars, completed, flagVars, hasData, want, batch, assured>>

WriteFails ==
    /\ pc[Runner] = "write"
    /\ \E n \in 0..Len(batch.sends) : wire' = wire \o SubSeq(batch.sends, 1, n)
    /\ Goto(Runner, "failed") /\ Reach(Runner)
    /\ UNCHANGED <<bufferVars, completed, flagVars, hasData, want, batch, assured>>

Complete ==
    /\ bufferedBytes' = bufferedBytes - batch.bytes
    /\ completed' = batch.sends[Len(batch.sends)]
    /\ hasData' = (hasData \/ closing)

Written ==
    /\ Holds(Runner, "written")
    /\ Complete /\ NotifyAll
    /\ batch' = Nothing
    /\ Goto(Runner, "wait")
    /\ UNCHANGED <<queue, submitted, flagVars, want, wire, assured>>

\* Mutated: who waits is not notified.
FailQuietly ==
    /\ error' = TRUE
    /\ queue' = Nothing /\ bufferedBytes' = 0 /\ completed' = submitted
    /\ Release

Fail ==
    /\ error' = TRUE
    /\ queue' = Nothing /\ bufferedBytes' = 0 /\ completed' = submitted
    /\ NotifyAll

Failed ==
    /\ Holds(Runner, "failed")
    /\ Fail
    /\ stopped' = TRUE
    /\ batch' = Nothing
    /\ Goto(Runner, "done")
    /\ UNCHANGED <<submitted, closing, hasData, want, wire, assured>>

RunnerStep ==
    \/ Awake \/ TakeNothing \/ TakeBatch
    \/ WriteReturns \/ WriteFails \/ Written \/ Failed

-----------------------------------------------------------------------------
Next ==
    \/ \E t \in Callers : CallSend(t) \/ CallDrain(t) \/ CallStop(t) \/ CallerStep(t)
    \/ RunnerStep

Spec == Init /\ [][Next]_vars

\* Trio runs every task that is ready, and send_all() returns or raises.
Fairness == WF_vars(RunnerStep) /\ \A t \in Callers : WF_vars(CallerStep(t))

FairSpec == Spec /\ Fairness

-----------------------------------------------------------------------------
Chunks == [sends : Seq(Nat), bytes : Nat]

\* Every variable has its type; in particular the count of bytes that lets
\* senders in never falls below zero, whatever is written, failed or sent
\* meanwhile.
TypeOK ==
    /\ queue \in Chunks /\ batch \in Chunks
    /\ bufferedBytes \in Nat /\ submitted \in Nat /\ completed \in Nat
    /\ closing \in BOOLEAN /\ error \in BOOLEAN
    /\ hasData \in BOOLEAN /\ stopped \in BOOLEAN
    /\ turn \in Seq(Tasks) /\ parked \in Seq(Tasks)
    /\ pc \in [Tasks -> {"idle", "send", "drain", "draining", "stop", "closing",
                         "stopping", "wait", "take", "write", "written", "failed",
                         "done"}]
    /\ want \in [Callers -> Nat]
    /\ wire \in Seq(Nat) /\ assured \in Nat

\* Back-pressure: no more than the high-water mark is held, in the queue and in
\* the batch being written together, unless it is a single send.
HighWaterKept == bufferedBytes =< HighWater \/ submitted - completed =< 1

\* The sends leave once each and in the order they were accepted, through every
\* batch, up to where a write failed.
WrittenInOrder == \A i \in 1..Len(wire) : wire[i] = i

\* What a drain() or stop() that returned has waited for is on the wire: nothing
\* that was only taken from the queue counts as sent.
DrainedIsWritten == assured =< Len(wire)

\* A writer that ended without an error has written all it ever accepted, so
\* closing the transport cuts nothing off.
StoppedIsComplete == stopped /\ ~error => Len(wire) = submitted

\* What drain() and stop() promise to a caller they return to.
PromisesKept == DrainedIsWritten /\ StoppedIsComplete

\* What is accepted is delivered once and in order, and as promised.
Delivered == WrittenInOrder /\ PromisesKept

\* The runner never sleeps on data or on a stop(): replacing the event loses
\* no set().
NoSleep ==
    pc[Runner] = "wait" /\ (queue.sends # <<>> \/ closing) => hasData

\* Every send(), drain() and stop() of a caller returns or raises, whatever a
\* write did to the others that wait.
CallsReturn(t) == pc[t] # "idle" ~> pc[t] = "idle"
=============================================================================
