--------------------------- MODULE TcpWriterProofs ---------------------------
(***************************************************************************)
(* TcpWriter keeps its types, its high-water mark and the order of what it *)
(* writes, and promises nothing it has not written, for every set of       *)
(* callers, sizes and high-water mark.                                     *)
(***************************************************************************)
EXTENDS TcpWriter, TLAPS

\* Where each task may be, and what a caller at each place has in hand.
Control ==
    /\ pc[Runner] \in {"wait", "take", "write", "written", "failed", "done"}
    /\ \A t \in Callers :
          /\ pc[t] \in {"idle", "send", "drain", "draining", "stop", "closing", "stopping"}
          /\ pc[t] = "send" => want[t] > 0
          /\ pc[t] \in {"draining", "closing", "stopping"} => want[t] =< submitted
          /\ pc[t] = "stopping" => want[t] =< completed

Writing == pc[Runner] \in {"write", "written", "failed"}

\* The batch and the queue hold, in order and in that order, exactly what was
\* submitted and not completed, and bufferedBytes counts both.
Accounting ==
    /\ Writing => batch.sends # <<>>
    /\ ~Writing => batch = Nothing
    /\ bufferedBytes = batch.bytes + queue.bytes
    /\ Len(batch.sends) =< batch.bytes /\ Len(queue.sends) =< queue.bytes
    /\ submitted = completed + Len(batch.sends) + Len(queue.sends)
    /\ \A i \in 1..Len(batch.sends) : batch.sends[i] = completed + i
    /\ \A i \in 1..Len(queue.sends) :
          queue.sends[i] = completed + Len(batch.sends) + i

\* How far the wire is ahead of `completed`.
OnTheWire ==
    /\ pc[Runner] \in {"wait", "take", "write"} => Len(wire) = completed
    /\ pc[Runner] = "written" => Len(wire) = completed + Len(batch.sends)
    /\ pc[Runner] = "failed" => Len(wire) >= completed
    /\ pc[Runner] = "done" /\ ~error => Len(wire) = completed

\* The end of run(): by an error, or by a stop() and an empty queue.
Ending ==
    /\ stopped <=> pc[Runner] = "done"
    /\ error => stopped /\ completed = submitted
    /\ stopped => queue.sends = <<>> /\ (error \/ closing)

\* The event is set for whatever the runner has not taken.
Signalled ==
    /\ pc[Runner] # "done" /\ queue.sends # <<>> => hasData
    /\ pc[Runner] = "wait" /\ closing => hasData

IInv ==
    /\ TypeOK /\ Control /\ Accounting /\ OnTheWire /\ Ending /\ Signalled
    /\ HighWaterKept /\ WrittenInOrder /\ DrainedIsWritten

-----------------------------------------------------------------------------
CallerPlaces == {"idle", "send", "drain", "draining", "stop", "closing", "stopping"}
RunnerPlaces == {"wait", "take", "write", "written", "failed", "done"}
Lock == turn \in Seq(Tasks) /\ parked \in Seq(Tasks)

\* Whatever a task does with the condition, tasks are in its two queues.
LEMMA LockTypes ==
    ASSUME Lock, NEW t \in Tasks
    PROVE  /\ Reach(t) => Lock'
           /\ turn # <<>> /\ Release => Lock'
           /\ turn # <<>> /\ Park(t) => Lock'
           /\ turn # <<>> /\ NotifyAll => Lock'
<1>1. Reach(t) => Lock'
  BY DEF Lock, Reach
<1>2. turn # <<>> => Tail(turn) \in Seq(Tasks)
  BY DEF Lock
<1>3. turn # <<>> /\ Release => Lock'
  BY <1>2 DEF Lock, Release
<1>4. turn # <<>> /\ Park(t) => Lock'
  BY <1>2 DEF Lock, Park
<1>5. turn # <<>> /\ NotifyAll => Lock'
  BY <1>2 DEF Lock, NotifyAll
<1> QED
  BY <1>1, <1>3, <1>4, <1>5

LEMMA InitIInv == Init => IInv
<1> SUFFICES ASSUME Init PROVE IInv
  OBVIOUS
<1> USE TcpWriterAssumption DEF Init
<1>1. TypeOK
  <2>1. \A S : <<>> \in Seq(S)
    OBVIOUS
  <2>2. Nothing \in Chunks
    BY <2>1 DEF Nothing, Chunks
  <2> QED
    BY <2>1, <2>2 DEF TypeOK
<1>2. pc[Runner] = "wait" /\ \A t \in Callers : pc[t] = "idle"
  BY DEF Tasks, Runner
<1>3. Control
  BY <1>2 DEF Control
<1>4. Accounting /\ OnTheWire /\ Ending /\ Signalled
  BY <1>2 DEF Accounting, OnTheWire, Ending, Signalled, Writing, Nothing
<1>5. HighWaterKept /\ WrittenInOrder /\ DrainedIsWritten
  BY DEF HighWaterKept, WrittenInOrder, DrainedIsWritten
<1> QED
  BY <1>1, <1>3, <1>4, <1>5 DEF IInv

-----------------------------------------------------------------------------
(* A step of a caller that leaves the buffer alone: it moves the caller,   *)
(* and may close the writer, provided that the runner is told.             *)
LEMMA CallerMoves ==
    ASSUME IInv, NEW t \in Callers, NEW place \in CallerPlaces,
           pc' = [pc EXCEPT ![t] = place],
           UNCHANGED <<bufferVars, completed, error, stopped, batch, wire>>,
           closing' \in BOOLEAN, closing => closing',
           hasData' \in BOOLEAN, hasData => hasData',
           closing' => closing \/ hasData',
           Lock', want' \in [Callers -> Nat],
           \A s \in Callers \ {t} : want'[s] = want[s],
           place = "send" => want'[t] > 0,
           place \in {"draining", "closing", "stopping"} => want'[t] =< submitted,
           place = "stopping" => want'[t] =< completed,
           assured' \in Nat, assured' =< Len(wire)
    PROVE  IInv'
<1> USE DEF bufferVars
<1>1. t # Runner /\ Runner \in Tasks /\ t \in Tasks /\ Callers \subseteq Tasks
  BY TcpWriterAssumption DEF Runner, Tasks
<1>2. /\ pc \in [Tasks -> CallerPlaces \cup RunnerPlaces]
      /\ want \in [Callers -> Nat] /\ submitted \in Nat /\ completed \in Nat
  BY DEF IInv, TypeOK, CallerPlaces, RunnerPlaces
<1>3. pc'[Runner] = pc[Runner] /\ pc'[t] = place
      /\ \A s \in Callers \ {t} : pc'[s] = pc[s]
  BY <1>1, <1>2
<1>4. TypeOK'
  BY <1>1, <1>2 DEF IInv, TypeOK, Lock, CallerPlaces, RunnerPlaces
<1>5. Control'
  <2>1. pc'[Runner] \in RunnerPlaces
    BY <1>3 DEF IInv, Control, RunnerPlaces
  <2> SUFFICES ASSUME NEW s \in Callers
               PROVE  /\ pc'[s] \in CallerPlaces
                      /\ pc'[s] = "send" => want'[s] > 0
                      /\ pc'[s] \in {"draining", "closing", "stopping"} =>
                           want'[s] =< submitted'
                      /\ pc'[s] = "stopping" => want'[s] =< completed'
    BY <2>1 DEF Control, CallerPlaces, RunnerPlaces
  <2>2. CASE s = t
    BY <1>3, <2>2
  <2>3. CASE s # t
    BY <1>3, <2>3 DEF IInv, Control, CallerPlaces
  <2> QED
    BY <2>2, <2>3
<1>6. Accounting' /\ OnTheWire' /\ Ending' /\ HighWaterKept' /\ WrittenInOrder'
  BY <1>3 DEF IInv, Accounting, OnTheWire, Ending, Writing, HighWaterKept, WrittenInOrder
<1>7. Signalled' /\ DrainedIsWritten'
  BY <1>3 DEF IInv, Signalled, DrainedIsWritten
<1> QED
  BY <1>4, <1>5, <1>6, <1>7 DEF IInv

\* Calling, waiting, raising and returning: each is a move of the caller.
LEMMA CallsKeep ==
    ASSUME IInv, NEW t \in Callers
    PROVE  /\ CallSend(t) => IInv'
           /\ CallDrain(t) \/ CallStop(t) => IInv'
           /\ SendRaises(t) \/ SendWaits(t) \/ Waits(t) => IInv'
           /\ Aim(t) => IInv'
           /\ Drained(t) \/ Closed(t) \/ Stopped(t) => IInv'
<1> USE DEF flagVars, bufferVars, CallerPlaces
<1>1. t \in Tasks /\ t # Runner
  BY TcpWriterAssumption DEF Runner, Tasks
<1>2. Lock /\ hasData \in BOOLEAN /\ closing \in BOOLEAN /\ assured \in Nat
      /\ assured =< Len(wire) /\ want \in [Callers -> Nat] /\ Len(wire) \in Nat
      /\ submitted \in Nat /\ completed \in Nat
  BY DEF IInv, TypeOK, Lock, DrainedIsWritten
<1>3. pc \in [Tasks -> CallerPlaces \cup RunnerPlaces] /\ pc[t] \in CallerPlaces
  BY DEF IInv, TypeOK, Control, RunnerPlaces
<1>4. ~error => completed =< Len(wire)
  BY <1>2, SMTT(60) DEF IInv, OnTheWire, Control, Accounting, TypeOK, Chunks
<1>5. error => completed = submitted
  BY DEF IInv, Ending
<1>6. CallSend(t) => IInv'
  <2> SUFFICES ASSUME CallSend(t) PROVE IInv'
    OBVIOUS
  <2>1. PICK n \in Sizes : want' = [want EXCEPT ![t] = n]
    BY DEF CallSend
  <2>2. n \in Nat /\ n > 0
    BY TcpWriterAssumption
  <2>3. Lock'
    BY <1>1, <1>2, LockTypes DEF CallSend
  <2> QED
    BY <1>2, <2>1, <2>2, <2>3, CallerMoves DEF CallSend, Goto
<1>7. CallDrain(t) \/ CallStop(t) => IInv'
  <2> SUFFICES ASSUME CallDrain(t) \/ CallStop(t) PROVE IInv'
    OBVIOUS
  <2>1. Lock'
    BY <1>1, <1>2, LockTypes DEF CallDrain, CallStop
  <2> QED
    BY <1>2, <2>1, CallerMoves DEF CallDrain, CallStop, Goto
<1>8. SendRaises(t) \/ SendWaits(t) \/ Waits(t) => IInv'
  <2> SUFFICES ASSUME SendRaises(t) \/ SendWaits(t) \/ Waits(t) PROVE IInv'
    OBVIOUS
  <2>1. Lock'
    BY <1>1, <1>2, LockTypes DEF SendRaises, SendWaits, Waits, Holds
  <2>2. CASE SendRaises(t)
    BY <1>2, <2>1, <2>2, CallerMoves DEF SendRaises, Goto
  <2>3. CASE SendWaits(t) \/ Waits(t)
    <3>1. pc' = [pc EXCEPT ![t] = pc[t]]
      BY <1>3, <2>3 DEF SendWaits, Waits
    <3>2. /\ pc[t] = "send" => want[t] > 0
          /\ pc[t] \in {"draining", "closing", "stopping"} => want[t] =< submitted
          /\ pc[t] = "stopping" => want[t] =< completed
      BY DEF IInv, Control
    <3>3. /\ pc[t] \in CallerPlaces
          /\ UNCHANGED <<bufferVars, completed, flagVars, hasData, want, batch, wire,
                         assured>>
      BY <1>3, <2>3 DEF SendWaits, Waits
    <3> HIDE DEF CallerPlaces
    <3> QED
      BY <1>2, <2>1, <3>1, <3>2, <3>3, CallerMoves
  <2> QED
    BY <2>2, <2>3
<1>9. Aim(t) => IInv'
  <2> SUFFICES ASSUME Aim(t) PROVE IInv'
    OBVIOUS
  <2>1. Lock' /\ want' = [want EXCEPT ![t] = submitted]
    BY <1>2 DEF Aim, Lock
  <2>2. want' \in [Callers -> Nat] /\ want'[t] = submitted
        /\ \A s \in Callers \ {t} : want'[s] = want[s]
    BY <1>2, <2>1
  <2>3. CASE pc[t] = "drain"
    BY <1>2, <2>1, <2>2, <2>3, CallerMoves DEF Aim, Goto
  <2>4. CASE pc[t] # "drain"
    BY <1>2, <2>1, <2>2, <2>4, CallerMoves DEF Aim, Goto
  <2> QED
    BY <2>3, <2>4
<1>10. Drained(t) \/ Closed(t) \/ Stopped(t) => IInv'
  <2> SUFFICES ASSUME Drained(t) \/ Closed(t) \/ Stopped(t) PROVE IInv'
    OBVIOUS
  <2>1. Lock'
    BY <1>1, <1>2, LockTypes DEF Drained, Closed, Stopped, Holds, Lock
  <2>2. pc[t] \in {"draining", "closing", "stopping"} => want[t] =< submitted
    BY DEF IInv, Control
  <2>3. CASE Drained(t)
    <3>1. ~error => want[t] =< completed
      BY <1>2, <2>3 DEF Drained, Pending
    <3>2. assured' \in Nat /\ assured' =< Len(wire)
      BY <1>2, <1>4, <2>3, <3>1 DEF Drained, Assure
    <3> QED
      BY <1>2, <2>1, <2>3, <3>2, CallerMoves DEF Drained, Goto
  <2>4. CASE Closed(t)
    <3>1. want[t] =< completed /\ want[t] =< submitted
      BY <1>2, <1>5, <2>2, <2>4 DEF Closed, Pending, Holds
    <3> QED
      BY <1>2, <2>1, <2>4, <3>1, CallerMoves DEF Closed, Goto
  <2>5. CASE Stopped(t)
    <3>1. want[t] =< completed
      BY <2>5 DEF Stopped, IInv, Control
    <3>2. assured' \in Nat /\ assured' =< Len(wire)
      BY <1>2, <1>4, <2>5, <3>1 DEF Stopped, Assure
    <3> QED
      BY <1>2, <2>1, <2>5, <3>2, CallerMoves DEF Stopped, Goto
  <2> QED
    BY <2>3, <2>4, <2>5
<1> QED
  BY <1>6, <1>7, <1>8, <1>9, <1>10

-----------------------------------------------------------------------------
\* What every step may rely on.
LEMMA Basics ==
    ASSUME IInv
    PROVE  /\ Lock
           /\ queue.sends \in Seq(Nat) /\ queue.bytes \in Nat
           /\ batch.sends \in Seq(Nat) /\ batch.bytes \in Nat
           /\ queue = [sends |-> queue.sends, bytes |-> queue.bytes]
           /\ bufferedBytes \in Nat /\ submitted \in Nat /\ completed \in Nat
           /\ pc \in [Tasks -> CallerPlaces \cup RunnerPlaces]
           /\ want \in [Callers -> Nat]
           /\ wire \in Seq(Nat) /\ Len(wire) \in Nat /\ assured \in Nat
           /\ Runner \in Tasks /\ Callers \subseteq Tasks /\ Runner \notin Callers
  BY TcpWriterAssumption
  DEF IInv, TypeOK, Lock, Chunks, CallerPlaces, RunnerPlaces, Tasks, Runner

\* send() accepts: one more is outstanding, in the queue.
LEMMA SendKeeps == ASSUME IInv, NEW t \in Callers, Send(t) PROVE IInv'
<1> DEFINE n == want[t]
           i0 == submitted + 1
<1>1. /\ ~error /\ ~closing /\ ~Full(n) /\ pc[t] = "send"
      /\ submitted' = i0
      /\ queue' = [sends |-> Append(queue.sends, i0), bytes |-> queue.bytes + n]
      /\ bufferedBytes' = bufferedBytes + n /\ hasData' = TRUE
      /\ pc' = [pc EXCEPT ![t] = "idle"]
      /\ UNCHANGED <<completed, closing, error, stopped, want, batch, wire, assured>>
  BY DEF Send, Enqueue, Goto, Unavailable, Holds, flagVars
<1>2. n \in Nat /\ n > 0
  BY <1>1, Basics DEF IInv, Control
<1>3. /\ queue'.sends = Append(queue.sends, i0) /\ queue'.bytes = queue.bytes + n
      /\ Len(queue'.sends) = Len(queue.sends) + 1
      /\ queue'.sends \in Seq(Nat)
      /\ \A i \in 1..Len(queue.sends) : queue'.sends[i] = queue.sends[i]
      /\ queue'.sends[Len(queue.sends) + 1] = i0
  BY <1>1, Basics, SMTT(60)
<1>4. Lock'
  BY Basics, LockTypes DEF Send, Holds
<1>5. pc'[Runner] = pc[Runner] /\ pc'[t] = "idle" /\ \A s \in Callers \ {t} : pc'[s] = pc[s]
  BY <1>1, Basics
<1>6. TypeOK'
  <2>1. pc' \in [Tasks -> CallerPlaces \cup RunnerPlaces]
    BY <1>1, Basics DEF CallerPlaces
  <2>2. queue' \in Chunks
    BY <1>1, <1>2, <1>3, Basics DEF Chunks
  <2> QED
    BY <1>1, <1>2, <1>4, <2>1, <2>2, Basics, SMTT(60)
    DEF IInv, TypeOK, Lock, CallerPlaces, RunnerPlaces
<1>7. Control'
  BY <1>1, <1>5, Basics DEF IInv, Control
<1>8. Accounting'
  <2> DEFINE q == Len(queue.sends)
             b == Len(batch.sends)
  <2>0. /\ q \in Nat /\ b \in Nat /\ submitted \in Nat /\ completed \in Nat
        /\ queue.bytes \in Nat /\ batch.bytes \in Nat
    BY Basics
  <2>1. /\ submitted = completed + b + q /\ q =< queue.bytes
        /\ bufferedBytes = batch.bytes + queue.bytes
        /\ \A i \in 1..q : queue.sends[i] = completed + b + i
    BY DEF IInv, Accounting
  <2> HIDE DEF q, b
  <2>2. Len(queue'.sends) = q + 1
    BY <1>3 DEF q
  <2>3. q + 1 =< queue'.bytes /\ bufferedBytes' = batch.bytes + queue'.bytes
    <3>1. queue'.bytes = queue.bytes + n /\ bufferedBytes' = bufferedBytes + n
      BY <1>1, <1>3
    <3> HIDE DEF n
    <3> QED
      BY <1>2, <2>0, <2>1, <3>1
  <2>4. submitted' = completed + b + (q + 1)
    BY <1>1, <2>0, <2>1
  <2>5. \A i \in 1..(q + 1) : queue'.sends[i] = completed + b + i
    <3>1. \A i \in 1..q : queue'.sends[i] = completed + b + i
      BY <1>3, <2>1 DEF q
    <3>2. queue'.sends[q + 1] = completed + b + (q + 1)
      BY <1>1, <1>3, <2>4 DEF q
    <3> QED
      BY <2>0, <3>1, <3>2
  <2> QED
    BY <1>1, <1>5, <2>2, <2>3, <2>4, <2>5 DEF IInv, Accounting, Writing, b
<1>9. OnTheWire' /\ WrittenInOrder' /\ DrainedIsWritten'
  BY <1>1, <1>5 DEF IInv, OnTheWire, WrittenInOrder, DrainedIsWritten
<1>10. Ending' /\ Signalled'
  BY <1>1, <1>5 DEF IInv, Ending, Signalled
<1>11. HighWaterKept'
  <2>1. CASE bufferedBytes = 0
    <3>1. Len(batch.sends) = 0 /\ Len(queue.sends) = 0
      BY <2>1, Basics DEF IInv, Accounting
    <3> QED
      BY <1>1, <3>1, Basics DEF IInv, Accounting, HighWaterKept
  <2>2. CASE bufferedBytes # 0
    BY <1>1, <1>2, <2>2, Basics, TcpWriterAssumption, SMTT(60) DEF Full, HighWaterKept
  <2> QED
    BY <2>1, <2>2
<1> QED
  BY <1>6, <1>7, <1>8, <1>9, <1>10, <1>11 DEF IInv

-----------------------------------------------------------------------------
(* run().  Where the runner goes does not concern the callers.             *)
LEMMA RunnerMoves ==
    ASSUME IInv, NEW place \in RunnerPlaces, Goto(Runner, place),
           UNCHANGED <<submitted, want>>,
           completed' \in Nat, completed =< completed'
    PROVE  /\ pc' \in [Tasks -> CallerPlaces \cup RunnerPlaces]
           /\ pc'[Runner] = place
           /\ Control'
<1>1. pc' = [pc EXCEPT ![Runner] = place]
  BY DEF Goto
<1>2. pc' \in [Tasks -> CallerPlaces \cup RunnerPlaces] /\ pc'[Runner] = place
      /\ \A s \in Callers : pc'[s] = pc[s]
  BY <1>1, Basics
<1>3. Control'
  BY <1>2, Basics DEF IInv, Control, RunnerPlaces
<1> QED
  BY <1>2, <1>3

\* Waking, taking nothing, and the return of send_all().
LEMMA AwakeKeeps == ASSUME IInv, Awake PROVE IInv'
<1> USE DEF flagVars, bufferVars
<1>1. pc[Runner] = "wait" /\ hasData /\ Goto(Runner, "take")
  BY DEF Awake
<1>2. pc' \in [Tasks -> CallerPlaces \cup RunnerPlaces] /\ pc'[Runner] = "take" /\ Control'
  BY <1>1, Basics, RunnerMoves DEF Awake, RunnerPlaces
<1>3. Lock'
  BY Basics, LockTypes DEF Awake
<1>4. TypeOK'
  BY <1>2, <1>3 DEF Awake, IInv, TypeOK, Lock, CallerPlaces, RunnerPlaces
<1>5. Accounting' /\ OnTheWire' /\ Ending' /\ Signalled'
  BY <1>1, <1>2 DEF Awake, IInv, Accounting, OnTheWire, Ending, Signalled, Writing
<1>6. HighWaterKept' /\ WrittenInOrder' /\ DrainedIsWritten'
  BY DEF Awake, IInv, HighWaterKept, WrittenInOrder, DrainedIsWritten
<1> QED
  BY <1>2, <1>4, <1>5, <1>6 DEF IInv

LEMMA TakeNothingKeeps == ASSUME IInv, TakeNothing PROVE IInv'
<1> USE DEF flagVars, bufferVars
<1> DEFINE place == IF closing THEN "done" ELSE "wait"
<1>1. pc[Runner] = "take" /\ queue.sends = <<>> /\ Goto(Runner, place)
  BY DEF TakeNothing, Holds
<1>2. pc' \in [Tasks -> CallerPlaces \cup RunnerPlaces] /\ pc'[Runner] = place /\ Control'
  BY <1>1, Basics, RunnerMoves DEF TakeNothing, RunnerPlaces
<1>3. Lock'
  BY Basics, LockTypes DEF TakeNothing, Holds
<1>4. TypeOK'
  BY <1>2, <1>3 DEF TakeNothing, IInv, TypeOK, Lock, CallerPlaces, RunnerPlaces
<1>5. ~stopped /\ ~error /\ Len(wire) = completed
  BY <1>1 DEF IInv, Ending, OnTheWire
<1>6. Accounting' /\ OnTheWire' /\ Signalled'
  BY <1>1, <1>2, <1>5 DEF TakeNothing, IInv, Accounting, OnTheWire, Signalled, Writing
<1>7. Ending'
  BY <1>1, <1>2, <1>5 DEF TakeNothing, IInv, Ending
<1>8. HighWaterKept' /\ WrittenInOrder' /\ DrainedIsWritten'
  BY DEF TakeNothing, IInv, HighWaterKept, WrittenInOrder, DrainedIsWritten
<1> QED
  BY <1>2, <1>4, <1>6, <1>7, <1>8 DEF IInv

\* run() takes the whole queue: the numbering goes on where it was.
LEMMA TakeBatchKeeps == ASSUME IInv, TakeBatch PROVE IInv'
<1> USE DEF flagVars, bufferVars
<1>1. /\ pc[Runner] = "take" /\ queue.sends # <<>> /\ Goto(Runner, "write")
      /\ batch' = queue /\ queue' = Nothing
  BY DEF TakeBatch, Holds, Empty
<1>2. pc' \in [Tasks -> CallerPlaces \cup RunnerPlaces] /\ pc'[Runner] = "write" /\ Control'
  BY <1>1, Basics, RunnerMoves DEF TakeBatch, RunnerPlaces
<1>3. Lock'
  BY Basics, LockTypes DEF TakeBatch, Holds
<1>4. Nothing \in Chunks /\ Len(Nothing.sends) = 0 /\ Nothing.bytes = 0 /\ Nothing.sends = <<>>
  BY DEF Nothing, Chunks
<1>5. TypeOK'
  BY <1>1, <1>2, <1>3, <1>4
  DEF TakeBatch, IInv, TypeOK, Lock, CallerPlaces, RunnerPlaces
<1>6. batch = Nothing
  BY <1>1 DEF IInv, Accounting, Writing
<1>7. Accounting'
  BY <1>1, <1>2, <1>4, <1>6, Basics, SMTT(60) DEF TakeBatch, IInv, Accounting, Writing
<1>8. OnTheWire' /\ Ending' /\ Signalled'
  BY <1>1, <1>2, <1>4 DEF TakeBatch, IInv, OnTheWire, Ending, Signalled
<1>9. HighWaterKept' /\ WrittenInOrder' /\ DrainedIsWritten'
  BY DEF TakeBatch, IInv, HighWaterKept, WrittenInOrder, DrainedIsWritten
<1> QED
  BY <1>2, <1>5, <1>7, <1>8, <1>9 DEF IInv

\* A prefix of a sequence, and two sequences joined, place by place.
LEMMA PrefixOf ==
    ASSUME NEW s \in Seq(Nat), NEW n \in 0..Len(s)
    PROVE  /\ SubSeq(s, 1, n) \in Seq(Nat)
           /\ Len(SubSeq(s, 1, n)) = n
           /\ \A i \in 1..n : SubSeq(s, 1, n)[i] = s[i]
  OBVIOUS

LEMMA Joined ==
    ASSUME NEW s \in Seq(Nat), NEW t \in Seq(Nat)
    PROVE  /\ s \o t \in Seq(Nat) /\ Len(s \o t) = Len(s) + Len(t)
           /\ \A i \in 1..Len(s) : (s \o t)[i] = s[i]
           /\ \A i \in 1..Len(t) : (s \o t)[Len(s) + i] = t[i]
  OBVIOUS

\* A place beyond the first a of a + b is one of the other b.
LEMMA Beyond ==
    ASSUME NEW a \in Nat, NEW b \in Nat, NEW i \in 1..(a + b), i > a
    PROVE  i - a \in 1..b /\ i = a + (i - a)
  OBVIOUS

\* send_all() returns, or fails after the first n sends of the batch: what it
\* added to the wire goes on where the wire was.
LEMMA WriteKeeps ==
    ASSUME IInv, pc[Runner] = "write",
           NEW n \in 0..Len(batch.sends), NEW place \in {"written", "failed"},
           place = "written" => n = Len(batch.sends),
           wire' = wire \o SubSeq(batch.sends, 1, n),
           Goto(Runner, place), Reach(Runner),
           UNCHANGED <<bufferVars, completed, flagVars, hasData, want, batch, assured>>
    PROVE  IInv'
<1> USE DEF flagVars, bufferVars
<1>1. pc' \in [Tasks -> CallerPlaces \cup RunnerPlaces] /\ pc'[Runner] = place /\ Control'
  BY Basics, RunnerMoves DEF RunnerPlaces
<1>2. Lock'
  BY Basics, LockTypes
<1>3. n \in Nat /\ n =< Len(batch.sends)
  BY Basics
<1>4. /\ SubSeq(batch.sends, 1, n) \in Seq(Nat)
      /\ Len(SubSeq(batch.sends, 1, n)) = n
      /\ \A i \in 1..n : SubSeq(batch.sends, 1, n)[i] = batch.sends[i]
  BY Basics, PrefixOf
<1>5. /\ wire' \in Seq(Nat) /\ Len(wire') = Len(wire) + n
      /\ \A i \in 1..Len(wire) : wire'[i] = wire[i]
      /\ \A i \in 1..n : wire'[Len(wire) + i] = batch.sends[i]
  <2> DEFINE more == SubSeq(batch.sends, 1, n)
  <2>1. more \in Seq(Nat) /\ Len(more) = n /\ wire' = wire \o more
        /\ \A i \in 1..n : more[i] = batch.sends[i]
    BY <1>4
  <2>2. wire \in Seq(Nat)
    BY Basics
  <2> HIDE DEF more
  <2>3. /\ wire \o more \in Seq(Nat) /\ Len(wire \o more) = Len(wire) + Len(more)
        /\ \A i \in 1..Len(wire) : (wire \o more)[i] = wire[i]
        /\ \A i \in 1..Len(more) : (wire \o more)[Len(wire) + i] = more[i]
    BY <2>1, <2>2, Joined
  <2> QED
    BY <2>1, <2>3
<1>6. TypeOK'
  BY <1>1, <1>2, <1>5 DEF IInv, TypeOK, Lock, CallerPlaces, RunnerPlaces
<1>7. Accounting' /\ Ending' /\ Signalled' /\ HighWaterKept'
  BY <1>1 DEF IInv, Accounting, Writing, Ending, Signalled, HighWaterKept
<1>8. Len(wire) = completed
  BY DEF IInv, OnTheWire
<1>9. OnTheWire'
  BY <1>1, <1>3, <1>5, <1>8, Basics, SMTT(60) DEF OnTheWire
<1>10. WrittenInOrder'
  <2> SUFFICES ASSUME NEW i \in 1..Len(wire') PROVE wire'[i] = i
    BY DEF WrittenInOrder
  <2>1. CASE i =< Len(wire)
    BY <1>5, <2>1, Basics DEF IInv, WrittenInOrder
  <2>2. CASE i > Len(wire)
    <3>1. i - Len(wire) \in 1..n /\ i = Len(wire) + (i - Len(wire))
      <4>1. Len(wire) \in Nat /\ i \in 1..(Len(wire) + n)
        BY <1>5, Basics
      <4> QED
        BY <1>3, <2>2, <4>1, Beyond
    <3>2. wire'[i] = batch.sends[i - Len(wire)]
      BY <1>5, <3>1
    <3>3. i - Len(wire) \in 1..Len(batch.sends)
      <4>1. Len(batch.sends) \in Nat
        BY Basics
      <4> QED
        BY <1>3, <3>1, <4>1
    <3>4. batch.sends[i - Len(wire)] = completed + (i - Len(wire))
      BY <3>3 DEF IInv, Accounting
    <3> QED
      BY <1>8, <3>1, <3>2, <3>4, Basics
  <2> QED
    BY <2>1, <2>2, Basics, <1>5, SMTT(60)
<1>11. DrainedIsWritten'
  BY <1>3, <1>5, Basics DEF IInv, DrainedIsWritten
<1> QED
  BY <1>1, <1>6, <1>7, <1>9, <1>10, <1>11 DEF IInv

\* The batch is accounted for: its last number is how much is completed.
LEMMA WrittenKeeps == ASSUME IInv, Written PROVE IInv'
<1> USE DEF flagVars
<1> DEFINE b == Len(batch.sends)
<1>1. /\ pc[Runner] = "written" /\ Goto(Runner, "wait") /\ batch' = Nothing
      /\ bufferedBytes' = bufferedBytes - batch.bytes
      /\ completed' = batch.sends[b]
      /\ hasData' = (hasData \/ closing)
      /\ UNCHANGED <<queue, submitted, closing, error, stopped, want, wire, assured>>
  BY DEF Written, Holds, Complete
<1>2. b \in Nat /\ b > 0
  BY <1>1, Basics, SMTT(60) DEF IInv, Accounting, Writing
<1>3. completed' = completed + b
  <2>1. \A i \in 1..b : batch.sends[i] = completed + i
    BY DEF IInv, Accounting
  <2> QED
    BY <1>1, <1>2, <2>1
<1>4. completed' \in Nat /\ completed =< completed'
  BY <1>2, <1>3, Basics, SMTT(60)
<1>5. pc' \in [Tasks -> CallerPlaces \cup RunnerPlaces] /\ pc'[Runner] = "wait" /\ Control'
  BY <1>1, <1>4, RunnerMoves DEF RunnerPlaces
<1>6. Lock'
  BY Basics, LockTypes DEF Written, Holds
<1>7. Nothing \in Chunks /\ Len(Nothing.sends) = 0 /\ Nothing.bytes = 0
  BY DEF Nothing, Chunks
<1>8. bufferedBytes' = queue.bytes /\ bufferedBytes' \in Nat /\ bufferedBytes' =< bufferedBytes
  BY <1>1, Basics DEF IInv, Accounting
<1>9. TypeOK'
  BY <1>1, <1>4, <1>5, <1>6, <1>7, <1>8
  DEF IInv, TypeOK, Lock, CallerPlaces, RunnerPlaces
<1>10. Accounting'
  BY <1>1, <1>2, <1>3, <1>5, <1>7, <1>8, Basics, SMTT(60) DEF IInv, Accounting, Writing
<1>11. ~stopped /\ ~error
  BY <1>1 DEF IInv, Ending
<1>12. OnTheWire' /\ Ending' /\ Signalled'
  BY <1>1, <1>3, <1>5, <1>11 DEF IInv, OnTheWire, Ending, Signalled
<1>13. HighWaterKept'
  <2>1. HighWater \in Nat /\ bufferedBytes \in Nat /\ submitted \in Nat /\ completed \in Nat
    BY Basics, TcpWriterAssumption
  <2>2. bufferedBytes =< HighWater \/ submitted - completed =< 1
    BY DEF IInv, HighWaterKept
  <2>3. submitted' = submitted
    BY <1>1
  <2>4. bufferedBytes' =< HighWater \/ submitted' - completed' =< 1
    <3>1. CASE bufferedBytes =< HighWater
      BY <1>8, <2>1, <3>1
    <3>2. CASE submitted - completed =< 1
      <4>1. \A a, b1, b2 \in Nat : a - b1 =< 1 /\ b1 =< b2 => a - b2 =< 1
        OBVIOUS
      <4>2. submitted - completed' =< 1
        BY <1>4, <2>1, <3>2, <4>1
      <4> QED
        BY <2>3, <4>2
    <3> QED
      BY <2>2, <3>1, <3>2
  <2> QED
    BY <2>4 DEF HighWaterKept
<1>14. WrittenInOrder' /\ DrainedIsWritten'
  BY <1>1 DEF IInv, WrittenInOrder, DrainedIsWritten
<1> QED
  BY <1>5, <1>9, <1>10, <1>12, <1>13, <1>14 DEF IInv

\* An error gives up what is outstanding, all of it.
LEMMA FailedKeeps == ASSUME IInv, Failed PROVE IInv'
<1> USE DEF flagVars
<1>1. /\ pc[Runner] = "failed" /\ Goto(Runner, "done") /\ batch' = Nothing
      /\ queue' = Nothing /\ bufferedBytes' = 0 /\ completed' = submitted
      /\ error' = TRUE /\ stopped' = TRUE
      /\ UNCHANGED <<submitted, closing, hasData, want, wire, assured>>
  BY DEF Failed, Holds, Fail
<1>2. completed' \in Nat /\ completed =< completed'
  BY <1>1, Basics DEF IInv, Accounting
<1>3. pc' \in [Tasks -> CallerPlaces \cup RunnerPlaces] /\ pc'[Runner] = "done" /\ Control'
  BY <1>1, <1>2, RunnerMoves DEF RunnerPlaces
<1>4. Lock'
  BY Basics, LockTypes DEF Failed, Holds, Fail
<1>5. Nothing \in Chunks /\ Len(Nothing.sends) = 0 /\ Nothing.bytes = 0 /\ Nothing.sends = <<>>
  BY DEF Nothing, Chunks
<1>6. TypeOK'
  BY <1>1, <1>2, <1>3, <1>4, <1>5 DEF IInv, TypeOK, Lock, CallerPlaces, RunnerPlaces
<1>7. Accounting' /\ OnTheWire' /\ Ending' /\ Signalled'
  BY <1>1, <1>3, <1>5, Basics DEF Accounting, OnTheWire, Ending, Signalled, Writing
<1>8. HighWaterKept' /\ WrittenInOrder' /\ DrainedIsWritten'
  BY <1>1, Basics DEF IInv, HighWaterKept, WrittenInOrder, DrainedIsWritten
<1> QED
  BY <1>3, <1>6, <1>7, <1>8 DEF IInv

-----------------------------------------------------------------------------
\* The inductive invariant of the writer: what each task holds, the numbering
\* and the counting of what is outstanding, how far the wire is, how run()
\* ends, and the event.  It rests on TcpWriterAssumption alone.
THEOREM WriterInvariance == Spec => []IInv
<1>1. Init => IInv
  BY InitIInv
<1>2. IInv /\ [Next]_vars => IInv'
  <2> SUFFICES ASSUME IInv, [Next]_vars PROVE IInv'
    OBVIOUS
  <2>1. ASSUME NEW t \in Callers,
               CallSend(t) \/ CallDrain(t) \/ CallStop(t) \/ CallerStep(t)
        PROVE  IInv'
    BY <2>1, CallsKeep, SendKeeps DEF CallerStep
  <2>2. CASE RunnerStep
    <3>1. CASE WriteReturns
      <4>1. SubSeq(batch.sends, 1, Len(batch.sends)) = batch.sends
        BY Basics
      <4>2. Len(batch.sends) \in 0..Len(batch.sends)
        BY Basics
      <4> QED
        BY <3>1, <4>1, <4>2, WriteKeeps DEF WriteReturns
    <3>2. CASE WriteFails
      BY <3>2, WriteKeeps DEF WriteFails
    <3> QED
      BY <2>2, <3>1, <3>2, AwakeKeeps, TakeNothingKeeps, TakeBatchKeeps, WrittenKeeps,
         FailedKeeps DEF RunnerStep
  <2>3. CASE UNCHANGED vars
    BY <2>3 DEF vars, bufferVars, flagVars, IInv, TypeOK, Control, Accounting, OnTheWire,
                Ending, Signalled, Writing, HighWaterKept, WrittenInOrder, DrainedIsWritten
  <2> QED
    BY <2>1, <2>2, <2>3 DEF Next
<1> QED
  BY <1>1, <1>2, PTL DEF Spec

\* Every variable keeps its type: the count of bytes never falls below zero.
THEOREM WriterTypes == Spec => []TypeOK
<1>1. IInv => TypeOK
  BY DEF IInv
<1> QED
  BY <1>1, WriterInvariance, PTL

\* Back-pressure: the high-water mark of _buffered_bytes is kept.
THEOREM WriterHighWater == Spec => []HighWaterKept
<1>1. IInv => HighWaterKept
  BY DEF IInv
<1> QED
  BY <1>1, WriterInvariance, PTL

\* What send_all() is given is what was accepted, once and in order.
THEOREM WriterOrder == Spec => []WrittenInOrder
<1>1. IInv => WrittenInOrder
  BY DEF IInv
<1> QED
  BY <1>1, WriterInvariance, PTL

\* drain() and stop() return only when what they waited for is written.
THEOREM WriterDrains == Spec => []DrainedIsWritten
<1>1. IInv => DrainedIsWritten
  BY DEF IInv
<1> QED
  BY <1>1, WriterInvariance, PTL

\* run() ends without an error only when all that was accepted is written.
THEOREM WriterCompletes == Spec => []StoppedIsComplete
<1>1. IInv => StoppedIsComplete
  <2> SUFFICES ASSUME IInv, stopped, ~error PROVE Len(wire) = submitted
    BY DEF StoppedIsComplete
  <2>1. pc[Runner] = "done" /\ Len(queue.sends) = 0
    BY DEF IInv, Ending
  <2>2. batch = Nothing /\ Len(wire) = completed
    BY <2>1 DEF IInv, Accounting, OnTheWire, Writing
  <2> QED
    BY <2>1, <2>2, Basics DEF IInv, Accounting, Nothing
<1> QED
  BY <1>1, WriterInvariance, PTL

\* Both together: what drain() and stop() promise to a caller they return to.
THEOREM WriterPromises == Spec => []PromisesKept
<1>1. DrainedIsWritten /\ StoppedIsComplete => PromisesKept
  BY DEF PromisesKept
<1> QED
  BY <1>1, WriterDrains, WriterCompletes, PTL

\* What is accepted is written once and in order, and the promises are kept.
THEOREM WriterDelivers == Spec => []Delivered
<1>1. WrittenInOrder /\ PromisesKept => Delivered
  BY DEF Delivered
<1> QED
  BY <1>1, WriterOrder, WriterPromises, PTL

\* The runner never waits for an event that stands for data or for a stop().
THEOREM WriterNoSleep == Spec => []NoSleep
<1>1. IInv => NoSleep
  BY DEF IInv, Signalled, NoSleep
<1> QED
  BY <1>1, WriterInvariance, PTL
=============================================================================
