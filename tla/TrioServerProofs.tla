--------------------------- MODULE TrioServerProofs ---------------------------
(***************************************************************************)
(* A trio connection uses its writer as TcpWriter allows, and so inherits  *)
(* what is proved of it; it is closed by the server only when its output   *)
(* is written, and by the idle timer only between requests, for every set  *)
(* of callers, sizes, mark and number of timers.                           *)
(***************************************************************************)
EXTENDS TrioServer, TcpWriterProofs, SequenceTheorems

-----------------------------------------------------------------------------
(* A connection's steps are the writer's, or leave the writer alone.       *)

LEMMA WhoCalls == Reader \in Callers /\ Apps \subseteq Callers /\ Free \subseteq Callers
BY TrioServerAssumption DEF Apps

LEMMA ServesMaps ==
    ASSUME NEW t \in Callers, Serves(t)
    PROVE  Next \/ UNCHANGED vars
<1>1. CASE CallWriter(t)
  BY <1>1 DEF CallWriter, Next
<1>2. CASE InWriter(t)
  BY <1>2 DEF InWriter, WriterRaises, WriterServes, CallerStep, Next
<1>3. CASE \/ Aclose(t) \/ HandleClosed(t)
           \/ StopTimer(t) \/ RestartTimer(t) \/ StartTimer(t)
  BY <1>3 DEF Aclose, HandleClosed, StopTimer, RestartTimer, StartTimer
<1> QED
  BY <1>1, <1>2, <1>3 DEF Serves

LEMMA StepMaps == [ServerNext]_allVars => [Next]_vars
<1> SUFFICES ASSUME [ServerNext]_allVars PROVE Next \/ UNCHANGED vars
  OBVIOUS
<1>1. CASE \E t \in Free : Calls(t) \/ FreeStep(t)
  BY <1>1, WhoCalls DEF Calls, FreeStep, Next
<1>2. CASE Runs
  BY <1>2 DEF Runs, Next
<1>3. CASE ReaderStep \/ Receive
  <2>1. CASE Serves(Reader)
    BY <2>1, WhoCalls, ServesMaps
  <2>2. CASE Spawn \/ ReadEnds \/ Leaves \/ RunEnds \/ Receive
    BY <2>2 DEF Spawn, ReadEnds, Leaves, RunEnds, Receive
  <2> QED
    BY <1>3, <2>1, <2>2 DEF ReaderStep
<1>4. CASE \E a \in Apps : AppStep(a)
  <2> PICK a \in Apps : AppStep(a)
    BY <1>4
  <2>1. CASE Serves(a)
    BY <2>1, WhoCalls, ServesMaps
  <2>2. CASE AppEnds(a) \/ Recycle(a) \/ AppOver(a)
    BY <2>2 DEF AppEnds, Recycle, AppOver
  <2> QED
    BY <2>1, <2>2 DEF AppStep
<1>5. CASE \E i \in Timers : TimerStep(i)
  BY <1>5 DEF TimerStep, WakesUp, InitiatesClose, HangsUp
<1>6. CASE Writes
  BY <1>6 DEF Writes, RunnerStep, Next
<1>7. CASE ClientLeaves \/ Terminate \/ UNCHANGED allVars
  BY <1>7 DEF ClientLeaves, Terminate, allVars
<1> QED
  BY <1>1, <1>2, <1>3, <1>4, <1>5, <1>6, <1>7 DEF ServerNext

\* The server refines its writer: every behaviour of a connection is one of a
\* BufferedWriter and its callers.
THEOREM ServerImplementsWriter == ServerSpec => Spec
<1>1. ServerInit => Init
  BY DEF ServerInit
<1> QED
  BY <1>1, StepMaps, PTL DEF ServerSpec, Spec

\* In a connection, too, the high-water mark is kept.
THEOREM ServerHighWater == ServerSpec => []HighWaterKept
BY ServerImplementsWriter, WriterHighWater, PTL

\* In a connection, too, what is accepted is written once and in order, and
\* drain() and stop() keep their promises.
THEOREM ServerDelivers == ServerSpec => []Delivered
BY ServerImplementsWriter, WriterDelivers, PTL

-----------------------------------------------------------------------------
(* What a task is still to do.                                             *)

Ops == {"send", "drain", "stop", "aclose", "closed", "disarm", "rearm", "arm",
        "recycle", "hangup", "spawn"}

\* The transport is closed after a stop(), a request follows the stop of the
\* timer, and a timer's start is always the next thing.
InOrder(ops) ==
    \A i \in 1..(Len(ops) - 1) :
       /\ ops[i + 1] = "aclose" => ops[i] = "stop"
       /\ ops[i + 1] = "spawn" => ops[i] = "disarm"
       /\ ops[i + 1] # "arm"

Stopping == {"stop", "closing", "stopping"}

\* Who is about to close the transport has stopped the writer, or is doing so.
Hanging(t, ops) ==
    ops # <<>> /\ ops[1] = "aclose" => stopped \/ pc[t] \in Stopping

Plans ==
    /\ todo \in [Callers -> Seq(Ops)]
    /\ \A t \in Callers : InOrder(todo[t]) /\ Hanging(t, todo[t])

\* What may come after an operation.
MayFollow(op, s) ==
    /\ s # <<>> /\ s[1] = "aclose" => op = "stop"
    /\ s # <<>> /\ s[1] = "spawn" => op = "disarm"
    /\ s # <<>> => s[1] # "arm"

LEMMA Rest ==
    ASSUME NEW s \in Seq(Ops), s # <<>>, InOrder(s)
    PROVE  /\ Tail(s) \in Seq(Ops) /\ InOrder(Tail(s))
           /\ MayFollow(s[1], Tail(s))
<1>1. /\ Tail(s) \in Seq(Ops) /\ Len(Tail(s)) = Len(s) - 1
      /\ \A i \in 1..Len(Tail(s)) : Tail(s)[i] = s[i + 1]
  BY HeadTailProperties
<1>2. Len(s) \in Nat
  OBVIOUS
<1>3. ASSUME NEW i \in 1..(Len(s) - 2)
      PROVE  /\ Tail(s)[i] = s[i + 1] /\ Tail(s)[i + 1] = s[(i + 1) + 1]
             /\ i + 1 \in 1..(Len(s) - 1)
  <2>1. i \in 1..(Len(s) - 1) /\ i + 1 \in 1..(Len(s) - 1)
    BY <1>2
  <2> QED
    BY <1>1, <2>1
<1>4. InOrder(Tail(s))
  <2>1. Len(Tail(s)) - 1 = Len(s) - 2
    BY <1>1, <1>2
  <2> QED
    BY <1>3, <2>1 DEF InOrder
<1>5. Tail(s) # <<>> => 1 \in 1..(Len(s) - 1) /\ Tail(s)[1] = s[1 + 1]
  <2> SUFFICES ASSUME Tail(s) # <<>> PROVE 1 \in 1..(Len(s) - 1)
    BY <1>1
  <2>1. Len(Tail(s)) # 0 /\ Len(Tail(s)) \in Nat
    BY <1>1, EmptySeq
  <2> QED
    BY <1>1, <1>2, <2>1
<1> QED
  BY <1>1, <1>4, <1>5 DEF InOrder, MayFollow

\* What is to be done next, before the rest.
LEMMA Joins ==
    ASSUME NEW ops \in Seq(Ops), NEW r \in Seq(Ops), InOrder(ops), InOrder(r),
           r # <<>> => r[1] \notin {"aclose", "spawn", "arm"}
    PROVE  /\ ops \o r \in Seq(Ops) /\ InOrder(ops \o r)
           /\ ops # <<>> => (ops \o r)[1] = ops[1]
           /\ ops = <<>> => ops \o r = r
<1> DEFINE m == Len(ops)
           n == Len(r)
           c == ops \o r
<1>1. /\ c \in Seq(Ops) /\ Len(c) = m + n
      /\ \A i \in 1..(m + n) : c[i] = IF i =< m THEN ops[i] ELSE r[i - m]
  BY ConcatProperties
<1>2. m \in Nat /\ n \in Nat
  OBVIOUS
<1>3. ASSUME NEW i \in 1..(m + n - 1)
      PROVE  /\ c[i + 1] = "aclose" => c[i] = "stop"
             /\ c[i + 1] = "spawn" => c[i] = "disarm"
             /\ c[i + 1] # "arm"
  <2> HIDE DEF m, n, c
  <2>1. i \in 1..(m + n) /\ i + 1 \in 1..(m + n)
    BY <1>2
  <2>2. CASE i + 1 =< m
    <3>1. i =< m /\ i \in 1..(m - 1)
      BY <1>2, <2>2
    <3>2. c[i] = ops[i] /\ c[i + 1] = ops[i + 1]
      BY <1>1, <2>1, <2>2, <3>1
    <3> QED
      BY <3>1, <3>2 DEF InOrder, m
  <2>3. CASE i = m
    <3>1. ~(i + 1 =< m) /\ (i + 1) - m = 1 /\ n # 0
      BY <1>2, <2>3
    <3>2. c[i + 1] = r[1]
      BY <1>1, <2>1, <3>1
    <3>3. r # <<>>
      BY <3>1 DEF n
    <3> QED
      BY <3>2, <3>3
  <2>4. CASE i > m
    <3>1. ~(i + 1 =< m) /\ ~(i =< m) /\ i - m \in 1..(n - 1) /\ (i + 1) - m = (i - m) + 1
      BY <1>2, <2>4
    <3>2. c[i] = r[i - m] /\ c[i + 1] = r[(i - m) + 1]
      BY <1>1, <2>1, <3>1
    <3> QED
      BY <3>1, <3>2 DEF InOrder, n
  <2>5. i \in Int /\ m \in Int
    BY <1>2
  <2>6. i + 1 =< m \/ i = m \/ i > m
    BY <2>5
  <2> QED
    BY <2>2, <2>3, <2>4, <2>6
<1>4. InOrder(c)
  <2>1. Len(c) - 1 = m + n - 1
    BY <1>1
  <2> HIDE DEF m, n, c
  <2> QED
    BY <1>3, <2>1 DEF InOrder
<1>5. ops # <<>> => c[1] = ops[1]
  <2> SUFFICES ASSUME ops # <<>> PROVE c[1] = ops[1]
    OBVIOUS
  <2>1. m # 0
    BY EmptySeq
  <2>2. 1 \in 1..(m + n) /\ 1 =< m
    BY <1>2, <2>1
  <2> QED
    BY <1>1, <2>2
<1>6. ops = <<>> => c = r
  BY ConcatEmptySeq
<1> QED
  BY <1>1, <1>4, <1>5, <1>6

\* The lists of operations in the code.
LEMMA Lengths ==
    ASSUME NEW S, NEW a \in S, NEW b \in S, NEW c \in S
    PROVE  <<a>> \in Seq(S) /\ <<a, b>> \in Seq(S) /\ <<a, b, c>> \in Seq(S)
  OBVIOUS

LEMMA One == ASSUME NEW op \in Ops PROVE <<op>> \in Seq(Ops) /\ InOrder(<<op>>)
<1>1. Len(<<op>>) - 1 = 0 /\ 1..0 = {}
  OBVIOUS
<1>2. <<op>> \in Seq(Ops)
  BY Lengths
<1> QED
  BY <1>1, <1>2 DEF InOrder

LEMMA Two ==
    ASSUME NEW a \in Ops, NEW b \in Ops,
           b = "aclose" => a = "stop", b = "spawn" => a = "disarm", b # "arm"
    PROVE  <<a, b>> \in Seq(Ops) /\ InOrder(<<a, b>>)
<1>1. Len(<<a, b>>) = 2 /\ <<a, b>>[1] = a /\ <<a, b>>[2] = b
  OBVIOUS
<1>2. 1..(2 - 1) = {1}
  OBVIOUS
<1>3. <<a, b>> \in Seq(Ops)
  BY Lengths
<1> QED
  BY <1>1, <1>2, <1>3 DEF InOrder

LEMMA Lists ==
    /\ <<>> \in Seq(Ops) /\ InOrder(<<>>)
    /\ HangUpOps \in Seq(Ops) /\ InOrder(HangUpOps)
    /\ HangUpOps # <<>> /\ HangUpOps[1] = "stop"
    /\ <<"send">> \o HangUpOps \in Seq(Ops) /\ InOrder(<<"send">> \o HangUpOps)
    /\ <<"send">> \o HangUpOps # <<>> /\ (<<"send">> \o HangUpOps)[1] = "send"
<1>1. <<>> \in Seq(Ops) /\ InOrder(<<>>)
  <2>1. Len(<<>>) - 1 = -1 /\ 1..(-1) = {}
    OBVIOUS
  <2> QED
    BY <2>1, EmptySeq DEF InOrder
<1>2. HangUpOps \in Seq(Ops) /\ HangUpOps # <<>> /\ HangUpOps[1] = "stop"
  <2>1. "stop" \in Ops /\ "aclose" \in Ops /\ "closed" \in Ops
    BY DEF Ops
  <2>2. HangUpOps \in Seq(Ops)
    BY <2>1, Lengths DEF HangUpOps
  <2> QED
    BY <2>2 DEF HangUpOps
<1>3. InOrder(HangUpOps)
  <2>1. /\ Len(HangUpOps) = 3 /\ HangUpOps[1] = "stop" /\ HangUpOps[2] = "aclose"
        /\ HangUpOps[3] = "closed"
    BY DEF HangUpOps
  <2>2. 1..(3 - 1) = {1, 2}
    OBVIOUS
  <2> QED
    BY <2>1, <2>2 DEF InOrder
<1>4. <<"send">> # <<>> /\ <<"send">>[1] = "send"
  OBVIOUS
<1>5. /\ <<"send">> \o HangUpOps \in Seq(Ops) /\ InOrder(<<"send">> \o HangUpOps)
      /\ (<<"send">> \o HangUpOps)[1] = "send"
  <2>1. <<"send">> \in Seq(Ops) /\ InOrder(<<"send">>)
    BY One DEF Ops
  <2>2. HangUpOps[1] \notin {"aclose", "spawn", "arm"}
    BY <1>2
  <2> QED
    BY <1>2, <1>3, <1>4, <2>1, <2>2, Joins
<1>6. <<"send">> \o HangUpOps # <<>>
  BY <1>2, <1>4, ConcatProperties, EmptySeq
<1> QED
  BY <1>1, <1>2, <1>3, <1>5, <1>6

-----------------------------------------------------------------------------
(* The inductive invariant.                                                *)

Starting(t) == todo[t] # <<>> /\ todo[t][1] = "arm"
States == {"new", "waits", "woken", "closes", "over"}

\* At most one timer can fire by itself, the one that can be cancelled, and none
\* while another is being started.
Single ==
    /\ timers \in [Timers -> States]
    /\ \A i \in Timers : timers[i] = "waits" => i = handle /\ ~locked
    /\ \A i \in Timers : timers[i] = "woken" => terminated
    /\ \A t \in Callers : Starting(t) => locked
    /\ \A t, u \in Callers : Starting(t) /\ Starting(u) => t = u

\* No timer can fire in a request, unless it was started late.
Timely == InRequest /\ (\E i \in Timers : timers[i] = "waits") => history.late

\* What has happened.
Known ==
    /\ history \in [closedBy : {None, "server", "timer"}, late : BOOLEAN, cut : BOOLEAN]
    /\ history.closedBy = "server" => stopped
    /\ TimedBetween

SInv == Plans /\ Single /\ Timely /\ Known

-----------------------------------------------------------------------------
(* What a step must keep, by what it changes.                              *)

LEMMA PlansKeep ==
    ASSUME Plans, NEW t \in Callers, NEW s \in Seq(Ops), InOrder(s),
           todo' = [todo EXCEPT ![t] = s],
           stopped => stopped',
           \A u \in Callers \ {t} : pc'[u] = pc[u],
           s # <<>> /\ s[1] = "aclose" => stopped' \/ pc'[t] \in Stopping
    PROVE  Plans'
<1>1. todo' \in [Callers -> Seq(Ops)]
  BY DEF Plans
<1>2. todo'[t] = s /\ \A u \in Callers \ {t} : todo'[u] = todo[u]
  BY DEF Plans
<1>3. ASSUME NEW u \in Callers
      PROVE  InOrder(todo'[u]) /\ Hanging(u, todo[u])'
  <2>1. CASE u = t
    BY <1>2, <2>1 DEF Hanging
  <2>2. CASE u # t
    <3>1. todo'[u] = todo[u] /\ pc'[u] = pc[u]
      BY <1>2, <2>2
    <3> QED
      BY <3>1 DEF Plans, Hanging
  <2> QED
    BY <2>1, <2>2
<1> QED
  BY <1>1, <1>3 DEF Plans, InOrder, Hanging

LEMMA TimersKeep ==
    ASSUME SInv, NEW t \in Callers, NEW s \in Seq(Ops),
           todo' = [todo EXCEPT ![t] = s],
           s # <<>> => s[1] \notin {"arm", "spawn"},
           UNCHANGED timerVars, stream' \in {stream, None},
           terminated => terminated', history'.late = history.late
    PROVE  Single' /\ Timely'
<1>1. todo'[t] = s /\ \A u \in Callers \ {t} : todo'[u] = todo[u]
  BY DEF SInv, Plans
<1>2. \A u \in Callers : Starting(u)' => Starting(u)
  BY <1>1 DEF Starting
<1>3. Single'
  BY <1>2 DEF SInv, Single, timerVars
<1>4. InRequest' => InRequest
  <2>1. todo[Reader] \in Seq(Ops)
    BY WhoCalls DEF SInv, Plans
  <2>2. todo'[Reader] # <<>> /\ Head(todo'[Reader]) = "spawn" => todo'[Reader] = todo[Reader]
    BY <1>1, <2>1, WhoCalls
  <2> QED
    BY <2>2 DEF InRequest, NextIs
<1>5. Timely'
  BY <1>4 DEF SInv, Timely, timerVars
<1> QED
  BY <1>3, <1>5

\* A step that leaves every plan as it is.
LEMMA QuietKeeps ==
    ASSUME SInv, UNCHANGED <<todo, timerVars, history>>,
           stream' \in {stream, None}, terminated => terminated',
           stopped => stopped',
           \A t \in Callers : pc[t] \in Stopping => pc'[t] \in Stopping \/ stopped'
    PROVE  SInv'
<1>1. Plans'
  BY DEF SInv, Plans, Hanging, InOrder
<1>2. Single' /\ Timely'
  BY DEF SInv, Single, Timely, timerVars, Starting, InRequest, NextIs
<1>3. Known'
  BY DEF SInv, Known, TimedBetween
<1> QED
  BY <1>1, <1>2, <1>3 DEF SInv

-----------------------------------------------------------------------------
(* The writer's steps.                                                     *)

\* run() ends once.
LEMMA StaysStopped == ASSUME IInv, [Next]_vars PROVE stopped => stopped'
<1> SUFFICES ASSUME stopped PROVE stopped'
  OBVIOUS
<1>1. pc[Runner] = "done"
  BY DEF IInv, Ending
<1>2. CASE RunnerStep
  BY <1>1, <1>2 DEF RunnerStep, Awake, TakeNothing, TakeBatch, WriteReturns, WriteFails,
                    Written, Failed, Holds
<1>3. CASE \E t \in Callers : CallSend(t) \/ CallDrain(t) \/ CallStop(t) \/ CallerStep(t)
  BY <1>3 DEF CallSend, CallDrain, CallStop, CallerStep, SendRaises, SendWaits, Send, Aim,
              Waits, Drained, Closed, Stopped, flagVars
<1>4. CASE UNCHANGED vars
  BY <1>4 DEF vars, flagVars
<1> QED
  BY <1>2, <1>3, <1>4 DEF Next

\* A call of stop() ends when the writer has stopped.
LEMMA CallerStays ==
    ASSUME IInv, NEW t \in Callers, CallerStep(t)
    PROVE  /\ \A u \in Callers \ {t} : pc'[u] = pc[u]
           /\ pc[t] \in Stopping => pc'[t] \in Stopping \/ stopped'
<1>1. pc \in [Tasks -> CallerPlaces \cup RunnerPlaces] /\ Callers \subseteq Tasks
  BY DEF IInv, TypeOK, CallerPlaces, RunnerPlaces, Tasks
<1>2. CASE Aim(t)
  <2>1. pc'[t] \in {"draining", "closing"} /\ \A u \in Callers \ {t} : pc'[u] = pc[u]
    BY <1>1, <1>2 DEF Aim, Goto
  <2>2. pc[t] = "stop" => pc'[t] = "closing"
    BY <1>1, <1>2 DEF Aim, Goto, Holds
  <2>3. pc[t] \in {"drain", "stop"}
    BY <1>2 DEF Aim, Holds
  <2> QED
    BY <2>1, <2>2, <2>3 DEF Stopping
<1>3. CASE Waits(t) \/ SendWaits(t)
  BY <1>3 DEF Waits, SendWaits
<1>4. CASE SendRaises(t) \/ Send(t) \/ Drained(t)
  <2>1. pc[t] \in {"send", "draining"} /\ \A u \in Callers \ {t} : pc'[u] = pc[u]
    BY <1>1, <1>4 DEF SendRaises, Send, Drained, Holds, Goto
  <2> QED
    BY <2>1 DEF Stopping
<1>5. CASE Closed(t)
  BY <1>1, <1>5 DEF Closed, Goto, Stopping
<1>6. CASE Stopped(t)
  BY <1>1, <1>6 DEF Stopped, Goto, flagVars
<1> QED
  BY <1>2, <1>3, <1>4, <1>5, <1>6 DEF CallerStep

LEMMA RunnerStays == ASSUME IInv, RunnerStep PROVE \A t \in Callers : pc'[t] = pc[t]
<1>1. pc \in [Tasks -> CallerPlaces \cup RunnerPlaces] /\ Callers \subseteq Tasks
      /\ Runner \notin Callers
  BY TcpWriterAssumption DEF IInv, TypeOK, CallerPlaces, RunnerPlaces, Tasks, Runner
<1>2. \A place \in RunnerPlaces : Goto(Runner, place) => \A t \in Callers : pc'[t] = pc[t]
  BY <1>1 DEF Goto
<1> QED
  BY <1>2 DEF RunnerStep, Awake, TakeNothing, TakeBatch, WriteReturns, WriteFails, Written,
              Failed, RunnerPlaces

LEMMA CallStays ==
    ASSUME IInv, NEW t \in Callers, CallSend(t) \/ CallDrain(t) \/ CallStop(t)
    PROVE  /\ \A u \in Callers \ {t} : pc'[u] = pc[u]
           /\ pc[t] = "idle" /\ stopped' = stopped
           /\ CallStop(t) => pc'[t] = "stop"
<1>1. pc \in [Tasks -> CallerPlaces \cup RunnerPlaces] /\ Callers \subseteq Tasks
  BY DEF IInv, TypeOK, CallerPlaces, RunnerPlaces, Tasks
<1> QED
  BY <1>1 DEF CallSend, CallDrain, CallStop, Goto, flagVars

-----------------------------------------------------------------------------
(* The steps of tasks that call the writer.                                *)

\* What remains of a plan whose next operation is done.
LEMMA Remains ==
    ASSUME Plans, NEW t \in Callers, NEW op, NextIs(t, op), Then(t, <<>>)
    PROVE  \E s \in Seq(Ops) :
              /\ todo' = [todo EXCEPT ![t] = s] /\ InOrder(s)
              /\ MayFollow(op, s)
<1>1. todo[t] \in Seq(Ops) /\ InOrder(todo[t]) /\ todo[t] # <<>> /\ todo[t][1] = op
  BY DEF Plans, NextIs
<1>2. Tail(todo[t]) \in Seq(Ops) /\ <<>> \o Tail(todo[t]) = Tail(todo[t])
  BY <1>1, HeadTailProperties, ConcatEmptySeq
<1>3. todo' = [todo EXCEPT ![t] = Tail(todo[t])]
  BY <1>2 DEF Then, Plans
<1>4. InOrder(Tail(todo[t])) /\ MayFollow(op, Tail(todo[t]))
  BY <1>1, Rest
<1> QED
  BY <1>2, <1>3, <1>4

\* Or is put off until other operations are.
LEMMA PutsOff ==
    ASSUME Plans, NEW t \in Callers, NEW op \in Ops \ {"stop", "disarm"}, Does(t, op),
           NEW ops \in Seq(Ops), InOrder(ops), ops # <<>>, Then(t, ops)
    PROVE  \E s \in Seq(Ops) :
              /\ todo' = [todo EXCEPT ![t] = s] /\ InOrder(s)
              /\ s # <<>> /\ s[1] = ops[1]
<1>1. todo[t] \in Seq(Ops) /\ InOrder(todo[t]) /\ todo[t] # <<>> /\ todo[t][1] = op
  BY DEF Plans, Does, NextIs
<1>2. /\ Tail(todo[t]) \in Seq(Ops) /\ InOrder(Tail(todo[t]))
      /\ Tail(todo[t]) # <<>> => Tail(todo[t])[1] \notin {"aclose", "spawn", "arm"}
  <2>1. MayFollow(op, Tail(todo[t])) /\ InOrder(Tail(todo[t]))
    BY <1>1, Rest
  <2> QED
    BY <1>1, <2>1, HeadTailProperties DEF MayFollow
<1>3. /\ ops \o Tail(todo[t]) \in Seq(Ops) /\ InOrder(ops \o Tail(todo[t]))
      /\ (ops \o Tail(todo[t]))[1] = ops[1]
  BY <1>2, Joins
<1>4. ops \o Tail(todo[t]) # <<>>
  BY <1>2, ConcatProperties, EmptySeq
<1>5. todo' = [todo EXCEPT ![t] = ops \o Tail(todo[t])]
  BY DEF Then, Plans
<1> QED
  BY <1>3, <1>4, <1>5

\* A call of the writer begins.
LEMMA CallWriterKeeps ==
    ASSUME SInv, IInv, NEW t \in Callers, CallWriter(t) PROVE SInv'
<1>1. PICK op \in {"send", "drain", "stop"} :
         /\ Does(t, op)
         /\ CallSend(t) \/ CallDrain(t) \/ CallStop(t)
         /\ op = "stop" => CallStop(t)
  BY DEF CallWriter
<1>2. Then(t, <<>>) /\ UNCHANGED <<stream, timerVars, terminated, history>>
  BY DEF CallWriter, protocolVars
<1>3. PICK s \in Seq(Ops) :
         /\ todo' = [todo EXCEPT ![t] = s] /\ InOrder(s)
         /\ MayFollow(op, s)
  BY <1>1, <1>2, Remains DEF SInv, Does
<1>4. /\ stopped' = stopped /\ \A u \in Callers \ {t} : pc'[u] = pc[u]
      /\ op = "stop" => pc'[t] \in Stopping
  BY <1>1, CallStays DEF Stopping
<1>5. Plans'
  BY <1>3, <1>4, PlansKeep DEF SInv, MayFollow
<1>6. Single' /\ Timely'
  <2>1. s # <<>> => s[1] \notin {"arm", "spawn"}
    BY <1>3 DEF MayFollow
  <2> QED
    BY <1>2, <1>3, <2>1, TimersKeep
<1>7. Known'
  BY <1>2, <1>4 DEF SInv, Known, TimedBetween
<1> QED
  BY <1>5, <1>6, <1>7 DEF SInv

\* A call of the writer goes on, or ends.
LEMMA InWriterKeeps ==
    ASSUME SInv, IInv, NEW t \in Callers, InWriter(t) PROVE SInv'
<1>1. UNCHANGED <<timerVars, terminated, history>>
  BY DEF InWriter
<1>2. CallerStep(t)
  BY DEF InWriter, WriterRaises, WriterServes, CallerStep
<1>3. /\ \A u \in Callers \ {t} : pc'[u] = pc[u]
      /\ pc[t] \in Stopping => pc'[t] \in Stopping \/ stopped'
  BY <1>2, CallerStays
<1>4. stopped => stopped'
  BY <1>2, StaysStopped DEF Next
<1>5. stream' \in {stream, None}
  BY DEF InWriter, WriterRaises, WriterServes, OutputFails
<1>6. CASE UNCHANGED todo
  <2>1. \A u \in Callers : pc[u] \in Stopping => pc'[u] \in Stopping \/ stopped'
    BY <1>3
  <2> QED
    BY <1>1, <1>4, <1>5, <1>6, <2>1, QuietKeeps
<1>7. CASE NextIs(t, "rearm") /\ Then(t, <<>>)
  <2>1. PICK s \in Seq(Ops) :
           /\ todo' = [todo EXCEPT ![t] = s] /\ InOrder(s)
           /\ MayFollow("rearm", s)
    BY <1>7, Remains DEF SInv
  <2>2. s # <<>> => s[1] \notin {"aclose", "spawn", "arm"}
    BY <2>1 DEF MayFollow
  <2>3. Plans'
    BY <1>3, <1>4, <2>1, <2>2, PlansKeep DEF SInv
  <2>4. Single' /\ Timely'
    BY <1>1, <1>5, <2>1, <2>2, TimersKeep
  <2>5. Known'
    BY <1>1, <1>4 DEF SInv, Known, TimedBetween
  <2> QED
    BY <2>3, <2>4, <2>5 DEF SInv
<1> QED
  BY <1>6, <1>7 DEF InWriter, WriterRaises, WriterServes

-----------------------------------------------------------------------------
(* The steps that leave the writer alone.                                  *)

\* One of a list is done: the stream is closed by who has stopped the writer.
LEMMA AcloseKeeps ==
    ASSUME SInv, IInv, NEW t \in Callers, Aclose(t) \/ HandleClosed(t) PROVE SInv'
<1>1. PICK op \in {"aclose", "closed"} :
         /\ Does(t, op) /\ Then(t, <<>>)
         /\ op = "aclose" => Close("server")
         /\ op = "closed" => UNCHANGED history
  BY DEF Aclose, HandleClosed
<1>2. /\ UNCHANGED <<pc, stopped, timerVars, terminated>>
      /\ stream' \in {stream, None}
  BY DEF Aclose, HandleClosed, CloseStream, protocolVars, vars, flagVars
<1>3. PICK s \in Seq(Ops) :
         /\ todo' = [todo EXCEPT ![t] = s] /\ InOrder(s)
         /\ MayFollow(op, s)
  BY <1>1, Remains DEF SInv, Does
<1>4. s # <<>> => s[1] \notin {"aclose", "spawn", "arm"}
  BY <1>3 DEF MayFollow
<1>5. op = "aclose" => stopped
  <2>1. op = "aclose" => todo[t] # <<>> /\ todo[t][1] = "aclose" /\ pc[t] = "idle"
    BY <1>1 DEF Does, NextIs
  <2> QED
    BY <2>1 DEF SInv, Plans, Hanging, Stopping
<1>6. Known' /\ history'.late = history.late
  BY <1>1, <1>2, <1>5 DEF SInv, Known, TimedBetween, Close
<1>7. Plans'
  BY <1>2, <1>3, <1>4, PlansKeep DEF SInv
<1>8. Single' /\ Timely'
  BY <1>2, <1>3, <1>4, <1>6, TimersKeep
<1> QED
  BY <1>6, <1>7, <1>8 DEF SInv

\* An application's part in the protocol is over: the timer is to be restarted,
\* or the connection closed.
LEMMA RecycleKeeps ==
    ASSUME SInv, NEW t \in Callers, Recycle(t) PROVE SInv'
<1>1. /\ UNCHANGED <<pc, stopped, timerVars, terminated, history>>
      /\ stream' \in {stream, None}
  BY DEF Recycle, CloseStream, vars, flagVars
<1>2. PICK op \in {"recycle", "hangup"}, ops \in {<<"drain", "rearm">>, HangUpOps} :
         Does(t, op) /\ Then(t, ops)
  BY DEF Recycle
<1>3. ops \in Seq(Ops) /\ InOrder(ops) /\ ops # <<>> /\ ops[1] \in {"drain", "stop"}
  <2>1. CASE ops = HangUpOps
    BY <2>1, Lists
  <2>2. CASE ops = <<"drain", "rearm">>
    <3>1. "drain" \in Ops /\ "rearm" \in Ops
      BY DEF Ops
    <3> QED
      BY <2>2, <3>1, Two
  <2> QED
    BY <2>1, <2>2
<1>4. op \in Ops \ {"stop", "disarm"}
  BY DEF Ops
<1>5. PICK s \in Seq(Ops) :
         /\ todo' = [todo EXCEPT ![t] = s] /\ InOrder(s)
         /\ s # <<>> /\ s[1] = ops[1]
  BY <1>2, <1>3, <1>4, PutsOff DEF SInv
<1>6. s[1] \notin {"aclose", "spawn", "arm"}
  BY <1>3, <1>5
<1>7. Plans'
  BY <1>1, <1>5, <1>6, PlansKeep DEF SInv
<1>8. Single' /\ Timely'
  BY <1>1, <1>5, <1>6, TimersKeep
<1>9. Known'
  BY <1>1 DEF SInv, Known, TimedBetween
<1> QED
  BY <1>7, <1>8, <1>9 DEF SInv

-----------------------------------------------------------------------------
(* The timers.                                                             *)

LEMMA CancelledIs ==
    ASSUME SInv
    PROVE  /\ Cancelled \in [Timers -> States]
           /\ \A i \in Timers : Cancelled[i] # "waits"
           /\ \A i \in Timers : Cancelled[i] = "woken" => timers[i] = "woken"
<1> USE DEF SInv, Single, Cancelled, States
<1>1. Cancelled \in [Timers -> States]
  OBVIOUS
<1>2. \A i \in Timers : Cancelled[i] # "waits"
  OBVIOUS
<1>3. \A i \in Timers : Cancelled[i] = "woken" => timers[i] = "woken"
  OBVIOUS
<1> QED
  BY <1>1, <1>2, <1>3

\* The reader stops the timer.
LEMMA StopTimerKeeps == ASSUME SInv, NEW t \in Callers, StopTimer(t) PROVE SInv'
<1>1. /\ Does(t, "disarm") /\ ~locked /\ Then(t, <<>>)
      /\ timers' = Cancelled
      /\ UNCHANGED <<pc, stopped, locked, stream, terminated, history>>
  BY DEF StopTimer, vars, flagVars, protocolVars
<1>2. PICK s \in Seq(Ops) :
         /\ todo' = [todo EXCEPT ![t] = s] /\ InOrder(s)
         /\ MayFollow("disarm", s)
  BY <1>1, Remains DEF SInv, Does
<1>3. s # <<>> => s[1] \notin {"aclose", "arm"}
  BY <1>2 DEF MayFollow
<1>4. Plans'
  BY <1>1, <1>2, <1>3, PlansKeep DEF SInv
<1>5. \A u \in Callers : ~Starting(u)'
  <2>1. \A u \in Callers : ~Starting(u)
    BY <1>1 DEF SInv, Single
  <2>2. todo'[t] = s /\ \A u \in Callers \ {t} : todo'[u] = todo[u]
    BY <1>2 DEF SInv, Plans
  <2> QED
    BY <1>3, <2>1, <2>2 DEF Starting
<1>6. Single' /\ Timely'
  BY <1>1, <1>5, CancelledIs DEF SInv, Single, Timely
<1>7. Known'
  BY <1>1 DEF SInv, Known, TimedBetween
<1> QED
  BY <1>4, <1>6, <1>7 DEF SInv

\* An application restarts it: the lock is held until the new one runs.
LEMMA RestartTimerKeeps == ASSUME SInv, NEW t \in Callers, RestartTimer(t) PROVE SInv'
<1>1. /\ Does(t, "rearm") /\ ~locked /\ Then(t, <<"arm">>)
      /\ timers' = Cancelled /\ locked' = TRUE
      /\ UNCHANGED <<pc, stopped, stream, terminated, history>>
  BY DEF RestartTimer, vars, flagVars, protocolVars
<1>2. PICK s \in Seq(Ops) :
         /\ todo' = [todo EXCEPT ![t] = s] /\ InOrder(s)
         /\ s # <<>> /\ s[1] = "arm"
  <2> DEFINE ops == <<"arm">>
  <2>1. ops \in Seq(Ops) /\ InOrder(ops)
    BY One DEF Ops
  <2>2. ops # <<>> /\ ops[1] = "arm"
    OBVIOUS
  <2>3. "rearm" \in Ops \ {"stop", "disarm"}
    BY DEF Ops
  <2>4. Plans /\ Does(t, "rearm") /\ Then(t, ops)
    BY <1>1 DEF SInv
  <2> HIDE DEF ops
  <2> QED
    BY <2>1, <2>2, <2>3, <2>4, PutsOff
<1>3. Plans'
  BY <1>1, <1>2, PlansKeep DEF SInv
<1>4. \A u \in Callers : Starting(u)' => u = t
  <2>1. \A u \in Callers : ~Starting(u)
    BY <1>1 DEF SInv, Single
  <2>2. \A u \in Callers \ {t} : todo'[u] = todo[u]
    BY <1>2 DEF SInv, Plans
  <2> QED
    BY <2>1, <2>2 DEF Starting
<1>5. Single' /\ Timely'
  BY <1>1, <1>4, CancelledIs DEF SInv, Single, Timely
<1>6. Known'
  BY <1>1 DEF SInv, Known, TimedBetween
<1> QED
  BY <1>3, <1>5, <1>6 DEF SInv

\* The new one runs; late, if there is a request by now.
LEMMA StartTimerKeeps == ASSUME SInv, NEW t \in Callers, StartTimer(t) PROVE SInv'
<1>1. PICK i \in Timers :
         timers[i] = "new" /\ timers' = [timers EXCEPT ![i] = "waits"] /\ handle' = i
  BY DEF StartTimer
<1>2. /\ Does(t, "arm") /\ Then(t, <<>>) /\ locked' = FALSE
      /\ history' = [history EXCEPT !.late = @ \/ InRequest]
      /\ UNCHANGED <<pc, stopped, stream, terminated>>
  BY DEF StartTimer, vars, flagVars, protocolVars
<1>3. PICK s \in Seq(Ops) :
         /\ todo' = [todo EXCEPT ![t] = s] /\ InOrder(s)
         /\ MayFollow("arm", s)
  BY <1>2, Remains DEF SInv, Does
<1>4. s # <<>> => s[1] \notin {"aclose", "spawn", "arm"}
  BY <1>3 DEF MayFollow
<1>5. Plans'
  BY <1>2, <1>3, <1>4, PlansKeep DEF SInv
<1>6. Starting(t) /\ locked
  BY <1>2 DEF SInv, Single, Plans, Starting, Does, NextIs
<1>7. todo'[t] = s /\ \A u \in Callers \ {t} : todo'[u] = todo[u]
  BY <1>3 DEF SInv, Plans
<1>8. \A u \in Callers : ~Starting(u)'
  BY <1>4, <1>6, <1>7 DEF SInv, Single, Starting
<1>9. Single'
  BY <1>1, <1>2, <1>6, <1>8 DEF SInv, Single, States
<1>10. history' \in [closedBy : {None, "server", "timer"}, late : BOOLEAN, cut : BOOLEAN]
       /\ history'.closedBy = history.closedBy /\ history'.cut = history.cut
       /\ history'.late = (history.late \/ InRequest)
  BY <1>2 DEF SInv, Known, InRequest, NextIs
<1>11. InRequest' => InRequest
  <2>1. todo'[Reader] # <<>> /\ Head(todo'[Reader]) = "spawn" => todo'[Reader] = todo[Reader]
    BY <1>4, <1>7, WhoCalls
  <2> QED
    BY <1>2, <2>1 DEF InRequest, NextIs
<1>12. Timely'
  BY <1>10, <1>11 DEF Timely
<1>13. Known'
  BY <1>2, <1>10 DEF SInv, Known, TimedBetween
<1> QED
  BY <1>5, <1>9, <1>12, <1>13 DEF SInv

\* The time comes of one, or it is woken by the worker's termination: in a request
\* only if it was started late, or woken.
LEMMA TimerKeeps == ASSUME SInv, NEW i \in Timers, TimerStep(i) PROVE SInv'
<1>1. /\ UNCHANGED <<pc, stopped, todo, handle, locked, terminated>>
      /\ stream' \in {stream, None}
  BY DEF TimerStep, WakesUp, InitiatesClose, HangsUp, CloseStream, vars, flagVars, protocolVars
<1>2. PICK s \in {"woken", "closes", "over"} :
         /\ timers' = [timers EXCEPT ![i] = s]
         /\ s = "woken" => terminated
  BY DEF TimerStep, WakesUp, InitiatesClose, HangsUp
<1>3. Plans'
  BY <1>1 DEF SInv, Plans, Hanging, InOrder
<1>4. \A j \in Timers : timers'[j] = "waits" => timers[j] = "waits"
  BY <1>2 DEF SInv, Single
<1>5. Single'
  <2>1. timers' \in [Timers -> States]
    BY <1>2 DEF SInv, Single, States
  <2>2. \A j \in Timers : timers'[j] = "waits" => j = handle' /\ ~locked'
    BY <1>1, <1>4 DEF SInv, Single
  <2>3. \A j \in Timers : timers'[j] = "woken" => terminated'
    BY <1>1, <1>2 DEF SInv, Single
  <2>4. \A t \in Callers : Starting(t)' = Starting(t)
    BY <1>1 DEF Starting
  <2> QED
    BY <1>1, <2>1, <2>2, <2>3, <2>4 DEF SInv, Single
<1>6. history'.late = history.late /\ Known'
  <2>1. CASE WakesUp(i)
    BY <1>1, <2>1 DEF WakesUp, SInv, Known, TimedBetween
  <2>2. CASE InitiatesClose(i)
    <3>1. stream # None => history.late \/ terminated
      BY <2>2 DEF InitiatesClose, SInv, Single, Timely, InRequest
    <3>2. history' \in [closedBy : {None, "server", "timer"}, late : BOOLEAN, cut : BOOLEAN]
          /\ history'.closedBy = history.closedBy /\ history'.late = history.late
          /\ history'.cut = (history.cut \/ stream # None)
      BY <2>2 DEF InitiatesClose, SInv, Known
    <3> QED
      BY <1>1, <3>1, <3>2 DEF SInv, Known, TimedBetween
  <2>3. CASE HangsUp(i)
    <3>1. /\ history' \in [closedBy : {None, "server", "timer"}, late : BOOLEAN, cut : BOOLEAN]
          /\ history'.closedBy \in {history.closedBy, "timer"}
          /\ history'.late = history.late /\ history'.cut = history.cut
      BY <2>3 DEF HangsUp, Close, SInv, Known
    <3> QED
      BY <1>1, <3>1 DEF SInv, Known, TimedBetween
  <2> QED
    BY <2>1, <2>2, <2>3 DEF TimerStep
<1>7. Timely'
  <2>1. InRequest' => InRequest
    BY <1>1 DEF InRequest, NextIs
  <2> QED
    BY <1>4, <1>6, <2>1 DEF SInv, Timely
<1> QED
  BY <1>3, <1>5, <1>6, <1>7 DEF SInv

-----------------------------------------------------------------------------
(* The other steps of the reader and the applications.                     *)

LEMMA BeginKeeps ==
    ASSUME SInv, NEW t \in Callers, NEW s \in Seq(Ops), InOrder(s), Begin(t, s),
           s # <<>> => s[1] \notin {"aclose", "arm", "spawn"},
           UNCHANGED <<pc, stopped, timerVars, terminated, history>>,
           stream' \in {stream, None}
    PROVE  SInv'
<1>1. todo' = [todo EXCEPT ![t] = s]
  BY DEF Begin
<1>2. Plans'
  BY <1>1, PlansKeep DEF SInv
<1>3. Single' /\ Timely'
  BY <1>1, TimersKeep
<1>4. Known'
  BY DEF SInv, Known, TimedBetween
<1> QED
  BY <1>2, <1>3, <1>4 DEF SInv

LEMMA AppEndsKeeps == ASSUME SInv, NEW a \in Apps, AppEnds(a) PROVE SInv'
<1>1. /\ UNCHANGED <<pc, stopped, timerVars, terminated, history, stream>>
      /\ a \in Callers
  BY WhoCalls DEF AppEnds, vars, flagVars
<1>2. ASSUME NEW op \in {"recycle", "hangup"}, Begin(a, <<"send", op>>) PROVE SInv'
  <2>1. "send" \in Ops /\ op \in Ops
    BY DEF Ops
  <2>2. <<"send", op>> \in Seq(Ops) /\ InOrder(<<"send", op>>)
    BY <2>1, Two
  <2>3. <<"send", op>>[1] = "send"
    OBVIOUS
  <2> QED
    BY <1>1, <1>2, <2>2, <2>3, BeginKeeps
<1>3. CASE Begin(a, <<"hangup">>)
  <2>1. <<"hangup">> \in Seq(Ops) /\ InOrder(<<"hangup">>)
    BY One DEF Ops
  <2>2. <<"hangup">>[1] = "hangup"
    OBVIOUS
  <2> QED
    BY <1>1, <1>3, <2>1, <2>2, BeginKeeps
<1>4. CASE Begin(a, <<>>)
  BY <1>1, <1>4, Lists, BeginKeeps
<1> QED
  BY <1>2, <1>3, <1>4 DEF AppEnds

LEMMA ReceiveKeeps == ASSUME SInv, Receive PROVE SInv'
<1>1. /\ UNCHANGED <<pc, stopped, timerVars, terminated, history, stream>>
      /\ Reader \in Callers
  BY WhoCalls DEF Receive, vars, flagVars
<1>2. CASE Begin(Reader, <<"disarm", "spawn">>)
  <2>1. "disarm" \in Ops /\ "spawn" \in Ops
    BY DEF Ops
  <2>2. <<"disarm", "spawn">> \in Seq(Ops) /\ InOrder(<<"disarm", "spawn">>)
    BY <2>1, Two
  <2>3. <<"disarm", "spawn">>[1] = "disarm"
    OBVIOUS
  <2> QED
    BY <1>1, <1>2, <2>2, <2>3, BeginKeeps
<1>3. CASE Begin(Reader, <<"send">> \o HangUpOps)
  BY <1>1, <1>3, Lists, BeginKeeps
<1> QED
  BY <1>2, <1>3 DEF Receive

LEMMA ReadEndsKeeps == ASSUME SInv, ReadEnds PROVE SInv'
<1>1. /\ UNCHANGED <<pc, stopped, timerVars, terminated, history>>
      /\ stream' \in {stream, None} /\ Reader \in Callers
  BY WhoCalls DEF ReadEnds, CloseStream, vars, flagVars
<1>2. CASE Begin(Reader, HangUpOps)
  BY <1>1, <1>2, Lists, BeginKeeps
<1>3. CASE UNCHANGED todo
  BY <1>1, <1>3, QuietKeeps
<1> QED
  BY <1>2, <1>3 DEF ReadEnds

LEMMA LeavesKeeps == ASSUME SInv, Leaves PROVE SInv'
<1>1. /\ UNCHANGED <<pc, stopped, timerVars, terminated, history, stream>>
      /\ Reader \in Callers /\ Begin(Reader, <<"stop", "aclose">>)
  BY WhoCalls DEF Leaves, vars, flagVars, protocolVars
<1>2. "stop" \in Ops /\ "aclose" \in Ops
  BY DEF Ops
<1>3. <<"stop", "aclose">> \in Seq(Ops) /\ InOrder(<<"stop", "aclose">>)
  BY <1>2, Two
<1>4. <<"stop", "aclose">>[1] = "stop"
  OBVIOUS
<1> QED
  BY <1>1, <1>3, <1>4, BeginKeeps

\* The request for which the timer was stopped has its stream.
LEMMA SpawnKeeps == ASSUME SInv, Spawn PROVE SInv'
<1>1. /\ Does(Reader, "spawn") /\ Then(Reader, <<>>)
      /\ UNCHANGED <<pc, stopped, timerVars, terminated, history>>
      /\ Reader \in Callers
  BY WhoCalls DEF Spawn, vars, flagVars
<1>2. PICK s \in Seq(Ops) :
         /\ todo' = [todo EXCEPT ![Reader] = s] /\ InOrder(s)
         /\ MayFollow("spawn", s)
  BY <1>1, Remains DEF SInv, Does
<1>3. s # <<>> => s[1] \notin {"aclose", "spawn", "arm"}
  BY <1>2 DEF MayFollow
<1>4. Plans'
  BY <1>1, <1>2, <1>3, PlansKeep DEF SInv
<1>5. todo'[Reader] = s /\ \A u \in Callers \ {Reader} : todo'[u] = todo[u]
  BY <1>1, <1>2 DEF SInv, Plans
<1>6. \A u \in Callers : Starting(u)' => Starting(u)
  BY <1>3, <1>5 DEF Starting
<1>7. Single'
  BY <1>1, <1>6 DEF SInv, Single, timerVars
<1>8. Timely'
  <2>1. InRequest
    BY <1>1 DEF InRequest, Does
  <2> QED
    BY <1>1, <2>1 DEF SInv, Timely, timerVars
<1>9. Known'
  BY <1>1 DEF SInv, Known, TimedBetween
<1> QED
  BY <1>4, <1>7, <1>8, <1>9 DEF SInv

LEMMA QuietStepsKeep ==
    ASSUME SInv, IInv,
           \/ RunEnds \/ Writes \/ ClientLeaves \/ Terminate \/ Runs
           \/ \E a \in Apps : AppOver(a)
           \/ \E t \in Free : Calls(t) \/ FreeStep(t)
           \/ UNCHANGED allVars
    PROVE  SInv'
<1> USE DEF protocolVars
<1>1. [Next]_vars => (stopped => stopped')
  BY StaysStopped
<1>2. CASE RunEnds \/ ClientLeaves \/ Terminate \/ UNCHANGED allVars
           \/ \E a \in Apps : AppOver(a)
  <2>1. UNCHANGED <<pc, stopped, todo, timerVars, history, stream>> /\ (terminated => terminated')
    BY <1>2 DEF RunEnds, ClientLeaves, Terminate, AppOver, allVars, serverVars, vars, flagVars
  <2> QED
    BY <2>1, QuietKeeps
<1>3. CASE Writes \/ Runs
  <2>1. UNCHANGED <<todo, timerVars, history, stream, terminated>>
    BY <1>3 DEF Writes, Runs, serverVars
  <2>2. RunnerStep
    BY <1>3 DEF Writes, Runs, RunnerStep
  <2>3. \A t \in Callers : pc'[t] = pc[t]
    BY <2>2, RunnerStays
  <2>4. stopped => stopped'
    BY <1>1, <2>2 DEF Next
  <2> QED
    BY <2>1, <2>3, <2>4, QuietKeeps
<1>4. CASE \E t \in Free : Calls(t) \/ FreeStep(t)
  <2> PICK t \in Free : Calls(t) \/ FreeStep(t)
    BY <1>4
  <2>1. UNCHANGED <<todo, timerVars, history, stream, terminated>> /\ t \in Callers
    BY WhoCalls DEF Calls, FreeStep, serverVars
  <2>2. CallerStep(t) \/ CallSend(t) \/ CallDrain(t) \/ CallStop(t)
    BY DEF Calls, FreeStep
  <2>3. \A u \in Callers : pc[u] \in Stopping => pc'[u] \in Stopping \/ stopped'
    <3>1. CASE CallerStep(t)
      BY <2>1, <3>1, CallerStays
    <3>2. CASE CallSend(t) \/ CallDrain(t) \/ CallStop(t)
      BY <2>1, <3>2, CallStays DEF Stopping
    <3> QED
      BY <2>2, <3>1, <3>2
  <2>4. stopped => stopped'
    BY <1>1, <2>1, <2>2 DEF Next
  <2> QED
    BY <2>1, <2>3, <2>4, QuietKeeps
<1> QED
  BY <1>2, <1>3, <1>4

-----------------------------------------------------------------------------
(* Together.                                                               *)

LEMMA InitSInv == ServerInit => SInv
<1> SUFFICES ASSUME ServerInit PROVE SInv
  OBVIOUS
<1>1. Plans
  <2>1. \A t \in Callers : todo[t] = <<>>
    BY DEF ServerInit
  <2>2. todo \in [Callers -> Seq(Ops)]
    BY Lists DEF ServerInit
  <2> QED
    BY <2>1, <2>2, Lists DEF Plans, Hanging
<1>2. Single
  <2>1. \A t \in Callers : ~Starting(t)
    BY DEF ServerInit, Starting
  <2>2. timers \in [Timers -> States] /\ handle = 1 /\ ~locked
    BY DEF ServerInit, States
  <2>3. \A i \in Timers : timers[i] \in {"waits", "new"} /\ (timers[i] = "waits" => i = 1)
    BY DEF ServerInit
  <2> QED
    BY <2>1, <2>2, <2>3 DEF Single
<1>3. ~InRequest
  BY WhoCalls DEF ServerInit, InRequest, NextIs
<1>4. history = [closedBy |-> None, late |-> FALSE, cut |-> FALSE]
  BY DEF ServerInit
<1>5. Known
  BY <1>4 DEF Known, TimedBetween, None
<1> QED
  BY <1>1, <1>2, <1>3, <1>5 DEF SInv, Timely

LEMMA ServesKeeps ==
    ASSUME SInv, IInv, NEW t \in Callers, Serves(t) PROVE SInv'
BY CallWriterKeeps, InWriterKeeps, AcloseKeeps, StopTimerKeeps, RestartTimerKeeps,
   StartTimerKeeps DEF Serves

LEMMA ServerKeeps == SInv /\ IInv /\ [ServerNext]_allVars => SInv'
<1> SUFFICES ASSUME SInv, IInv, [ServerNext]_allVars PROVE SInv'
  OBVIOUS
<1>1. CASE ReaderStep \/ Receive
  <2>1. CASE Serves(Reader)
    BY <2>1, ServesKeeps, WhoCalls
  <2>2. CASE RunEnds
    BY <2>2, QuietStepsKeep
  <2>3. CASE Spawn \/ ReadEnds \/ Leaves \/ Receive
    BY <2>3, SpawnKeeps, ReadEndsKeeps, LeavesKeeps, ReceiveKeeps
  <2> QED
    BY <1>1, <2>1, <2>2, <2>3 DEF ReaderStep
<1>2. CASE \E a \in Apps : AppStep(a)
  <2> PICK a \in Apps : AppStep(a)
    BY <1>2
  <2>1. CASE Serves(a)
    BY <2>1, ServesKeeps, WhoCalls
  <2>2. CASE AppEnds(a)
    BY <2>2, AppEndsKeeps
  <2>3. CASE Recycle(a)
    BY <2>3, RecycleKeeps, WhoCalls
  <2>4. CASE AppOver(a)
    BY <2>4, QuietStepsKeep
  <2> QED
    BY <2>1, <2>2, <2>3, <2>4 DEF AppStep
<1>3. CASE \E i \in Timers : TimerStep(i)
  BY <1>3, TimerKeeps
<1>4. CASE \/ Runs \/ Writes \/ ClientLeaves \/ Terminate \/ UNCHANGED allVars
           \/ \E t \in Free : Calls(t) \/ FreeStep(t)
  BY <1>4, QuietStepsKeep
<1> QED
  BY <1>1, <1>2, <1>3, <1>4 DEF ServerNext

\* A server closes its connection only when all it accepted is written, unless a
\* write has failed; and the idle timer cuts no response off, unless it was started
\* late or the worker is terminated.
THEOREM ServerClosesInTurn == ServerSpec => []ClosedInTurn
<1>1. SInv /\ StoppedIsComplete => ClosedInTurn
  BY DEF SInv, Known, StoppedIsComplete, ClosedInTurn, NothingCut
<1>2. Spec => [](IInv /\ StoppedIsComplete)
  BY WriterInvariance, WriterCompletes, PTL
<1> QED
  BY <1>1, <1>2, InitSInv, ServerKeeps, ServerImplementsWriter, PTL DEF ServerSpec
=============================================================================
