----------------------------- MODULE H2SendProofs -----------------------------
(***************************************************************************)
(* For any number of streams, any sizes of the data, the buffers, the      *)
(* frames and the windows, and either runtime: the responses that share an *)
(* HTTP/2 connection are sent whole, within bounded memory, and the sender *)
(* never sleeps on work.  The inductive invariant is in layers:            *)
(*   Types, Plans      the types, and what each task may have to await at  *)
(*                     each place;                                         *)
(*   Lines, Sprung     every task stands in the line of the event it awaits*)
(*                     and in no other, and asyncio runs one at a time;    *)
(*   Books, Telling,   what is written is sent, buffered or at hand; who is*)
(*   Ending, Excuses   told of the end of a response, and why it ended;    *)
(*   Hands             who has frames in hand, on their way to the socket; *)
(*   Rooms             who waits for room in a buffer, in which order;     *)
(*   Emptied,          a stream that has something to send is scheduled,   *)
(*   Scheduled         or a task is about to schedule it.                  *)
(***************************************************************************)
EXTENDS H2Send, SequenceTheorems, TLAPS

-----------------------------------------------------------------------------
(* What each task may have to await at each place.                         *)

CloseOps(s) == <<Touch(IsEmpty(s)), Set(Paused(s)), Set(Finished(s)), Set(HasData)>>

\* What is left of closing a stream's buffer.
Closings(s) ==
    {<<>>, <<Set(HasData)>>, <<Set(Finished(s)), Set(HasData)>>,
     <<Set(Paused(s)), Set(Finished(s)), Set(HasData)>>, CloseOps(s)}

Room(s) == <<WaitFor(Paused(s)), Clear(Paused(s))>>

AppPlaces == {"none", "app", "responding", "promising", "pushed", "ended", "popping", "closed",
              "parting", "over"}
ReaderPlaces == {"read", "handled", "update", "flush", "flushing", "closing", "popping", "over"}
SenderPlaces == {"next", "send", "popped", "sent", "written", "finish", "over"}

AppPlans(s, place) ==
    CASE place = "app" -> {<<>>, <<Set(HasData)>>, <<Clear(Paused(s))>>, Room(s),
                           <<Set(HasData), WaitFor(Paused(s)), Clear(Paused(s))>>}
      [] place = "pushed" -> {<<>>, <<Touch(IsEmpty(s))>>}
      [] place = "ended" -> {<<>>, <<WaitFor(Finished(s))>>,
                             <<Set(HasData), WaitFor(Finished(s))>>}
      [] place = "closed" -> Closings(s)
      [] OTHER -> {<<>>}

ReaderPlans(place) ==
    CASE place \in {"flush", "over"} -> {<<>>, <<Set(HasData)>>}
      [] place = "closing" -> {<<>>} \cup UNION {Closings(s) : s \in Streams}
      [] OTHER -> {<<>>}

Sleep == <<WaitFor(HasData), Clear(HasData)>>
Finishes == Seq({Set(Finished(s)) : s \in Streams})

SenderPlans(place, s) ==
    CASE place = "next" -> {Sleep, <<Clear(HasData)>>} \cup Finishes
      [] place = "popped" -> {<<>>, <<Set(Paused(s))>>, <<Touch(IsEmpty(s))>>,
                              <<Set(Paused(s)), Touch(IsEmpty(s))>>}
      [] place = "sent" -> Closings(s)
      [] OTHER -> {<<>>}

AppPlanned(s) == pc[s] \in AppPlaces /\ todo[s] \in AppPlans(s, pc[s])

ReaderPlanned ==
    /\ pc[Reader] \in ReaderPlaces /\ todo[Reader] \in ReaderPlans(pc[Reader])
    /\ pc[Reader] = "popping" => leaving # <<>>

SenderPlanned ==
    /\ pc[Sender] \in SenderPlaces /\ todo[Sender] \in SenderPlans(pc[Sender], batch.stream)
    /\ pc[Sender] \in {"send", "popped", "sent"} =>
         batch.stream \in Streams /\ response[batch.stream].opened

\* Only an open stream has a buffer, and only one with a buffer is scheduled.
Alive(s) ==
    /\ pc[s] # "none" <=> response[s].opened
    /\ buffers[s].present => response[s].opened
    /\ s \in active => buffers[s].present

Plans == (\A s \in Streams : AppPlanned(s) /\ Alive(s)) /\ ReaderPlanned /\ SenderPlanned

Buffers == [present : BOOLEAN, size : Nat, complete : BOOLEAN]
Responses == [opened : BOOLEAN, abandoned : BOOLEAN, written : Nat, sent : Nat, ended : Nat]
Batches == [stream : Streams \cup {NoTask}, data : Nat, sends : Nat, flush : BOOLEAN,
            finished : Seq(Streams)]
WorldRecords == [trio : BOOLEAN, may : SUBSET Happenings, bytes : Nat]
Ops == [do : {"set", "clear", "wait", "touch"}, on : EventIds]

TaskTypes ==
    /\ pc \in [Tasks -> Places] /\ cpu \in Tasks \cup {NoTask}
    /\ todo \in [Tasks -> Seq(Ops)]
    /\ events \in [EventIds -> Events(Tasks)]

DataTypes ==
    /\ world \in Worlds /\ world \in WorldRecords
    /\ known \in Seq(Streams) /\ leaving \in Seq(Streams)
    /\ buffers \in [Streams -> Buffers]
    /\ active \subseteq Streams /\ resets \subseteq Streams
    /\ unflushed \subseteq Streams /\ touched \subseteq Streams
    /\ window \in [all : Nat, of : [Streams -> Int]]
    /\ shrinks \in 0..MaxShrinks /\ closed \in BOOLEAN
    /\ batch \in Batches
    /\ response \in [Streams -> Responses]
    /\ \A s \in Streams : response[s].written <= world.bytes

Types == TaskTypes /\ DataTypes

-----------------------------------------------------------------------------
(* The events and the processor.                                           *)

In(t, q) == \E i \in 1..Len(q) : q[i] = t
Distinct(q) == \A i, j \in 1..Len(q) : q[i] = q[j] => i = j
Precedes(a, b, q) == \E i, j \in 1..Len(q) : i < j /\ q[i] = a /\ q[j] = b

\* What t awaits now.
Awaits(t, e) == todo[t] # <<>> /\ Head(todo[t]).on = e
AwaitsTo(t, do) == todo[t] # <<>> /\ Head(todo[t]).do = do

\* No task is twice in the line of an event, or among the parked, or in both.
Orderly(e) ==
    /\ Distinct(e.turn) /\ Distinct(e.waiters)
    /\ \A t \in Tasks : ~(In(t, e.turn) /\ In(t, e.waiters))

\* A task stands in the line of the event it awaits, or is parked there; asyncio:
\* unless it has the processor.
Line(e) ==
    LET q == events[e].turn
        w == events[e].waiters
    IN
    /\ Orderly(events[e])
    /\ \A t \in Tasks :
         /\ In(t, q) \/ In(t, w) <=> Awaits(t, e) /\ (world.trio \/ cpu # t)
         /\ In(t, w) \/ (In(t, q) /\ ~world.trio) => AwaitsTo(t, "wait")

\* A task that awaits nothing has the processor, unless it is suspended otherwise.
Running == \A t \in Tasks : todo[t] = <<>> /\ pc[t] \notin Suspended \cup {"next"} => cpu = t

Lines == Running /\ \A e \in EventIds : Line(e)

\* asyncio: what set() has scheduled finds the flag as it was left.
Sprung ==
    \A s \in Streams : \A e \in {Finished(s), Paused(s)} :
        ~world.trio /\ events[e].turn # <<>> => events[e].set

-----------------------------------------------------------------------------
(* The responses.                                                          *)

Present(s) == buffers[s].present
Handled(s) == pc[Sender] = "popped" /\ batch.stream = s

\* What an application has written is sent, buffered or at hand.
Books ==
    \A s \in Streams :
        /\ Present(s) =>
             /\ response[s].ended = 0
             /\ response[s].written = response[s].sent + buffers[s].size
                                      + (IF Handled(s) THEN batch.data ELSE 0)
        /\ ~Present(s) =>
             /\ response[s].ended <= 1 /\ buffers[s].size = 0
             /\ response[s].ended = 1 => response[s].sent = response[s].written
        /\ ~response[s].opened =>
             response[s].ended = 0 /\ response[s].written = 0 /\ response[s].sent = 0

Pending(op) == \E t \in Tasks : In(op, todo[t])
Told(s) == events[Finished(s)].set \/ Pending(Set(Finished(s)))

\* Only a task that waits in its flush has frames in hand.
Hands ==
    /\ inHand \in [Tasks \cup {Consumers} -> SUBSET Streams]
    /\ \A t \in Tasks : inHand[t] # {} => pc[t] \in Flushing

\* What the sender comes to have in hand was in the connection's buffer.
Gathers == inHand'[Sender] \subseteq inHand[Sender] \cup unflushed

\* An application is told only of a response whose buffer is gone, and when that
\* was ended, once it has left the connection's buffer and the sender's hand.
Telling ==
    /\ \A s \in Streams :
         Told(s) =>
            /\ response[s].opened /\ ~Present(s)
            /\ response[s].ended = 1 => s \notin unflushed /\ s \notin inHand[Sender]
    /\ \A i \in 1..Len(batch.finished) :
         response[batch.finished[i]].ended = 1 /\ ~Present(batch.finished[i])
         /\ response[batch.finished[i]].opened
    /\ unflushed # {} => pc[Sender] \in {"send", "popped", "sent"} /\ batch.flush

\* Only End makes a response complete, and then waits until it is told.
Ends(s) ==
    /\ Present(s) /\ buffers[s].complete => pc[s] = "ended" /\ todo[s] # <<>>
    /\ response[s].ended = 1 =>
         /\ pc[s] \in Past
         /\ (pc[s] = "ended" /\ todo[s] # <<>>) \/ events[Finished(s)].set

Ending == \A s \in Streams : Ends(s)

\* Why a response may end without END_STREAM.
Excused(s) ==
    \/ response[s].ended = 1 \/ response[s].abandoned \/ s \in resets \/ closed
    \/ world.trio /\ May("shrink")

\* Whose response is over.
Parted(s) ==
    \/ response[s].opened /\ ~Present(s)
    \/ pc[s] \in Past /\ (pc[s] = "ended" => todo[s] = <<>>)

\* What is popped fits the windows, unless they shrink in between.
Fits == pc[Sender] = "popped" /\ Present(batch.stream) =>
            \/ batch.data <= Most(0, FlowWindow(batch.stream))
            \/ world.trio /\ May("shrink")

Excuses ==
    /\ \A s \in Streams : Parted(s) => Excused(s)
    /\ \A i \in 1..Len(leaving) : leaving[i] \in resets \/ closed
    /\ Fits

-----------------------------------------------------------------------------
(* The room in a buffer.                                                   *)

\* The sender is about to tell the application of s that there is room.
Tells(s) == Handled(s) /\ todo[Sender] # <<>> /\ Head(todo[Sender]) = Set(Paused(s))
Roomy(s) == events[Paused(s)].set \/ Tells(s)

\* Where an application is between its sends, or in one that buffers nothing.
Idle == {"app", "responding", "promising"}

\* n is the length of the largest Body.
Roomed(s, n) ==
    /\ Present(s) /\ pc[s] \in Idle /\ ~In(Clear(Paused(s)), todo[s]) =>
         \/ buffers[s].size < HighWater
         \/ buffers[s].size < HighWater + n /\ ~Roomy(s)
    /\ Present(s) /\ (pc[s] = "pushed" \/ In(WaitFor(Paused(s)), todo[s])) =>
         \/ buffers[s].size < HighWater + n
         \/ buffers[s].size < HighWater + 2 * n /\ ~Roomy(s)
    /\ Present(s) /\ todo[s] = <<Clear(Paused(s))>> =>
         /\ buffers[s].size < HighWater + n
         /\ Tells(s) => buffers[s].size <= LowWater
    /\ Present(s) /\ Tells(s) /\ buffers[s].size > LowWater /\ Awaits(s, Paused(s)) =>
         world.trio /\ Precedes(Sender, s, events[Paused(s)].turn)
    /\ buffers[s].size < HighWater + 2 * n

Largest(n) == n \in Sizes /\ \A m \in Sizes : m <= n

Rooms == \A s \in Streams : \A n \in Sizes : Largest(n) => Roomed(s, n)

-----------------------------------------------------------------------------
(* The streams that are scheduled.                                         *)

\* A pop of nothing from an empty buffer ends before another push does.
Emptied ==
    LET s == batch.stream IN
    pc[Sender] = "popped" /\ batch.data = 0 /\ Present(s) =>
        IF todo[Sender] = <<>>
        THEN buffers[s].size = 0 \/ FlowWindow(s) <= 0 \/ pc[s] = "pushed"
        ELSE /\ todo[Sender] = <<Touch(IsEmpty(s))>>
             /\ \/ buffers[s].size = 0
                \/ /\ pc[s] = "pushed" /\ todo[s] = <<Touch(IsEmpty(s))>> /\ world.trio
                   /\ Precedes(Sender, s, events[IsEmpty(s)].turn)

Roused == events[HasData].set \/ Pending(Set(HasData))

\* The stream is scheduled, or a task is about to schedule it.
Ready(s) == s \in active \/ pc[s] = "pushed" \/ (pc[Reader] = "update" /\ s \in touched)

Scheduled ==
    /\ \A s \in Streams : Sendable(s) => Ready(s)
    /\ \A s \in Streams : pc[Sender] \in {"send", "popped"} /\ batch.stream = s /\ Present(s)
         => s \in active
    /\ todo[Sender] = Sleep /\ active # {} => Roused

IInv == /\ Types /\ Plans /\ Lines /\ Sprung /\ Books /\ Hands /\ Telling /\ Ending /\ Excuses
        /\ Rooms /\ Emptied /\ Scheduled

-----------------------------------------------------------------------------
(* Lines of tasks.                                                         *)

(* A task that joins the line.                                             *)
LEMMA Joining ==
    ASSUME NEW s \in Seq(Tasks), NEW t \in Tasks
    PROVE  /\ Append(s, t) \in Seq(Tasks)
           /\ \A x : In(x, Append(s, t)) <=> In(x, s) \/ x = t
           /\ Distinct(s) /\ ~In(t, s) => Distinct(Append(s, t))
           /\ \A a, b : Precedes(a, b, s) => Precedes(a, b, Append(s, t))
           /\ \A a : In(a, s) => Precedes(a, t, Append(s, t))
<1>0. PICK q, n : q = Append(s, t) /\ n = Len(s)
  OBVIOUS
<1>1. /\ q \in Seq(Tasks) /\ n \in Nat /\ Len(q) = n + 1 /\ q[n + 1] = t
      /\ \A i \in 1..n : q[i] = s[i]
  BY <1>0, AppendProperties
<1>2. \A i : i \in 1..Len(q) <=> i \in 1..n \/ i = n + 1
  BY <1>1
<1>3. \A x : In(x, q) <=> In(x, s) \/ x = t
  BY <1>0, <1>1, <1>2 DEF In
<1>4. ASSUME Distinct(s), ~In(t, s) PROVE Distinct(q)
  BY <1>0, <1>1, <1>2, <1>4 DEF Distinct, In
<1>5. ASSUME NEW a, NEW b, Precedes(a, b, s) PROVE Precedes(a, b, q)
  BY <1>0, <1>1, <1>2, <1>5 DEF Precedes
<1>6. ASSUME NEW a, In(a, s) PROVE Precedes(a, t, q)
  <2>1. PICK i \in 1..n : s[i] = a
    BY <1>0, <1>6 DEF In
  <2>2. i \in 1..Len(q) /\ n + 1 \in 1..Len(q) /\ i < n + 1 /\ q[i] = a
    BY <1>1, <2>1
  <2> QED
    BY <1>1, <2>2 DEF Precedes
<1> QED
  BY <1>0, <1>1, <1>3, <1>4, <1>5, <1>6

(* The task at the head leaves the line.                                   *)
LEMMA Leaving ==
    ASSUME NEW s \in Seq(Tasks), s # <<>>, Distinct(s)
    PROVE  /\ Tail(s) \in Seq(Tasks) /\ Distinct(Tail(s)) /\ In(Head(s), s)
           /\ Head(s) \in Tasks
           /\ \A x : In(x, Tail(s)) <=> In(x, s) /\ x # Head(s)
           /\ \A a, b : Precedes(a, b, s) =>
                /\ b # Head(s)
                /\ a # Head(s) => Precedes(a, b, Tail(s))
<1>0. PICK r, n : r = Tail(s) /\ n = Len(s)
  OBVIOUS
<1>1. /\ r \in Seq(Tasks) /\ n \in Nat /\ n > 0 /\ Len(r) = n - 1 /\ Len(s) = n
      /\ Head(s) = s[1] /\ Head(s) \in Tasks /\ \A i \in 1..(n-1) : r[i] = s[i+1]
  BY <1>0, EmptySeq, HeadTailProperties
<1>2. \A i \in 1..(n-1) : i + 1 \in 1..n /\ i + 1 # 1
  BY <1>1
<1>3. \A i \in 1..n : i # 1 => i - 1 \in 1..(n-1) /\ r[i-1] = s[i]
  BY <1>1
<1>4. 1 \in 1..n
  BY <1>1
<1>5. In(Head(s), s)
  BY <1>1, <1>4 DEF In
<1>6. ASSUME NEW x PROVE In(x, r) <=> In(x, s) /\ x # Head(s)
  <2>1. ASSUME In(x, r) PROVE In(x, s) /\ x # Head(s)
    <3>1. PICK i \in 1..(n-1) : r[i] = x
      BY <1>1, <2>1 DEF In
    <3>2. i + 1 \in 1..n /\ i + 1 # 1 /\ s[i+1] = x
      BY <1>1, <1>2, <3>1
    <3> QED
      BY <1>1, <1>4, <3>2 DEF In, Distinct
  <2>2. ASSUME In(x, s), x # Head(s) PROVE In(x, r)
    <3>1. PICK i \in 1..n : s[i] = x
      BY <1>1, <2>2 DEF In
    <3>2. i # 1
      BY <1>1, <2>2, <3>1
    <3> QED
      BY <1>1, <1>3, <3>1, <3>2 DEF In
  <2> QED
    BY <2>1, <2>2
<1>7. Distinct(r)
  <2> SUFFICES ASSUME NEW i \in 1..(n-1), NEW j \in 1..(n-1), r[i] = r[j]
               PROVE  i = j
    BY <1>1 DEF Distinct
  <2>1. s[i+1] = s[j+1] /\ i + 1 \in 1..n /\ j + 1 \in 1..n
    BY <1>1, <1>2
  <2>2. i + 1 = j + 1
    BY <1>1, <2>1 DEF Distinct
  <2> QED
    BY <1>1, <2>2
<1>8. ASSUME NEW a, NEW b, Precedes(a, b, s)
      PROVE  b # Head(s) /\ (a # Head(s) => Precedes(a, b, r))
  <2>1. PICK i \in 1..n, j \in 1..n : i < j /\ s[i] = a /\ s[j] = b
    BY <1>1, <1>8 DEF Precedes
  <2>2. j # 1
    BY <1>1, <2>1
  <2>3. b # Head(s)
    BY <1>1, <1>4, <2>1, <2>2 DEF Distinct
  <2>4. ASSUME a # Head(s) PROVE Precedes(a, b, r)
    <3>1. i # 1
      BY <1>1, <2>1, <2>4
    <3>2. /\ i - 1 \in 1..(n-1) /\ j - 1 \in 1..(n-1) /\ i - 1 < j - 1
          /\ r[i-1] = a /\ r[j-1] = b
      BY <1>1, <1>3, <2>1, <2>2, <3>1
    <3> QED
      BY <1>1, <3>2 DEF Precedes
  <2> QED
    BY <2>3, <2>4
<1> QED
  BY <1>0, <1>1, <1>5, <1>6, <1>7, <1>8

(* Those who were parked follow those in the line.                         *)
LEMMA Following ==
    ASSUME NEW s \in Seq(Tasks), NEW w \in Seq(Tasks)
    PROVE  /\ s \o w \in Seq(Tasks)
           /\ \A x : In(x, s \o w) <=> In(x, s) \/ In(x, w)
           /\ Distinct(s) /\ Distinct(w) /\ (\A x \in Tasks : ~(In(x, s) /\ In(x, w)))
                => Distinct(s \o w)
           /\ \A a, b : Precedes(a, b, s) => Precedes(a, b, s \o w)
<1>0. PICK q, n, m : q = s \o w /\ n = Len(s) /\ m = Len(w)
  OBVIOUS
<1>1. /\ q \in Seq(Tasks) /\ n \in Nat /\ m \in Nat /\ Len(q) = n + m
      /\ \A i \in 1..n : q[i] = s[i] /\ s[i] \in Tasks
      /\ \A i \in 1..m : w[i] \in Tasks
  BY <1>0, ConcatProperties
<1>2. \A i \in 1..Len(q) : i \in 1..n \/ (i - n \in 1..m /\ q[i] = w[i - n])
  <2>1. \A i \in 1..Len(q) : q[i] = IF i <= Len(s) THEN s[i] ELSE w[i - Len(s)]
    BY <1>0, ConcatProperties
  <2> QED
    BY <1>0, <1>1, <2>1
<1>3. \A i \in 1..m : n + i \in 1..Len(q) /\ q[n + i] = w[i]
  <2>1. \A i \in 1..Len(q) : q[i] = IF i <= Len(s) THEN s[i] ELSE w[i - Len(s)]
    BY <1>0, ConcatProperties
  <2>2. \A i \in 1..m : n + i \in 1..Len(q) /\ ~(n + i <= n) /\ (n + i) - n = i
    BY <1>1
  <2> QED
    BY <1>0, <2>1, <2>2
<1>4. \A i \in 1..n : i \in 1..Len(q)
  BY <1>1
<1>5. ASSUME NEW x PROVE In(x, q) <=> In(x, s) \/ In(x, w)
  <2>1. ASSUME In(x, q) PROVE In(x, s) \/ In(x, w)
    BY <1>0, <1>1, <1>2, <2>1 DEF In
  <2>2. ASSUME In(x, s) PROVE In(x, q)
    BY <1>0, <1>1, <1>4, <2>2 DEF In
  <2>3. ASSUME In(x, w) PROVE In(x, q)
    BY <1>0, <1>1, <1>3, <2>3 DEF In
  <2> QED
    BY <2>1, <2>2, <2>3
<1>6. ASSUME Distinct(s), Distinct(w), \A x \in Tasks : ~(In(x, s) /\ In(x, w))
      PROVE  Distinct(q)
  <2> SUFFICES ASSUME NEW i \in 1..Len(q), NEW j \in 1..Len(q), q[i] = q[j]
               PROVE  i = j
    BY DEF Distinct
  <2>1. CASE i \in 1..n /\ j \in 1..n
    BY <1>0, <1>1, <1>6, <2>1 DEF Distinct
  <2>2. CASE i \in 1..n /\ j \notin 1..n
    BY <1>0, <1>1, <1>2, <1>6, <2>2 DEF In
  <2>3. CASE i \notin 1..n /\ j \in 1..n
    BY <1>0, <1>1, <1>2, <1>6, <2>3 DEF In
  <2>4. CASE i \notin 1..n /\ j \notin 1..n
    <3>1. i - n \in 1..m /\ j - n \in 1..m /\ w[i - n] = w[j - n]
      BY <1>2, <2>4
    <3>2. i - n = j - n
      BY <1>0, <1>6, <3>1 DEF Distinct
    <3> QED
      BY <1>1, <3>2
  <2> QED
    BY <2>1, <2>2, <2>3, <2>4
<1>7. ASSUME NEW a, NEW b, Precedes(a, b, s) PROVE Precedes(a, b, q)
  BY <1>0, <1>1, <1>4, <1>7 DEF Precedes
<1> QED
  BY <1>0, <1>1, <1>5, <1>6, <1>7

(* The line of an event e2 that was e, t having left it.                   *)
Without(e, e2, t) ==
    /\ e2 \in Events(Tasks) /\ Orderly(e2)
    /\ \A a, b : a # t /\ Precedes(a, b, e.turn) => Precedes(a, b, e2.turn)

(* t uses an event it holds, or under asyncio need not stand in line for.  *)
Uses(e, t) == Orderly(e) /\ ~In(t, e.waiters) /\ (Holds(e, t) \/ ~In(t, e.turn))

(* A task leaves the line of an event.                                     *)
LEMMA LeaveEvent ==
    ASSUME NEW e \in Events(Tasks), NEW t \in Tasks, Uses(e, t)
    PROVE  LET e2 == Leave(e, t) IN
           /\ Without(e, e2, t) /\ e2.set = e.set /\ e2.waiters = e.waiters
           /\ \A u \in Tasks : In(u, e2.turn) <=> In(u, e.turn) /\ u # t
<1>0. PICK e2 : e2 = Leave(e, t)
  OBVIOUS
<1>1. e.turn \in Seq(Tasks) /\ e.waiters \in Seq(Tasks) /\ e.set \in BOOLEAN
  BY DEF Events
<1>2. /\ e2.set = e.set /\ e2.waiters = e.waiters
      /\ e2.turn = IF Holds(e, t) THEN Tail(e.turn) ELSE e.turn
      /\ e2 = [set |-> e2.set, turn |-> e2.turn, waiters |-> e2.waiters]
  BY <1>0 DEF Leave, Events
<1>3. /\ e2.turn \in Seq(Tasks) /\ Distinct(e2.turn)
      /\ \A u \in Tasks : In(u, e2.turn) <=> In(u, e.turn) /\ u # t
      /\ \A a, b : a # t /\ Precedes(a, b, e.turn) => Precedes(a, b, e2.turn)
  <2>1. CASE Holds(e, t)
    <3>1. e.turn # <<>> /\ Head(e.turn) = t /\ Distinct(e.turn) /\ e2.turn = Tail(e.turn)
      BY <1>2, <2>1 DEF Holds, Uses, Orderly
    <3> QED
      BY <1>1, <3>1, Leaving
  <2>2. CASE ~Holds(e, t)
    BY <1>1, <1>2, <2>2 DEF Uses, Orderly
  <2> QED
    BY <2>1, <2>2
<1>4. e2 \in Events(Tasks)
  BY <1>1, <1>2, <1>3 DEF Events
<1>5. Orderly(e2)
  BY <1>2, <1>3 DEF Uses, Orderly
<1> QED
  BY <1>0, <1>2, <1>3, <1>4, <1>5 DEF Without

(* set(): those who were parked join the line.                             *)
LEMMA SetEvent ==
    ASSUME NEW e \in Events(Tasks), NEW t \in Tasks, Uses(e, t)
    PROVE  LET e2 == AfterSet(e, t) IN
           /\ Without(e, e2, t) /\ e2.set
           /\ \A u \in Tasks : /\ In(u, e2.turn) <=> (In(u, e.turn) /\ u # t) \/ In(u, e.waiters)
                               /\ ~In(u, e2.waiters)
<1>0. PICK l, q, w : l = Leave(e, t) /\ q = l.turn /\ w = e.waiters
  OBVIOUS
<1>1. /\ Without(e, l, t) /\ l.waiters = w
      /\ \A u \in Tasks : In(u, q) <=> In(u, e.turn) /\ u # t
  BY <1>0, LeaveEvent
<1>2. q \in Seq(Tasks) /\ w \in Seq(Tasks) /\ Distinct(q) /\ Distinct(w)
      /\ \A x \in Tasks : ~(In(x, q) /\ In(x, w))
  BY <1>0, <1>1 DEF Without, Orderly, Events
<1>3. PICK e2 : e2 = AfterSet(e, t)
  OBVIOUS
<1>4. e2 = [set |-> TRUE, turn |-> q \o w, waiters |-> <<>>]
  BY <1>0, <1>3 DEF AfterSet
<1>5. /\ q \o w \in Seq(Tasks) /\ Distinct(q \o w)
      /\ \A x : In(x, q \o w) <=> In(x, q) \/ In(x, w)
      /\ \A a, b : Precedes(a, b, q) => Precedes(a, b, q \o w)
  BY <1>2, Following
<1>6. \A u : ~In(u, <<>>)
  BY DEF In
<1>7. Distinct(<<>>)
  BY DEF Distinct
<1>8. e2 \in Events(Tasks)
  BY <1>4, <1>5 DEF Events
<1> QED
  BY <1>0, <1>1, <1>3, <1>4, <1>5, <1>6, <1>7, <1>8 DEF Without, Orderly

(* clear() keeps the line and the parked.                                  *)
LEMMA ClearEvent ==
    ASSUME NEW e \in Events(Tasks), NEW t \in Tasks, Uses(e, t)
    PROVE  LET e2 == AfterClear(e, t) IN
           /\ Without(e, e2, t) /\ ~e2.set /\ e2.waiters = e.waiters
           /\ \A u \in Tasks : In(u, e2.turn) <=> In(u, e.turn) /\ u # t
<1>0. PICK l, e2 : l = Leave(e, t) /\ e2 = AfterClear(e, t)
  OBVIOUS
<1>1. /\ Without(e, l, t) /\ l.waiters = e.waiters
      /\ \A u \in Tasks : In(u, l.turn) <=> In(u, e.turn) /\ u # t
  BY <1>0, LeaveEvent
<1>2. /\ e2 \in Events(Tasks) /\ e2.turn = l.turn /\ e2.waiters = l.waiters /\ ~e2.set
  BY <1>0, <1>1 DEF AfterClear, Without, Events
<1> QED
  BY <1>0, <1>1, <1>2 DEF Without, Orderly

(* wait() on an unset event parks the task.                                *)
LEMMA BlockEvent ==
    ASSUME NEW e \in Events(Tasks), NEW t \in Tasks, Uses(e, t)
    PROVE  LET e2 == AfterBlock(e, t) IN
           /\ Without(e, e2, t) /\ e2.set = e.set
           /\ \A u \in Tasks : /\ In(u, e2.turn) <=> In(u, e.turn) /\ u # t
                               /\ In(u, e2.waiters) <=> In(u, e.waiters) \/ u = t
<1>0. PICK l, w, e2 : /\ l = Leave(e, t) /\ w = Append(e.waiters, t)
                      /\ e2 = AfterBlock(e, t)
  OBVIOUS
<1>1. /\ Without(e, l, t) /\ l.waiters = e.waiters /\ l.set = e.set
      /\ \A u \in Tasks : In(u, l.turn) <=> In(u, e.turn) /\ u # t
  BY <1>0, LeaveEvent
<1>2. e.waiters \in Seq(Tasks) /\ Distinct(e.waiters) /\ ~In(t, e.waiters)
  BY DEF Events, Uses, Orderly
<1>3. /\ w \in Seq(Tasks) /\ Distinct(w)
      /\ \A x : In(x, w) <=> In(x, e.waiters) \/ x = t
  BY <1>0, <1>2, Joining
<1>4. e2 = [l EXCEPT !.waiters = w]
  BY <1>0, <1>1 DEF AfterBlock
<1>5. e2 \in Events(Tasks) /\ e2.turn = l.turn /\ e2.waiters = w /\ e2.set = l.set
  BY <1>1, <1>3, <1>4 DEF Without, Events
<1> QED
  BY <1>0, <1>1, <1>3, <1>5 DEF Without, Orderly

(* trio: a task joins the line of the event it reaches.                    *)
LEMMA ReachEvent ==
    ASSUME NEW e \in Events(Tasks), NEW t \in Tasks, Orderly(e),
           ~In(t, e.turn), ~In(t, e.waiters), world.trio
    PROVE  LET e2 == Reach(e, t) IN
           /\ Without(e, e2, t) /\ e2.set = e.set /\ e2.waiters = e.waiters
           /\ \A u \in Tasks : In(u, e2.turn) <=> In(u, e.turn) \/ u = t
           /\ \A a \in Tasks : In(a, e.turn) => Precedes(a, t, e2.turn)
<1>0. PICK q, e2 : q = Append(e.turn, t) /\ e2 = Reach(e, t)
  OBVIOUS
<1>1. e.turn \in Seq(Tasks) /\ Distinct(e.turn)
  BY DEF Events, Orderly
<1>2. /\ q \in Seq(Tasks) /\ Distinct(q)
      /\ \A x : In(x, q) <=> In(x, e.turn) \/ x = t
      /\ \A a, b : Precedes(a, b, e.turn) => Precedes(a, b, q)
      /\ \A a : In(a, e.turn) => Precedes(a, t, q)
  BY <1>0, <1>1, Joining
<1>3. e2 = [e EXCEPT !.turn = q]
  BY <1>0 DEF Reach
<1>4. e2 \in Events(Tasks) /\ e2.turn = q /\ e2.waiters = e.waiters /\ e2.set = e.set
  BY <1>2, <1>3 DEF Events
<1> QED
  BY <1>0, <1>2, <1>4 DEF Without, Orderly

-----------------------------------------------------------------------------
(* The steps of the tasks.                                                 *)

(* The names of the tasks are distinct.                                    *)
LEMMA TaskNames ==
    /\ Reader \in Tasks /\ Sender \in Tasks /\ Reader # Sender
    /\ Reader \notin Streams /\ Sender \notin Streams /\ NoTask \notin Tasks
    /\ \A s \in Streams : s \in Tasks
BY H2SendAssumption DEF Reader, Sender, NoTask, Tasks

(* The names of the events are distinct.                                   *)
LEMMA EventNames ==
    /\ HasData \in EventIds
    /\ \A s \in Streams :
         /\ IsEmpty(s) \in EventIds /\ Paused(s) \in EventIds /\ Finished(s) \in EventIds
         /\ IsEmpty(s) # HasData /\ Paused(s) # HasData /\ Finished(s) # HasData
    /\ \A s, r \in Streams :
         /\ IsEmpty(s) # Paused(r) /\ IsEmpty(s) # Finished(r) /\ Paused(s) # Finished(r)
         /\ s # r => /\ IsEmpty(s) # IsEmpty(r) /\ Paused(s) # Paused(r)
                     /\ Finished(s) # Finished(r)
BY DEF HasData, EventIds, IsEmpty, Paused, Finished

(* t, which awaits nothing, goes on to a place, and awaits ops before it.  *)
Moves(t, place, ops) ==
    /\ todo[t] = <<>> /\ cpu \in {NoTask, t}
    /\ pc' = [pc EXCEPT ![t] = place]
    /\ IF ops = <<>>
       THEN /\ cpu' = IF place \in Suspended THEN NoTask ELSE t
            /\ UNCHANGED <<todo, events>>
       ELSE /\ todo' = [todo EXCEPT ![t] = ops]
            /\ events' = [events EXCEPT ![Head(ops).on] = Reach(@, t)]
            /\ cpu' = CpuAt(t)

(* What that says of every task and every event.                           *)
Moved(t, place, ops) ==
    /\ todo[t] = <<>> /\ cpu \in {NoTask, t} /\ cpu' \in {NoTask, t}
    /\ \A u \in Tasks : /\ pc'[u] = IF u = t THEN place ELSE pc[u]
                        /\ todo'[u] = IF u = t THEN ops ELSE todo[u]
    /\ \A x \in EventIds :
         /\ events'[x].set = events[x].set
         /\ ~world.trio => events'[x].turn = events[x].turn
         /\ \A a, b : a # t /\ Precedes(a, b, events[x].turn)
                        => Precedes(a, b, events'[x].turn)
         /\ \A a \in Tasks : world.trio /\ ops # <<>> /\ x = Head(ops).on
              /\ In(a, events[x].turn) => Precedes(a, t, events'[x].turn)

(* What t leaves of the events, once the one it used is e2.                *)
Left(t, e2, x) == IF x = Head(todo[t]).on THEN e2 ELSE events[x]

(* An EventStep of t that returns from an event, which is then e2.         *)
Returned(t, e2) ==
    LET rest == Tail(todo[t]) IN
    /\ todo[t] # <<>> /\ cpu \in {NoTask, t} /\ cpu' \in {NoTask, t} /\ pc' = pc
    /\ \A u \in Tasks : todo'[u] = IF u = t THEN rest ELSE todo[u]
    /\ \A x \in EventIds :
         /\ events'[x].set = Left(t, e2, x).set
         /\ ~world.trio => events'[x].turn = Left(t, e2, x).turn
         /\ \A a, b : a # t /\ Precedes(a, b, events[x].turn)
                        => Precedes(a, b, events'[x].turn)
         /\ \A a \in Tasks : world.trio /\ rest # <<>> /\ x = Head(rest).on /\ a # t
              /\ In(a, Left(t, e2, x).turn) => Precedes(a, t, events'[x].turn)

(* Going on to a place keeps every line in order.                          *)
LEMMA MoveLines ==
    ASSUME TaskTypes, world.trio \in BOOLEAN, Lines, NEW t \in Tasks, NEW place \in Places,
           NEW ops \in Seq(Ops), Moves(t, place, ops), UNCHANGED world
    PROVE  TaskTypes' /\ Lines' /\ Moved(t, place, ops)
<1>1. /\ pc \in [Tasks -> Places] /\ cpu \in Tasks \cup {NoTask}
      /\ todo \in [Tasks -> Seq(Ops)] /\ events \in [EventIds -> Events(Tasks)]
      /\ NoTask \notin Tasks
  BY TaskNames DEF TaskTypes
<1>2. /\ todo[t] = <<>> /\ cpu \in {NoTask, t} /\ cpu' \in {NoTask, t}
      /\ cpu' = IF ops = <<>> THEN (IF place \in Suspended THEN NoTask ELSE t)
                ELSE (IF world.trio THEN NoTask ELSE t)
  BY DEF Moves, CpuAt
<1>3. /\ pc' \in [Tasks -> Places]
      /\ \A u \in Tasks : pc'[u] = IF u = t THEN place ELSE pc[u]
  BY <1>1 DEF Moves
<1>4. /\ todo' \in [Tasks -> Seq(Ops)]
      /\ \A u \in Tasks : todo'[u] = IF u = t THEN ops ELSE todo[u]
  <2>1. CASE ops = <<>>
    BY <1>1, <2>1 DEF Moves
  <2>2. CASE ops # <<>>
    BY <1>1, <2>2 DEF Moves
  <2> QED
    BY <2>1, <2>2
<1>5. ops # <<>> => Head(ops) \in Ops /\ Head(ops).on \in EventIds
  <2>1. ops # <<>> => Head(ops) \in Ops
    BY HeadTailProperties
  <2> QED
    BY <2>1 DEF Ops
<1>6. \A x \in EventIds :
         events'[x] = IF ops # <<>> /\ x = Head(ops).on THEN Reach(events[x], t) ELSE events[x]
  BY <1>1, <1>5 DEF Moves
<1>7. DOMAIN events' = EventIds /\ events' = [x \in EventIds |-> events'[x]]
  BY <1>1 DEF Moves
<1>8. ASSUME NEW u \in Tasks, NEW x \in EventIds
      PROVE  /\ cpu # u \/ u = t
             /\ cpu' # u \/ u = t
             /\ ~Awaits(t, x)
             /\ u # t => (Awaits(u, x)' <=> Awaits(u, x)) /\ (AwaitsTo(u, "wait")' <=> AwaitsTo(u, "wait"))
             /\ Awaits(t, x)' <=> ops # <<>> /\ Head(ops).on = x
  BY <1>1, <1>2, <1>4 DEF Awaits, AwaitsTo
<1>9. ASSUME NEW x \in EventIds
      PROVE  /\ events'[x] \in Events(Tasks) /\ Line(x)'
             /\ events'[x].set = events[x].set
             /\ ~world.trio => events'[x].turn = events[x].turn
             /\ \A a, b : a # t /\ Precedes(a, b, events[x].turn)
                            => Precedes(a, b, events'[x].turn)
             /\ \A a \in Tasks : world.trio /\ ops # <<>> /\ x = Head(ops).on
                  /\ In(a, events[x].turn) => Precedes(a, t, events'[x].turn)
  <2>1. /\ Line(x) /\ events[x] \in Events(Tasks)
    BY <1>1 DEF Lines
  <2>2. /\ Orderly(events[x]) /\ ~In(t, events[x].turn) /\ ~In(t, events[x].waiters)
    BY <1>8, <2>1 DEF Line
  <2>3. \A u \in Tasks \ {t} :
          /\ In(u, events[x].turn) \/ In(u, events[x].waiters) <=> Awaits(u, x)
          /\ In(u, events[x].waiters) \/ (In(u, events[x].turn) /\ ~world.trio) => AwaitsTo(u, "wait")
    BY <1>8, <2>1 DEF Line
  <2>4. CASE ops # <<>> /\ x = Head(ops).on /\ world.trio
    <3>1. PICK e2 : e2 = Reach(events[x], t)
      OBVIOUS
    <3>2. /\ Without(events[x], e2, t) /\ e2.set = events[x].set /\ e2.waiters = events[x].waiters
          /\ \A u \in Tasks : In(u, e2.turn) <=> In(u, events[x].turn) \/ u = t
          /\ \A a \in Tasks : In(a, events[x].turn) => Precedes(a, t, e2.turn)
      BY <2>1, <2>2, <2>4, <3>1, ReachEvent
    <3>3. events'[x] = e2
      BY <1>6, <2>4, <3>1
    <3>4. /\ In(t, e2.turn) /\ ~In(t, e2.waiters)
          /\ Awaits(t, x)'
      BY <1>8, <2>2, <2>4, <3>2
    <3>5. Line(x)'
      <4>1. Orderly(e2)
        BY <3>2 DEF Without
      <4>2. ASSUME NEW u \in Tasks
            PROVE  /\ In(u, e2.turn) \/ In(u, e2.waiters) <=> Awaits(u, x)'
                   /\ In(u, e2.waiters) => AwaitsTo(u, "wait")'
        BY <1>8, <2>3, <3>2, <3>4
      <4> QED
        BY <2>4, <3>3, <4>1, <4>2 DEF Line
    <3> QED
      BY <2>4, <3>2, <3>3, <3>5 DEF Without
  <2>5. CASE ~(ops # <<>> /\ x = Head(ops).on /\ world.trio)
    <3>1. events'[x] = events[x]
      BY <1>6, <2>5 DEF Reach
    <3>2. Awaits(t, x)' => ~world.trio /\ cpu' = t
      BY <1>2, <1>8, <2>5
    <3>3. Line(x)'
      BY <1>8, <2>2, <2>3, <3>1, <3>2 DEF Line
    <3> QED
      BY <2>1, <2>5, <3>1, <3>3
  <2> QED
    BY <2>4, <2>5
<1>10. Running'
  <2> SUFFICES ASSUME NEW u \in Tasks, todo'[u] = <<>>, pc'[u] \notin Suspended \cup {"next"}
               PROVE  cpu' = u
    BY DEF Running
  <2>1. CASE u = t
    BY <1>2, <1>3, <1>4, <2>1
  <2>2. CASE u # t
    BY <1>1, <1>2, <1>3, <1>4, <2>2 DEF Lines, Running
  <2> QED
    BY <2>1, <2>2
<1>11. TaskTypes'
  <2>1. events' \in [EventIds -> Events(Tasks)]
    BY <1>7, <1>9
  <2> QED
    BY <1>2, <1>3, <1>4, <2>1 DEF TaskTypes
<1>12. Lines'
  BY <1>9, <1>10 DEF Lines
<1> QED
  BY <1>2, <1>3, <1>4, <1>9, <1>11, <1>12 DEF Moved

(* Returning from an event keeps every line in order.                      *)
LEMMA ReturnLines ==
    ASSUME TaskTypes, world.trio \in BOOLEAN, Lines, NEW t \in Tasks, NEW e2,
           todo[t] # <<>>, cpu \in {NoTask, t},
           LET e == events[Head(todo[t]).on] IN
           /\ Without(e, e2, t)
           /\ \A u \in Tasks :
                /\ In(u, e2.turn) \/ In(u, e2.waiters)
                     <=> (In(u, e.turn) \/ In(u, e.waiters)) /\ u # t
                /\ In(u, e2.waiters) \/ (In(u, e2.turn) /\ ~world.trio) => AwaitsTo(u, "wait"),
           Proceed(t, e2), UNCHANGED world
    PROVE  TaskTypes' /\ Lines' /\ Returned(t, e2)
<1>0. PICK rest, on : rest = Tail(todo[t]) /\ on = Head(todo[t]).on
  OBVIOUS
<1>1. /\ pc \in [Tasks -> Places] /\ cpu \in Tasks \cup {NoTask}
      /\ todo \in [Tasks -> Seq(Ops)] /\ events \in [EventIds -> Events(Tasks)]
      /\ NoTask \notin Tasks
  BY TaskNames DEF TaskTypes
<1>2. /\ todo[t] \in Seq(Ops) /\ rest \in Seq(Ops) /\ on \in EventIds
      /\ rest # <<>> => Head(rest).on \in EventIds
  <2>1. todo[t] \in Seq(Ops)
    BY <1>1
  <2>2. Head(todo[t]) \in Ops /\ rest \in Seq(Ops)
    BY <1>0, <2>1, HeadTailProperties
  <2>3. rest # <<>> => Head(rest) \in Ops
    BY <2>2, HeadTailProperties
  <2> QED
    BY <1>0, <2>1, <2>2, <2>3 DEF Ops
<1>3. /\ cpu' \in {NoTask, t} /\ pc' = pc
      /\ cpu' = IF rest = <<>> THEN (IF pc[t] \in Suspended THEN NoTask ELSE t)
                ELSE (IF world.trio THEN NoTask ELSE t)
  BY <1>0 DEF Proceed, CpuAt
<1>4. /\ todo' \in [Tasks -> Seq(Ops)]
      /\ \A u \in Tasks : todo'[u] = IF u = t THEN rest ELSE todo[u]
  BY <1>0, <1>1, <1>2 DEF Proceed
<1>5. PICK left : left = [events EXCEPT ![on] = e2]
  OBVIOUS
<1>6. /\ left \in [EventIds -> Events(Tasks)]
      /\ \A x \in EventIds : left[x] = Left(t, e2, x)
  BY <1>0, <1>1, <1>2, <1>5 DEF Left, Without
<1>7. events' = IF rest = <<>> THEN left
                ELSE [left EXCEPT ![Head(rest).on] = Reach(@, t)]
  BY <1>0, <1>5 DEF Proceed
<1>8. /\ events' = [x \in EventIds |-> events'[x]]
      /\ \A x \in EventIds :
           events'[x] = IF rest # <<>> /\ x = Head(rest).on THEN Reach(left[x], t) ELSE left[x]
  <2>1. CASE rest = <<>>
    BY <1>6, <1>7, <2>1
  <2>2. CASE rest # <<>>
    BY <1>2, <1>6, <1>7, <2>2
  <2> QED
    BY <2>1, <2>2
<1>9. ASSUME NEW u \in Tasks, NEW x \in EventIds
      PROVE  /\ cpu # u \/ u = t
             /\ cpu' # u \/ u = t
             /\ Awaits(t, x) <=> x = on
             /\ u # t => (Awaits(u, x)' <=> Awaits(u, x)) /\ (AwaitsTo(u, "wait")' <=> AwaitsTo(u, "wait"))
             /\ Awaits(t, x)' <=> rest # <<>> /\ Head(rest).on = x
  BY <1>0, <1>1, <1>3, <1>4 DEF Awaits, AwaitsTo
<1>10. ASSUME NEW x \in EventIds
       PROVE  /\ Orderly(left[x]) /\ ~In(t, left[x].turn) /\ ~In(t, left[x].waiters)
              /\ \A u \in Tasks \ {t} :
                   /\ In(u, left[x].turn) \/ In(u, left[x].waiters) <=> Awaits(u, x)
                   /\ In(u, left[x].waiters) \/ (In(u, left[x].turn) /\ ~world.trio)
                        => AwaitsTo(u, "wait")
              /\ \A a, b : a # t /\ Precedes(a, b, events[x].turn) => Precedes(a, b, left[x].turn)
  <2>1. Line(x)
    BY DEF Lines
  <2>2. CASE x = on
    <3>1. left[x] = e2
      BY <1>0, <1>6, <2>2 DEF Left
    <3> QED
      BY <1>0, <1>9, <2>1, <2>2, <3>1 DEF Line, Without
  <2>3. CASE x # on
    <3>1. left[x] = events[x]
      BY <1>0, <1>6, <2>3 DEF Left
    <3> QED
      BY <1>9, <2>1, <2>3, <3>1 DEF Line
  <2> QED
    BY <2>2, <2>3
<1>11. ASSUME NEW x \in EventIds
       PROVE  /\ events'[x] \in Events(Tasks) /\ Line(x)'
              /\ events'[x].set = left[x].set
              /\ ~world.trio => events'[x].turn = left[x].turn
              /\ \A a, b : a # t /\ Precedes(a, b, left[x].turn)
                             => Precedes(a, b, events'[x].turn)
              /\ \A a \in Tasks : world.trio /\ rest # <<>> /\ x = Head(rest).on
                   /\ In(a, left[x].turn) => Precedes(a, t, events'[x].turn)
  <2>1. left[x] \in Events(Tasks)
    BY <1>6
  <2>4. CASE rest # <<>> /\ x = Head(rest).on /\ world.trio
    <3>1. PICK e3 : e3 = Reach(left[x], t)
      OBVIOUS
    <3>2. /\ Without(left[x], e3, t) /\ e3.set = left[x].set /\ e3.waiters = left[x].waiters
          /\ \A u \in Tasks : In(u, e3.turn) <=> In(u, left[x].turn) \/ u = t
          /\ \A a \in Tasks : In(a, left[x].turn) => Precedes(a, t, e3.turn)
      BY <1>10, <2>1, <2>4, <3>1, ReachEvent
    <3>3. events'[x] = e3
      BY <1>8, <2>4, <3>1
    <3>4. In(t, e3.turn) /\ ~In(t, e3.waiters) /\ Awaits(t, x)'
      BY <1>9, <1>10, <2>4, <3>2
    <3>5. Line(x)'
      <4>1. Orderly(e3)
        BY <3>2 DEF Without
      <4>2. ASSUME NEW u \in Tasks
            PROVE  /\ In(u, e3.turn) \/ In(u, e3.waiters) <=> Awaits(u, x)'
                   /\ In(u, e3.waiters) => AwaitsTo(u, "wait")'
        BY <1>9, <1>10, <3>2, <3>4
      <4> QED
        BY <2>4, <3>3, <4>1, <4>2 DEF Line
    <3> QED
      BY <2>4, <3>2, <3>3, <3>5 DEF Without
  <2>5. CASE ~(rest # <<>> /\ x = Head(rest).on /\ world.trio)
    <3>1. events'[x] = left[x]
      BY <1>8, <2>5 DEF Reach
    <3>2. Awaits(t, x)' => ~world.trio /\ cpu' = t
      BY <1>3, <1>9, <2>5
    <3>3. Line(x)'
      BY <1>9, <1>10, <3>1, <3>2 DEF Line
    <3> QED
      BY <2>1, <2>5, <3>1, <3>3
  <2> QED
    BY <2>4, <2>5
<1>12. Running'
  <2> SUFFICES ASSUME NEW u \in Tasks, todo'[u] = <<>>, pc'[u] \notin Suspended \cup {"next"}
               PROVE  cpu' = u
    BY DEF Running
  <2>1. CASE u = t
    BY <1>3, <1>4, <2>1
  <2>2. CASE u # t
    BY <1>1, <1>3, <1>4, <2>2 DEF Lines, Running
  <2> QED
    BY <2>1, <2>2
<1>13. TaskTypes'
  <2>1. events' \in [EventIds -> Events(Tasks)]
    BY <1>8, <1>11
  <2>2. pc' \in [Tasks -> Places]
    BY <1>1, <1>3
  <2> QED
    BY <1>1, <1>3, <1>4, <2>1, <2>2 DEF TaskTypes
<1>14. Lines'
  BY <1>11, <1>12 DEF Lines
<1>15. ASSUME NEW x \in EventIds
       PROVE  /\ events'[x].set = Left(t, e2, x).set
              /\ ~world.trio => events'[x].turn = Left(t, e2, x).turn
              /\ \A a, b : a # t /\ Precedes(a, b, events[x].turn)
                             => Precedes(a, b, events'[x].turn)
              /\ \A a \in Tasks : world.trio /\ rest # <<>> /\ x = Head(rest).on /\ a # t
                   /\ In(a, Left(t, e2, x).turn) => Precedes(a, t, events'[x].turn)
  BY <1>6, <1>10, <1>11
<1> QED
  BY <1>0, <1>3, <1>4, <1>13, <1>14, <1>15 DEF Returned

(* What an EventStep of t does, for every task and every event: t parks, or*)
(* returns from the event it awaited and goes on to the next.              *)
Parks(t) ==
    LET op == Head(todo[t]) IN
    /\ todo'[t] = todo[t] /\ op.do = "wait" /\ ~events[op.on].set
    /\ \A x \in EventIds :
         /\ events'[x].set = events[x].set
         /\ ~world.trio => events'[x].turn = events[x].turn

Passes(t) ==
    LET op == Head(todo[t])
        rest == Tail(todo[t])
    IN
    /\ todo'[t] = rest
    /\ op.do = "wait" => events[op.on].set \/ (~world.trio /\ events[op.on].turn # <<>>)
    /\ \A x \in EventIds :
         /\ events'[x].set = IF x # op.on \/ op.do = "wait" THEN events[x].set ELSE op.do = "set"
         /\ ~world.trio /\ events'[x].turn # <<>> =>
              events[x].turn # <<>> \/ (x = op.on /\ op.do = "set")
         /\ \A a \in Tasks : world.trio /\ rest # <<>> /\ x = Head(rest).on /\ a # t
              /\ In(a, events[x].turn) => Precedes(a, t, events'[x].turn)

Acted(t) ==
    /\ todo[t] # <<>> /\ cpu \in {NoTask, t} /\ cpu' \in {NoTask, t} /\ pc' = pc
    /\ world.trio => \A a : ~Precedes(a, t, events[Head(todo[t]).on].turn)
    /\ \A u \in Tasks \ {t} : todo'[u] = todo[u]
    /\ \A x \in EventIds : \A a, b :
         a # t /\ Precedes(a, b, events[x].turn) => Precedes(a, b, events'[x].turn)
    /\ Parks(t) \/ Passes(t)

(* A line that is not empty has a task in it.                              *)
LEMMA SomeoneIn == ASSUME NEW q \in Seq(Tasks), q # <<>> PROVE \E t \in Tasks : In(t, q)
<1>1. Head(q) \in Tasks /\ Len(q) \in Nat /\ Len(q) > 0 /\ Head(q) = q[1]
  BY HeadTailProperties, EmptySeq
<1> QED
  BY <1>1 DEF In

(* A step of an event keeps every line in order.                           *)
LEMMA StepLines ==
    ASSUME TaskTypes, world.trio \in BOOLEAN, Lines, NEW t \in Tasks, EventStep(t)
    PROVE  TaskTypes' /\ Lines' /\ Acted(t)
<1>0. PICK do, on, e : do = Head(todo[t]).do /\ on = Head(todo[t]).on /\ e = events[on]
  OBVIOUS
<1>1. todo[t] # <<>> /\ cpu \in {NoTask, t} /\ world' = world
  BY DEF EventStep
<1>2. /\ pc \in [Tasks -> Places] /\ cpu \in Tasks \cup {NoTask}
      /\ todo \in [Tasks -> Seq(Ops)] /\ events \in [EventIds -> Events(Tasks)]
      /\ NoTask \notin Tasks
  BY TaskNames DEF TaskTypes
<1>3. on \in EventIds /\ do \in {"set", "clear", "wait", "touch"} /\ e \in Events(Tasks)
  <2>1. todo[t] \in Seq(Ops)
    BY <1>2
  <2>2. Head(todo[t]) \in Ops
    BY <1>1, <2>1, HeadTailProperties
  <2> QED
    BY <1>0, <1>2, <2>2 DEF Ops
<1>4. Line(on) /\ Awaits(t, on)
  BY <1>0, <1>1, <1>3 DEF Lines, Awaits
<1>5. /\ \/ do = "set" /\ MayAct(e, t, cpu) /\ Proceed(t, AfterSet(e, t))
         \/ do = "clear" /\ MayAct(e, t, cpu) /\ Proceed(t, AfterClear(e, t))
         \/ do = "touch" /\ MayAct(e, t, cpu) /\ Proceed(t, AfterClear(e, t))
         \/ do = "wait" /\ Returns(e, t, cpu) /\ Proceed(t, AfterWait(e, t))
         \/ /\ do = "wait" /\ Blocks(e, t, cpu)
            /\ events' = [events EXCEPT ![on] = AfterBlock(e, t)]
            /\ cpu' = NoTask
            /\ UNCHANGED <<pc, todo>>
  BY <1>0 DEF EventStep
<1>6. /\ Holds(e, t) => In(t, e.turn)
      /\ Orderly(e) /\ Distinct(e.turn) /\ e.turn \in Seq(Tasks) /\ e.waiters \in Seq(Tasks)
  <2>1. Orderly(e) /\ e.turn \in Seq(Tasks) /\ e.waiters \in Seq(Tasks)
    BY <1>0, <1>3, <1>4 DEF Line, Events
  <2>2. ASSUME Holds(e, t) PROVE In(t, e.turn)
    <3>1. e.turn # <<>> /\ Head(e.turn) = t
      BY <2>2 DEF Holds
    <3> QED
      BY <2>1, <3>1, Leaving DEF Orderly
  <2> QED
    BY <2>1, <2>2 DEF Orderly
<1>7. MayAct(e, t, cpu) \/ Returns(e, t, cpu) \/ Blocks(e, t, cpu)
        => IF world.trio THEN Holds(e, t) ELSE cpu = t \/ (cpu = NoTask /\ Holds(e, t))
  BY DEF MayAct, Returns, Blocks
<1>8. Uses(e, t) /\ (world.trio => \A a : ~Precedes(a, t, e.turn))
  <2>1. IF world.trio THEN Holds(e, t) ELSE cpu = t \/ (cpu = NoTask /\ Holds(e, t))
    BY <1>5, <1>7
  <2>2. Uses(e, t)
    BY <1>0, <1>4, <1>6, <2>1 DEF Line, Uses, Orderly
  <2>3. ASSUME world.trio, NEW a PROVE ~Precedes(a, t, e.turn)
    <3>1. e.turn # <<>> /\ Head(e.turn) = t
      BY <2>1, <2>3 DEF Holds
    <3> QED
      BY <1>6, <3>1, Leaving
  <2> QED
    BY <2>2, <2>3
<1>9. \A u \in Tasks :
        /\ In(u, e.turn) \/ In(u, e.waiters) <=> Awaits(u, on) /\ (world.trio \/ cpu # u)
        /\ In(u, e.waiters) \/ (In(u, e.turn) /\ ~world.trio) => AwaitsTo(u, "wait")
  BY <1>0, <1>4 DEF Line
<1>10. ASSUME NEW e2, Proceed(t, e2), Without(e, e2, t),
              \A u \in Tasks :
                /\ In(u, e2.turn) \/ In(u, e2.waiters)
                     <=> (In(u, e.turn) \/ In(u, e.waiters)) /\ u # t
                /\ In(u, e2.waiters) \/ (In(u, e2.turn) /\ ~world.trio) => AwaitsTo(u, "wait"),
              \A u \in Tasks \ {t} : In(u, e.turn) => In(u, e2.turn),
              \A u \in Tasks : do # "set" /\ In(u, e2.turn) => In(u, e.turn),
              e2.set = (IF do = "wait" THEN e.set ELSE do = "set"),
              do = "wait" => e.set \/ (~world.trio /\ e.turn # <<>>)
       PROVE  TaskTypes' /\ Lines' /\ Acted(t)
  <2>1. TaskTypes' /\ Lines' /\ Returned(t, e2)
    BY <1>0, <1>1, <1>10, ReturnLines
  <2>2. e2.turn \in Seq(Tasks) /\ e2.set \in BOOLEAN
    BY <1>10 DEF Without, Events
  <2>3. do # "set" /\ e2.turn # <<>> => e.turn # <<>>
    <3>1. ASSUME do # "set", e2.turn # <<>> PROVE e.turn # <<>>
      <4>1. PICK u \in Tasks : In(u, e2.turn)
        BY <2>2, <3>1, SomeoneIn
      <4>2. In(u, e.turn)
        BY <1>10, <3>1, <4>1
      <4> QED
        BY <4>2 DEF In
    <3> QED
      BY <3>1
  <2>4. ASSUME NEW x \in EventIds
        PROVE  /\ events'[x].set = IF x # on \/ do = "wait" THEN events[x].set ELSE do = "set"
               /\ ~world.trio /\ events'[x].turn # <<>> =>
                    events[x].turn # <<>> \/ (x = on /\ do = "set")
               /\ \A a \in Tasks : world.trio /\ Tail(todo[t]) # <<>> /\ x = Head(Tail(todo[t])).on
                    /\ a # t /\ In(a, events[x].turn) => Precedes(a, t, events'[x].turn)
    <3>1. /\ events'[x].set = Left(t, e2, x).set
          /\ ~world.trio => events'[x].turn = Left(t, e2, x).turn
          /\ \A a \in Tasks : world.trio /\ Tail(todo[t]) # <<>> /\ x = Head(Tail(todo[t])).on
               /\ a # t /\ In(a, Left(t, e2, x).turn) => Precedes(a, t, events'[x].turn)
      BY <2>1 DEF Returned
    <3>2. Left(t, e2, x) = IF x = on THEN e2 ELSE events[x]
      BY <1>0 DEF Left
    <3>3. CASE x = on
      BY <1>0, <1>10, <2>3, <3>1, <3>2, <3>3
    <3>4. CASE x # on
      BY <3>1, <3>2, <3>4
    <3> QED
      BY <3>3, <3>4
  <2>5. todo'[t] = Tail(todo[t])
    BY <2>1 DEF Returned
  <2>6. Passes(t)
    BY <1>0, <1>10, <2>4, <2>5 DEF Passes
  <2> QED
    BY <1>0, <1>8, <2>1, <2>6 DEF Acted, Returned
<1>11. CASE do = "set" /\ Proceed(t, AfterSet(e, t))
  <2>1. PICK e2 : e2 = AfterSet(e, t)
    OBVIOUS
  <2>2. /\ Without(e, e2, t) /\ e2.set
        /\ \A u \in Tasks : /\ In(u, e2.turn) <=> (In(u, e.turn) /\ u # t) \/ In(u, e.waiters)
                            /\ ~In(u, e2.waiters)
    BY <1>3, <1>8, <2>1, SetEvent
  <2>3. e2.set = TRUE
    BY <2>2 DEF Without, Events
  <2>4. ~In(t, e.waiters)
    BY <1>8 DEF Uses
  <2>5. \A u \in Tasks :
          /\ In(u, e2.turn) \/ In(u, e2.waiters)
               <=> (In(u, e.turn) \/ In(u, e.waiters)) /\ u # t
          /\ In(u, e2.waiters) \/ (In(u, e2.turn) /\ ~world.trio) => AwaitsTo(u, "wait")
    BY <1>9, <2>2, <2>4
  <2> QED
    BY <1>10, <1>11, <2>1, <2>2, <2>3, <2>5
<1>12. CASE do \in {"clear", "touch"} /\ Proceed(t, AfterClear(e, t))
  <2>1. PICK e2 : e2 = AfterClear(e, t)
    OBVIOUS
  <2>2. /\ Without(e, e2, t) /\ ~e2.set /\ e2.waiters = e.waiters
        /\ \A u \in Tasks : In(u, e2.turn) <=> In(u, e.turn) /\ u # t
    BY <1>3, <1>8, <2>1, ClearEvent
  <2>3. e2.set = FALSE
    BY <2>2 DEF Without, Events
  <2>4. ~In(t, e.waiters)
    BY <1>8 DEF Uses
  <2>5. \A u \in Tasks :
          /\ In(u, e2.turn) \/ In(u, e2.waiters)
               <=> (In(u, e.turn) \/ In(u, e.waiters)) /\ u # t
          /\ In(u, e2.waiters) \/ (In(u, e2.turn) /\ ~world.trio) => AwaitsTo(u, "wait")
    BY <1>9, <2>2, <2>4
  <2> QED
    BY <1>10, <1>12, <2>1, <2>2, <2>3, <2>5
<1>13. CASE do = "wait" /\ Returns(e, t, cpu) /\ Proceed(t, AfterWait(e, t))
  <2>1. PICK e2 : e2 = AfterWait(e, t)
    OBVIOUS
  <2>2. /\ Without(e, e2, t) /\ e2.set = e.set /\ e2.waiters = e.waiters
        /\ \A u \in Tasks : In(u, e2.turn) <=> In(u, e.turn) /\ u # t
    BY <1>3, <1>8, <2>1, LeaveEvent DEF AfterWait
  <2>3. e.set \/ (~world.trio /\ e.turn # <<>>)
    BY <1>13 DEF Returns, Holds
  <2>4. ~In(t, e.waiters)
    BY <1>8 DEF Uses
  <2>5. \A u \in Tasks :
          /\ In(u, e2.turn) \/ In(u, e2.waiters)
               <=> (In(u, e.turn) \/ In(u, e.waiters)) /\ u # t
          /\ In(u, e2.waiters) \/ (In(u, e2.turn) /\ ~world.trio) => AwaitsTo(u, "wait")
    BY <1>9, <2>2, <2>4
  <2> QED
    BY <1>10, <1>13, <2>1, <2>2, <2>3, <2>5
<1>14. CASE /\ do = "wait" /\ Blocks(e, t, cpu)
            /\ events' = [events EXCEPT ![on] = AfterBlock(e, t)]
            /\ cpu' = NoTask
            /\ UNCHANGED <<pc, todo>>
  <2>1. PICK e2 : e2 = AfterBlock(e, t)
    OBVIOUS
  <2>2. /\ Without(e, e2, t) /\ e2.set = e.set
        /\ \A u \in Tasks : /\ In(u, e2.turn) <=> In(u, e.turn) /\ u # t
                            /\ In(u, e2.waiters) <=> In(u, e.waiters) \/ u = t
    BY <1>3, <1>8, <2>1, BlockEvent
  <2>3. /\ events' \in [EventIds -> Events(Tasks)]
        /\ \A x \in EventIds : events'[x] = IF x = on THEN e2 ELSE events[x]
    BY <1>2, <1>3, <1>14, <2>1, <2>2 DEF Without
  <2>4. ~world.trio => ~Holds(e, t) /\ e2.turn = e.turn
    <3>1. ASSUME ~world.trio PROVE ~Holds(e, t)
      <4>1. cpu = t
        BY <1>14, <3>1 DEF Blocks, MayAct
      <4> QED
        BY <1>6, <1>9, <3>1, <4>1
    <3>2. ASSUME ~Holds(e, t) PROVE e2.turn = e.turn
      <4>1. Leave(e, t) = e
        BY <1>3, <3>2 DEF Leave, Events
      <4> QED
        BY <1>3, <2>1, <4>1 DEF AfterBlock, Events
    <3> QED
      BY <3>1, <3>2
  <2>5. /\ todo' = todo /\ pc' = pc /\ cpu' = NoTask /\ world' = world
    BY <1>1, <1>14
  <2>6. ASSUME NEW u \in Tasks, NEW x \in EventIds
        PROVE  /\ Awaits(u, x)' <=> Awaits(u, x)
               /\ AwaitsTo(u, "wait")' <=> AwaitsTo(u, "wait")
               /\ cpu # u \/ u = t
               /\ cpu' # u
    BY <1>1, <1>2, <2>5 DEF Awaits, AwaitsTo
  <2>7. AwaitsTo(t, "wait")
    BY <1>0, <1>1, <1>14 DEF AwaitsTo
  <2>8. ASSUME NEW x \in EventIds PROVE Line(x)'
    <3>1. CASE x = on
      <4>1. events'[x] = e2
        BY <2>3, <3>1
      <4>2. ASSUME NEW u \in Tasks
            PROVE  /\ In(u, e2.turn) \/ In(u, e2.waiters) <=> Awaits(u, x)
                   /\ In(u, e2.waiters) \/ (In(u, e2.turn) /\ ~world.trio) => AwaitsTo(u, "wait")
        BY <1>4, <1>9, <2>2, <2>6, <2>7, <3>1
      <4> QED
        BY <2>2, <2>5, <2>6, <4>1, <4>2 DEF Line, Without
    <3>2. CASE x # on
      <4>1. events'[x] = events[x] /\ Line(x) /\ ~Awaits(t, x)
        BY <1>0, <2>3, <3>2 DEF Lines, Awaits
      <4> QED
        BY <2>5, <2>6, <4>1 DEF Line
    <3> QED
      BY <3>1, <3>2
  <2>9. Running'
    <3> SUFFICES ASSUME NEW u \in Tasks, todo[u] = <<>>, pc[u] \notin Suspended \cup {"next"}
                 PROVE  FALSE
      BY <2>5 DEF Running
    <3> QED
      BY <1>1, <1>2 DEF Lines, Running
  <2>10. TaskTypes' /\ Lines'
    BY <1>2, <2>3, <2>5, <2>8, <2>9 DEF TaskTypes, Lines
  <2>11. Parks(t)
    <3>1. ~e.set
      BY <1>14 DEF Blocks
    <3> QED
      BY <1>0, <1>14, <2>2, <2>3, <2>4, <2>5, <3>1 DEF Parks
  <2>12. \A x \in EventIds : \A a, b :
         a # t /\ Precedes(a, b, events[x].turn) => Precedes(a, b, events'[x].turn)
    BY <1>0, <2>2, <2>3 DEF Without
  <2> QED
    BY <1>0, <1>1, <1>8, <2>5, <2>10, <2>11, <2>12 DEF Acted
<1> QED
  BY <1>5, <1>11, <1>12, <1>13, <1>14

(* Opening a stream, or going on, while no event is involved.              *)
LEMMA OpenLines ==
    ASSUME TaskTypes, Lines, NEW t \in Tasks, todo[t] = <<>>, cpu \in {NoTask, t},
           UNCHANGED <<world, todo, events>>, cpu' = NoTask, pc' \in [Tasks -> Places],
           \A u \in Tasks : pc'[u] \in Suspended \/ (u # t /\ pc'[u] = pc[u])
    PROVE  TaskTypes' /\ Lines'
<1>1. /\ pc \in [Tasks -> Places] /\ cpu \in Tasks \cup {NoTask}
      /\ todo \in [Tasks -> Seq(Ops)] /\ events \in [EventIds -> Events(Tasks)]
      /\ NoTask \notin Tasks
  BY TaskNames DEF TaskTypes
<1>2. TaskTypes'
  BY <1>1 DEF TaskTypes
<1>3. ASSUME NEW x \in EventIds PROVE Line(x)'
  <2>1. Line(x)
    BY DEF Lines
  <2>2. \A u \in Tasks : (Awaits(u, x)' <=> Awaits(u, x)) /\ (AwaitsTo(u, "wait")' <=> AwaitsTo(u, "wait"))
    BY DEF Awaits, AwaitsTo
  <2>3. \A u \in Tasks : Awaits(u, x) => cpu # u /\ cpu' # u
    BY <1>1 DEF Awaits
  <2> QED
    BY <2>1, <2>2, <2>3 DEF Line
<1>4. Running'
  BY <1>1 DEF Lines, Running
<1> QED
  BY <1>2, <1>3, <1>4 DEF Lines

-----------------------------------------------------------------------------
(* What each step does.                                                    *)

(* A step that touches neither the buffers nor what is scheduled or sent.  *)
Quiet(t, place, ops) ==
    /\ Moved(t, place, ops)
    /\ UNCHANGED <<world, buffers, active, response, batch>>

AppGoes(s) ==
    \E place \in AppPlaces :
        /\ Quiet(s, place, <<>>)
        /\ UNCHANGED <<window, shrinks, resets, closed, leaving, touched>>
        /\ unflushed' \subseteq unflushed
        /\ \/ pc[s] = "pushed" /\ place = "app" /\ ~Present(s)
           \/ pc[s] = "app" /\ place = "ended" /\ ~Present(s)
           \/ pc[s] = "ended" /\ place = "popping"
           \/ pc[s] = "popping" /\ place = "closed" /\ ~Present(s)
           \/ pc[s] = "app" /\ place \in {"responding", "promising"}
           \/ pc[s] = "responding" /\ place = "app"
           \/ pc[s] \in {"closed", "parting"} /\ place \in {"parting", "over"}

ReaderGoes ==
    \E place \in ReaderPlaces, ops \in {<<>>, <<Set(HasData)>>} :
        /\ Quiet(Reader, place, ops)
        /\ \/ pc[Reader] = "popping" /\ place = "closing" /\ ops = <<>>
              /\ ~Present(Head(leaving)) /\ leaving' = Tail(leaving)
              /\ UNCHANGED <<window, unflushed, resets, closed, touched>>
           \/ pc[Reader] = "closing" /\ place = "popping" /\ ops = <<>> /\ leaving # <<>>
              /\ UNCHANGED <<window, unflushed, resets, closed, leaving, touched>>
           \/ pc[Reader] = "closing" /\ place \in {"over", "flush"} /\ ops = <<Set(HasData)>>
              /\ UNCHANGED <<window, unflushed, resets, closed, leaving, touched>>
           \/ pc[Reader] \in {"read", "handled", "flush", "flushing"}
              /\ place \in {"read", "handled", "flushing"} /\ ops = <<>>
              /\ unflushed' \subseteq unflushed
              /\ UNCHANGED <<window, resets, closed, leaving, touched>>

(* The peer changes its windows, resets streams, or is lost.               *)
Windows ==
    /\ Quiet(Reader, "update", <<>>) /\ pc[Reader] = "read"
    /\ UNCHANGED <<unflushed, resets, closed, leaving>>
    /\ \A s \in Streams : /\ FlowWindow(s)' > FlowWindow(s) => s \in touched'
                          /\ ~May("shrink") => FlowWindow(s)' >= FlowWindow(s)

Breaks ==
    /\ Quiet(Reader, "closing", <<>>) /\ pc[Reader] = "read"
    /\ UNCHANGED <<window, unflushed, touched>>
    /\ resets \subseteq resets' /\ (closed => closed')
    /\ closed' \/ \E s \in resets' : leaving' = <<s>>

SenderGoes ==
    \E place \in SenderPlaces, ops \in {<<>>, Sleep} :
        /\ Quiet(Sender, place, ops) /\ UNCHANGED <<window, readerVars>>
        /\ \/ pc[Sender] = "next" /\ place = "over" /\ ops = <<>> /\ unflushed' = unflushed
           \/ pc[Sender] = "next" /\ place = "next" /\ ops = Sleep /\ active = {}
                /\ unflushed' = unflushed
           \/ pc[Sender] = "sent" /\ place = "written" /\ ops = <<>> /\ unflushed' = {}
           \/ pc[Sender] = "sent" /\ place = "finish" /\ ops = <<>>
                /\ (~batch.flush \/ unflushed = {}) /\ unflushed' = unflushed
           \/ pc[Sender] \in {"send", "popped"} /\ place = "sent" /\ ops = <<>>
                /\ ~Present(batch.stream) /\ unflushed' = unflushed

Sends(s, n) ==
    /\ Moved(s, "pushed", <<Touch(IsEmpty(s))>>) /\ pc[s] = "app"
    /\ Present(s) /\ ~buffers[s].complete
    /\ \A r \in Streams :
         /\ buffers'[r].present = buffers[r].present
         /\ buffers'[r].complete = buffers[r].complete
         /\ buffers'[r].size = IF r = s THEN buffers[r].size + n ELSE buffers[r].size
         /\ response'[r].opened = response[r].opened
         /\ response'[r].abandoned = response[r].abandoned
         /\ response'[r].sent = response[r].sent
         /\ response'[r].ended = response[r].ended
         /\ response'[r].written = IF r = s THEN response[r].written + n ELSE response[r].written
    /\ UNCHANGED <<world, active, window, unflushed, readerVars, batch>>

PushOps(s) == <<Set(HasData)>> \o (IF Full(s) THEN Room(s) ELSE <<>>)

Schedules(s) ==
    /\ Moved(s, "app", PushOps(s))
    /\ pc[s] = "pushed" /\ Present(s) /\ active' = active \cup {s}
    /\ UNCHANGED <<world, buffers, window, unflushed, response, readerVars, batch>>

Completes(s) ==
    /\ Moved(s, "ended", <<Set(HasData), WaitFor(Finished(s))>>)
    /\ pc[s] = "app" /\ Present(s) /\ active' = active \cup {s}
    /\ \A r \in Streams :
         /\ buffers'[r].present = buffers[r].present
         /\ buffers'[r].complete = IF r = s THEN TRUE ELSE buffers[r].complete
         /\ buffers'[r].size = buffers[r].size
    /\ UNCHANGED <<world, window, unflushed, response, readerVars, batch>>

Abandons(s) ==
    /\ Moved(s, "ended", <<>>) /\ pc[s] = "app"
    /\ \A r \in Streams :
         /\ response'[r].opened = response[r].opened
         /\ response'[r].abandoned = IF r = s THEN TRUE ELSE response[r].abandoned
         /\ response'[r].sent = response[r].sent
         /\ response'[r].ended = response[r].ended
         /\ response'[r].written = response[r].written
    /\ UNCHANGED <<world, buffers, active, window, unflushed, readerVars, batch>>

(* Who closes the buffer of s, and why.                                    *)
Shuts(t, s, place) ==
    /\ Moved(t, place, CloseOps(s)) /\ Present(s)
    /\ active' = active \ {s}
    /\ \A r \in Streams :
         /\ buffers'[r].present = (r # s /\ buffers[r].present)
         /\ buffers'[r].complete = IF r = s THEN TRUE ELSE buffers[r].complete
         /\ buffers'[r].size = IF r = s THEN 0 ELSE buffers[r].size
    /\ \/ t = s /\ pc[s] = "popping" /\ place = "closed" /\ leaving' = leaving
       \/ t = Reader /\ pc[t] = "popping" /\ place = "closing" /\ leaving # <<>>
            /\ s = Head(leaving) /\ leaving' = Tail(leaving)
       \/ t = Sender /\ pc[t] = "send" /\ place = "sent" /\ s = batch.stream
            /\ s \in resets /\ leaving' = leaving
       \/ t = Sender /\ pc[t] = "popped" /\ place = "sent" /\ s = batch.stream
            /\ Refused(s) /\ leaving' = leaving
    /\ UNCHANGED <<world, window, unflushed, response, resets, closed, touched, batch>>

Opens(r) ==
    /\ ~response[r].opened /\ UNCHANGED <<todo, events>> /\ cpu' = NoTask
    /\ \E s \in Streams \cup {Reader} :
         /\ todo[s] = <<>> /\ cpu \in {NoTask, s} /\ s # r
         /\ \/ s = Reader /\ pc[s] = "read"
               /\ \A u \in Tasks : pc'[u] = IF u = r THEN "app"
                                             ELSE IF u = Reader THEN "handled" ELSE pc[u]
            \/ s \in Streams /\ pc[s] = "promising"
               /\ \A u \in Tasks : pc'[u] = IF u \in {r, s} THEN "app" ELSE pc[u]
    /\ \A s \in Streams :
         /\ buffers'[s].present = (s = r \/ buffers[s].present)
         /\ buffers'[s].complete = (s # r /\ buffers[s].complete)
         /\ buffers'[s].size = IF s = r THEN 0 ELSE buffers[s].size
         /\ response'[s].opened = (s = r \/ response[s].opened)
         /\ response'[s].abandoned = response[s].abandoned
         /\ response'[s].sent = response[s].sent
         /\ response'[s].ended = response[s].ended
         /\ response'[s].written = response[s].written
    /\ UNCHANGED <<world, active, window, unflushed, resets, closed, leaving, touched, batch>>

Updates ==
    /\ Moved(Reader, "flush", <<Set(HasData)>>) /\ pc[Reader] = "update"
    /\ active' = active \cup {s \in touched : Present(s)} /\ touched' = {}
    /\ UNCHANGED <<world, buffers, window, unflushed, response, resets, closed, leaving, batch>>

Picks(s) ==
    /\ Moved(Sender, "send", <<>>) /\ pc[Sender] \in {"next", "sent"} /\ s \in active
    /\ batch'.stream = s /\ batch'.data = batch.data /\ batch'.flush = batch.flush
    /\ batch'.finished = batch.finished
    /\ UNCHANGED <<world, dataVars, readerVars>>

FinishOps == [i \in DOMAIN batch.finished |-> Set(Finished(batch.finished[i]))]

Finishing ==
    /\ Moved(Sender, "next", FinishOps) /\ pc[Sender] \in {"written", "finish"}
    /\ batch' = NoBatch
    /\ UNCHANGED <<world, buffers, active, window, unflushed, response, readerVars>>

Pops(s, n) ==
    /\ Moved(Sender, "popped", PopSets(s, n, buffers[s].size - n)) /\ pc[Sender] = "send"
    /\ s = batch.stream /\ Present(s) /\ n = Length(s)
    /\ batch'.stream = s /\ batch'.data = n /\ batch'.flush = batch.flush
    /\ batch'.finished = batch.finished
    /\ \A r \in Streams :
         /\ buffers'[r].present = buffers[r].present
         /\ buffers'[r].complete = buffers[r].complete
         /\ buffers'[r].size = IF r = s THEN buffers[r].size - n ELSE buffers[r].size
    /\ UNCHANGED <<world, active, window, unflushed, response, readerVars>>

Ships(s) ==
    /\ Moved(Sender, "sent", <<>>) /\ pc[Sender] = "popped"
    /\ s = batch.stream /\ Present(s) /\ ~Refused(s)
    /\ active' = IF batch.data = 0 \/ Complete(s) THEN active \ {s} ELSE active
    /\ unflushed' = IF batch.data > 0 \/ Complete(s) THEN unflushed \cup {s} ELSE unflushed
    /\ batch'.stream = s /\ batch'.data = batch.data
    /\ batch'.flush = (batch.flush \/ batch.data > 0 \/ Complete(s))
    /\ batch'.finished = IF Complete(s) THEN Append(batch.finished, s) ELSE batch.finished
    /\ \A r \in Streams :
         /\ FlowWindow(r)' <= FlowWindow(r)
         /\ buffers'[r].present = (buffers[r].present /\ ~(r = s /\ Complete(s)))
         /\ buffers'[r].complete = buffers[r].complete
         /\ buffers'[r].size = buffers[r].size
         /\ response'[r].opened = response[r].opened
         /\ response'[r].abandoned = response[r].abandoned
         /\ response'[r].sent = IF r = s THEN response[r].sent + batch.data ELSE response[r].sent
         /\ response'[r].ended = IF r = s /\ Complete(s) THEN response[r].ended + 1
                                 ELSE response[r].ended
         /\ response'[r].written = response[r].written
    /\ UNCHANGED <<world, readerVars>>

Acts(t) == Acted(t) /\ UNCHANGED <<world, dataVars, readerVars, batch>>

AppSteps(s) ==
    \/ AppGoes(s) \/ (\E n \in Sizes : Sends(s, n)) \/ Schedules(s) \/ Completes(s)
    \/ Abandons(s) \/ Shuts(s, s, "closed") \/ \E r \in Streams : Opens(r)

ReaderSteps ==
    \/ ReaderGoes \/ Windows \/ Breaks \/ Updates \/ \E r \in Streams : Opens(r)
    \/ \E s \in Streams : Shuts(Reader, s, "closing")

SenderSteps ==
    \/ SenderGoes \/ Finishing
    \/ \E s \in Streams : Picks(s) \/ (\E n \in Nat : Pops(s, n)) \/ Ships(s) \/ Shuts(Sender, s, "sent")

Steps ==
    \/ \E t \in Tasks : Acts(t)
    \/ \E s \in Streams : AppSteps(s)
    \/ ReaderSteps \/ SenderSteps

(* Lists of awaits are sequences of awaits.                                *)
LEMMA OpTypes ==
    /\ \A e \in EventIds : Set(e) \in Ops /\ Clear(e) \in Ops /\ WaitFor(e) \in Ops /\ Touch(e) \in Ops
    /\ \A a \in Ops : <<a>> \in Seq(Ops) /\ <<a>> # <<>>
    /\ \A a, b \in Ops : <<a, b>> \in Seq(Ops) /\ <<a, b>> # <<>>
    /\ \A a, b, c \in Ops : <<a, b, c>> \in Seq(Ops) /\ <<a, b, c>> # <<>>
    /\ \A a, b, c, d \in Ops : <<a, b, c, d>> \in Seq(Ops) /\ <<a, b, c, d>> # <<>>
<1>1. \A e \in EventIds : Set(e) \in Ops /\ Clear(e) \in Ops /\ WaitFor(e) \in Ops /\ Touch(e) \in Ops
  BY DEF Ops, Set, Clear, WaitFor, Touch
<1> QED
  BY <1>1

(* Go, Await and CloseStream move the task that takes them.                *)
LEMMA GoMoves ==
    ASSUME Types, Lines, NEW t \in Tasks, NEW place \in Places, todo[t] = <<>>,
           cpu \in {NoTask, t}, Go(t, place), UNCHANGED world
    PROVE  TaskTypes' /\ Lines' /\ Moved(t, place, <<>>)
<1>1. TaskTypes /\ world.trio \in BOOLEAN
  BY DEF Types, DataTypes, WorldRecords
<1>2. Moves(t, place, <<>>)
  BY DEF Go, Moves
<1>3. <<>> \in Seq(Ops)
  BY EmptySeq
<1> QED
  BY <1>1, <1>2, <1>3, MoveLines

(* A task goes on to a place after some awaits.                            *)
LEMMA AwaitMoves ==
    ASSUME Types, Lines, NEW t \in Tasks, NEW place \in Places, todo[t] = <<>>,
           cpu \in {NoTask, t}, NEW ops \in Seq(Ops), ops # <<>>, Await(t, ops, place),
           UNCHANGED world
    PROVE  TaskTypes' /\ Lines' /\ Moved(t, place, ops)
<1>1. TaskTypes /\ world.trio \in BOOLEAN
  BY DEF Types, DataTypes, WorldRecords
<1>2. Moves(t, place, ops)
  BY DEF Await, Moves
<1> QED
  BY <1>1, <1>2, MoveLines

(* A task closes the buffer of a stream, unless it is gone.                *)
LEMMA CloseMoves ==
    ASSUME Types, Lines, NEW t \in Tasks, NEW s \in Streams, NEW place \in Places,
           todo[t] = <<>>, cpu \in {NoTask, t}, CloseStream(t, s, place), UNCHANGED world
    PROVE  /\ TaskTypes' /\ Lines'
           /\ buffers' \in [Streams -> Buffers] /\ active' \subseteq Streams
           /\ IF Present(s)
              THEN /\ Moved(t, place, CloseOps(s))
                   /\ active' = active \ {s}
                   /\ \A r \in Streams :
                        /\ buffers'[r].present = (r # s /\ buffers[r].present)
                        /\ buffers'[r].complete = IF r = s THEN TRUE ELSE buffers[r].complete
                        /\ buffers'[r].size = IF r = s THEN 0 ELSE buffers[r].size
              ELSE Moved(t, place, <<>>) /\ UNCHANGED <<buffers, active>>
<1>0. buffers \in [Streams -> Buffers] /\ active \subseteq Streams
  BY DEF Types, DataTypes
<1>1. CASE Present(s)
  <2>1. PICK gone : gone = [present |-> FALSE, size |-> 0, complete |-> TRUE]
    OBVIOUS
  <2>2. /\ buffers' = [buffers EXCEPT ![s] = gone]
        /\ active' = active \ {s}
        /\ Await(t, CloseOps(s), place)
    BY <1>1, <2>1 DEF CloseStream, Present, CloseOps
  <2>3. /\ gone \in Buffers /\ gone.present = FALSE /\ gone.size = 0 /\ gone.complete = TRUE
    BY <2>1 DEF Buffers
  <2>4. /\ buffers' \in [Streams -> Buffers]
        /\ \A r \in Streams : buffers'[r] = IF r = s THEN gone ELSE buffers[r]
    BY <1>0, <2>2, <2>3
  <2>5. CloseOps(s) \in Seq(Ops) /\ CloseOps(s) # <<>>
    BY EventNames, OpTypes DEF CloseOps
  <2>6. TaskTypes' /\ Lines' /\ Moved(t, place, CloseOps(s))
    BY <2>2, <2>5, AwaitMoves
  <2>7. \A r \in Streams :
          /\ buffers'[r].present = (r # s /\ buffers[r].present)
          /\ buffers'[r].complete = IF r = s THEN TRUE ELSE buffers[r].complete
          /\ buffers'[r].size = IF r = s THEN 0 ELSE buffers[r].size
    <3> SUFFICES ASSUME NEW r \in Streams
                 PROVE  /\ buffers'[r].present = (r # s /\ buffers[r].present)
                        /\ buffers'[r].complete = IF r = s THEN TRUE ELSE buffers[r].complete
                        /\ buffers'[r].size = IF r = s THEN 0 ELSE buffers[r].size
      OBVIOUS
    <3>1. buffers[r].present \in BOOLEAN
      BY <1>0 DEF Buffers
    <3>2. CASE r = s
      BY <2>3, <2>4, <3>2
    <3>3. CASE r # s
      BY <2>4, <3>1, <3>3
    <3> QED
      BY <3>2, <3>3
  <2> QED
    BY <1>0, <1>1, <2>2, <2>4, <2>6, <2>7
<1>2. CASE ~Present(s)
  <2>1. Go(t, place) /\ UNCHANGED <<buffers, active>>
    BY <1>2 DEF CloseStream, Present
  <2>2. TaskTypes' /\ Lines' /\ Moved(t, place, <<>>)
    BY <2>1, GoMoves
  <2> QED
    BY <1>0, <1>2, <2>1, <2>2
<1> QED
  BY <1>1, <1>2

(* The application's steps.                                                *)
LEMMA SendDoes ==
    ASSUME Types, Lines, NEW s \in Streams, Send(s)
    PROVE  Types' /\ Lines' /\ \E n \in Sizes : Sends(s, n)
<1>0. PICK n \in Sizes :
        /\ response[s].written + n <= world.bytes
        /\ buffers' = [buffers EXCEPT ![s].size = @ + n]
        /\ response' = [response EXCEPT ![s].written = @ + n]
  BY DEF Send
<1>1. n \in Nat /\ s \in Tasks
  BY H2SendAssumption, TaskNames
<1>2. PICK b, w : /\ b = [buffers[s] EXCEPT !.size = buffers[s].size + n]
                  /\ w = [response[s] EXCEPT !.written = response[s].written + n]
  OBVIOUS
<1>3. buffers[s] \in Buffers /\ response[s] \in Responses
      /\ buffers \in [Streams -> Buffers] /\ response \in [Streams -> Responses]
  BY DEF Types, DataTypes
<1>4. /\ b \in Buffers /\ b.present = buffers[s].present /\ b.complete = buffers[s].complete
      /\ b.size = buffers[s].size + n
  BY <1>1, <1>2, <1>3 DEF Buffers
<1>5. /\ w \in Responses /\ w.opened = response[s].opened /\ w.abandoned = response[s].abandoned
      /\ w.sent = response[s].sent /\ w.ended = response[s].ended
      /\ w.written = response[s].written + n
  BY <1>1, <1>2, <1>3 DEF Responses
<1>6. /\ buffers' \in [Streams -> Buffers]
      /\ \A r \in Streams : buffers'[r] = IF r = s THEN b ELSE buffers[r]
  BY <1>0, <1>2, <1>3, <1>4
<1>7. /\ response' \in [Streams -> Responses]
      /\ \A r \in Streams : response'[r] = IF r = s THEN w ELSE response[r]
  BY <1>0, <1>2, <1>3, <1>5
<1>8. /\ pc[s] = "app" /\ todo[s] = <<>> /\ cpu \in {NoTask, s}
      /\ Present(s) /\ ~buffers[s].complete
      /\ Await(s, <<Touch(IsEmpty(s))>>, "pushed")
      /\ UNCHANGED <<world, active, window, unflushed, readerVars, batch>>
  BY DEF Send, At, Present
<1>9. <<Touch(IsEmpty(s))>> \in Seq(Ops) /\ <<Touch(IsEmpty(s))>> # <<>> /\ "pushed" \in Places
  BY EventNames, OpTypes DEF Places
<1>10. TaskTypes' /\ Lines' /\ Moved(s, "pushed", <<Touch(IsEmpty(s))>>)
  BY <1>1, <1>8, <1>9, AwaitMoves
<1>11. DataTypes'
  BY <1>0, <1>5, <1>6, <1>7, <1>8 DEF Types, DataTypes, readerVars
<1>12. Sends(s, n)
  <2>1. \A r \in Streams :
          /\ buffers'[r].present = buffers[r].present
          /\ buffers'[r].complete = buffers[r].complete
          /\ buffers'[r].size = IF r = s THEN buffers[r].size + n ELSE buffers[r].size
    BY <1>4, <1>6
  <2>2. \A r \in Streams :
          /\ response'[r].opened = response[r].opened
          /\ response'[r].abandoned = response[r].abandoned
          /\ response'[r].sent = response[r].sent
          /\ response'[r].ended = response[r].ended
          /\ response'[r].written = IF r = s THEN response[r].written + n ELSE response[r].written
    BY <1>5, <1>7
  <2> QED
    BY <1>8, <1>10, <2>1, <2>2 DEF Sends
<1> QED
  BY <1>10, <1>11, <1>12 DEF Types

(* The rest of buffer().                                                   *)
LEMMA PushedDoes ==
    ASSUME Types, Lines, NEW s \in Streams, Pushed(s)
    PROVE  Types' /\ Lines' /\ (Schedules(s) \/ AppGoes(s))
<1>1. /\ pc[s] = "pushed" /\ todo[s] = <<>> /\ cpu \in {NoTask, s} /\ s \in Tasks
      /\ "app" \in Places /\ "app" \in AppPlaces
      /\ UNCHANGED <<world, buffers, window, unflushed, response, readerVars, batch>>
  BY TaskNames DEF Pushed, At, Places, Suspended, AppPlaces
<1>2. CASE Present(s)
  <2>1. PICK ops : ops = <<Set(HasData)>> \o (IF Full(s) THEN Room(s) ELSE <<>>)
    OBVIOUS
  <2>2. active' = active \cup {s} /\ Await(s, ops, "app")
    BY <1>2, <2>1 DEF Pushed, Present, Room
  <2>3. ops \in Seq(Ops) /\ ops # <<>>
    <3>1. <<Set(HasData)>> \in Seq(Ops) /\ Room(s) \in Seq(Ops) /\ <<>> \in Seq(Ops)
      BY EventNames, OpTypes, EmptySeq DEF Room
    <3>2. PICK more \in Seq(Ops) : ops = <<Set(HasData)>> \o more
      BY <2>1, <3>1
    <3>3. ops \in Seq(Ops) /\ Len(ops) = Len(<<Set(HasData)>>) + Len(more)
      BY <3>1, <3>2, ConcatProperties
    <3>4. Len(<<Set(HasData)>>) = 1 /\ Len(more) \in Nat
      BY <3>2
    <3> QED
      BY <3>3, <3>4
  <2>4. TaskTypes' /\ Lines' /\ Moved(s, "app", ops)
    BY <1>1, <2>2, <2>3, AwaitMoves
  <2>5. DataTypes'
    BY <1>1, <2>2 DEF Types, DataTypes, readerVars
  <2>6. Schedules(s)
    BY <1>1, <1>2, <2>1, <2>2, <2>4 DEF Schedules, PushOps
  <2> QED
    BY <2>4, <2>5, <2>6 DEF Types
<1>3. CASE ~Present(s)
  <2>1. Go(s, "app") /\ UNCHANGED active
    BY <1>3 DEF Pushed, Present
  <2>2. TaskTypes' /\ Lines' /\ Moved(s, "app", <<>>)
    BY <1>1, <2>1, GoMoves
  <2>3. DataTypes'
    BY <1>1, <2>1 DEF Types, DataTypes, readerVars
  <2>4. AppGoes(s)
    BY <1>1, <1>3, <2>1, <2>2 DEF AppGoes, Quiet, readerVars
  <2> QED
    BY <2>2, <2>3, <2>4 DEF Types
<1> QED
  BY <1>2, <1>3

(* end().                                                                  *)
LEMMA EndDoes ==
    ASSUME Types, Lines, NEW s \in Streams, End(s)
    PROVE  Types' /\ Lines' /\ (Completes(s) \/ AppGoes(s))
<1>1. /\ pc[s] = "app" /\ todo[s] = <<>> /\ cpu \in {NoTask, s} /\ s \in Tasks
      /\ "ended" \in Places /\ "ended" \in AppPlaces
      /\ UNCHANGED <<world, window, unflushed, response, readerVars, batch>>
  BY TaskNames DEF End, At, Places, AppPlaces
<1>2. CASE Present(s)
  <2>1. PICK ops, b : /\ ops = <<Set(HasData), WaitFor(Finished(s))>>
                      /\ b = [buffers[s] EXCEPT !.complete = TRUE]
    OBVIOUS
  <2>2. /\ active' = active \cup {s} /\ Await(s, ops, "ended")
        /\ buffers' = [buffers EXCEPT ![s].complete = TRUE]
    BY <1>2, <2>1 DEF End, Present
  <2>3. ops \in Seq(Ops) /\ ops # <<>>
    BY <2>1, EventNames, OpTypes
  <2>4. TaskTypes' /\ Lines' /\ Moved(s, "ended", ops)
    BY <1>1, <2>2, <2>3, AwaitMoves
  <2>5. buffers[s] \in Buffers /\ buffers \in [Streams -> Buffers]
    BY DEF Types, DataTypes
  <2>6. b \in Buffers /\ b.complete = TRUE /\ b.present = buffers[s].present /\ b.size = buffers[s].size
    BY <2>1, <2>5 DEF Buffers
  <2>7. /\ buffers' \in [Streams -> Buffers]
        /\ \A r \in Streams : buffers'[r] = IF r = s THEN b ELSE buffers[r]
    BY <2>1, <2>2, <2>5, <2>6
  <2>8. DataTypes'
    BY <1>1, <2>2, <2>7 DEF Types, DataTypes, readerVars
  <2>9. \A r \in Streams :
         /\ buffers'[r].present = buffers[r].present
         /\ buffers'[r].complete = IF r = s THEN TRUE ELSE buffers[r].complete
         /\ buffers'[r].size = buffers[r].size
    BY <2>6, <2>7
  <2>10. Completes(s)
    BY <1>1, <1>2, <2>1, <2>2, <2>4, <2>9 DEF Completes
  <2> QED
    BY <2>4, <2>8, <2>10 DEF Types
<1>3. CASE ~Present(s)
  <2>1. Go(s, "ended") /\ UNCHANGED <<buffers, active>>
    BY <1>3 DEF End, Present
  <2>2. TaskTypes' /\ Lines' /\ Moved(s, "ended", <<>>)
    BY <1>1, <2>1, GoMoves
  <2>3. DataTypes'
    BY <1>1, <2>1 DEF Types, DataTypes, readerVars
  <2>4. AppGoes(s)
    BY <1>1, <1>3, <2>1, <2>2 DEF AppGoes, Quiet, readerVars
  <2> QED
    BY <2>2, <2>3, <2>4 DEF Types
<1> QED
  BY <1>2, <1>3

(* The application stops early.                                            *)
LEMMA AbandonDoes ==
    ASSUME Types, Lines, NEW s \in Streams, Abandon(s)
    PROVE  Types' /\ Lines' /\ Abandons(s)
<1>1. /\ pc[s] = "app" /\ todo[s] = <<>> /\ cpu \in {NoTask, s} /\ s \in Tasks
      /\ "ended" \in Places
      /\ UNCHANGED <<world, buffers, active, window, unflushed, readerVars, batch>>
      /\ Go(s, "ended") /\ response' = [response EXCEPT ![s].abandoned = TRUE]
  BY TaskNames DEF Abandon, At, Places
<1>2. TaskTypes' /\ Lines' /\ Moved(s, "ended", <<>>)
  BY <1>1, GoMoves
<1>3. PICK w : w = [response[s] EXCEPT !.abandoned = TRUE]
  OBVIOUS
<1>4. response[s] \in Responses /\ response \in [Streams -> Responses]
  BY DEF Types, DataTypes
<1>5. /\ w \in Responses /\ w.opened = response[s].opened /\ w.abandoned = TRUE
      /\ w.sent = response[s].sent /\ w.ended = response[s].ended
      /\ w.written = response[s].written
  BY <1>3, <1>4 DEF Responses
<1>6. /\ response' \in [Streams -> Responses]
      /\ \A r \in Streams : response'[r] = IF r = s THEN w ELSE response[r]
  BY <1>1, <1>3, <1>4, <1>5
<1>7. DataTypes'
  BY <1>1, <1>5, <1>6 DEF Types, DataTypes, readerVars
<1>8. Abandons(s)
  BY <1>1, <1>2, <1>5, <1>6 DEF Abandons
<1> QED
  BY <1>2, <1>7, <1>8 DEF Types

(* The streams that remain are streams.                                    *)
LEMMA ForgetTypes ==
    ASSUME known \in Seq(Streams), NEW s, Forget(s)
    PROVE  known' \in Seq(Streams)
<1>1. CASE \E i \in DOMAIN known : known[i] = s
  <2>1. PICK i \in DOMAIN known :
          known' = SubSeq(known, 1, i - 1) \o SubSeq(known, i + 1, Len(known))
    BY <1>1 DEF Forget
  <2>2. /\ i \in Int /\ 1 \in Int /\ i - 1 \in Int /\ i + 1 \in Int /\ Len(known) \in Int
        /\ \A j \in 1..(i-1) : known[j] \in Streams
        /\ \A j \in (i+1)..Len(known) : known[j] \in Streams
    OBVIOUS
  <2>3. SubSeq(known, 1, i - 1) \in Seq(Streams)
    BY <2>2, SubSeqProperties
  <2>4. SubSeq(known, i + 1, Len(known)) \in Seq(Streams)
    BY <2>2, SubSeqProperties
  <2> QED
    BY <2>1, <2>3, <2>4, ConcatProperties
<1>2. CASE ~\E i \in DOMAIN known : known[i] = s
  BY <1>2 DEF Forget
<1> QED
  BY <1>1, <1>2

(* _close_stream, for the application.                                     *)
LEMMA PopStreamDoes ==
    ASSUME Types, Lines, NEW s \in Streams, PopStream(s)
    PROVE  Types' /\ Lines' /\ AppGoes(s)
<1>1. /\ pc[s] = "ended" /\ todo[s] = <<>> /\ cpu \in {NoTask, s} /\ s \in Tasks
      /\ "popping" \in Places /\ "popping" \in AppPlaces
      /\ UNCHANGED <<world, dataVars, shrinks, resets, closed, leaving, touched, batch>>
      /\ Go(s, "popping") /\ Forget(s)
  BY TaskNames DEF PopStream, At, Places, Suspended, AppPlaces
<1>2. TaskTypes' /\ Lines' /\ Moved(s, "popping", <<>>)
  BY <1>1, GoMoves
<1>3. known' \in Seq(Streams)
  BY <1>1, ForgetTypes DEF Types, DataTypes
<1>4. DataTypes'
  BY <1>1, <1>3 DEF Types, DataTypes, dataVars
<1>5. AppGoes(s)
  BY <1>1, <1>2 DEF AppGoes, Quiet, dataVars
<1> QED
  BY <1>2, <1>4, <1>5 DEF Types

(* A task that flushes takes what is there or leaves it, and goes on.      *)
LEMMA FlushMoves ==
    ASSUME Types, Lines, NEW t \in Tasks, NEW place \in Places, todo[t] = <<>>,
           cpu \in {NoTask, t}, Go(t, place), FlushKeeps, unflushed' \in {{}, unflushed}
    PROVE  /\ Types' /\ Lines' /\ Quiet(t, place, <<>>) /\ unflushed' \subseteq unflushed
           /\ UNCHANGED <<window, shrinks, resets, closed, leaving, touched>>
<1>1. UNCHANGED <<world, buffers, active, window, response, known, shrinks, resets, closed,
                  leaving, touched, batch>>
  BY DEF FlushKeeps, readerVars
<1>2. TaskTypes' /\ Lines' /\ Moved(t, place, <<>>)
  BY <1>1, GoMoves
<1>3. DataTypes'
  BY <1>1 DEF Types, DataTypes
<1> QED
  BY <1>1, <1>2, <1>3 DEF Types, Quiet

(* The flushes of an application.                                          *)
LEMMA AppFlushes ==
    ASSUME Types, Lines, NEW s \in Streams,
           Respond(s) \/ Responded(s) \/ Promise(s) \/ Depart(s) \/ Departed(s)
    PROVE  Types' /\ Lines' /\ AppGoes(s)
<1>1. /\ s \in Tasks /\ AppPlaces \subseteq Places
      /\ {"responding", "app", "promising", "parting", "over"} \subseteq AppPlaces
  BY TaskNames DEF AppPlaces, Places, Suspended
<1>2. PICK place \in {"responding", "app", "promising", "parting", "over"} :
         /\ todo[s] = <<>> /\ cpu \in {NoTask, s} /\ Go(s, place) /\ FlushKeeps
         /\ unflushed' \in {{}, unflushed}
         /\ \/ pc[s] = "app" /\ place \in {"responding", "promising"}
            \/ pc[s] = "responding" /\ place = "app"
            \/ pc[s] \in {"closed", "parting"} /\ place \in {"parting", "over"}
  <2>1. CASE Respond(s)
    BY <2>1 DEF Respond, At, Take
  <2>2. CASE Responded(s)
    BY <2>2 DEF Responded, At, HandOver
  <2>3. CASE Promise(s)
    BY <2>3 DEF Promise, At, Take
  <2>4. CASE Depart(s)
    BY <2>4 DEF Depart, At, Take
  <2>5. CASE Departed(s)
    BY <2>5 DEF Departed, At, HandOver
  <2> QED
    BY <2>1, <2>2, <2>3, <2>4, <2>5
<1>3. /\ Types' /\ Lines' /\ Quiet(s, place, <<>>) /\ unflushed' \subseteq unflushed
      /\ UNCHANGED <<window, shrinks, resets, closed, leaving, touched>>
  BY <1>1, <1>2, FlushMoves
<1> QED
  BY <1>1, <1>2, <1>3 DEF AppGoes

(* The application closes its stream.                                      *)
LEMMA AppPoppedDoes ==
    ASSUME Types, Lines, NEW s \in Streams, AppPopped(s)
    PROVE  Types' /\ Lines' /\ (AppGoes(s) \/ Shuts(s, s, "closed"))
<1>1. /\ pc[s] = "popping" /\ todo[s] = <<>> /\ cpu \in {NoTask, s} /\ s \in Tasks
      /\ "closed" \in Places /\ "closed" \in AppPlaces
      /\ UNCHANGED <<world, window, unflushed, response, readerVars, batch>>
      /\ CloseStream(s, s, "closed")
  BY TaskNames DEF AppPopped, At, Places, Suspended, AppPlaces
<1>2. /\ TaskTypes' /\ Lines'
      /\ buffers' \in [Streams -> Buffers] /\ active' \subseteq Streams
      /\ IF Present(s)
         THEN /\ Moved(s, "closed", CloseOps(s))
              /\ active' = active \ {s}
              /\ \A r \in Streams :
                   /\ buffers'[r].present = (r # s /\ buffers[r].present)
                   /\ buffers'[r].complete = IF r = s THEN TRUE ELSE buffers[r].complete
                   /\ buffers'[r].size = IF r = s THEN 0 ELSE buffers[r].size
         ELSE Moved(s, "closed", <<>>) /\ UNCHANGED <<buffers, active>>
  BY <1>1, CloseMoves
<1>3. DataTypes'
  BY <1>1, <1>2 DEF Types, DataTypes, readerVars
<1>4. CASE Present(s)
  BY <1>1, <1>2, <1>3, <1>4 DEF Shuts, Types, readerVars
<1>5. CASE ~Present(s)
  BY <1>1, <1>2, <1>3, <1>5 DEF AppGoes, Quiet, Types, readerVars
<1> QED
  BY <1>4, <1>5

(* _create_stream.                                                         *)
LEMMA OpenDoes ==
    ASSUME Types, NEW r \in Streams, Open(r)
    PROVE  /\ DataTypes' /\ ~response[r].opened
           /\ \A s \in Streams :
                /\ buffers'[s].present = (s = r \/ buffers[s].present)
                /\ buffers'[s].complete = (s # r /\ buffers[s].complete)
                /\ buffers'[s].size = IF s = r THEN 0 ELSE buffers[s].size
                /\ response'[s].opened = (s = r \/ response[s].opened)
                /\ response'[s].abandoned = response[s].abandoned
                /\ response'[s].sent = response[s].sent
                /\ response'[s].ended = response[s].ended
                /\ response'[s].written = response[s].written
           /\ UNCHANGED <<world, active, window, unflushed, resets, closed, leaving, touched, batch>>
<1>1. /\ ~response[r].opened
      /\ known' = Append(known, r)
      /\ buffers' = [buffers EXCEPT ![r] = NewBuffer]
      /\ response' = [response EXCEPT ![r].opened = TRUE]
      /\ UNCHANGED <<world, active, window, unflushed, shrinks, resets, closed,
                     leaving, touched, batch>>
  BY DEF Open
<1>2. PICK w, b : w = [response[r] EXCEPT !.opened = TRUE] /\ b = NewBuffer
  OBVIOUS
<1>3. /\ buffers \in [Streams -> Buffers] /\ response \in [Streams -> Responses]
      /\ response[r] \in Responses /\ known \in Seq(Streams)
  BY DEF Types, DataTypes
<1>4. /\ w \in Responses /\ w.opened = TRUE /\ w.abandoned = response[r].abandoned
      /\ w.sent = response[r].sent /\ w.ended = response[r].ended
      /\ w.written = response[r].written
  BY <1>2, <1>3 DEF Responses
<1>5. b \in Buffers /\ b.present = TRUE /\ b.complete = FALSE /\ b.size = 0
  BY <1>2 DEF Buffers, NewBuffer
<1>6. /\ buffers' \in [Streams -> Buffers]
      /\ \A s \in Streams : buffers'[s] = IF s = r THEN b ELSE buffers[s]
  BY <1>1, <1>2, <1>3, <1>5
<1>7. /\ response' \in [Streams -> Responses]
      /\ \A s \in Streams : response'[s] = IF s = r THEN w ELSE response[s]
  BY <1>1, <1>2, <1>3, <1>4
<1>8. known' \in Seq(Streams)
  BY <1>1, <1>3, AppendProperties
<1>9. DataTypes'
  BY <1>1, <1>4, <1>6, <1>7, <1>8 DEF Types, DataTypes
<1>10. ASSUME NEW s \in Streams
       PROVE  /\ buffers'[s].present = (s = r \/ buffers[s].present)
              /\ buffers'[s].complete = (s # r /\ buffers[s].complete)
              /\ buffers'[s].size = IF s = r THEN 0 ELSE buffers[s].size
  <2>1. buffers[s].present \in BOOLEAN /\ buffers[s].complete \in BOOLEAN
    BY <1>3 DEF Buffers
  <2>2. CASE s = r
    BY <1>5, <1>6, <2>2
  <2>3. CASE s # r
    BY <1>6, <2>1, <2>3
  <2> QED
    BY <2>2, <2>3
<1>11. ASSUME NEW s \in Streams
       PROVE  /\ response'[s].opened = (s = r \/ response[s].opened)
              /\ response'[s].abandoned = response[s].abandoned
              /\ response'[s].sent = response[s].sent
              /\ response'[s].ended = response[s].ended
              /\ response'[s].written = response[s].written
  <2>1. response[s].opened \in BOOLEAN
    BY <1>3 DEF Responses
  <2>2. CASE s = r
    BY <1>4, <1>7, <2>2
  <2>3. CASE s # r
    BY <1>7, <2>1, <2>3
  <2> QED
    BY <2>2, <2>3
<1> QED
  BY <1>1, <1>9, <1>10, <1>11

(* A promised stream is created.                                           *)
LEMMA PromisedDoes ==
    ASSUME Types, Lines, NEW s \in Streams, Promised(s)
    PROVE  Types' /\ Lines' /\ \E r \in Streams : Opens(r)
<1>1. PICK r \in Streams \ {s} : Open(r) /\ pc' = [pc EXCEPT ![s] = "app", ![r] = "app"]
  BY DEF Promised
<1>2. /\ pc[s] = "promising" /\ todo[s] = <<>> /\ cpu \in {NoTask, s}
      /\ s \in Tasks /\ r \in Tasks /\ r # s
      /\ cpu' = NoTask /\ UNCHANGED <<todo, events>>
  BY <1>1, TaskNames DEF Promised, At
<1>3. /\ pc' \in [Tasks -> Places]
      /\ \A u \in Tasks : pc'[u] = IF u \in {r, s} THEN "app" ELSE pc[u]
  <2>1. pc \in [Tasks -> Places] /\ "app" \in Places
    BY DEF Types, TaskTypes, Places, Suspended
  <2> QED
    BY <1>1, <1>2, <2>1
<1>4. /\ DataTypes' /\ ~response[r].opened
      /\ \A q \in Streams :
           /\ buffers'[q].present = (q = r \/ buffers[q].present)
           /\ buffers'[q].complete = (q # r /\ buffers[q].complete)
           /\ buffers'[q].size = IF q = r THEN 0 ELSE buffers[q].size
           /\ response'[q].opened = (q = r \/ response[q].opened)
           /\ response'[q].abandoned = response[q].abandoned
           /\ response'[q].sent = response[q].sent
           /\ response'[q].ended = response[q].ended
           /\ response'[q].written = response[q].written
      /\ UNCHANGED <<world, active, window, unflushed, resets, closed, leaving, touched, batch>>
  BY <1>1, OpenDoes
<1>5. TaskTypes' /\ Lines'
  <2>1. \A u \in Tasks : pc'[u] \in Suspended \/ (u # s /\ pc'[u] = pc[u])
    BY <1>3 DEF Suspended
  <2> QED
    BY <1>2, <1>3, <1>4, <2>1, OpenLines DEF Types
<1>6. Opens(r)
  BY <1>2, <1>3, <1>4 DEF Opens
<1> QED
  BY <1>4, <1>5, <1>6 DEF Types

(* A request opens a stream.                                               *)
LEMMA RequestReceivedDoes ==
    ASSUME Types, Lines, RequestReceived
    PROVE  Types' /\ Lines' /\ \E r \in Streams : Opens(r)
<1>1. PICK r \in Streams : Open(r) /\ pc' = [pc EXCEPT ![r] = "app", ![Reader] = "handled"]
  BY DEF RequestReceived
<1>2. /\ pc[Reader] = "read" /\ todo[Reader] = <<>> /\ cpu \in {NoTask, Reader}
      /\ Reader \in Tasks /\ r \in Tasks /\ r # Reader
      /\ cpu' = NoTask /\ UNCHANGED <<todo, events>>
  BY <1>1, TaskNames DEF RequestReceived, At
<1>3. /\ pc' \in [Tasks -> Places]
      /\ \A u \in Tasks : pc'[u] = IF u = r THEN "app"
                                    ELSE IF u = Reader THEN "handled" ELSE pc[u]
  <2>1. pc \in [Tasks -> Places] /\ {"app", "handled"} \subseteq Places
    BY DEF Types, TaskTypes, Places, Suspended
  <2> QED
    BY <1>1, <1>2, <2>1
<1>4. /\ DataTypes' /\ ~response[r].opened
      /\ \A q \in Streams :
           /\ buffers'[q].present = (q = r \/ buffers[q].present)
           /\ buffers'[q].complete = (q # r /\ buffers[q].complete)
           /\ buffers'[q].size = IF q = r THEN 0 ELSE buffers[q].size
           /\ response'[q].opened = (q = r \/ response[q].opened)
           /\ response'[q].abandoned = response[q].abandoned
           /\ response'[q].sent = response[q].sent
           /\ response'[q].ended = response[q].ended
           /\ response'[q].written = response[q].written
      /\ UNCHANGED <<world, active, window, unflushed, resets, closed, leaving, touched, batch>>
  BY <1>1, OpenDoes
<1>5. TaskTypes' /\ Lines'
  <2>1. \A u \in Tasks : pc'[u] \in Suspended \/ (u # Reader /\ pc'[u] = pc[u])
    BY <1>2, <1>3 DEF Suspended
  <2> QED
    BY <1>2, <1>3, <1>4, <2>1, OpenLines DEF Types
<1>6. Opens(r)
  BY <1>2, <1>3, <1>4 DEF Opens
<1> QED
  BY <1>4, <1>5, <1>6 DEF Types

(* The reader's steps.                                                     *)
LEMMA WindowedDoes ==
    ASSUME Types, Lines, pc[Reader] = "read", todo[Reader] = <<>>, cpu \in {NoTask, Reader},
           NEW streams \in SUBSET Streams, Windowed(streams),
           window' \in [all : Nat, of : [Streams -> Int]], shrinks' \in 0..MaxShrinks,
           \A s \in Streams : /\ FlowWindow(s)' > FlowWindow(s) => s \in streams
                              /\ ~May("shrink") => FlowWindow(s)' >= FlowWindow(s)
    PROVE  Types' /\ Lines' /\ Windows
<1>1. /\ touched' = streams /\ Go(Reader, "update")
      /\ UNCHANGED <<known, resets, closed, leaving>>
      /\ UNCHANGED <<world, buffers, active, unflushed, response, batch>>
      /\ Reader \in Tasks /\ "update" \in Places
  BY TaskNames DEF Windowed, ReaderKeeps, Places, Suspended
<1>2. TaskTypes' /\ Lines' /\ Moved(Reader, "update", <<>>)
  BY <1>1, GoMoves
<1>3. DataTypes'
  BY <1>1 DEF Types, DataTypes
<1>4. Windows
  BY <1>1, <1>2 DEF Windows, Quiet
<1> QED
  BY <1>2, <1>3, <1>4 DEF Types

(* A window update of a stream.                                            *)
LEMMA GrantDoes ==
    ASSUME Types, Lines, NEW s \in Streams, Grant(s)
    PROVE  Types' /\ Lines' /\ Windows
<1>1. /\ pc[Reader] = "read" /\ todo[Reader] = <<>> /\ cpu \in {NoTask, Reader}
      /\ window' = [window EXCEPT !.of[s] = @ + 1]
      /\ shrinks' = shrinks /\ Windowed({s})
  BY DEF Grant, At
<1>2. window \in [all : Nat, of : [Streams -> Int]] /\ shrinks \in 0..MaxShrinks
  BY DEF Types, DataTypes
<1>3. PICK f : f = [window.of EXCEPT ![s] = window.of[s] + 1]
  OBVIOUS
<1>4. f \in [Streams -> Int] /\ \A r \in Streams : f[r] = IF r = s THEN window.of[r] + 1 ELSE window.of[r]
  BY <1>2, <1>3
<1>5. window' = [window EXCEPT !.of = f]
  BY <1>1, <1>3
<1>6. /\ window' \in [all : Nat, of : [Streams -> Int]]
      /\ window'.all = window.all /\ window'.of = f
  BY <1>2, <1>4, <1>5
<1>7. ASSUME NEW r \in Streams
      PROVE  /\ FlowWindow(r)' > FlowWindow(r) => r \in {s}
             /\ FlowWindow(r)' >= FlowWindow(r)
  <2>1. window.all \in Int /\ window.of[r] \in Int /\ window'.of[r] \in Int
        /\ window'.of[r] >= window.of[r] /\ (r # s => window'.of[r] = window.of[r])
    BY <1>2, <1>4, <1>6
  <2> QED
    BY <1>6, <2>1 DEF FlowWindow, Least
<1> QED
  BY <1>1, <1>2, <1>6, <1>7, WindowedDoes

(* A window update of the connection.                                      *)
LEMMA GrantAllDoes ==
    ASSUME Types, Lines, GrantAll
    PROVE  Types' /\ Lines' /\ Windows
<1>1. /\ pc[Reader] = "read" /\ todo[Reader] = <<>> /\ cpu \in {NoTask, Reader}
      /\ window' = [window EXCEPT !.all = @ + 1]
      /\ shrinks' = shrinks /\ Windowed(Streams)
  BY DEF GrantAll, At
<1>2. window \in [all : Nat, of : [Streams -> Int]] /\ shrinks \in 0..MaxShrinks
  BY DEF Types, DataTypes
<1>3. /\ window' \in [all : Nat, of : [Streams -> Int]]
      /\ window'.all = window.all + 1 /\ window'.of = window.of
  BY <1>1, <1>2
<1>4. ASSUME NEW r \in Streams PROVE FlowWindow(r)' >= FlowWindow(r)
  <2>1. window.all \in Int /\ window.of[r] \in Int
    BY <1>2
  <2> QED
    BY <1>3, <2>1 DEF FlowWindow, Least
<1> QED
  BY <1>1, <1>2, <1>3, <1>4, WindowedDoes

(* The peer lowers its initial window.                                     *)
LEMMA ShrinkDoes ==
    ASSUME Types, Lines, Shrink
    PROVE  Types' /\ Lines' /\ Windows
<1>1. /\ pc[Reader] = "read" /\ todo[Reader] = <<>> /\ cpu \in {NoTask, Reader}
      /\ May("shrink") /\ shrinks < MaxShrinks /\ shrinks' = shrinks + 1
      /\ window' = [window EXCEPT !.of = [s \in Streams |-> window.of[s] - 1]]
      /\ Windowed(Streams)
  BY DEF Shrink, At
<1>2. window \in [all : Nat, of : [Streams -> Int]] /\ shrinks \in 0..MaxShrinks
  BY DEF Types, DataTypes
<1>3. PICK f : f = [s \in Streams |-> window.of[s] - 1]
  OBVIOUS
<1>4. f \in [Streams -> Int]
  BY <1>2, <1>3
<1>5. window' \in [all : Nat, of : [Streams -> Int]]
  BY <1>1, <1>2, <1>3, <1>4
<1>6. shrinks' \in 0..MaxShrinks
  BY <1>1, <1>2, H2SendAssumption
<1> QED
  BY <1>1, <1>5, <1>6, WindowedDoes

(* window_updated.                                                         *)
LEMMA UpdateDoes ==
    ASSUME Types, Lines, Update
    PROVE  Types' /\ Lines' /\ Updates
<1>1. /\ pc[Reader] = "update" /\ todo[Reader] = <<>> /\ cpu \in {NoTask, Reader}
      /\ Reader \in Tasks /\ "flush" \in Places
      /\ active' = active \cup {s \in touched : Present(s)} /\ touched' = {}
      /\ Await(Reader, <<Set(HasData)>>, "flush")
      /\ UNCHANGED <<world, buffers, window, unflushed, response, known, shrinks,
                     resets, closed, leaving, batch>>
  BY TaskNames DEF Update, At, Present, Places
<1>2. <<Set(HasData)>> \in Seq(Ops) /\ <<Set(HasData)>> # <<>>
  BY EventNames, OpTypes
<1>3. TaskTypes' /\ Lines' /\ Moved(Reader, "flush", <<Set(HasData)>>)
  BY <1>1, <1>2, AwaitMoves
<1>4. DataTypes'
  BY <1>1 DEF Types, DataTypes
<1>5. Updates
  BY <1>1, <1>3 DEF Updates
<1> QED
  BY <1>3, <1>4, <1>5 DEF Types

(* The peer resets a stream.                                               *)
LEMMA StreamResetDoes ==
    ASSUME Types, Lines, NEW s \in Streams, StreamReset(s)
    PROVE  Types' /\ Lines' /\ Breaks
<1>1. /\ pc[Reader] = "read" /\ todo[Reader] = <<>> /\ cpu \in {NoTask, Reader}
      /\ Reader \in Tasks /\ "closing" \in Places
      /\ resets' = resets \cup {s} /\ leaving' = <<s>> /\ Go(Reader, "closing")
      /\ UNCHANGED <<known, shrinks, closed, touched, window>>
      /\ UNCHANGED <<world, buffers, active, unflushed, response, batch>>
  BY TaskNames DEF StreamReset, At, ReaderKeeps, Places
<1>2. TaskTypes' /\ Lines' /\ Moved(Reader, "closing", <<>>)
  BY <1>1, GoMoves
<1>3. DataTypes'
  BY <1>1 DEF Types, DataTypes
<1>4. Breaks
  BY <1>1, <1>2 DEF Breaks, Quiet
<1> QED
  BY <1>2, <1>3, <1>4 DEF Types

(* The connection is lost.                                                 *)
LEMMA LostDoes ==
    ASSUME Types, Lines, Lost
    PROVE  Types' /\ Lines' /\ Breaks
<1>1. /\ pc[Reader] = "read" /\ todo[Reader] = <<>> /\ cpu \in {NoTask, Reader}
      /\ Reader \in Tasks /\ "closing" \in Places
      /\ closed' = TRUE /\ leaving' = known /\ Go(Reader, "closing")
      /\ UNCHANGED <<known, shrinks, resets, touched, window>>
      /\ UNCHANGED <<world, buffers, active, unflushed, response, batch>>
  BY TaskNames DEF Lost, At, ReaderKeeps, Places
<1>2. TaskTypes' /\ Lines' /\ Moved(Reader, "closing", <<>>)
  BY <1>1, GoMoves
<1>3. DataTypes'
  BY <1>1 DEF Types, DataTypes
<1>4. Breaks
  BY <1>1, <1>2 DEF Breaks, Quiet
<1> QED
  BY <1>2, <1>3, <1>4 DEF Types

(* The reader comes to the next stream to close.                           *)
LEMMA ClosingDoes ==
    ASSUME Types, Lines, Closing
    PROVE  Types' /\ Lines' /\ ReaderGoes
<1>1. /\ pc[Reader] = "closing" /\ todo[Reader] = <<>> /\ cpu \in {NoTask, Reader}
      /\ Reader \in Tasks /\ "popping" \in Places /\ "popping" \in ReaderPlaces
      /\ leaving # <<>> /\ Forget(Head(leaving)) /\ Go(Reader, "popping")
      /\ UNCHANGED <<window, shrinks, resets, closed, leaving, touched>>
      /\ UNCHANGED <<world, buffers, active, unflushed, response, batch>>
  BY TaskNames DEF Closing, At, ReaderKeeps, Places, Suspended, ReaderPlaces
<1>2. TaskTypes' /\ Lines' /\ Moved(Reader, "popping", <<>>)
  BY <1>1, GoMoves
<1>3. known' \in Seq(Streams)
  BY <1>1, ForgetTypes DEF Types, DataTypes
<1>4. DataTypes'
  BY <1>1, <1>3 DEF Types, DataTypes
<1>5. ReaderGoes
  BY <1>1, <1>2 DEF ReaderGoes, Quiet
<1> QED
  BY <1>2, <1>4, <1>5 DEF Types

(* The reader closes a stream.                                             *)
LEMMA ReaderPoppedDoes ==
    ASSUME Types, Plans, Lines, ReaderPopped
    PROVE  Types' /\ Lines' /\ (ReaderGoes \/ \E s \in Streams : Shuts(Reader, s, "closing"))
<1>1. /\ pc[Reader] = "popping" /\ todo[Reader] = <<>> /\ cpu \in {NoTask, Reader}
      /\ Reader \in Tasks /\ "closing" \in Places /\ "closing" \in ReaderPlaces
      /\ CloseStream(Reader, Head(leaving), "closing") /\ leaving' = Tail(leaving)
      /\ UNCHANGED <<world, window, unflushed, response, known, shrinks, resets,
                     closed, touched, batch>>
  BY TaskNames DEF ReaderPopped, At, Places, ReaderPlaces
<1>2. leaving # <<>> /\ leaving \in Seq(Streams)
  BY <1>1 DEF Plans, ReaderPlanned, SenderPlanned, Types, DataTypes
<1>3. PICK s : s = Head(leaving)
  OBVIOUS
<1>4. s \in Streams /\ Tail(leaving) \in Seq(Streams)
  BY <1>2, <1>3, HeadTailProperties
<1>5. /\ TaskTypes' /\ Lines'
      /\ buffers' \in [Streams -> Buffers] /\ active' \subseteq Streams
      /\ IF Present(s)
         THEN /\ Moved(Reader, "closing", CloseOps(s))
              /\ active' = active \ {s}
              /\ \A r \in Streams :
                   /\ buffers'[r].present = (r # s /\ buffers[r].present)
                   /\ buffers'[r].complete = IF r = s THEN TRUE ELSE buffers[r].complete
                   /\ buffers'[r].size = IF r = s THEN 0 ELSE buffers[r].size
         ELSE Moved(Reader, "closing", <<>>) /\ UNCHANGED <<buffers, active>>
  BY <1>1, <1>3, <1>4, CloseMoves
<1>6. DataTypes'
  BY <1>1, <1>4, <1>5 DEF Types, DataTypes
<1>7. CASE Present(s)
  <2>1. Shuts(Reader, s, "closing")
    BY <1>1, <1>2, <1>3, <1>5, <1>7 DEF Shuts
  <2> QED
    BY <1>4, <1>5, <1>6, <2>1 DEF Types
<1>8. CASE ~Present(s)
  <2>1. ReaderGoes
    BY <1>1, <1>3, <1>5, <1>8 DEF ReaderGoes, Quiet
  <2> QED
    BY <1>5, <1>6, <2>1 DEF Types
<1> QED
  BY <1>7, <1>8

(* The reader has closed them all.                                         *)
LEMMA ClosedDoes ==
    ASSUME Types, Lines, Closed
    PROVE  Types' /\ Lines' /\ ReaderGoes
<1>1. PICK place : place = IF closed THEN "over" ELSE "flush"
  OBVIOUS
<1>2. /\ pc[Reader] = "closing" /\ todo[Reader] = <<>> /\ cpu \in {NoTask, Reader}
      /\ Reader \in Tasks /\ place \in Places /\ place \in ReaderPlaces
      /\ place \in {"over", "flush"}
      /\ Await(Reader, <<Set(HasData)>>, place)
      /\ UNCHANGED <<window, known, shrinks, resets, closed, leaving, touched>>
      /\ UNCHANGED <<world, buffers, active, unflushed, response, batch>>
  BY <1>1, TaskNames DEF Closed, At, ReaderKeeps, Places, Suspended, ReaderPlaces
<1>3. <<Set(HasData)>> \in Seq(Ops) /\ <<Set(HasData)>> # <<>>
  BY EventNames, OpTypes
<1>4. TaskTypes' /\ Lines' /\ Moved(Reader, place, <<Set(HasData)>>)
  BY <1>2, <1>3, AwaitMoves
<1>5. DataTypes'
  BY <1>2 DEF Types, DataTypes
<1>6. ReaderGoes
  BY <1>2, <1>4 DEF ReaderGoes, Quiet
<1> QED
  BY <1>4, <1>5, <1>6 DEF Types

(* The reader flushes.                                                     *)
LEMMA ReaderFlushDoes ==
    ASSUME Types, Lines, OtherReceived \/ ReaderFlush \/ ReaderFlushed
    PROVE  Types' /\ Lines' /\ ReaderGoes
<1>1. /\ Reader \in Tasks /\ ReaderPlaces \subseteq Places
      /\ {"read", "handled", "flushing"} \subseteq ReaderPlaces
  BY TaskNames DEF ReaderPlaces, Places, Suspended
<1>2. PICK place \in {"read", "handled", "flushing"} :
         /\ pc[Reader] \in {"read", "handled", "flush", "flushing"}
         /\ todo[Reader] = <<>> /\ cpu \in {NoTask, Reader} /\ Go(Reader, place)
         /\ FlushKeeps /\ unflushed' \in {{}, unflushed}
  <2>1. CASE OtherReceived
    BY <2>1 DEF OtherReceived, At, ReaderKeeps, FlushKeeps, readerVars
  <2>2. CASE ReaderFlush
    BY <2>2 DEF ReaderFlush, At, Take
  <2>3. CASE ReaderFlushed
    BY <2>3 DEF ReaderFlushed, At, HandOver
  <2> QED
    BY <2>1, <2>2, <2>3
<1>3. /\ Types' /\ Lines' /\ Quiet(Reader, place, <<>>) /\ unflushed' \subseteq unflushed
      /\ UNCHANGED <<window, shrinks, resets, closed, leaving, touched>>
  BY <1>1, <1>2, FlushMoves
<1> QED
  BY <1>1, <1>2, <1>3 DEF ReaderGoes

(* The sender's steps.                                                     *)
LEMMA SenderIdlesDoes ==
    ASSUME Types, Lines, SenderIdles
    PROVE  Types' /\ Lines' /\ SenderGoes
<1>1. /\ pc[Sender] = "next" /\ todo[Sender] = <<>> /\ cpu \in {NoTask, Sender}
      /\ Sender \in Tasks /\ "over" \in Places /\ "over" \in SenderPlaces
      /\ "next" \in Places /\ "next" \in SenderPlaces
      /\ UNCHANGED <<world, dataVars, readerVars, batch>>
  BY TaskNames DEF SenderIdles, At, Places, Suspended, SenderPlaces
<1>2. DataTypes'
  BY <1>1 DEF Types, DataTypes, dataVars, readerVars
<1>3. CASE closed
  <2>1. Go(Sender, "over")
    BY <1>3 DEF SenderIdles
  <2>2. TaskTypes' /\ Lines' /\ Moved(Sender, "over", <<>>)
    BY <1>1, <2>1, GoMoves
  <2>3. SenderGoes
    BY <1>1, <2>2 DEF SenderGoes, Quiet, dataVars
  <2> QED
    BY <1>2, <2>2, <2>3 DEF Types
<1>4. CASE ~closed
  <2>1. active = {} /\ Await(Sender, Sleep, "next")
    BY <1>4 DEF SenderIdles, Sleep
  <2>2. Sleep \in Seq(Ops) /\ Sleep # <<>>
    BY EventNames, OpTypes DEF Sleep
  <2>3. TaskTypes' /\ Lines' /\ Moved(Sender, "next", Sleep)
    BY <1>1, <2>1, <2>2, AwaitMoves
  <2>4. SenderGoes
    BY <1>1, <2>1, <2>3 DEF SenderGoes, Quiet, dataVars
  <2> QED
    BY <1>2, <2>3, <2>4 DEF Types
<1> QED
  BY <1>3, <1>4

(* The sender picks a stream.                                              *)
LEMMA PickDoes ==
    ASSUME Types, Lines, NEW s \in Streams, Pick(s)
    PROVE  Types' /\ Lines' /\ Picks(s)
<1>1. /\ pc[Sender] \in {"next", "sent"} /\ todo[Sender] = <<>> /\ cpu \in {NoTask, Sender}
      /\ Sender \in Tasks /\ "send" \in Places /\ s \in active
      /\ batch' = [batch EXCEPT !.stream = s, !.sends = @ + 1]
      /\ Go(Sender, "send")
      /\ UNCHANGED <<world, dataVars, readerVars>>
  BY TaskNames DEF Pick, At, Places
<1>2. batch \in Batches
  BY DEF Types, DataTypes
<1>3. /\ batch' \in Batches /\ batch'.stream = s /\ batch'.data = batch.data
      /\ batch'.flush = batch.flush /\ batch'.finished = batch.finished
  <2>1. PICK n : n = batch.sends + 1
    OBVIOUS
  <2>2. n \in Nat
    BY <1>2, <2>1 DEF Batches
  <2>3. batch' = [batch EXCEPT !.stream = s, !.sends = n]
    BY <1>1, <2>1
  <2> QED
    BY <1>2, <2>2, <2>3 DEF Batches
<1>4. TaskTypes' /\ Lines' /\ Moved(Sender, "send", <<>>)
  BY <1>1, GoMoves
<1>5. DataTypes'
  BY <1>1, <1>3 DEF Types, DataTypes, dataVars, readerVars
<1>6. Picks(s)
  BY <1>1, <1>3, <1>4 DEF Picks
<1> QED
  BY <1>4, <1>5, <1>6 DEF Types

(* The sender ends its batch.                                              *)
LEMMA BatchEndsDoes ==
    ASSUME Types, Lines, BatchEnds
    PROVE  Types' /\ Lines' /\ SenderGoes
<1>1. /\ pc[Sender] = "sent" /\ todo[Sender] = <<>> /\ cpu \in {NoTask, Sender}
      /\ Sender \in Tasks /\ "written" \in Places /\ "written" \in SenderPlaces
      /\ "finish" \in Places /\ "finish" \in SenderPlaces
      /\ FlushKeeps /\ UNCHANGED <<window, readerVars>>
  BY TaskNames DEF BatchEnds, At, Places, Suspended, SenderPlaces, FlushKeeps
<1>2. CASE batch.flush /\ unflushed # {}
  <2>1. unflushed' = {} /\ Go(Sender, "written")
    BY <1>2 DEF BatchEnds, Take
  <2>2. Types' /\ Lines' /\ Quiet(Sender, "written", <<>>)
    BY <1>1, <2>1, FlushMoves
  <2> QED
    BY <1>1, <2>1, <2>2 DEF SenderGoes
<1>3. CASE ~batch.flush \/ unflushed = {}
  <2>1. unflushed' = unflushed /\ Go(Sender, "finish")
    BY <1>3 DEF BatchEnds
  <2>2. Types' /\ Lines' /\ Quiet(Sender, "finish", <<>>)
    BY <1>1, <2>1, FlushMoves
  <2> QED
    BY <1>1, <1>3, <2>1, <2>2 DEF SenderGoes
<1> QED
  BY <1>2, <1>3

(* What the sender awaits at the end of a batch.                           *)
LEMMA FinishOpsTypes ==
    ASSUME Types
    PROVE  /\ FinishOps \in Seq(Ops) /\ FinishOps \in Finishes
           /\ FinishOps = <<>> <=> batch.finished = <<>>
           /\ Len(FinishOps) = Len(batch.finished)
           /\ \A i \in 1..Len(batch.finished) :
                batch.finished[i] \in Streams /\ FinishOps[i] = Set(Finished(batch.finished[i]))
<1>1. PICK f, n : f = batch.finished /\ n = Len(f)
  OBVIOUS
<1>2. f \in Seq(Streams) /\ n \in Nat /\ DOMAIN f = 1..n
  BY <1>1 DEF Types, DataTypes, Batches
<1>3. \A i \in 1..n : f[i] \in Streams /\ Set(Finished(f[i])) \in Ops
  <2>1. \A i \in 1..n : f[i] \in Streams
    BY <1>1, <1>2, ElementOfSeq
  <2> QED
    BY <2>1, EventNames, OpTypes
<1>4. FinishOps = [i \in 1..n |-> Set(Finished(f[i]))]
  BY <1>1, <1>2 DEF FinishOps
<1>5. /\ FinishOps \in Seq(Ops) /\ Len(FinishOps) = n
      /\ \A i \in 1..n : FinishOps[i] = Set(Finished(f[i]))
  BY <1>2, <1>3, <1>4, IsASeq
<1>6. FinishOps = <<>> <=> f = <<>>
  BY <1>1, <1>2, <1>5, EmptySeq
<1>7. FinishOps \in Finishes
  <2>1. \A i \in 1..n : Set(Finished(f[i])) \in {Set(Finished(s)) : s \in Streams}
    BY <1>3
  <2> QED
    BY <1>2, <1>4, <2>1, IsASeq DEF Finishes
<1> QED
  BY <1>1, <1>3, <1>5, <1>6, <1>7

(* The sender tells the applications whose responses are over.             *)
LEMMA FinishBatchDoes ==
    ASSUME Types, Lines, FinishBatch
    PROVE  Types' /\ Lines' /\ Finishing
<1>1. /\ pc[Sender] \in {"written", "finish"} /\ todo[Sender] = <<>> /\ cpu \in {NoTask, Sender}
      /\ Sender \in Tasks /\ "next" \in Places
      /\ batch' = NoBatch
      /\ UNCHANGED <<world, buffers, active, window, unflushed, response, readerVars>>
  BY TaskNames DEF FinishBatch, At, Places, HandOver
<1>2. NoBatch \in Batches
  BY EmptySeq DEF NoBatch, Batches, NoTask
<1>3. DataTypes'
  BY <1>1, <1>2 DEF Types, DataTypes, readerVars
<1>4. TaskTypes' /\ Lines' /\ Moved(Sender, "next", FinishOps)
  <2>1. CASE batch.finished = <<>>
    <3>1. Go(Sender, "next") /\ FinishOps = <<>>
      BY <2>1, FinishOpsTypes DEF FinishBatch
    <3> QED
      BY <1>1, <3>1, GoMoves
  <2>2. CASE batch.finished # <<>>
    <3>1. Await(Sender, FinishOps, "next") /\ FinishOps # <<>> /\ FinishOps \in Seq(Ops)
      BY <2>2, FinishOpsTypes DEF FinishBatch, FinishOps
    <3> QED
      BY <1>1, <3>1, AwaitMoves
  <2> QED
    BY <2>1, <2>2
<1>5. Finishing
  BY <1>1, <1>4 DEF Finishing
<1> QED
  BY <1>3, <1>4, <1>5 DEF Types

(* What a pop takes is in the buffer and fits the windows.                 *)
LEMMA LengthBounds ==
    ASSUME Types, NEW s \in Streams
    PROVE  /\ Length(s) \in Nat /\ Length(s) <= buffers[s].size
           /\ Length(s) <= Most(0, FlowWindow(s))
           /\ FlowWindow(s) \in Int /\ FlowWindow(s) <= window.all
           /\ Length(s) = 0 => buffers[s].size = 0 \/ FlowWindow(s) <= 0
<1>1. buffers[s] \in Buffers /\ window.all \in Nat /\ window.of[s] \in Int
  BY DEF Types, DataTypes
<1>2. buffers[s].size \in Nat /\ MaxFrame \in Nat \ {0}
  BY <1>1, H2SendAssumption DEF Buffers
<1>3. FlowWindow(s) \in Int /\ FlowWindow(s) <= window.all
  BY <1>1 DEF FlowWindow, Least
<1> QED
  BY <1>2, <1>3 DEF Length, Least, Frame, Most

(* _send_data, up to the end of pop.                                       *)
LEMMA PopDoes ==
    ASSUME Types, Plans, Lines, Pop
    PROVE  /\ Types' /\ Lines'
           /\ SenderGoes \/ \E s \in Streams : (\E n \in Nat : Pops(s, n)) \/ Shuts(Sender, s, "sent")
<1>0. PICK s, n, sets : /\ s = batch.stream /\ n = Length(s)
                        /\ sets = PopSets(s, n, buffers[s].size - n)
  OBVIOUS
<1>1. /\ pc[Sender] = "send" /\ todo[Sender] = <<>> /\ cpu \in {NoTask, Sender}
      /\ Sender \in Tasks /\ "sent" \in Places /\ "sent" \in SenderPlaces /\ "popped" \in Places
      /\ UNCHANGED <<world, window, unflushed, response, readerVars>>
  BY TaskNames DEF Pop, At, Places, SenderPlaces
<1>2. /\ s \in Streams /\ buffers[s] \in Buffers /\ buffers \in [Streams -> Buffers]
      /\ batch \in Batches
  BY <1>0, <1>1 DEF Plans, ReaderPlanned, SenderPlanned, Types, DataTypes
<1>3. n \in Nat /\ n <= buffers[s].size
  BY <1>0, <1>2, LengthBounds
<1>4. \/ /\ ~Present(s) /\ Go(Sender, "sent") /\ UNCHANGED <<buffers, active, batch>>
      \/ /\ Present(s) /\ s \in resets /\ CloseStream(Sender, s, "sent") /\ UNCHANGED batch
      \/ /\ Present(s)
         /\ buffers' = [buffers EXCEPT ![s].size = @ - n]
         /\ batch' = [batch EXCEPT !.data = n]
         /\ IF sets = <<>> THEN Go(Sender, "popped") ELSE Await(Sender, sets, "popped")
         /\ UNCHANGED active
  BY <1>0 DEF Pop, Present
<1>5. CASE ~Present(s) /\ Go(Sender, "sent") /\ UNCHANGED <<buffers, active, batch>>
  <2>1. TaskTypes' /\ Lines' /\ Moved(Sender, "sent", <<>>)
    BY <1>1, <1>5, GoMoves
  <2>2. DataTypes'
    BY <1>1, <1>5 DEF Types, DataTypes, readerVars
  <2>3. SenderGoes
    BY <1>0, <1>1, <1>5, <2>1 DEF SenderGoes, Quiet
  <2> QED
    BY <2>1, <2>2, <2>3 DEF Types
<1>6. CASE Present(s) /\ s \in resets /\ CloseStream(Sender, s, "sent") /\ UNCHANGED batch
  <2>1. /\ TaskTypes' /\ Lines'
        /\ buffers' \in [Streams -> Buffers] /\ active' \subseteq Streams
        /\ Moved(Sender, "sent", CloseOps(s))
        /\ active' = active \ {s}
        /\ \A r \in Streams :
             /\ buffers'[r].present = (r # s /\ buffers[r].present)
             /\ buffers'[r].complete = IF r = s THEN TRUE ELSE buffers[r].complete
             /\ buffers'[r].size = IF r = s THEN 0 ELSE buffers[r].size
    BY <1>1, <1>2, <1>6, CloseMoves
  <2>2. DataTypes'
    BY <1>1, <1>6, <2>1 DEF Types, DataTypes, readerVars
  <2>3. Shuts(Sender, s, "sent")
    BY <1>0, <1>1, <1>6, <2>1 DEF Shuts, readerVars
  <2> QED
    BY <1>2, <2>1, <2>2, <2>3 DEF Types
<1>7. CASE /\ Present(s)
           /\ buffers' = [buffers EXCEPT ![s].size = @ - n]
           /\ batch' = [batch EXCEPT !.data = n]
           /\ IF sets = <<>> THEN Go(Sender, "popped") ELSE Await(Sender, sets, "popped")
           /\ UNCHANGED active
  <2>1. sets \in Seq(Ops)
    <3>1. /\ <<Set(Paused(s))>> \in Seq(Ops) /\ <<Touch(IsEmpty(s))>> \in Seq(Ops)
          /\ <<>> \in Seq(Ops)
      BY <1>2, EventNames, OpTypes, EmptySeq
    <3>2. PICK a \in Seq(Ops), b \in Seq(Ops) : sets = a \o b
      BY <1>0, <3>1 DEF PopSets
    <3> QED
      BY <3>2, ConcatProperties
  <2>2. TaskTypes' /\ Lines' /\ Moved(Sender, "popped", sets)
    <3>1. CASE sets = <<>>
      BY <1>1, <1>7, <3>1, GoMoves
    <3>2. CASE sets # <<>>
      BY <1>1, <1>7, <2>1, <3>2, AwaitMoves
    <3> QED
      BY <3>1, <3>2
  <2>3. PICK b : b = [buffers[s] EXCEPT !.size = buffers[s].size - n]
    OBVIOUS
  <2>4. /\ b \in Buffers /\ b.present = buffers[s].present /\ b.complete = buffers[s].complete
        /\ b.size = buffers[s].size - n
    BY <1>2, <1>3, <2>3 DEF Buffers
  <2>5. /\ buffers' \in [Streams -> Buffers]
        /\ \A r \in Streams : buffers'[r] = IF r = s THEN b ELSE buffers[r]
    BY <1>2, <1>7, <2>3, <2>4
  <2>6. /\ batch' \in Batches /\ batch'.stream = s /\ batch'.data = n
        /\ batch'.flush = batch.flush /\ batch'.finished = batch.finished
    BY <1>0, <1>2, <1>3, <1>7 DEF Batches
  <2>7. DataTypes'
    BY <1>1, <1>7, <2>5, <2>6 DEF Types, DataTypes, readerVars
  <2>8. \A r \in Streams :
         /\ buffers'[r].present = buffers[r].present
         /\ buffers'[r].complete = buffers[r].complete
         /\ buffers'[r].size = IF r = s THEN buffers[r].size - n ELSE buffers[r].size
    BY <2>4, <2>5
  <2>9. Pops(s, n)
    BY <1>0, <1>1, <1>7, <2>2, <2>6, <2>8 DEF Pops
  <2> QED
    BY <1>2, <1>3, <2>2, <2>7, <2>9 DEF Types
<1> QED
  BY <1>4, <1>5, <1>6, <1>7

(* _send_data, the frames.                                                 *)
LEMMA SendDataDoes ==
    ASSUME Types, Plans, Lines, SendData
    PROVE  Types' /\ Lines' /\ \E s \in Streams : Ships(s)
<1>0. PICK s, d : s = batch.stream /\ d = batch.data
  OBVIOUS
<1>1. /\ pc[Sender] = "popped" /\ todo[Sender] = <<>> /\ cpu \in {NoTask, Sender}
      /\ Sender \in Tasks /\ "sent" \in Places
      /\ Present(s) /\ ~Refused(s)
      /\ window' = [all |-> window.all - d, of |-> [window.of EXCEPT ![s] = @ - d]]
      /\ response' = [response EXCEPT ![s].sent = @ + d,
                                      ![s].ended = IF Complete(s) THEN @ + 1 ELSE @]
      /\ active' = IF d = 0 \/ Complete(s) THEN active \ {s} ELSE active
      /\ buffers' = [buffers EXCEPT ![s].present = ~Complete(s)]
      /\ unflushed' = IF d > 0 \/ Complete(s) THEN unflushed \cup {s} ELSE unflushed
      /\ batch' = [batch EXCEPT !.flush = @ \/ d > 0 \/ Complete(s),
                                !.finished = IF Complete(s) THEN Append(@, s) ELSE @]
      /\ Go(Sender, "sent")
      /\ UNCHANGED <<world, readerVars>>
  BY <1>0, TaskNames DEF SendData, At, Places, Present
<1>2. /\ s \in Streams /\ buffers[s] \in Buffers /\ buffers \in [Streams -> Buffers]
      /\ batch \in Batches /\ response[s] \in Responses /\ response \in [Streams -> Responses]
      /\ active \subseteq Streams /\ unflushed \subseteq Streams /\ window.all \in Nat
      /\ window.of \in [Streams -> Int]
  BY <1>0, <1>1 DEF Plans, ReaderPlanned, SenderPlanned, Types, DataTypes
<1>3. d \in Nat /\ batch.finished \in Seq(Streams) /\ batch.flush \in BOOLEAN
      /\ batch.stream = s /\ batch.data = d
  BY <1>0, <1>2 DEF Batches
<1>4. PICK e : e = Complete(s)
  OBVIOUS
<1>5. e \in BOOLEAN
  BY <1>4 DEF Complete
<1>6. d <= Most(0, FlowWindow(s))
  <2>1. FlowWindow(s) \in Int
    BY <1>2, LengthBounds
  <2> QED
    BY <1>0, <1>1, <1>3, <2>1 DEF Refused, Most
<1>7. /\ window' \in [all : Nat, of : [Streams -> Int]]
      /\ \A r \in Streams : FlowWindow(r)' <= FlowWindow(r)
  <2>1. window.all - d \in Nat
    <3>1. FlowWindow(s) \in Int /\ FlowWindow(s) <= window.all
      BY <1>2, LengthBounds
    <3> QED
      BY <1>2, <1>3, <1>6, <3>1 DEF Most
  <2>2. PICK f : f = [window.of EXCEPT ![s] = window.of[s] - d]
    OBVIOUS
  <2>3. f \in [Streams -> Int] /\ \A r \in Streams : f[r] <= window.of[r] /\ window.of[r] \in Int /\ f[r] \in Int
    BY <1>2, <1>3, <2>2
  <2>4. window' = [all |-> window.all - d, of |-> f]
    BY <1>1, <2>2
  <2>5. window'.all = window.all - d /\ window'.of = f
    BY <2>4
  <2>6. ASSUME NEW r \in Streams PROVE FlowWindow(r)' <= FlowWindow(r)
    <3>1. /\ window'.all <= window.all /\ window'.all \in Int /\ window.all \in Int
          /\ window'.of[r] <= window.of[r] /\ window'.of[r] \in Int /\ window.of[r] \in Int
      BY <1>2, <1>3, <2>3, <2>5
    <3> QED
      BY <3>1 DEF FlowWindow, Least
  <2> QED
    BY <2>1, <2>3, <2>4, <2>6
<1>8. PICK b, w : /\ b = [buffers[s] EXCEPT !.present = ~e]
                  /\ w = [response[s] EXCEPT !.sent = response[s].sent + d,
                                             !.ended = IF e THEN response[s].ended + 1
                                                       ELSE response[s].ended]
  OBVIOUS
<1>9. b \in Buffers /\ b.present = ~e /\ b.complete = buffers[s].complete /\ b.size = buffers[s].size
  BY <1>2, <1>8 DEF Buffers
<1>10. /\ w \in Responses /\ w.opened = response[s].opened /\ w.abandoned = response[s].abandoned
       /\ w.sent = response[s].sent + d /\ w.written = response[s].written
       /\ w.ended = IF e THEN response[s].ended + 1 ELSE response[s].ended
  <2>1. PICK x, y : /\ x = response[s].sent + d
                    /\ y = IF e THEN response[s].ended + 1 ELSE response[s].ended
    OBVIOUS
  <2>2. x \in Nat /\ y \in Nat
    BY <1>2, <1>3, <1>5, <2>1 DEF Responses
  <2>3. w = [response[s] EXCEPT !.sent = x, !.ended = y]
    BY <1>8, <2>1
  <2>4. /\ w \in Responses /\ w.opened = response[s].opened /\ w.abandoned = response[s].abandoned
        /\ w.sent = x /\ w.written = response[s].written /\ w.ended = y
    BY <1>2, <2>2, <2>3 DEF Responses
  <2> QED
    BY <2>1, <2>4
<1>11. /\ buffers' \in [Streams -> Buffers]
       /\ \A r \in Streams : buffers'[r] = IF r = s THEN b ELSE buffers[r]
  <2>1. buffers' = [buffers EXCEPT ![s] = b]
    BY <1>1, <1>4, <1>8
  <2> QED
    BY <1>2, <1>9, <2>1
<1>12. /\ response' \in [Streams -> Responses]
       /\ \A r \in Streams : response'[r] = IF r = s THEN w ELSE response[r]
  <2>1. response' = [response EXCEPT ![s] = w]
    BY <1>1, <1>2, <1>4, <1>8 DEF Responses
  <2> QED
    BY <1>2, <1>10, <2>1
<1>13. PICK f, h : /\ f = (batch.flush \/ d > 0 \/ e)
                   /\ h = IF e THEN Append(batch.finished, s) ELSE batch.finished
  OBVIOUS
<1>14. f \in BOOLEAN /\ h \in Seq(Streams)
  BY <1>2, <1>3, <1>13, AppendProperties
<1>15. /\ batch' \in Batches /\ batch'.stream = s /\ batch'.data = d
       /\ batch'.flush = f /\ batch'.finished = h
  <2>1. batch' = [batch EXCEPT !.flush = f, !.finished = h]
    BY <1>1, <1>4, <1>13
  <2> QED
    BY <1>2, <1>3, <1>14, <2>1 DEF Batches
<1>16. TaskTypes' /\ Lines' /\ Moved(Sender, "sent", <<>>)
  BY <1>1, GoMoves
<1>17. DataTypes'
  <2>1. \A r \in Streams : response'[r].written = response[r].written
    BY <1>10, <1>12
  <2>2. active' \subseteq Streams /\ unflushed' \subseteq Streams
    BY <1>1, <1>2
  <2> QED
    BY <1>1, <1>7, <1>11, <1>12, <1>15, <2>1, <2>2 DEF Types, DataTypes, readerVars
<1>18. ASSUME NEW r \in Streams
       PROVE  /\ buffers'[r].present = (buffers[r].present /\ ~(r = s /\ Complete(s)))
              /\ buffers'[r].complete = buffers[r].complete
              /\ buffers'[r].size = buffers[r].size
  <2>1. buffers[r].present \in BOOLEAN /\ (r = s => buffers[r].present)
    BY <1>1, <1>2 DEF Buffers, Present
  <2>2. CASE r = s
    BY <1>4, <1>5, <1>9, <1>11, <2>1, <2>2
  <2>3. CASE r # s
    BY <1>11, <2>1, <2>3
  <2> QED
    BY <2>2, <2>3
<1>19. \A r \in Streams :
         /\ response'[r].opened = response[r].opened
         /\ response'[r].abandoned = response[r].abandoned
         /\ response'[r].sent = IF r = s THEN response[r].sent + d ELSE response[r].sent
         /\ response'[r].ended = IF r = s /\ Complete(s) THEN response[r].ended + 1
                                 ELSE response[r].ended
         /\ response'[r].written = response[r].written
  BY <1>4, <1>10, <1>12
<1>20. Ships(s)
  <2>1. /\ active' = IF batch.data = 0 \/ Complete(s) THEN active \ {s} ELSE active
        /\ unflushed' = IF batch.data > 0 \/ Complete(s) THEN unflushed \cup {s} ELSE unflushed
        /\ batch'.stream = s /\ batch'.data = batch.data
        /\ batch'.flush = (batch.flush \/ batch.data > 0 \/ Complete(s))
        /\ batch'.finished = IF Complete(s) THEN Append(batch.finished, s) ELSE batch.finished
    BY <1>0, <1>1, <1>4, <1>13, <1>15
  <2>2. \A r \in Streams :
         response'[r].sent = IF r = s THEN response[r].sent + batch.data ELSE response[r].sent
    BY <1>0, <1>19
  <2>3. s = batch.stream /\ pc[Sender] = "popped" /\ Present(s) /\ ~Refused(s)
        /\ UNCHANGED <<world, readerVars>>
    BY <1>0, <1>1
  <2>4. \A r \in Streams :
         /\ FlowWindow(r)' <= FlowWindow(r)
         /\ buffers'[r].present = (buffers[r].present /\ ~(r = s /\ Complete(s)))
         /\ buffers'[r].complete = buffers[r].complete
         /\ buffers'[r].size = buffers[r].size
         /\ response'[r].opened = response[r].opened
         /\ response'[r].abandoned = response[r].abandoned
         /\ response'[r].sent = IF r = s THEN response[r].sent + batch.data ELSE response[r].sent
         /\ response'[r].ended = IF r = s /\ Complete(s) THEN response[r].ended + 1
                                 ELSE response[r].ended
         /\ response'[r].written = response[r].written
    BY <1>7, <1>18, <1>19, <2>2
  <2> QED
    BY <1>16, <2>1, <2>3, <2>4 DEF Ships
<1> QED
  BY <1>2, <1>16, <1>17, <1>20 DEF Types

(* _send_data, when no frame is sent.                                      *)
LEMMA NotSentDoes ==
    ASSUME Types, Plans, Lines, NotSent
    PROVE  Types' /\ Lines' /\ (SenderGoes \/ \E s \in Streams : Shuts(Sender, s, "sent"))
<1>0. PICK s : s = batch.stream
  OBVIOUS
<1>1. /\ pc[Sender] = "popped" /\ todo[Sender] = <<>> /\ cpu \in {NoTask, Sender}
      /\ Sender \in Tasks /\ "sent" \in Places /\ "sent" \in SenderPlaces
      /\ UNCHANGED <<world, window, unflushed, response, readerVars, batch>>
  BY TaskNames DEF NotSent, At, Places, SenderPlaces
<1>2. s \in Streams
  BY <1>0, <1>1 DEF Plans, SenderPlanned
<1>3. CASE Present(s)
  <2>1. Refused(s) /\ CloseStream(Sender, s, "sent")
    BY <1>0, <1>3 DEF NotSent, Present
  <2>2. /\ TaskTypes' /\ Lines'
        /\ buffers' \in [Streams -> Buffers] /\ active' \subseteq Streams
        /\ Moved(Sender, "sent", CloseOps(s))
        /\ active' = active \ {s}
        /\ \A r \in Streams :
             /\ buffers'[r].present = (r # s /\ buffers[r].present)
             /\ buffers'[r].complete = IF r = s THEN TRUE ELSE buffers[r].complete
             /\ buffers'[r].size = IF r = s THEN 0 ELSE buffers[r].size
    BY <1>1, <1>2, <1>3, <2>1, CloseMoves
  <2>3. DataTypes'
    BY <1>1, <2>2 DEF Types, DataTypes, readerVars
  <2>4. Shuts(Sender, s, "sent")
    BY <1>0, <1>1, <1>3, <2>1, <2>2 DEF Shuts, readerVars
  <2> QED
    BY <1>2, <2>2, <2>3, <2>4 DEF Types
<1>4. CASE ~Present(s)
  <2>1. Go(Sender, "sent") /\ UNCHANGED <<buffers, active>>
    BY <1>0, <1>4 DEF NotSent, Present
  <2>2. TaskTypes' /\ Lines' /\ Moved(Sender, "sent", <<>>)
    BY <1>1, <2>1, GoMoves
  <2>3. DataTypes'
    BY <1>1, <2>1 DEF Types, DataTypes, readerVars
  <2>4. SenderGoes
    BY <1>0, <1>1, <1>4, <2>1, <2>2 DEF SenderGoes, Quiet
  <2> QED
    BY <2>2, <2>3, <2>4 DEF Types
<1> QED
  BY <1>3, <1>4

(* Every step is one of these.                                             *)
LEMMA StepDoes ==
    ASSUME Types, Plans, Lines, Next, ~OthersStep
    PROVE  Types' /\ Lines' /\ Steps
<1>1. ASSUME NEW t \in Tasks, EventStep(t)
      PROVE  Types' /\ Lines' /\ Steps
  <2>1. TaskTypes /\ world.trio \in BOOLEAN
    BY DEF Types, DataTypes, WorldRecords
  <2>2. TaskTypes' /\ Lines' /\ Acted(t)
    BY <1>1, <2>1, StepLines
  <2>3. UNCHANGED <<world, dataVars, readerVars, batch>>
    BY <1>1 DEF EventStep
  <2>4. DataTypes'
    BY <2>3 DEF Types, DataTypes, dataVars, readerVars
  <2> QED
    BY <2>2, <2>3, <2>4 DEF Types, Steps, Acts
<1>2. ASSUME NEW s \in Streams, App(s), ~EventStep(s)
      PROVE  Types' /\ Lines' /\ AppSteps(s)
  <2>1. CASE Send(s)
    BY <2>1, SendDoes DEF AppSteps
  <2>2. CASE End(s)
    BY <2>2, EndDoes DEF AppSteps
  <2>3. CASE Abandon(s)
    BY <2>3, AbandonDoes DEF AppSteps
  <2>4. CASE Respond(s) \/ Responded(s) \/ Promise(s) \/ Depart(s) \/ Departed(s)
    BY <2>4, AppFlushes DEF AppSteps
  <2>5. CASE Pushed(s)
    BY <2>5, PushedDoes DEF AppSteps
  <2>6. CASE PopStream(s)
    BY <2>6, PopStreamDoes DEF AppSteps
  <2>7. CASE AppPopped(s)
    BY <2>7, AppPoppedDoes DEF AppSteps
  <2>8. CASE Promised(s)
    BY <2>8, PromisedDoes DEF AppSteps
  <2> QED
    BY <1>2, <2>1, <2>2, <2>3, <2>4, <2>5, <2>6, <2>7, <2>8 DEF App, AppResumes
<1>3. ASSUME ReaderStep, ~EventStep(Reader)
      PROVE  Types' /\ Lines' /\ ReaderSteps
  <2>1. CASE RequestReceived
    BY <2>1, RequestReceivedDoes DEF ReaderSteps
  <2>2. CASE GrantAll
    BY <2>2, GrantAllDoes DEF ReaderSteps
  <2>3. CASE Shrink
    BY <2>3, ShrinkDoes DEF ReaderSteps
  <2>4. CASE Lost
    BY <2>4, LostDoes DEF ReaderSteps
  <2>5. CASE Update
    BY <2>5, UpdateDoes DEF ReaderSteps
  <2>6. CASE Closing
    BY <2>6, ClosingDoes DEF ReaderSteps
  <2>7. CASE ReaderPopped
    BY <2>7, ReaderPoppedDoes DEF ReaderSteps
  <2>8. CASE Closed
    BY <2>8, ClosedDoes DEF ReaderSteps
  <2>9. CASE OtherReceived \/ ReaderFlush \/ ReaderFlushed
    BY <2>9, ReaderFlushDoes DEF ReaderSteps
  <2>10. ASSUME NEW s \in Streams, Grant(s) PROVE Types' /\ Lines' /\ ReaderSteps
    BY <2>10, GrantDoes DEF ReaderSteps
  <2>11. ASSUME NEW s \in Streams, StreamReset(s) PROVE Types' /\ Lines' /\ ReaderSteps
    BY <2>11, StreamResetDoes DEF ReaderSteps
  <2> QED
    BY <1>3, <2>1, <2>2, <2>3, <2>4, <2>5, <2>6, <2>7, <2>8, <2>9, <2>10, <2>11
       DEF ReaderStep, ReaderResumes
<1>4. ASSUME SenderStep, ~EventStep(Sender)
      PROVE  Types' /\ Lines' /\ SenderSteps
  <2>1. CASE SenderIdles
    BY <2>1, SenderIdlesDoes DEF SenderSteps
  <2>2. CASE BatchEnds
    BY <2>2, BatchEndsDoes DEF SenderSteps
  <2>3. CASE FinishBatch
    BY <2>3, FinishBatchDoes DEF SenderSteps
  <2>4. CASE Pop
    BY <2>4, PopDoes DEF SenderSteps
  <2>5. CASE SendData
    BY <2>5, SendDataDoes DEF SenderSteps
  <2>6. CASE NotSent
    BY <2>6, NotSentDoes DEF SenderSteps
  <2>7. ASSUME NEW s \in Streams, Pick(s) PROVE Types' /\ Lines' /\ SenderSteps
    BY <2>7, PickDoes DEF SenderSteps
  <2> QED
    BY <1>4, <2>1, <2>2, <2>3, <2>4, <2>5, <2>6, <2>7 DEF SenderStep
<1> QED
  BY <1>1, <1>2, <1>3, <1>4, TaskNames DEF Next, Steps

-----------------------------------------------------------------------------
(* Who has frames in hand.                                                 *)

(* A task that goes on empties its hand, takes what is there and awaits the*)
(* socket, or had nothing in hand.                                         *)
LEMMA HandsMove ==
    ASSUME Types, Hands, NEW t \in Tasks,
           \A u \in Tasks : u # t => pc'[u] = pc[u] \/ pc[u] \notin Flushing,
           \/ inHand' = [inHand EXCEPT ![t] = {}]
           \/ inHand' = [inHand EXCEPT ![t] = unflushed] /\ pc'[t] \in Flushing
           \/ inHand' = inHand /\ (pc[t] \notin Flushing \/ pc'[t] = pc[t])
    PROVE  Hands' /\ Gathers
<1>1. Sender \in Tasks /\ unflushed \subseteq Streams
  BY TaskNames DEF Types, DataTypes
<1> QED
  BY <1>1 DEF Hands, Gathers

(* A task that does not flush keeps its hand empty.                        *)
LEMMA HandsStay ==
    ASSUME Types, Hands, NEW t \in Tasks, NEW place, pc' = [pc EXCEPT ![t] = place],
           pc[t] \notin Flushing, inHand' = inHand
    PROVE  Hands' /\ Gathers
<1>1. \A u \in Tasks : u # t => pc'[u] = pc[u]
  BY DEF Types, TaskTypes
<1> QED
  BY <1>1, HandsMove

(* Opening a stream, by a task that empties its hand or has nothing in it. *)
LEMMA HandsOpen ==
    ASSUME Types, Plans, Hands, NEW t \in Tasks, NEW r \in Streams, ~response[r].opened,
           \A u \in Tasks : u # t /\ u # r => pc'[u] = pc[u],
           \/ inHand' = [inHand EXCEPT ![t] = {}]
           \/ inHand' = inHand /\ pc[t] \notin Flushing
    PROVE  Hands' /\ Gathers
<1>1. pc[r] \notin Flushing
  BY DEF Plans, Alive, Flushing
<1> QED
  BY <1>1, HandsMove

(* Closing a stream, or Go, moves the one task.                            *)
LEMMA CloseGoes ==
    ASSUME NEW t, NEW s, NEW place, CloseStream(t, s, place)
    PROVE  pc' = [pc EXCEPT ![t] = place]
BY DEF CloseStream, Await, Go

LEMMA StepHands ==
    ASSUME Types, Plans, Lines, Hands, Next, ~OthersStep
    PROVE  Hands' /\ Gathers
<1>0. Sender \in Tasks /\ Reader \in Tasks /\ \A s \in Streams : s \in Tasks
  BY TaskNames
<1>1. ASSUME NEW t \in Tasks, EventStep(t) PROVE Hands' /\ Gathers
  <2>1. world.trio \in BOOLEAN /\ TaskTypes
    BY DEF Types, DataTypes, WorldRecords
  <2>2. pc' = pc /\ inHand' = inHand
    BY <1>1, <2>1, StepLines DEF Acted, EventStep, dataVars
  <2> QED
    BY <2>2, HandsMove
<1>2. ASSUME NEW s \in Streams, App(s), ~EventStep(s) PROVE Hands' /\ Gathers
  <2>0. s \in Tasks /\ \A u \in Tasks : \A place : pc' = [pc EXCEPT ![s] = place] =>
                              (u # s => pc'[u] = pc[u]) /\ pc'[s] = place
    BY <1>0 DEF Types, TaskTypes
  <2>1. CASE Send(s)
    <3>1. pc' = [pc EXCEPT ![s] = "pushed"] /\ inHand' = inHand /\ pc[s] \notin Flushing
      BY <2>1 DEF Send, Await, At, Flushing
    <3> QED
      BY <2>0, <3>1, HandsStay
  <2>2. CASE Pushed(s)
    <3>1. pc' = [pc EXCEPT ![s] = "app"] /\ inHand' = inHand /\ pc[s] \notin Flushing
      BY <2>2 DEF Pushed, Await, Go, At, Flushing
    <3> QED
      BY <2>0, <3>1, HandsStay
  <2>3. CASE End(s)
    <3>1. pc' = [pc EXCEPT ![s] = "ended"] /\ inHand' = inHand /\ pc[s] \notin Flushing
      BY <2>3 DEF End, Await, Go, At, Flushing
    <3> QED
      BY <2>0, <3>1, HandsStay
  <2>4. CASE Abandon(s)
    <3>1. pc' = [pc EXCEPT ![s] = "ended"] /\ inHand' = inHand /\ pc[s] \notin Flushing
      BY <2>4 DEF Abandon, Go, At, Flushing
    <3> QED
      BY <2>0, <3>1, HandsStay
  <2>5. CASE PopStream(s)
    <3>1. pc' = [pc EXCEPT ![s] = "popping"] /\ inHand' = inHand /\ pc[s] \notin Flushing
      BY <2>5 DEF PopStream, Go, At, Flushing, dataVars
    <3> QED
      BY <2>0, <3>1, HandsStay
  <2>6. CASE AppPopped(s)
    <3>1. pc' = [pc EXCEPT ![s] = "closed"] /\ inHand' = inHand /\ pc[s] \notin Flushing
      BY <2>6, CloseGoes DEF AppPopped, At, Flushing
    <3> QED
      BY <2>0, <3>1, HandsStay
  <2>7. CASE Responded(s) \/ Departed(s)
    <3>1. PICK place : pc' = [pc EXCEPT ![s] = place] /\ inHand' = [inHand EXCEPT ![s] = {}]
      BY <2>7 DEF Responded, Departed, HandOver, Go
    <3> QED
      BY <2>0, <3>1, HandsMove
  <2>8. CASE Respond(s) \/ Promise(s)
    <3>1. PICK place \in Flushing : /\ pc' = [pc EXCEPT ![s] = place]
                                   /\ inHand' = [inHand EXCEPT ![s] = unflushed]
      BY <2>8 DEF Respond, Promise, Take, Go, Flushing
    <3> QED
      BY <2>0, <3>1, HandsMove
  <2>9. CASE Depart(s)
    <3>1. CASE Take(s, "parting")
      <4>1. pc' = [pc EXCEPT ![s] = "parting"] /\ inHand' = [inHand EXCEPT ![s] = unflushed]
        BY <3>1 DEF Take, Go
      <4> QED
        BY <2>0, <4>1, HandsMove DEF Flushing
    <3>2. CASE Go(s, "over") /\ inHand' = inHand
      <4>1. pc' = [pc EXCEPT ![s] = "over"] /\ inHand' = inHand /\ pc[s] \notin Flushing
        BY <2>9, <3>2 DEF Depart, At, Go, Flushing
      <4> QED
        BY <2>0, <4>1, HandsStay
    <3> QED
      BY <2>9, <3>1, <3>2 DEF Depart
  <2>10. CASE Promised(s)
    <3>1. PICK r \in Streams \ {s} : Open(r) /\ pc' = [pc EXCEPT ![s] = "app", ![r] = "app"]
      BY <2>10 DEF Promised
    <3>2. ~response[r].opened /\ inHand' = [inHand EXCEPT ![s] = {}]
      BY <2>10, <3>1 DEF Open, Promised, HandOver
    <3>3. \A u \in Tasks : u # s /\ u # r => pc'[u] = pc[u]
      BY <3>1 DEF Types, TaskTypes
    <3> QED
      BY <2>0, <3>2, <3>3, HandsOpen
  <2> QED
    BY <1>2, <2>1, <2>2, <2>3, <2>4, <2>5, <2>6, <2>7, <2>8, <2>9, <2>10 DEF App, AppResumes
<1>3. ASSUME ReaderStep, ~EventStep(Reader) PROVE Hands' /\ Gathers
  <2>0. \A u \in Tasks : \A place : pc' = [pc EXCEPT ![Reader] = place] =>
            (u # Reader => pc'[u] = pc[u]) /\ pc'[Reader] = place
    BY <1>0 DEF Types, TaskTypes
  <2>1. CASE RequestReceived
    <3>1. PICK r \in Streams : Open(r) /\ pc' = [pc EXCEPT ![r] = "app", ![Reader] = "handled"]
      BY <2>1 DEF RequestReceived
    <3>2. ~response[r].opened /\ inHand' = inHand /\ pc[Reader] \notin Flushing
      BY <2>1, <3>1 DEF Open, RequestReceived, At, Flushing
    <3>3. \A u \in Tasks : u # Reader /\ u # r => pc'[u] = pc[u]
      BY <3>1 DEF Types, TaskTypes
    <3> QED
      BY <1>0, <3>2, <3>3, HandsOpen
  <2>2. CASE ReaderFlush
    <3>1. CASE Take(Reader, "flushing")
      <4>1. /\ pc' = [pc EXCEPT ![Reader] = "flushing"]
            /\ inHand' = [inHand EXCEPT ![Reader] = unflushed]
        BY <3>1 DEF Take, Go
      <4> QED
        BY <1>0, <2>0, <4>1, HandsMove DEF Flushing
    <3>2. CASE Go(Reader, "read") /\ inHand' = inHand
      <4>1. /\ pc' = [pc EXCEPT ![Reader] = "read"] /\ inHand' = inHand
            /\ pc[Reader] \notin Flushing
        BY <2>2, <3>2 DEF ReaderFlush, At, Go, Flushing
      <4> QED
        BY <1>0, <4>1, HandsStay
    <3> QED
      BY <2>2, <3>1, <3>2 DEF ReaderFlush
  <2>3. CASE ReaderFlushed
    <3>1. pc' = [pc EXCEPT ![Reader] = "read"] /\ inHand' = [inHand EXCEPT ![Reader] = {}]
      BY <2>3 DEF ReaderFlushed, HandOver, Go
    <3> QED
      BY <1>0, <2>0, <3>1, HandsMove
  <2>4. CASE OtherReceived \/ GrantAll \/ Shrink \/ Lost \/ Update \/ Closing \/ Closed
    <3>1. /\ inHand' = inHand /\ pc[Reader] \notin Flushing
          /\ \E place : pc' = [pc EXCEPT ![Reader] = place]
      <4>1. CASE OtherReceived
        BY <4>1 DEF OtherReceived, ReaderKeeps, Go, At, Flushing
      <4>2. CASE GrantAll \/ Shrink
        BY <4>2 DEF GrantAll, Shrink, Windowed, ReaderKeeps, Go, At, Flushing
      <4>3. CASE Lost \/ Closing \/ Closed
        BY <4>3 DEF Lost, Closing, Closed, ReaderKeeps, Go, Await, At, Flushing
      <4>4. CASE Update
        BY <4>4 DEF Update, Await, At, Flushing
      <4> QED
        BY <2>4, <4>1, <4>2, <4>3, <4>4
    <3> QED
      BY <1>0, <3>1, HandsStay
  <2>5. CASE ReaderPopped
    <3>1. /\ inHand' = inHand /\ pc[Reader] \notin Flushing
          /\ pc' = [pc EXCEPT ![Reader] = "closing"]
      BY <2>5, CloseGoes DEF ReaderPopped, At, Flushing
    <3> QED
      BY <1>0, <3>1, HandsStay
  <2>6. ASSUME NEW s \in Streams, Grant(s) \/ StreamReset(s) PROVE Hands' /\ Gathers
    <3>1. /\ inHand' = inHand /\ pc[Reader] \notin Flushing
          /\ \E place : pc' = [pc EXCEPT ![Reader] = place]
      BY <2>6 DEF Grant, StreamReset, Windowed, ReaderKeeps, Go, At, Flushing
    <3> QED
      BY <1>0, <3>1, HandsStay
  <2> QED
    BY <1>3, <2>1, <2>2, <2>3, <2>4, <2>5, <2>6 DEF ReaderStep, ReaderResumes
<1>4. ASSUME SenderStep, ~EventStep(Sender) PROVE Hands' /\ Gathers
  <2>0. \A u \in Tasks : \A place : pc' = [pc EXCEPT ![Sender] = place] =>
            (u # Sender => pc'[u] = pc[u]) /\ pc'[Sender] = place
    BY <1>0 DEF Types, TaskTypes
  <2>1. CASE BatchEnds
    <3>1. CASE Take(Sender, "written")
      <4>1. /\ pc' = [pc EXCEPT ![Sender] = "written"]
            /\ inHand' = [inHand EXCEPT ![Sender] = unflushed]
        BY <3>1 DEF Take, Go
      <4> QED
        BY <1>0, <2>0, <4>1, HandsMove DEF Flushing
    <3>2. CASE Go(Sender, "finish") /\ inHand' = inHand
      <4>1. /\ pc' = [pc EXCEPT ![Sender] = "finish"] /\ inHand' = inHand
            /\ pc[Sender] \notin Flushing
        BY <2>1, <3>2 DEF BatchEnds, At, Go, Flushing
      <4> QED
        BY <1>0, <4>1, HandsStay
    <3> QED
      BY <2>1, <3>1, <3>2 DEF BatchEnds
  <2>2. CASE FinishBatch
    <3>1. pc' = [pc EXCEPT ![Sender] = "next"] /\ inHand' = [inHand EXCEPT ![Sender] = {}]
      BY <2>2 DEF FinishBatch, HandOver, Go, Await
    <3> QED
      BY <1>0, <2>0, <3>1, HandsMove
  <2>3. CASE SenderIdles \/ SendData \/ \E s \in Streams : Pick(s)
    <3>1. /\ inHand' = inHand /\ pc[Sender] \notin Flushing
          /\ \E place : pc' = [pc EXCEPT ![Sender] = place]
      <4>1. CASE SenderIdles
        BY <4>1 DEF SenderIdles, Go, Await, At, Flushing, dataVars
      <4>2. CASE SendData
        BY <4>2 DEF SendData, Go, At, Flushing
      <4>3. ASSUME NEW s \in Streams, Pick(s)
            PROVE  /\ inHand' = inHand /\ pc[Sender] \notin Flushing
                   /\ \E place : pc' = [pc EXCEPT ![Sender] = place]
        BY <4>3 DEF Pick, Go, At, Flushing, dataVars
      <4> QED
        BY <2>3, <4>1, <4>2, <4>3
    <3> QED
      BY <1>0, <3>1, HandsStay
  <2>4. CASE Pop
    <3>1. inHand' = inHand /\ pc[Sender] \notin Flushing
      BY <2>4 DEF Pop, At, Flushing
    <3>2. \E place : pc' = [pc EXCEPT ![Sender] = place]
      BY <2>4, CloseGoes DEF Pop, Go, Await
    <3> QED
      BY <1>0, <3>1, <3>2, HandsStay
  <2>5. CASE NotSent
    <3>1. inHand' = inHand /\ pc[Sender] \notin Flushing
      BY <2>5 DEF NotSent, At, Flushing
    <3>2. \E place : pc' = [pc EXCEPT ![Sender] = place]
      BY <2>5, CloseGoes DEF NotSent, Go
    <3> QED
      BY <1>0, <3>1, <3>2, HandsStay
  <2> QED
    BY <1>4, <2>1, <2>2, <2>3, <2>4, <2>5 DEF SenderStep
<1> QED
  BY <1>0, <1>1, <1>2, <1>3, <1>4 DEF Next

-----------------------------------------------------------------------------
(* The plans.                                                              *)

(* At every place a task may await nothing.                                *)
LEMMA NothingPlanned ==
    /\ \A s \in Streams, place \in AppPlaces : <<>> \in AppPlans(s, place)
    /\ \A place \in ReaderPlaces : <<>> \in ReaderPlans(place)
    /\ \A place \in SenderPlaces, s \in Streams \cup {NoTask} : <<>> \in SenderPlans(place, s)
<1>1. \A s : <<>> \in Closings(s)
  BY DEF Closings
<1>2. <<>> \in Finishes
  BY EmptySeq DEF Finishes
<1> QED
  BY <1>1, <1>2 DEF AppPlans, ReaderPlans, SenderPlans, AppPlaces, ReaderPlaces, SenderPlaces

(* What is left of a plan is a plan.                                       *)
LEMMA TailTuples ==
    /\ \A a : Tail(<<a>>) = <<>> /\ Head(<<a>>) = a /\ <<a>> # <<>>
    /\ \A a, b : Tail(<<a, b>>) = <<b>> /\ Head(<<a, b>>) = a /\ <<a, b>> # <<>>
    /\ \A a, b, c : Tail(<<a, b, c>>) = <<b, c>> /\ Head(<<a, b, c>>) = a /\ <<a, b, c>> # <<>>
    /\ \A a, b, c, d : Tail(<<a, b, c, d>>) = <<b, c, d>> /\ Head(<<a, b, c, d>>) = a
                          /\ <<a, b, c, d>> # <<>>
OBVIOUS

(* What is left of closing a buffer is part of closing it.                 *)
LEMMA TailClosings ==
    ASSUME NEW s, NEW plan \in Closings(s), plan # <<>>
    PROVE  Tail(plan) \in Closings(s)
<1> PICK a, b, c, d : /\ a = Touch(IsEmpty(s)) /\ b = Set(Paused(s))
                      /\ c = Set(Finished(s)) /\ d = Set(HasData)
  OBVIOUS
<1>1. Closings(s) = {<<>>, <<d>>, <<c, d>>, <<b, c, d>>, <<a, b, c, d>>}
  BY DEF Closings, CloseOps
<1>2. plan \in {<<d>>, <<c, d>>, <<b, c, d>>, <<a, b, c, d>>}
  BY <1>1
<1>3. /\ Tail(<<d>>) = <<>> /\ Tail(<<c, d>>) = <<d>> /\ Tail(<<b, c, d>>) = <<c, d>>
      /\ Tail(<<a, b, c, d>>) = <<b, c, d>>
  BY TailTuples
<1> QED
  BY <1>1, <1>2, <1>3

(* What is left of a plan is a plan for the same place.                    *)
LEMMA TailPlans ==
    /\ \A s \in Streams, place \in AppPlaces : \A plan \in AppPlans(s, place) :
         plan # <<>> => Tail(plan) \in AppPlans(s, place)
    /\ \A place \in ReaderPlaces : \A plan \in ReaderPlans(place) :
         plan # <<>> => Tail(plan) \in ReaderPlans(place)
    /\ \A place \in SenderPlaces, s \in Streams \cup {NoTask} : \A plan \in SenderPlans(place, s) :
         plan # <<>> => Tail(plan) \in SenderPlans(place, s)
<1>1. ASSUME NEW s \in Streams, NEW place \in AppPlaces, NEW plan \in AppPlans(s, place), plan # <<>>
      PROVE  Tail(plan) \in AppPlans(s, place)
  <2> PICK a, b, c, d, e : /\ a = Set(HasData) /\ b = WaitFor(Paused(s)) /\ c = Clear(Paused(s))
                           /\ d = Touch(IsEmpty(s)) /\ e = WaitFor(Finished(s))
    OBVIOUS
  <2>1. CASE place = "app"
    <3>1. AppPlans(s, place) = {<<>>, <<a>>, <<c>>, <<b, c>>, <<a, b, c>>}
      BY <2>1 DEF AppPlans, Room
    <3>2. plan \in {<<a>>, <<c>>, <<b, c>>, <<a, b, c>>}
      BY <1>1, <3>1
    <3>3. /\ Tail(<<a>>) = <<>> /\ Tail(<<c>>) = <<>> /\ Tail(<<b, c>>) = <<c>>
          /\ Tail(<<a, b, c>>) = <<b, c>>
      BY TailTuples
    <3> QED
      BY <3>1, <3>2, <3>3
  <2>2. CASE place = "pushed"
    <3>1. AppPlans(s, place) = {<<>>, <<d>>}
      BY <2>2 DEF AppPlans
    <3> QED
      BY <1>1, <3>1, TailTuples
  <2>3. CASE place = "ended"
    <3>1. AppPlans(s, place) = {<<>>, <<e>>, <<a, e>>}
      BY <2>3 DEF AppPlans
    <3>2. plan = <<e>> \/ plan = <<a, e>>
      BY <1>1, <3>1
    <3>3. Tail(<<e>>) = <<>> /\ Tail(<<a, e>>) = <<e>>
      BY TailTuples
    <3> QED
      BY <3>1, <3>2, <3>3
  <2>4. CASE place = "closed"
    <3>1. AppPlans(s, place) = Closings(s)
      BY <2>4 DEF AppPlans
    <3> QED
      BY <1>1, <3>1, TailClosings
  <2>5. CASE place \notin {"app", "pushed", "ended", "closed"}
    BY <1>1, <2>5 DEF AppPlans
  <2> QED
    BY <2>1, <2>2, <2>3, <2>4, <2>5
<1>2. ASSUME NEW place \in ReaderPlaces, NEW plan \in ReaderPlans(place), plan # <<>>
      PROVE  Tail(plan) \in ReaderPlans(place)
  <2>1. CASE place \in {"flush", "over"}
    <3>1. ReaderPlans(place) = {<<>>, <<Set(HasData)>>}
      BY <2>1 DEF ReaderPlans
    <3> QED
      BY <1>2, <3>1, TailTuples
  <2>2. CASE place = "closing"
    <3>1. ReaderPlans(place) = {<<>>} \cup UNION {Closings(s) : s \in Streams}
      BY <2>2 DEF ReaderPlans
    <3>2. PICK s \in Streams : plan \in Closings(s)
      BY <1>2, <3>1
    <3>3. Tail(plan) \in Closings(s)
      BY <1>2, <3>2, TailClosings
    <3> QED
      BY <3>1, <3>3
  <2>3. CASE place \notin {"flush", "over", "closing"}
    BY <1>2, <2>3 DEF ReaderPlans
  <2> QED
    BY <2>1, <2>2, <2>3
<1>3. ASSUME NEW place \in SenderPlaces, NEW s \in Streams \cup {NoTask},
             NEW plan \in SenderPlans(place, s), plan # <<>>
      PROVE  Tail(plan) \in SenderPlans(place, s)
  <2> PICK a, b, c, d : /\ a = WaitFor(HasData) /\ b = Clear(HasData)
                        /\ c = Set(Paused(s)) /\ d = Touch(IsEmpty(s))
    OBVIOUS
  <2>1. CASE place = "next"
    <3>1. SenderPlans(place, s) = {<<a, b>>, <<b>>} \cup Finishes
      BY <2>1 DEF SenderPlans, Sleep
    <3>2. CASE plan = <<a, b>>
      BY <3>1, <3>2, TailTuples
    <3>3. CASE plan = <<b>>
      <4>1. Tail(plan) = <<>> /\ <<>> \in Finishes
        BY <3>3, TailTuples, EmptySeq DEF Finishes
      <4> QED
        BY <3>1, <4>1
    <3>4. CASE plan \in Finishes
      <4>1. Tail(plan) \in Finishes
        BY <1>3, <3>4, HeadTailProperties DEF Finishes
      <4> QED
        BY <3>1, <4>1
    <3> QED
      BY <1>3, <3>1, <3>2, <3>3, <3>4
  <2>2. CASE place = "popped"
    <3>1. SenderPlans(place, s) = {<<>>, <<c>>, <<d>>, <<c, d>>}
      BY <2>2 DEF SenderPlans
    <3>2. plan = <<c>> \/ plan = <<d>> \/ plan = <<c, d>>
      BY <1>3, <3>1
    <3>3. Tail(<<c>>) = <<>> /\ Tail(<<d>>) = <<>> /\ Tail(<<c, d>>) = <<d>>
      BY TailTuples
    <3> QED
      BY <3>1, <3>2, <3>3
  <2>3. CASE place = "sent"
    <3>1. SenderPlans(place, s) = Closings(s)
      BY <2>3 DEF SenderPlans
    <3> QED
      BY <1>3, <3>1, TailClosings
  <2>4. CASE place \notin {"next", "popped", "sent"}
    BY <1>3, <2>4 DEF SenderPlans
  <2> QED
    BY <2>1, <2>2, <2>3, <2>4
<1> QED
  BY <1>1, <1>2, <1>3

(* A step of an event keeps the plans.                                     *)
LEMMA ActsPlans ==
    ASSUME Types, Plans, NEW t \in Tasks, Acts(t)
    PROVE  Plans'
<1>1. /\ pc' = pc /\ todo[t] # <<>> /\ todo'[t] \in {todo[t], Tail(todo[t])}
      /\ \A u \in Tasks \ {t} : todo'[u] = todo[u]
      /\ UNCHANGED <<world, dataVars, readerVars, batch>>
  BY DEF Acts, Acted, Parks, Passes
<1>2. batch.stream \in Streams \cup {NoTask}
  BY DEF Types, DataTypes, Batches
<1>3. ASSUME NEW s \in Streams PROVE AppPlanned(s)'
  BY <1>1, TailPlans, TaskNames DEF Plans, AppPlanned
<1>4. ReaderPlanned'
  BY <1>1, TailPlans, TaskNames DEF Plans, ReaderPlanned, readerVars
<1>5. SenderPlanned'
  BY <1>1, <1>2, TailPlans, TaskNames DEF Plans, SenderPlanned, dataVars
<1>6. ASSUME NEW s \in Streams PROVE Alive(s)'
  BY <1>1 DEF Plans, Alive, dataVars
<1> QED
  BY <1>3, <1>4, <1>5, <1>6 DEF Plans

(* A task that goes on keeps the plans of the others.                      *)
LEMMA OthersPlanned ==
    ASSUME Plans, NEW t \in Tasks, NEW place, NEW ops, Moved(t, place, ops)
    PROVE  /\ \A r \in Streams : r # t => AppPlanned(r)'
           /\ t # Reader /\ leaving' = leaving => ReaderPlanned'
           /\ t # Sender /\ batch' = batch
                /\ (\A r \in Streams : response[r].opened => response'[r].opened) => SenderPlanned'
<1>1. \A u \in Tasks : u # t => pc'[u] = pc[u] /\ todo'[u] = todo[u]
  BY DEF Moved
<1>2. \A r \in Streams : r # t => AppPlanned(r)'
  BY <1>1, TaskNames DEF Plans, AppPlanned
<1>3. t # Reader /\ leaving' = leaving => ReaderPlanned'
  BY <1>1, TaskNames DEF Plans, ReaderPlanned
<1>4. t # Sender /\ batch' = batch
                /\ (\A r \in Streams : response[r].opened => response'[r].opened) => SenderPlanned'
  BY <1>1, TaskNames DEF Plans, SenderPlanned
<1> QED
  BY <1>2, <1>3, <1>4

(* The lists of operations as single tuples.                               *)
LEMMA JoinTriple == ASSUME NEW a, NEW b, NEW c PROVE <<a>> \o <<b, c>> = <<a, b, c>>
<1>0. PICK x, y, z : x = <<a>> /\ y = <<b, c>> /\ z = <<a, b, c>>
  OBVIOUS
<1>1. /\ x \in Seq({a, b, c}) /\ y \in Seq({a, b, c}) /\ z \in Seq({a, b, c})
  BY <1>0
<1>2. Len(x) = 1 /\ Len(y) = 2 /\ Len(z) = 3
  BY <1>0
<1>3. /\ x \o y \in Seq({a, b, c}) /\ Len(x \o y) = 3
      /\ \A i \in 1..3 : (x \o y)[i] = IF i <= 1 THEN x[i] ELSE y[i-1]
  BY <1>1, <1>2, ConcatProperties
<1>4. x[1] = a /\ y[1] = b /\ y[2] = c /\ z[1] = a /\ z[2] = b /\ z[3] = c
  BY <1>0
<1>5. \A i \in 1..3 : (x \o y)[i] = z[i]
  BY <1>3, <1>4
<1>6. x \o y = z
  BY <1>1, <1>2, <1>3, <1>5, SeqEqual
<1> QED
  BY <1>0, <1>6

(* Two awaits in a row.                                                    *)
LEMMA JoinPair == ASSUME NEW a, NEW b PROVE <<a>> \o <<b>> = <<a, b>>
<1>0. PICK x, y, z : x = <<a>> /\ y = <<b>> /\ z = <<a, b>>
  OBVIOUS
<1>1. /\ x \in Seq({a, b}) /\ y \in Seq({a, b}) /\ z \in Seq({a, b})
  BY <1>0
<1>2. Len(x) = 1 /\ Len(y) = 1 /\ Len(z) = 2
  BY <1>0
<1>3. /\ x \o y \in Seq({a, b}) /\ Len(x \o y) = 2
      /\ \A i \in 1..2 : (x \o y)[i] = IF i <= 1 THEN x[i] ELSE y[i-1]
  BY <1>1, <1>2, ConcatProperties
<1>4. x[1] = a /\ y[1] = b /\ z[1] = a /\ z[2] = b
  BY <1>0
<1>5. \A i \in 1..2 : (x \o y)[i] = z[i]
  BY <1>3, <1>4
<1>6. x \o y = z
  BY <1>1, <1>2, <1>3, <1>5, SeqEqual
<1> QED
  BY <1>0, <1>6

(* An await and nothing.                                                   *)
LEMMA JoinNothing ==
    ASSUME NEW a PROVE <<a>> \o <<>> = <<a>> /\ <<>> \o <<a>> = <<a>> /\ <<>> \o <<>> = <<>>
<1>1. <<a>> \in Seq({a}) /\ <<>> \in Seq({a})
  BY EmptySeq
<1> QED
  BY <1>1, ConcatEmptySeq

(* What a push awaits.                                                     *)
LEMMA PushPlan ==
    ASSUME NEW s
    PROVE  PushOps(s)
             = IF Full(s) THEN <<Set(HasData), WaitFor(Paused(s)), Clear(Paused(s))>>
               ELSE <<Set(HasData)>>
<1> PICK a, b, c : a = Set(HasData) /\ b = WaitFor(Paused(s)) /\ c = Clear(Paused(s))
  OBVIOUS
<1>1. <<a>> \o <<b, c>> = <<a, b, c>> /\ <<a>> \o <<>> = <<a>>
  BY JoinTriple, JoinNothing
<1> QED
  BY <1>1 DEF Room, PushOps

(* What a pop awaits.                                                      *)
LEMMA PopPlan ==
    ASSUME NEW s, NEW n, NEW left
    PROVE  PopSets(s, n, left) =
             IF n > 0 /\ left <= LowWater
             THEN IF left = 0 THEN <<Set(Paused(s)), Touch(IsEmpty(s))>> ELSE <<Set(Paused(s))>>
             ELSE IF left = 0 THEN <<Touch(IsEmpty(s))>> ELSE <<>>
<1> PICK a, b : a = Set(Paused(s)) /\ b = Touch(IsEmpty(s))
  OBVIOUS
<1>1. /\ <<a>> \o <<b>> = <<a, b>> /\ <<a>> \o <<>> = <<a>> /\ <<>> \o <<b>> = <<b>>
      /\ <<>> \o <<>> = <<>>
  BY JoinPair, JoinNothing
<1> QED
  BY <1>1 DEF PopSets

(* The steps of the applications keep the plans.                           *)
LEMMA AppStepsPlans ==
    ASSUME Types, Plans, NEW s \in Streams, AppSteps(s), ~(\E r \in Streams : Opens(r))
    PROVE  Plans'
<1>1. s \in Tasks /\ s # Reader /\ s # Sender
  BY TaskNames
<1>2. AppPlanned(s) /\ Alive(s)
  BY DEF Plans
<1>3. ASSUME NEW place \in AppPlaces \ {"none"}, NEW ops \in AppPlans(s, place), Moved(s, place, ops),
             pc[s] # "none", leaving' = leaving, batch' = batch,
             \A r \in Streams : response'[r].opened = response[r].opened,
             \A r \in Streams : /\ buffers'[r].present => buffers[r].present
                                /\ r \in active' => buffers'[r].present
      PROVE  Plans'
  <2>1. pc'[s] = place /\ todo'[s] = ops /\ \A u \in Tasks : u # s => pc'[u] = pc[u]
    BY <1>1, <1>3 DEF Moved
  <2>2. AppPlanned(s)'
    BY <1>3, <2>1 DEF AppPlanned
  <2>3. (\A r \in Streams : r # s => AppPlanned(r)') /\ ReaderPlanned' /\ SenderPlanned'
    BY <1>1, <1>3, OthersPlanned
  <2>4. ASSUME NEW r \in Streams PROVE Alive(r)'
    <3>1. pc'[r] # "none" <=> pc[r] # "none"
      BY <1>3, <2>1, TaskNames
    <3> QED
      BY <1>3, <3>1 DEF Plans, Alive
  <2> QED
    BY <2>2, <2>3, <2>4 DEF Plans
<1>4. \A r \in Streams : r \in active => buffers[r].present
  BY DEF Plans, Alive
<1>5. CASE AppGoes(s)
  <2>1. PICK place \in AppPlaces :
          /\ Quiet(s, place, <<>>) /\ pc[s] # "none" /\ place # "none" /\ leaving' = leaving
    BY <1>5 DEF AppGoes
  <2>2. <<>> \in AppPlans(s, place)
    BY NothingPlanned
  <2> QED
    BY <1>3, <1>4, <2>1, <2>2 DEF Quiet
<1>6. ASSUME NEW n \in Sizes, Sends(s, n) PROVE Plans'
  <2>1. <<Touch(IsEmpty(s))>> \in AppPlans(s, "pushed") /\ "pushed" \in AppPlaces \ {"none"}
    BY DEF AppPlans, AppPlaces
  <2> QED
    BY <1>3, <1>4, <1>6, <2>1 DEF Sends, readerVars
<1>7. CASE Schedules(s)
  <2>1. PICK ops : ops = PushOps(s)
    OBVIOUS
  <2>2. ops \in AppPlans(s, "app") /\ "app" \in AppPlaces \ {"none"}
    BY <2>1, PushPlan DEF AppPlans, AppPlaces
  <2>3. \A r \in Streams : r \in active' => buffers[r].present
    BY <1>4, <1>7 DEF Schedules, Present
  <2> QED
    BY <1>3, <1>7, <2>1, <2>2, <2>3 DEF Schedules, readerVars
<1>8. CASE Completes(s)
  <2>1. /\ <<Set(HasData), WaitFor(Finished(s))>> \in AppPlans(s, "ended")
        /\ "ended" \in AppPlaces \ {"none"}
    BY DEF AppPlans, AppPlaces
  <2>2. \A r \in Streams : r \in active' => buffers'[r].present
    BY <1>4, <1>8 DEF Completes, Present
  <2> QED
    BY <1>3, <1>8, <2>1, <2>2 DEF Completes, readerVars
<1>9. CASE Abandons(s)
  <2>1. <<>> \in AppPlans(s, "ended") /\ "ended" \in AppPlaces \ {"none"}
    BY NothingPlanned DEF AppPlaces
  <2> QED
    BY <1>3, <1>4, <1>9, <2>1 DEF Abandons, readerVars
<1>10. CASE Shuts(s, s, "closed")
  <2>1. CloseOps(s) \in AppPlans(s, "closed") /\ "closed" \in AppPlaces \ {"none"}
    BY DEF AppPlans, AppPlaces, Closings
  <2>2. \A r \in Streams : r \in active' => buffers'[r].present
    BY <1>4, <1>10 DEF Shuts
  <2>3. pc[s] # "none" /\ leaving' = leaving
    BY <1>1, <1>10 DEF Shuts
  <2> QED
    BY <1>3, <1>10, <2>1, <2>2, <2>3 DEF Shuts
<1> QED
  BY <1>5, <1>6, <1>7, <1>8, <1>9, <1>10 DEF AppSteps

(* Opening a stream keeps the plans.                                       *)
LEMMA OpensPlans ==
    ASSUME Types, Plans, Lines, NEW r \in Streams, Opens(r)
    PROVE  Plans'
<1>1. PICK s \in Streams \cup {Reader} :
         /\ todo[s] = <<>> /\ s # r
         /\ \/ s = Reader /\ pc[s] = "read"
               /\ \A u \in Tasks : pc'[u] = IF u = r THEN "app"
                                             ELSE IF u = Reader THEN "handled" ELSE pc[u]
            \/ s \in Streams /\ pc[s] = "promising"
               /\ \A u \in Tasks : pc'[u] = IF u \in {r, s} THEN "app" ELSE pc[u]
  BY DEF Opens
<1>2. /\ ~response[r].opened /\ todo' = todo
      /\ UNCHANGED <<active, leaving, batch>>
      /\ \A q \in Streams :
           /\ buffers'[q].present = (q = r \/ buffers[q].present)
           /\ response'[q].opened = (q = r \/ response[q].opened)
  BY DEF Opens
<1>3. todo[r] = <<>> /\ pc[r] = "none"
  BY <1>2 DEF Plans, Alive, AppPlanned, AppPlans
<1>4. ASSUME NEW q \in Streams PROVE AppPlanned(q)' /\ Alive(q)'
  <2>1. q \in Tasks /\ q # Reader
    BY TaskNames
  <2>2. CASE q = r \/ (q = s /\ s # Reader)
    <3>1. pc'[q] = "app" /\ todo'[q] = <<>> /\ (q = s => pc[q] = "promising")
      BY <1>1, <1>2, <1>3, <2>1, <2>2
    <3>2. AppPlanned(q)'
      BY <3>1, NothingPlanned DEF AppPlanned, AppPlaces
    <3>3. Alive(q)'
      BY <1>2, <2>2, <3>1 DEF Plans, Alive
    <3> QED
      BY <3>2, <3>3
  <2>3. CASE q # r /\ (q # s \/ s = Reader)
    <3>1. pc'[q] = pc[q] /\ todo'[q] = todo[q]
      BY <1>1, <1>2, <2>1, <2>3
    <3> QED
      BY <1>2, <2>3, <3>1 DEF Plans, Alive, AppPlanned
  <2> QED
    BY <2>2, <2>3
<1>5. /\ pc'[Sender] = pc[Sender]
      /\ pc'[Reader] = pc[Reader] \/ (s = Reader /\ pc'[Reader] = "handled")
  BY <1>1, TaskNames
<1>6. ReaderPlanned'
  <2>1. CASE pc'[Reader] = pc[Reader]
    BY <1>2, <2>1 DEF Plans, ReaderPlanned
  <2>2. CASE s = Reader /\ pc'[Reader] = "handled"
    <3>1. todo'[Reader] = <<>>
      BY <1>1, <1>2, <2>2
    <3> QED
      BY <2>2, <3>1, NothingPlanned DEF ReaderPlanned, ReaderPlaces
  <2> QED
    BY <1>5, <2>1, <2>2
<1>7. SenderPlanned'
  BY <1>2, <1>5 DEF Plans, SenderPlanned
<1> QED
  BY <1>4, <1>6, <1>7 DEF Plans

(* The steps of the reader keep the plans.                                 *)
LEMMA ReaderStepsPlans ==
    ASSUME Types, Plans, ReaderSteps, ~(\E r \in Streams : Opens(r))
    PROVE  Plans'
<1>1. Reader \in Tasks /\ Reader # Sender /\ \A s \in Streams : s # Reader
  BY TaskNames
<1>2. ASSUME NEW place \in ReaderPlaces, NEW ops \in ReaderPlans(place), Moved(Reader, place, ops),
             place = "popping" => leaving' # <<>>, batch' = batch,
             \A r \in Streams : response'[r].opened = response[r].opened,
             \A r \in Streams : /\ buffers'[r].present => buffers[r].present
                                /\ r \in active' => buffers'[r].present
      PROVE  Plans'
  <2>1. /\ pc'[Reader] = place /\ todo'[Reader] = ops
        /\ \A u \in Tasks : u # Reader => pc'[u] = pc[u]
    BY <1>1, <1>2 DEF Moved
  <2>2. ReaderPlanned'
    BY <1>2, <2>1 DEF ReaderPlanned
  <2>3. (\A r \in Streams : AppPlanned(r)') /\ SenderPlanned'
    BY <1>1, <1>2, OthersPlanned
  <2>4. ASSUME NEW r \in Streams PROVE Alive(r)'
    <3>1. pc'[r] = pc[r]
      BY <1>1, <2>1, TaskNames
    <3> QED
      BY <1>2, <3>1 DEF Plans, Alive
  <2> QED
    BY <2>2, <2>3, <2>4 DEF Plans
<1>3. \A r \in Streams : r \in active => buffers[r].present
  BY DEF Plans, Alive
<1>4. CASE ReaderGoes
  <2>1. PICK place \in ReaderPlaces, ops \in {<<>>, <<Set(HasData)>>} :
          /\ Quiet(Reader, place, ops)
          /\ ops # <<>> => place \in {"over", "flush"}
          /\ place = "popping" => leaving' # <<>>
    BY <1>4 DEF ReaderGoes
  <2>2. ops \in ReaderPlans(place)
    BY <2>1, NothingPlanned DEF ReaderPlans
  <2> QED
    BY <1>2, <1>3, <2>1, <2>2 DEF Quiet
<1>5. CASE Windows
  <2>1. <<>> \in ReaderPlans("update") /\ "update" \in ReaderPlaces
    BY NothingPlanned DEF ReaderPlaces
  <2> QED
    BY <1>2, <1>3, <1>5, <2>1 DEF Windows, Quiet
<1>6. CASE Breaks
  <2>1. <<>> \in ReaderPlans("closing") /\ "closing" \in ReaderPlaces
    BY NothingPlanned DEF ReaderPlaces
  <2> QED
    BY <1>2, <1>3, <1>6, <2>1 DEF Breaks, Quiet
<1>7. CASE Updates
  <2>1. <<Set(HasData)>> \in ReaderPlans("flush") /\ "flush" \in ReaderPlaces
    BY DEF ReaderPlans, ReaderPlaces
  <2>2. \A r \in Streams : r \in active' => buffers[r].present
    BY <1>3, <1>7 DEF Updates, Present
  <2> QED
    BY <1>2, <1>7, <2>1, <2>2 DEF Updates
<1>8. ASSUME NEW s \in Streams, Shuts(Reader, s, "closing") PROVE Plans'
  <2>1. CloseOps(s) \in ReaderPlans("closing") /\ "closing" \in ReaderPlaces
    BY DEF ReaderPlans, ReaderPlaces, Closings
  <2>2. \A r \in Streams : r \in active' => buffers'[r].present
    BY <1>3, <1>8 DEF Shuts
  <2> QED
    BY <1>2, <1>8, <2>1, <2>2 DEF Shuts
<1> QED
  BY <1>4, <1>5, <1>6, <1>7, <1>8 DEF ReaderSteps

(* The steps of the sender keep the plans.                                 *)
LEMMA SenderStepsPlans ==
    ASSUME Types, Plans, SenderSteps
    PROVE  Plans'
<1>1. Sender \in Tasks /\ Reader # Sender /\ \A s \in Streams : s # Sender
  BY TaskNames
<1>2. ASSUME NEW place \in SenderPlaces, NEW ops \in SenderPlans(place, batch'.stream),
             Moved(Sender, place, ops),
             place \in {"send", "popped", "sent"} =>
                batch'.stream \in Streams /\ response[batch'.stream].opened,
             leaving' = leaving,
             \A r \in Streams : response'[r].opened = response[r].opened,
             \A r \in Streams : /\ buffers'[r].present => buffers[r].present
                                /\ r \in active' => buffers'[r].present
      PROVE  Plans'
  <2>1. /\ pc'[Sender] = place /\ todo'[Sender] = ops
        /\ \A u \in Tasks : u # Sender => pc'[u] = pc[u]
    BY <1>1, <1>2 DEF Moved
  <2>2. SenderPlanned'
    BY <1>2, <2>1 DEF SenderPlanned
  <2>3. (\A r \in Streams : AppPlanned(r)') /\ ReaderPlanned'
    BY <1>1, <1>2, OthersPlanned
  <2>4. ASSUME NEW r \in Streams PROVE Alive(r)'
    <3>1. pc'[r] = pc[r]
      BY <1>1, <2>1, TaskNames
    <3> QED
      BY <1>2, <3>1 DEF Plans, Alive
  <2> QED
    BY <2>2, <2>3, <2>4 DEF Plans
<1>3. \A r \in Streams : r \in active => buffers[r].present /\ response[r].opened
  BY DEF Plans, Alive
<1>4. /\ pc[Sender] \in {"send", "popped", "sent"} =>
            batch.stream \in Streams /\ response[batch.stream].opened
      /\ batch.stream \in Streams \cup {NoTask}
  BY DEF Plans, SenderPlanned, Types, DataTypes, Batches
<1>5. CASE SenderGoes
  <2>1. PICK place \in SenderPlaces, ops \in {<<>>, Sleep} :
          /\ Quiet(Sender, place, ops) /\ leaving' = leaving
          /\ ops # <<>> => place = "next" /\ ops = Sleep
          /\ place \in {"send", "popped", "sent"} => pc[Sender] \in {"send", "popped", "sent"}
    BY <1>5 DEF SenderGoes, readerVars
  <2>2. ops \in SenderPlans(place, batch.stream)
    <3>1. CASE ops = <<>>
      BY <1>4, <3>1, NothingPlanned
    <3>2. CASE ops # <<>>
      BY <2>1, <3>2 DEF SenderPlans
    <3> QED
      BY <3>1, <3>2
  <2> QED
    BY <1>2, <1>3, <1>4, <2>1, <2>2 DEF Quiet
<1>6. CASE Finishing
  <2>1. FinishOps \in SenderPlans("next", batch'.stream) /\ "next" \in SenderPlaces
    BY FinishOpsTypes DEF SenderPlans, SenderPlaces
  <2> QED
    BY <1>2, <1>3, <1>6, <2>1 DEF Finishing, dataVars, readerVars
<1>7. ASSUME NEW s \in Streams, Picks(s) PROVE Plans'
  <2>1. <<>> \in SenderPlans("send", s) /\ "send" \in SenderPlaces
    BY NothingPlanned DEF SenderPlaces
  <2> QED
    BY <1>2, <1>3, <1>7, <2>1 DEF Picks, dataVars, readerVars
<1>8. ASSUME NEW s \in Streams, NEW n \in Nat, Pops(s, n) PROVE Plans'
  <2>1. PICK ops : ops = PopSets(s, n, buffers[s].size - n)
    OBVIOUS
  <2>2. ops \in SenderPlans("popped", s) /\ "popped" \in SenderPlaces
    BY <2>1, PopPlan DEF SenderPlans, SenderPlaces
  <2> QED
    BY <1>2, <1>3, <1>4, <1>8, <2>1, <2>2 DEF Pops, readerVars
<1>9. ASSUME NEW s \in Streams, Ships(s) PROVE Plans'
  <2>1. <<>> \in SenderPlans("sent", s) /\ "sent" \in SenderPlaces
    BY NothingPlanned DEF SenderPlaces
  <2>2. \A r \in Streams : r \in active' => buffers'[r].present
    BY <1>3, <1>9 DEF Ships
  <2>3. \A r \in Streams : /\ response'[r].opened = response[r].opened
                           /\ buffers'[r].present => buffers[r].present
    BY <1>9 DEF Ships
  <2>4. /\ Moved(Sender, "sent", <<>>) /\ batch'.stream = s /\ s = batch.stream
        /\ pc[Sender] = "popped" /\ leaving' = leaving
    BY <1>9 DEF Ships, readerVars
  <2> QED
    BY <1>2, <1>4, <2>1, <2>2, <2>3, <2>4
<1>10. ASSUME NEW s \in Streams, Shuts(Sender, s, "sent") PROVE Plans'
  <2>1. CloseOps(s) \in SenderPlans("sent", s) /\ "sent" \in SenderPlaces
    BY DEF SenderPlans, SenderPlaces, Closings
  <2>2. \A r \in Streams : r \in active' => buffers'[r].present
    BY <1>3, <1>10 DEF Shuts
  <2>3. /\ s = batch.stream /\ pc[Sender] \in {"send", "popped"} /\ leaving' = leaving
        /\ Moved(Sender, "sent", CloseOps(s)) /\ batch' = batch /\ response' = response
        /\ \A r \in Streams : buffers'[r].present => buffers[r].present
    BY <1>1, <1>10 DEF Shuts
  <2> QED
    BY <1>2, <1>4, <2>1, <2>2, <2>3
<1> QED
  BY <1>5, <1>6, <1>7, <1>8, <1>9, <1>10 DEF SenderSteps

(* Every step keeps the plans.                                             *)
LEMMA StepPlans ==
    ASSUME Types, Plans, Lines, Steps
    PROVE  Plans'
BY ActsPlans, AppStepsPlans, OpensPlans, ReaderStepsPlans, SenderStepsPlans
   DEF Steps, AppSteps, ReaderSteps


-----------------------------------------------------------------------------
(* What the tasks have still to do.                                        *)

(* The members of short lists.                                             *)
LEMMA InTuples ==
    /\ \A x : ~In(x, <<>>)
    /\ \A x, a : In(x, <<a>>) <=> x = a
    /\ \A x, a, b : In(x, <<a, b>>) <=> x \in {a, b}
    /\ \A x, a, b, c : In(x, <<a, b, c>>) <=> x \in {a, b, c}
    /\ \A x, a, b, c, d : In(x, <<a, b, c, d>>) <=> x \in {a, b, c, d}
<1>1. \A x : ~In(x, <<>>)
  BY DEF In
<1>2. ASSUME NEW x, NEW a PROVE In(x, <<a>>) <=> x = a
  <2>0. PICK q : q = <<a>>
    OBVIOUS
  <2>1. Len(q) = 1 /\ q[1] = a
    BY <2>0
  <2>2. \A i : i \in 1..1 <=> i = 1
    OBVIOUS
  <2> QED
    BY <2>0, <2>1, <2>2 DEF In
<1>3. ASSUME NEW x, NEW a, NEW b PROVE In(x, <<a, b>>) <=> x \in {a, b}
  <2>0. PICK q : q = <<a, b>>
    OBVIOUS
  <2>1. Len(q) = 2 /\ q[1] = a /\ q[2] = b
    BY <2>0
  <2>2. \A i : i \in 1..2 <=> i \in {1, 2}
    OBVIOUS
  <2> QED
    BY <2>0, <2>1, <2>2 DEF In
<1>4. ASSUME NEW x, NEW a, NEW b, NEW c PROVE In(x, <<a, b, c>>) <=> x \in {a, b, c}
  <2>0. PICK q : q = <<a, b, c>>
    OBVIOUS
  <2>1. Len(q) = 3 /\ q[1] = a /\ q[2] = b /\ q[3] = c
    BY <2>0
  <2>2. \A i : i \in 1..3 <=> i \in {1, 2, 3}
    OBVIOUS
  <2> QED
    BY <2>0, <2>1, <2>2 DEF In
<1>5. ASSUME NEW x, NEW a, NEW b, NEW c, NEW d PROVE In(x, <<a, b, c, d>>) <=> x \in {a, b, c, d}
  <2>0. PICK q : q = <<a, b, c, d>>
    OBVIOUS
  <2>1. Len(q) = 4 /\ q[1] = a /\ q[2] = b /\ q[3] = c /\ q[4] = d
    BY <2>0
  <2>2. \A i : i \in 1..4 <=> i \in {1, 2, 3, 4}
    OBVIOUS
  <2> QED
    BY <2>0, <2>1, <2>2 DEF In
<1> QED
  BY <1>1, <1>2, <1>3, <1>4, <1>5

(* The members of a list are its head and those of its tail.               *)
LEMMA InTail ==
    ASSUME NEW S, NEW q \in Seq(S), q # <<>>
    PROVE  \A x : In(x, q) <=> x = Head(q) \/ In(x, Tail(q))
<1>0. PICK r, n : r = Tail(q) /\ n = Len(q)
  OBVIOUS
<1>1. /\ n \in Nat /\ n > 0 /\ Len(r) = n - 1 /\ Len(q) = n
      /\ Head(q) = q[1] /\ \A i \in 1..(n-1) : r[i] = q[i+1]
  BY <1>0, EmptySeq, HeadTailProperties
<1>2. \A i \in 1..(n-1) : i + 1 \in 1..n
  BY <1>1
<1>3. \A i \in 1..n : i # 1 => i - 1 \in 1..(n-1) /\ r[i-1] = q[i]
  BY <1>1
<1>4. 1 \in 1..n
  BY <1>1
<1>5. ASSUME NEW x, In(x, q) PROVE x = Head(q) \/ In(x, r)
  <2>1. PICK i \in 1..n : q[i] = x
    BY <1>1, <1>5 DEF In
  <2>2. CASE i = 1
    BY <1>1, <2>1, <2>2
  <2>3. CASE i # 1
    BY <1>1, <1>3, <2>1, <2>3 DEF In
  <2> QED
    BY <2>2, <2>3
<1>6. ASSUME NEW x, x = Head(q) \/ In(x, r) PROVE In(x, q)
  <2>1. CASE x = Head(q)
    BY <1>1, <1>4, <2>1 DEF In
  <2>2. CASE In(x, r)
    <3>1. PICK i \in 1..(n-1) : r[i] = x
      BY <1>1, <2>2 DEF In
    <3> QED
      BY <1>1, <1>2, <3>1 DEF In
  <2> QED
    BY <1>6, <2>1, <2>2
<1> QED
  BY <1>0, <1>5, <1>6

(* The fields of the awaits.                                               *)
LEMMA OpNames ==
    /\ \A e : /\ Set(e).do = "set" /\ Set(e).on = e /\ Clear(e).do = "clear" /\ Clear(e).on = e
              /\ WaitFor(e).do = "wait" /\ WaitFor(e).on = e
              /\ Touch(e).do = "touch" /\ Touch(e).on = e
BY DEF Set, Clear, WaitFor, Touch

(* What a task may have among its awaits, by its place.                    *)
Closes(s) == {Touch(IsEmpty(s)), Set(Paused(s)), Set(Finished(s)), Set(HasData)}

AppHas(s, op) ==
    \/ pc[s] = "app" /\ op \in {Set(HasData), WaitFor(Paused(s)), Clear(Paused(s))}
    \/ pc[s] = "pushed" /\ op = Touch(IsEmpty(s))
    \/ pc[s] = "ended" /\ op \in {Set(HasData), WaitFor(Finished(s))}
    \/ pc[s] = "closed" /\ op \in Closes(s)

ReaderHas(op) ==
    \/ pc[Reader] \in {"flush", "over", "closing"} /\ op = Set(HasData)
    \/ pc[Reader] = "closing" /\ \E s \in Streams : op \in Closes(s)

SenderHas(op) ==
    \/ pc[Sender] = "next" /\ op \in {WaitFor(HasData), Clear(HasData)}
    \/ pc[Sender] = "next" /\ \E s \in Streams : op = Set(Finished(s))
    \/ pc[Sender] = "popped" /\ op \in {Set(Paused(batch.stream)), Touch(IsEmpty(batch.stream))}
    \/ pc[Sender] = "sent" /\ op \in Closes(batch.stream)

(* The awaits of closing a buffer.                                         *)
LEMMA ClosingsHave == ASSUME NEW s, NEW plan \in Closings(s), NEW op, In(op, plan) PROVE op \in Closes(s)
<1> PICK a, b, c, d : /\ a = Touch(IsEmpty(s)) /\ b = Set(Paused(s))
                      /\ c = Set(Finished(s)) /\ d = Set(HasData)
  OBVIOUS
<1>1. plan \in {<<>>, <<d>>, <<c, d>>, <<b, c, d>>, <<a, b, c, d>>}
  BY DEF Closings, CloseOps
<1>2. Closes(s) = {a, b, c, d}
  BY DEF Closes
<1>3. CASE plan = <<>>
  BY <1>3, InTuples
<1>4. CASE plan = <<d>>
  BY <1>2, <1>4, InTuples
<1>5. CASE plan = <<c, d>>
  BY <1>2, <1>5, InTuples
<1>6. CASE plan = <<b, c, d>>
  BY <1>2, <1>6, InTuples
<1>7. CASE plan = <<a, b, c, d>>
  BY <1>2, <1>7, InTuples
<1> QED
  BY <1>1, <1>3, <1>4, <1>5, <1>6, <1>7

(* A task has among its awaits what its place allows.                      *)
LEMMA Having ==
    ASSUME Plans, NEW t \in Tasks, NEW op, In(op, todo[t])
    PROVE  \/ t \in Streams /\ AppHas(t, op)
           \/ t = Reader /\ ReaderHas(op)
           \/ t = Sender /\ SenderHas(op)
<1>1. CASE t \in Streams
  <2> PICK a, b, c, d, e : /\ a = Set(HasData) /\ b = WaitFor(Paused(t)) /\ c = Clear(Paused(t))
                           /\ d = Touch(IsEmpty(t)) /\ e = WaitFor(Finished(t))
    OBVIOUS
  <2>0. todo[t] \in AppPlans(t, pc[t])
    BY <1>1 DEF Plans, AppPlanned
  <2>1. CASE pc[t] = "app"
    <3>1. todo[t] \in {<<>>, <<a>>, <<c>>, <<b, c>>, <<a, b, c>>}
      BY <2>0, <2>1 DEF AppPlans, Room
    <3>2. CASE todo[t] = <<>>
      BY <3>2, InTuples
    <3>3. CASE todo[t] = <<a>>
      BY <1>1, <2>1, <3>3, InTuples DEF AppHas
    <3>4. CASE todo[t] = <<c>>
      BY <1>1, <2>1, <3>4, InTuples DEF AppHas
    <3>5. CASE todo[t] = <<b, c>>
      BY <1>1, <2>1, <3>5, InTuples DEF AppHas
    <3>6. CASE todo[t] = <<a, b, c>>
      BY <1>1, <2>1, <3>6, InTuples DEF AppHas
    <3> QED
      BY <3>1, <3>2, <3>3, <3>4, <3>5, <3>6
  <2>2. CASE pc[t] = "pushed"
    <3>1. todo[t] \in {<<>>, <<d>>}
      BY <2>0, <2>2 DEF AppPlans
    <3> QED
      BY <1>1, <2>2, <3>1, InTuples DEF AppHas
  <2>3. CASE pc[t] = "ended"
    <3>1. todo[t] \in {<<>>, <<e>>, <<a, e>>}
      BY <2>0, <2>3 DEF AppPlans
    <3>2. CASE todo[t] = <<>>
      BY <3>2, InTuples
    <3>3. CASE todo[t] = <<e>>
      BY <1>1, <2>3, <3>3, InTuples DEF AppHas
    <3>4. CASE todo[t] = <<a, e>>
      BY <1>1, <2>3, <3>4, InTuples DEF AppHas
    <3> QED
      BY <3>1, <3>2, <3>3, <3>4
  <2>4. CASE pc[t] = "closed"
    <3>1. todo[t] \in Closings(t)
      BY <2>0, <2>4 DEF AppPlans
    <3> QED
      BY <1>1, <2>4, <3>1, ClosingsHave DEF AppHas
  <2>5. CASE pc[t] \notin {"app", "pushed", "ended", "closed"}
    <3>1. todo[t] = <<>>
      BY <2>0, <2>5 DEF AppPlans
    <3> QED
      BY <3>1, InTuples
  <2> QED
    BY <2>1, <2>2, <2>3, <2>4, <2>5
<1>2. CASE t = Reader
  <2>0. todo[Reader] \in ReaderPlans(pc[Reader])
    BY DEF Plans, ReaderPlanned
  <2>1. CASE pc[Reader] \in {"flush", "over"}
    <3>1. todo[Reader] \in {<<>>, <<Set(HasData)>>}
      BY <2>0, <2>1 DEF ReaderPlans
    <3> QED
      BY <1>2, <2>1, <3>1, InTuples DEF ReaderHas
  <2>2. CASE pc[Reader] = "closing"
    <3>1. todo[Reader] = <<>> \/ \E s \in Streams : todo[Reader] \in Closings(s)
      BY <2>0, <2>2 DEF ReaderPlans
    <3> QED
      BY <1>2, <2>2, <3>1, InTuples, ClosingsHave DEF ReaderHas
  <2>3. CASE pc[Reader] \notin {"flush", "over", "closing"}
    <3>1. todo[Reader] = <<>>
      BY <2>0, <2>3 DEF ReaderPlans
    <3> QED
      BY <1>2, <3>1, InTuples
  <2> QED
    BY <2>1, <2>2, <2>3
<1>3. CASE t = Sender
  <2> PICK a, b, c, d, s : /\ a = WaitFor(HasData) /\ b = Clear(HasData) /\ s = batch.stream
                           /\ c = Set(Paused(s)) /\ d = Touch(IsEmpty(s))
    OBVIOUS
  <2>0. todo[Sender] \in SenderPlans(pc[Sender], s)
    BY DEF Plans, SenderPlanned
  <2>1. CASE pc[Sender] = "next"
    <3>1. todo[Sender] = <<a, b>> \/ todo[Sender] = <<b>> \/ todo[Sender] \in Finishes
      BY <2>0, <2>1 DEF SenderPlans, Sleep
    <3>2. CASE todo[Sender] = <<a, b>>
      BY <1>3, <2>1, <3>2, InTuples DEF SenderHas
    <3>3. CASE todo[Sender] = <<b>>
      BY <1>3, <2>1, <3>3, InTuples DEF SenderHas
    <3>4. CASE todo[Sender] \in Finishes
      <4>1. op \in {Set(Finished(r)) : r \in Streams}
        BY <1>3, <3>4, ElementOfSeq DEF In, Finishes
      <4> QED
        BY <1>3, <2>1, <4>1 DEF SenderHas
    <3> QED
      BY <3>1, <3>2, <3>3, <3>4
  <2>2. CASE pc[Sender] = "popped"
    <3>1. todo[Sender] \in {<<>>, <<c>>, <<d>>, <<c, d>>}
      BY <2>0, <2>2 DEF SenderPlans
    <3>2. CASE todo[Sender] = <<>>
      BY <1>3, <3>2, InTuples
    <3>3. CASE todo[Sender] = <<c>>
      BY <1>3, <2>2, <3>3, InTuples DEF SenderHas
    <3>4. CASE todo[Sender] = <<d>>
      BY <1>3, <2>2, <3>4, InTuples DEF SenderHas
    <3>5. CASE todo[Sender] = <<c, d>>
      BY <1>3, <2>2, <3>5, InTuples DEF SenderHas
    <3> QED
      BY <3>1, <3>2, <3>3, <3>4, <3>5
  <2>3. CASE pc[Sender] = "sent"
    <3>1. todo[Sender] \in Closings(s)
      BY <2>0, <2>3 DEF SenderPlans
    <3> QED
      BY <1>3, <2>3, <3>1, ClosingsHave DEF SenderHas
  <2>4. CASE pc[Sender] \notin {"next", "popped", "sent"}
    <3>1. todo[Sender] = <<>>
      BY <2>0, <2>4 DEF SenderPlans
    <3> QED
      BY <1>3, <3>1, InTuples
  <2> QED
    BY <2>1, <2>2, <2>3, <2>4
<1> QED
  BY <1>1, <1>2, <1>3 DEF Tasks

(* The same, by the event.                                                 *)
LEMMA Owners ==
    ASSUME Types, Plans, NEW t \in Tasks, NEW op, In(op, todo[t]), NEW s \in Streams
    PROVE  /\ op.on = HasData => \/ op = Set(HasData)
                                 \/ /\ op \in {WaitFor(HasData), Clear(HasData)}
                                    /\ t = Sender /\ pc[Sender] = "next"
           /\ op.on = IsEmpty(s) =>
                /\ op = Touch(IsEmpty(s))
                /\ \/ t = s /\ pc[s] \in {"pushed", "closed"}
                   \/ t = Reader /\ pc[Reader] = "closing"
                   \/ t = Sender /\ batch.stream = s /\ pc[Sender] \in {"popped", "sent"}
           /\ op.on = Paused(s) =>
                \/ op \in {WaitFor(Paused(s)), Clear(Paused(s))} /\ t = s /\ pc[s] = "app"
                \/ /\ op = Set(Paused(s))
                   /\ \/ t = s /\ pc[s] = "closed"
                      \/ t = Reader /\ pc[Reader] = "closing"
                      \/ t = Sender /\ batch.stream = s /\ pc[Sender] \in {"popped", "sent"}
           /\ op.on = Finished(s) =>
                \/ op = WaitFor(Finished(s)) /\ t = s /\ pc[s] = "ended"
                \/ /\ op = Set(Finished(s))
                   /\ \/ t = s /\ pc[s] = "closed"
                      \/ t = Reader /\ pc[Reader] = "closing"
                      \/ t = Sender /\ pc[Sender] \in {"next", "sent"}
<1>1. /\ Sender \notin Streams /\ Reader \notin Streams /\ Reader # Sender
      /\ pc[Sender] \in {"popped", "sent"} => batch.stream \in Streams
  BY TaskNames DEF Plans, SenderPlanned
<1>2. CASE t \in Streams
  <2>1. AppHas(t, op)
    BY <1>1, <1>2, Having
  <2>2. op \in {Set(HasData), WaitFor(Paused(t)), Clear(Paused(t)), Touch(IsEmpty(t)),
                WaitFor(Finished(t)), Set(Paused(t)), Set(Finished(t))}
    BY <2>1 DEF AppHas, Closes
  <2>3. /\ op = WaitFor(Paused(t)) \/ op = Clear(Paused(t)) => pc[t] = "app"
        /\ op = WaitFor(Finished(t)) => pc[t] = "ended"
        /\ op = Touch(IsEmpty(t)) => pc[t] \in {"pushed", "closed"}
        /\ op = Set(Paused(t)) \/ op = Set(Finished(t)) => pc[t] = "closed"
    BY <1>2, <2>1, OpNames, EventNames DEF AppHas, Closes
  <2> QED
    BY <1>2, <2>2, <2>3, OpNames, EventNames
<1>3. CASE t = Reader
  <2>1. ReaderHas(op)
    BY <1>1, <1>3, Having
  <2>2. op = Set(HasData) \/ \E r \in Streams : pc[Reader] = "closing" /\ op \in Closes(r)
    BY <2>1 DEF ReaderHas
  <2>3. CASE op = Set(HasData)
    BY <2>3, OpNames, EventNames
  <2>4. ASSUME NEW r \in Streams, op \in Closes(r), pc[Reader] = "closing"
        PROVE  /\ op = Set(HasData) \/ op = Touch(IsEmpty(r)) \/ op = Set(Paused(r)) \/ op = Set(Finished(r))
               /\ op.on \in {IsEmpty(s), Paused(s), Finished(s)} => r = s
    BY <2>4, OpNames, EventNames DEF Closes
  <2> QED
    BY <1>3, <2>2, <2>3, <2>4, OpNames, EventNames
<1>4. CASE t = Sender
  <2>1. SenderHas(op)
    BY <1>1, <1>4, Having
  <2>2. CASE pc[Sender] = "next" /\ op \in {WaitFor(HasData), Clear(HasData)}
    BY <1>4, <2>2, OpNames, EventNames
  <2>3. CASE pc[Sender] = "next" /\ \E r \in Streams : op = Set(Finished(r))
    <3>1. PICK r \in Streams : op = Set(Finished(r))
      BY <2>3
    <3>2. op.on = Finished(r)
      BY <3>1, OpNames
    <3> QED
      BY <1>4, <2>3, <3>1, <3>2, EventNames
  <2>4. CASE /\ pc[Sender] \in {"popped", "sent"}
             /\ op \in {Touch(IsEmpty(batch.stream)), Set(Paused(batch.stream)), Set(HasData)}
    <3>1. batch.stream \in Streams
      BY <1>1, <2>4
    <3>2. op = Set(HasData) \/ op = Touch(IsEmpty(batch.stream)) \/ op = Set(Paused(batch.stream))
      BY <2>4
    <3>3. op.on \in {IsEmpty(s), Paused(s), Finished(s)} => batch.stream = s
      BY <3>1, <3>2, OpNames, EventNames
    <3> QED
      BY <1>4, <2>4, <3>1, <3>2, <3>3, OpNames, EventNames
  <2>5. CASE pc[Sender] = "sent" /\ op = Set(Finished(batch.stream))
    <3>1. batch.stream \in Streams /\ op.on = Finished(batch.stream)
      BY <1>1, <2>5, OpNames
    <3> QED
      BY <1>4, <2>5, <3>1, EventNames
  <2> QED
    BY <2>1, <2>2, <2>3, <2>4, <2>5 DEF SenderHas, Closes
<1> QED
  BY <1>2, <1>3, <1>4 DEF Tasks

(* What a task awaits is among its awaits.                                 *)
LEMMA Awaited ==
    ASSUME TaskTypes, NEW t \in Tasks, todo[t] # <<>>
    PROVE  /\ In(Head(todo[t]), todo[t]) /\ Head(todo[t]) \in Ops /\ Head(todo[t]).on \in EventIds
           /\ \A x : In(x, todo[t]) <=> x = Head(todo[t]) \/ In(x, Tail(todo[t]))
<1>1. todo[t] \in Seq(Ops)
  BY DEF TaskTypes
<1>2. Head(todo[t]) \in Ops
  BY <1>1, HeadTailProperties
<1>3. \A x : In(x, todo[t]) <=> x = Head(todo[t]) \/ In(x, Tail(todo[t]))
  BY <1>1, InTail
<1>4. Head(todo[t]).on \in EventIds
  BY <1>2 DEF Ops
<1> QED
  BY <1>2, <1>3, <1>4

(* Every event is one of the four kinds.                                   *)
LEMMA EventCases ==
    ASSUME NEW e \in EventIds
    PROVE  e = HasData \/ \E s \in Streams : e = IsEmpty(s) \/ e = Paused(s) \/ e = Finished(s)
BY DEF EventIds, IsEmpty, Paused, Finished

(* Under asyncio a task that does not wait has the processor.              *)
LEMMA Busy ==
    ASSUME TaskTypes, Lines, ~world.trio, NEW t \in Tasks, todo[t] # <<>>,
           Head(todo[t]).do # "wait"
    PROVE  cpu = t
<1>1. PICK e : e = Head(todo[t]).on
  OBVIOUS
<1>2. e \in EventIds /\ Awaits(t, e) /\ ~AwaitsTo(t, "wait")
  BY <1>1, Awaited DEF Awaits, AwaitsTo
<1>3. Line(e)
  BY <1>2 DEF Lines
<1> QED
  BY <1>2, <1>3 DEF Line

(* Every step is one of three kinds.                                       *)
Goes(t) == \E place, ops : Moved(t, place, ops)

(* A step takes part in an event, opens a stream, or moves a task.         *)
LEMMA Kinds ==
    ASSUME Steps
    PROVE  /\ world' = world
           /\ \/ \E t \in Tasks : Acts(t)
              \/ \E r \in Streams : Opens(r)
              \/ \E t \in Tasks : Goes(t)
<1>1. ASSUME NEW s \in Streams, AppSteps(s)
      PROVE  world' = world /\ ((\E r \in Streams : Opens(r)) \/ Goes(s))
  <2>1. CASE AppGoes(s)
    BY <2>1 DEF AppGoes, Quiet, Goes
  <2>2. ASSUME NEW n \in Sizes, Sends(s, n) PROVE world' = world /\ Goes(s)
    BY <2>2 DEF Sends, Goes
  <2>3. CASE Schedules(s)
    BY <2>3 DEF Schedules, Goes
  <2>4. CASE Completes(s)
    BY <2>4 DEF Completes, Goes
  <2>5. CASE Abandons(s)
    BY <2>5 DEF Abandons, Goes
  <2>6. CASE Shuts(s, s, "closed")
    BY <2>6 DEF Shuts, Goes
  <2>7. CASE \E r \in Streams : Opens(r)
    BY <2>7 DEF Opens
  <2> QED
    BY <1>1, <2>1, <2>2, <2>3, <2>4, <2>5, <2>6, <2>7 DEF AppSteps
<1>2. CASE ReaderSteps
  <2>1. CASE ReaderGoes
    BY <2>1, TaskNames DEF ReaderGoes, Quiet, Goes
  <2>2. CASE Windows
    BY <2>2, TaskNames DEF Windows, Quiet, Goes
  <2>3. CASE Breaks
    BY <2>3, TaskNames DEF Breaks, Quiet, Goes
  <2>4. CASE Updates
    BY <2>4, TaskNames DEF Updates, Goes
  <2>5. CASE \E r \in Streams : Opens(r)
    BY <2>5 DEF Opens
  <2>6. ASSUME NEW s \in Streams, Shuts(Reader, s, "closing") PROVE world' = world /\ Goes(Reader)
    BY <2>6 DEF Shuts, Goes
  <2> QED
    BY <1>2, <2>1, <2>2, <2>3, <2>4, <2>5, <2>6, TaskNames DEF ReaderSteps
<1>3. CASE SenderSteps
  <2>1. CASE SenderGoes
    BY <2>1, TaskNames DEF SenderGoes, Quiet, Goes
  <2>2. CASE Finishing
    BY <2>2, TaskNames DEF Finishing, Goes
  <2>3. ASSUME NEW s \in Streams, Picks(s) PROVE world' = world /\ Goes(Sender)
    BY <2>3 DEF Picks, Goes
  <2>4. ASSUME NEW s \in Streams, NEW n \in Nat, Pops(s, n) PROVE world' = world /\ Goes(Sender)
    BY <2>4 DEF Pops, Goes
  <2>5. ASSUME NEW s \in Streams, Ships(s) PROVE world' = world /\ Goes(Sender)
    BY <2>5 DEF Ships, Goes
  <2>6. ASSUME NEW s \in Streams, Shuts(Sender, s, "sent") PROVE world' = world /\ Goes(Sender)
    BY <2>6 DEF Shuts, Goes
  <2> QED
    BY <1>3, <2>1, <2>2, <2>3, <2>4, <2>5, <2>6, TaskNames DEF SenderSteps
<1>4. CASE \E t \in Tasks : Acts(t)
  BY <1>4 DEF Acts
<1> QED
  BY <1>1, <1>2, <1>3, <1>4, TaskNames DEF Steps

(* Operations come with a Moved, and go with an Acted.                     *)
LEMMA MovedPending ==
    ASSUME NEW t \in Tasks, NEW place, NEW ops, Moved(t, place, ops)
    PROVE  \A op : Pending(op)' <=> Pending(op) \/ In(op, ops)
<1>1. /\ todo[t] = <<>> /\ todo'[t] = ops /\ \A u \in Tasks : u # t => todo'[u] = todo[u]
  BY DEF Moved
<1>2. \A op : ~In(op, todo[t])
  BY <1>1, InTuples
<1> QED
  BY <1>1, <1>2 DEF Pending

(* Taking part in an event adds no await, and ends at most one.            *)
LEMMA ActedPending ==
    ASSUME TaskTypes, NEW t \in Tasks, Acted(t)
    PROVE  /\ \A op : Pending(op)' => Pending(op)
           /\ \A op : Pending(op) /\ ~Pending(op)' => op = Head(todo[t]) /\ Passes(t)
           /\ Pending(Head(todo[t]))
           /\ \A u \in Tasks : \A op : In(op, todo'[u]) => In(op, todo[u])
<1>1. /\ todo[t] # <<>> /\ (todo'[t] = todo[t] \/ (todo'[t] = Tail(todo[t]) /\ Passes(t)))
      /\ \A u \in Tasks \ {t} : todo'[u] = todo[u]
  BY DEF Acted, Parks, Passes
<1>2. \A op : In(op, todo[t]) <=> op = Head(todo[t]) \/ In(op, Tail(todo[t]))
  BY <1>1, Awaited
<1>3. \A u \in Tasks : \A op : In(op, todo'[u]) => In(op, todo[u])
  BY <1>1, <1>2
<1> QED
  BY <1>1, <1>2, <1>3 DEF Pending

-----------------------------------------------------------------------------
(* asyncio: what set() has scheduled finds the flag as it was left.        *)

(* Only the application of s clears the event of its room, and not while it*)
(* waits for it.                                                           *)
LEMMA Cleared ==
    ASSUME TaskTypes, Types, Plans, Lines, NEW t \in Tasks, todo[t] # <<>>, NEW s \in Streams,
           Head(todo[t]).on \in {Paused(s), Finished(s)},
           Head(todo[t]).do \notin {"set", "wait"}
    PROVE  /\ t = s /\ Head(todo[t]) = Clear(Paused(s)) /\ pc[s] = "app"
           /\ ~world.trio => events[Paused(s)].turn = <<>>
<1>1. In(Head(todo[t]), todo[t])
  BY Awaited
<1>2. /\ t = s /\ Head(todo[t]) = Clear(Paused(s)) /\ pc[s] = "app"
  <2>1. \A e : Head(todo[t]) # Set(e) /\ Head(todo[t]) # WaitFor(e)
    BY OpNames
  <2> QED
    BY <1>1, <2>1, Owners
<1>3. ASSUME ~world.trio, events[Paused(s)].turn # <<>> PROVE FALSE
  <2>1. Paused(s) \in EventIds /\ s \in Tasks
    BY EventNames, TaskNames
  <2>2. events[Paused(s)].turn \in Seq(Tasks)
    BY <2>1 DEF TaskTypes, Events
  <2>3. PICK u \in Tasks : In(u, events[Paused(s)].turn)
    BY <1>3, <2>2, SomeoneIn
  <2>4. Awaits(u, Paused(s)) /\ AwaitsTo(u, "wait")
    BY <1>3, <2>1, <2>3 DEF Lines, Line
  <2>5. In(Head(todo[u]), todo[u]) /\ Head(todo[u]).on = Paused(s) /\ Head(todo[u]).do = "wait"
    BY <2>4, Awaited DEF Awaits, AwaitsTo
  <2>6. u = s
    <3>1. Head(todo[u]) # Set(Paused(s))
      BY <2>5, OpNames
    <3> QED
      BY <2>5, <3>1, Owners
  <2> QED
    BY <1>2, <2>5, <2>6, OpNames
<1> QED
  BY <1>2, <1>3

(* Every step keeps what set() has scheduled.                              *)
LEMMA StepSprung ==
    ASSUME Types, Plans, Lines, Sprung, Steps
    PROVE  Sprung'
<1>1. SUFFICES ASSUME NEW s \in Streams, NEW e \in {Finished(s), Paused(s)},
                      ~world.trio, events'[e].turn # <<>>
               PROVE  events'[e].set
  BY Kinds DEF Sprung
<1>2. e \in EventIds /\ TaskTypes
  BY EventNames DEF Types
<1>3. events[e].turn # <<>> => events[e].set
  BY <1>1 DEF Sprung
<1>4. ASSUME NEW t \in Tasks, Acts(t) PROVE events'[e].set
  <2>1. Acted(t) /\ todo[t] # <<>>
    BY <1>4 DEF Acts, Acted
  <2>2. CASE Parks(t)
    BY <1>1, <1>2, <1>3, <2>2 DEF Parks
  <2>3. CASE Passes(t)
    <3>1. /\ events'[e].set = IF e # Head(todo[t]).on \/ Head(todo[t]).do = "wait"
                              THEN events[e].set ELSE Head(todo[t]).do = "set"
          /\ events[e].turn # <<>> \/ (e = Head(todo[t]).on /\ Head(todo[t]).do = "set")
      BY <1>1, <1>2, <2>3 DEF Passes
    <3>2. CASE Head(todo[t]).do \in {"set", "wait"} \/ e # Head(todo[t]).on
      BY <1>3, <3>1, <3>2
    <3>3. CASE Head(todo[t]).do \notin {"set", "wait"} /\ e = Head(todo[t]).on
      <4>1. Head(todo[t]) = Clear(Paused(s)) /\ events[Paused(s)].turn = <<>>
        BY <1>1, <1>2, <2>1, <3>3, Cleared
      <4>2. e = Paused(s)
        BY <3>3, <4>1, OpNames
      <4> QED
        BY <3>1, <3>3, <4>1, <4>2, OpNames
    <3> QED
      BY <3>2, <3>3
  <2> QED
    BY <2>1, <2>2, <2>3 DEF Acted
<1>5. ASSUME NEW r \in Streams, Opens(r) PROVE events'[e].set
  BY <1>1, <1>3, <1>5 DEF Opens
<1>6. ASSUME NEW t \in Tasks, Goes(t) PROVE events'[e].set
  BY <1>1, <1>2, <1>3, <1>6 DEF Goes, Moved
<1> QED
  BY <1>4, <1>5, <1>6, Kinds

-----------------------------------------------------------------------------
(* The books.                                                              *)

(* Every step keeps the books.                                             *)
LEMMA StepBooks ==
    ASSUME Types, Plans, Lines, Books, Steps
    PROVE  Books'
<1>0. /\ Sender \in Tasks /\ Reader \in Tasks /\ Reader # Sender
      /\ \A s \in Streams : s \in Tasks /\ s # Sender /\ s # Reader
  BY TaskNames
<1>1. /\ \A s \in Streams :
           /\ buffers[s].size \in Nat /\ buffers[s].present \in BOOLEAN
           /\ response[s].written \in Nat /\ response[s].sent \in Nat /\ response[s].ended \in Nat
      /\ batch.data \in Nat
  BY DEF Types, DataTypes, Buffers, Responses, Batches
<1>2. ASSUME NEW t \in Tasks, NEW place, NEW ops, Quiet(t, place, ops),
             t = Sender => /\ pc[Sender] = "popped" => ~Present(batch.stream)
                           /\ place # "popped"
      PROVE  Books'
  <2>1. \A s \in Streams : Present(s) => (Handled(s)' <=> Handled(s))
    BY <1>0, <1>2 DEF Quiet, Moved, Handled
  <2> QED
    BY <1>2, <2>1 DEF Quiet, Books, Present
<1>3. ASSUME NEW t \in Tasks, NEW place, NEW ops, Moved(t, place, ops), batch' = batch, t # Sender
      PROVE  \A s \in Streams : Handled(s)' <=> Handled(s)
  BY <1>0, <1>3 DEF Moved, Handled
<1>4. ASSUME NEW t \in Tasks, Acts(t) PROVE Books'
  <2>1. UNCHANGED <<pc, batch, buffers, response>>
    BY <1>4 DEF Acts, Acted, dataVars
  <2> QED
    BY <2>1 DEF Books, Present, Handled
<1>5. ASSUME NEW r \in Streams, Opens(r) PROVE Books'
  <2>1. /\ ~response[r].opened /\ batch' = batch
        /\ \A s \in Streams :
             /\ Present(s)' <=> (s = r \/ Present(s))
             /\ buffers'[s].size = IF s = r THEN 0 ELSE buffers[s].size
             /\ response'[s].opened <=> (s = r \/ response[s].opened)
             /\ response'[s].sent = response[s].sent
             /\ response'[s].ended = response[s].ended
             /\ response'[s].written = response[s].written
    BY <1>5 DEF Opens, Present
  <2>2. pc'[Sender] = pc[Sender]
    BY <1>0, <1>5 DEF Opens
  <2>3. ~Handled(r)
    BY <2>1 DEF Plans, SenderPlanned, Handled
  <2>4. \A s \in Streams : Handled(s)' <=> Handled(s)
    BY <2>1, <2>2 DEF Handled
  <2>5. response[r].ended = 0 /\ response[r].written = 0 /\ response[r].sent = 0
    BY <2>1 DEF Books
  <2>6. ASSUME NEW s \in Streams, s # r
        PROVE  /\ Present(s)' <=> Present(s)
               /\ buffers'[s].size = buffers[s].size
               /\ response'[s].opened <=> response[s].opened
               /\ response'[s].sent = response[s].sent
               /\ response'[s].ended = response[s].ended
               /\ response'[s].written = response[s].written
    BY <2>1, <2>6
  <2>7. /\ Present(r)' /\ buffers'[r].size = 0 /\ response'[r].ended = 0
        /\ response'[r].written = 0 /\ response'[r].sent = 0 /\ response'[r].opened
    BY <2>1, <2>5
  <2> QED
    BY <2>1, <2>3, <2>4, <2>6, <2>7 DEF Books
<1>6. ASSUME NEW s \in Streams, NEW t \in Tasks, NEW place, Shuts(t, s, place),
             t = Sender => place = "sent"
      PROVE  Books'
  <2>1. /\ batch' = batch /\ response' = response /\ Present(s)
        /\ \A r \in Streams : /\ Present(r)' <=> (r # s /\ Present(r))
                              /\ buffers'[r].size = IF r = s THEN 0 ELSE buffers[r].size
        /\ Moved(t, place, CloseOps(s))
        /\ t = Sender => s = batch.stream
    BY <1>0, <1>6 DEF Shuts, Present
  <2>2. \A r \in Streams : r # s => (Handled(r)' <=> Handled(r))
    BY <1>0, <1>6, <2>1 DEF Handled, Moved
  <2>3. response[s].ended = 0
    BY <2>1 DEF Books
  <2>4. response[s].opened
    BY <2>1 DEF Plans, Alive, Present
  <2> QED
    BY <2>1, <2>2, <2>3, <2>4 DEF Books
<1>7. ASSUME NEW s \in Streams, AppSteps(s) PROVE Books'
  <2>1. CASE AppGoes(s)
    BY <1>0, <1>2, <2>1 DEF AppGoes
  <2>2. ASSUME NEW n \in Sizes, Sends(s, n) PROVE Books'
    <3>1. n \in Nat
      BY H2SendAssumption
    <3>2. \A r \in Streams : Handled(r)' <=> Handled(r)
      BY <1>0, <1>3, <2>2 DEF Sends
    <3>3. ASSUME NEW r \in Streams, r # s
          PROVE  /\ Present(r)' <=> Present(r)
                 /\ buffers'[r].size = buffers[r].size
                 /\ response'[r].opened = response[r].opened
                 /\ response'[r].sent = response[r].sent
                 /\ response'[r].ended = response[r].ended
                 /\ response'[r].written = response[r].written
      BY <2>2, <3>3 DEF Sends, Present
    <3>4. /\ Present(s)' /\ Present(s) /\ buffers'[s].size = buffers[s].size + n
          /\ response'[s].sent = response[s].sent
          /\ response'[s].ended = response[s].ended
          /\ response'[s].opened = response[s].opened /\ response[s].opened
          /\ response'[s].written = response[s].written + n /\ batch' = batch
      BY <2>2 DEF Sends, Present, Plans, Alive
    <3>5. ASSUME NEW r \in Streams
          PROVE  /\ Present(r)' =>
                      /\ response'[r].ended = 0
                      /\ response'[r].written = response'[r].sent + buffers'[r].size
                                               + (IF Handled(r)' THEN batch'.data ELSE 0)
                 /\ ~Present(r)' =>
                      /\ response'[r].ended <= 1 /\ buffers'[r].size = 0
                      /\ response'[r].ended = 1 => response'[r].sent = response'[r].written
                 /\ ~response'[r].opened =>
                      response'[r].ended = 0 /\ response'[r].written = 0 /\ response'[r].sent = 0
      <4>1. CASE r = s
        <5>1. /\ response[s].ended = 0
              /\ response[s].written = response[s].sent + buffers[s].size
                                      + (IF Handled(s) THEN batch.data ELSE 0)
          BY <3>4 DEF Books
        <5>2. response'[s].written = response'[s].sent + buffers'[s].size
                                     + (IF Handled(s) THEN batch.data ELSE 0)
          <6>1. CASE Handled(s)
            BY <1>1, <3>1, <3>4, <5>1, <6>1
          <6>2. CASE ~Handled(s)
            BY <1>1, <3>1, <3>4, <5>1, <6>2
          <6> QED
            BY <6>1, <6>2
        <5> QED
          BY <3>2, <3>4, <4>1, <5>1, <5>2
      <4>2. CASE r # s
        BY <3>2, <3>3, <3>4, <4>2 DEF Books
      <4> QED
        BY <4>1, <4>2
    <3> QED
      BY <3>5 DEF Books
  <2>3. CASE Schedules(s)
    BY <1>0, <1>3, <2>3 DEF Schedules, Books, Present
  <2>4. CASE Completes(s)
    BY <1>0, <1>3, <2>4 DEF Completes, Books, Present
  <2>5. CASE Abandons(s)
    <3>1. \A r \in Streams : Handled(r)' <=> Handled(r)
      BY <1>0, <1>3, <2>5 DEF Abandons
    <3>2. /\ buffers' = buffers /\ batch' = batch
          /\ \A r \in Streams : /\ response'[r].opened = response[r].opened
                                /\ response'[r].sent = response[r].sent
                                /\ response'[r].ended = response[r].ended
                                /\ response'[r].written = response[r].written
      BY <2>5 DEF Abandons
    <3> QED
      BY <3>1, <3>2 DEF Books, Present
  <2>6. CASE Shuts(s, s, "closed")
    BY <1>0, <1>6, <2>6
  <2> QED
    BY <1>5, <1>7, <2>1, <2>2, <2>3, <2>4, <2>5, <2>6 DEF AppSteps
<1>8. CASE ReaderSteps
  <2>1. CASE ReaderGoes
    BY <1>0, <1>2, <2>1 DEF ReaderGoes
  <2>2. CASE Windows
    BY <1>0, <1>2, <2>2 DEF Windows
  <2>3. CASE Breaks
    BY <1>0, <1>2, <2>3 DEF Breaks
  <2>4. CASE Updates
    BY <1>0, <1>3, <2>4 DEF Updates, Books, Present
  <2> QED
    BY <1>0, <1>5, <1>6, <1>8, <2>1, <2>2, <2>3, <2>4 DEF ReaderSteps
<1>9. CASE SenderSteps
  <2>1. CASE SenderGoes
    BY <1>0, <1>2, <2>1 DEF SenderGoes
  <2>2. ASSUME pc[Sender] # "popped", pc'[Sender] # "popped", UNCHANGED <<buffers, response>>
        PROVE  Books'
    BY <2>2 DEF Books, Present, Handled
  <2>3. CASE Finishing
    BY <1>0, <2>2, <2>3 DEF Finishing, Moved, dataVars
  <2>4. ASSUME NEW s \in Streams, Picks(s) PROVE Books'
    BY <1>0, <2>2, <2>4 DEF Picks, Moved, dataVars
  <2>5. ASSUME NEW s \in Streams, NEW n \in Nat, Pops(s, n) PROVE Books'
    <3>1. /\ pc[Sender] = "send" /\ pc'[Sender] = "popped" /\ batch'.stream = s /\ batch'.data = n
          /\ response' = response /\ Present(s)
          /\ \A r \in Streams :
               /\ Present(r)' <=> Present(r)
               /\ buffers'[r].size = IF r = s THEN buffers[r].size - n ELSE buffers[r].size
      BY <1>0, <2>5 DEF Pops, Moved, Present
    <3>2. \A r \in Streams : ~Handled(r) /\ (Handled(r)' <=> r = s)
      BY <3>1 DEF Handled
    <3> QED
      BY <1>1, <3>1, <3>2 DEF Books
  <2>6. ASSUME NEW s \in Streams, Ships(s) PROVE Books'
    <3>1. /\ pc[Sender] = "popped" /\ pc'[Sender] = "sent" /\ s = batch.stream /\ Present(s)
          /\ \A r \in Streams :
               /\ Present(r)' <=> (Present(r) /\ ~(r = s /\ Complete(s)))
               /\ buffers'[r].size = buffers[r].size
               /\ response'[r].opened = response[r].opened
               /\ response'[r].sent = IF r = s THEN response[r].sent + batch.data ELSE response[r].sent
               /\ response'[r].ended = IF r = s /\ Complete(s) THEN response[r].ended + 1
                                       ELSE response[r].ended
               /\ response'[r].written = response[r].written
      BY <1>0, <2>6 DEF Ships, Moved, Present
    <3>2. \A r \in Streams : ~Handled(r)' /\ (Handled(r) <=> r = s)
      BY <3>1 DEF Handled
    <3>3. response[s].ended = 0 /\ response[s].written = response[s].sent + buffers[s].size + batch.data
      BY <3>1, <3>2 DEF Books
    <3>4. response[s].opened
      BY <3>1 DEF Plans, Alive, Present
    <3>5. CASE Complete(s)
      <4>1. buffers[s].size = 0
        BY <3>5 DEF Complete
      <4> QED
        BY <1>1, <3>1, <3>2, <3>3, <3>4, <3>5, <4>1 DEF Books
    <3>6. CASE ~Complete(s)
      BY <1>1, <3>1, <3>2, <3>3, <3>4, <3>6 DEF Books
    <3> QED
      BY <3>5, <3>6
  <2> QED
    BY <1>0, <1>6, <1>9, <2>1, <2>3, <2>4, <2>5, <2>6 DEF SenderSteps
<1> QED
  BY <1>4, <1>7, <1>8, <1>9 DEF Steps

-----------------------------------------------------------------------------
(* Who is told of the end of a response.                                   *)

(* What the lists that a step may plan contain.                            *)
LEMMA ListsHave ==
    /\ \A op : ~In(op, <<>>)
    /\ \A op : In(op, <<Set(HasData)>>) <=> op = Set(HasData)
    /\ \A op : In(op, Sleep) <=> op \in {WaitFor(HasData), Clear(HasData)}
    /\ \A op, s : In(op, CloseOps(s)) <=> op \in Closes(s)
    /\ \A op, s : In(op, <<Touch(IsEmpty(s))>>) <=> op = Touch(IsEmpty(s))
    /\ \A op, s : In(op, <<Set(HasData), WaitFor(Finished(s))>>)
                    <=> op \in {Set(HasData), WaitFor(Finished(s))}
    /\ \A op, s : In(op, PushOps(s))
                    <=> \/ op = Set(HasData)
                        \/ Full(s) /\ op \in {WaitFor(Paused(s)), Clear(Paused(s))}
    /\ \A op, s, n, left :
         In(op, PopSets(s, n, left)) <=> \/ n > 0 /\ left <= LowWater /\ op = Set(Paused(s))
                                         \/ left = 0 /\ op = Touch(IsEmpty(s))
<1>1. \A op : In(op, Sleep) <=> op \in {WaitFor(HasData), Clear(HasData)}
  BY InTuples DEF Sleep
<1>2. \A op, s : In(op, CloseOps(s)) <=> op \in Closes(s)
  BY InTuples DEF CloseOps, Closes
<1>3. ASSUME NEW op, NEW s
      PROVE  In(op, PushOps(s))
                    <=> \/ op = Set(HasData)
                        \/ Full(s) /\ op \in {WaitFor(Paused(s)), Clear(Paused(s))}
  <2>1. CASE Full(s)
    <3>1. PushOps(s)
            = <<Set(HasData), WaitFor(Paused(s)), Clear(Paused(s))>>
      BY <2>1, PushPlan
    <3>2. In(op, <<Set(HasData), WaitFor(Paused(s)), Clear(Paused(s))>>)
            <=> op \in {Set(HasData), WaitFor(Paused(s)), Clear(Paused(s))}
      BY InTuples
    <3> QED
      BY <2>1, <3>1, <3>2
  <2>2. CASE ~Full(s)
    <3>1. PushOps(s) = <<Set(HasData)>>
      BY <2>2, PushPlan
    <3>2. In(op, <<Set(HasData)>>) <=> op = Set(HasData)
      BY InTuples
    <3> QED
      BY <2>2, <3>1, <3>2
  <2> QED
    BY <2>1, <2>2
<1>4. ASSUME NEW op, NEW s, NEW n, NEW left
      PROVE  In(op, PopSets(s, n, left)) <=> \/ n > 0 /\ left <= LowWater /\ op = Set(Paused(s))
                                             \/ left = 0 /\ op = Touch(IsEmpty(s))
  <2> PICK a, b : a = Set(Paused(s)) /\ b = Touch(IsEmpty(s))
    OBVIOUS
  <2>1. PopSets(s, n, left) = IF n > 0 /\ left <= LowWater
                              THEN IF left = 0 THEN <<a, b>> ELSE <<a>>
                              ELSE IF left = 0 THEN <<b>> ELSE <<>>
    BY PopPlan
  <2>2. /\ In(op, <<a, b>>) <=> op \in {a, b}
        /\ In(op, <<a>>) <=> op = a
        /\ In(op, <<b>>) <=> op = b
        /\ ~In(op, <<>>)
    BY InTuples
  <2>3. CASE n > 0 /\ left <= LowWater
    BY <2>1, <2>2, <2>3
  <2>4. CASE ~(n > 0 /\ left <= LowWater)
    BY <2>1, <2>2, <2>4
  <2> QED
    BY <2>3, <2>4
<1>5. /\ \A op : ~In(op, <<>>)
      /\ \A op : In(op, <<Set(HasData)>>) <=> op = Set(HasData)
      /\ \A op, s : In(op, <<Touch(IsEmpty(s))>>) <=> op = Touch(IsEmpty(s))
      /\ \A op, s : In(op, <<Set(HasData), WaitFor(Finished(s))>>)
                    <=> op \in {Set(HasData), WaitFor(Finished(s))}
  BY InTuples
<1> QED
  BY <1>1, <1>2, <1>3, <1>4, <1>5

(* Whom the sender tells at the end of a batch.                            *)
LEMMA FinishOpsHave ==
    ASSUME Types
    PROVE  \A op : In(op, FinishOps) <=>
                     \E i \in 1..Len(batch.finished) : op = Set(Finished(batch.finished[i]))
BY FinishOpsTypes DEF In

(* Going on tells whom its awaits tell.                                    *)
LEMMA ToldMoves ==
    ASSUME NEW t \in Tasks, NEW place, NEW ops, Moved(t, place, ops)
    PROVE  \A s \in Streams : Told(s)' <=> Told(s) \/ In(Set(Finished(s)), ops)
<1>1. \A op : Pending(op)' <=> Pending(op) \/ In(op, ops)
  BY MovedPending
<1>2. \A s \in Streams : events'[Finished(s)].set = events[Finished(s)].set
  BY EventNames DEF Moved
<1> QED
  BY <1>1, <1>2 DEF Told

(* Taking part in an event tells nobody new.                               *)
LEMMA ToldActs ==
    ASSUME Types, Plans, NEW t \in Tasks, Acts(t), NEW s \in Streams
    PROVE  /\ Told(s)' => Told(s)
           /\ events[Finished(s)].set => events'[Finished(s)].set
<1>1. /\ Acted(t) /\ TaskTypes /\ todo[t] # <<>> /\ Finished(s) \in EventIds
  BY EventNames DEF Acts, Acted, Types
<1>2. In(Head(todo[t]), todo[t]) /\ Pending(Head(todo[t]))
  BY <1>1, Awaited DEF Pending
<1>3. Head(todo[t]).on = Finished(s) =>
        \/ Head(todo[t]) = WaitFor(Finished(s)) /\ Head(todo[t]).do = "wait"
        \/ Head(todo[t]) = Set(Finished(s)) /\ Head(todo[t]).do = "set"
  BY <1>2, Owners, OpNames
<1>4. events'[Finished(s)].set = events[Finished(s)].set
      \/ (Head(todo[t]) = Set(Finished(s)) /\ events'[Finished(s)].set)
  <2>1. CASE Parks(t)
    BY <1>1, <2>1 DEF Parks
  <2>2. CASE Passes(t)
    <3>1. events'[Finished(s)].set =
            IF Finished(s) # Head(todo[t]).on \/ Head(todo[t]).do = "wait"
            THEN events[Finished(s)].set ELSE Head(todo[t]).do = "set"
      BY <1>1, <2>2 DEF Passes
    <3> QED
      BY <1>3, <3>1
  <2> QED
    BY <1>1, <2>1, <2>2 DEF Acted
<1>5. \A op : Pending(op)' => Pending(op)
  BY <1>1, ActedPending
<1> QED
  BY <1>2, <1>4, <1>5 DEF Told

(* Every step keeps who is told.                                           *)
LEMMA StepTelling ==
    ASSUME Types, Plans, Books, Telling, Steps, Hands', Gathers
    PROVE  Telling'
<1>0. /\ Sender \in Tasks /\ Reader \in Tasks /\ Reader # Sender
      /\ \A s \in Streams : s \in Tasks /\ s # Sender /\ s # Reader
  BY TaskNames
<1>1. ASSUME \A s \in Streams : Told(s)' => Told(s) \/ (response[s].opened /\ ~Present(s)'
                                    /\ response'[s].ended # 1),
             \A s \in Streams : /\ ~Present(s) => ~Present(s)' \/ ~response[s].opened
                                /\ response[s].opened => response'[s].opened
                                /\ response'[s].ended = response[s].ended,
             unflushed' \subseteq unflushed, batch'.finished = batch.finished,
             unflushed' # {} => pc'[Sender] \in {"send", "popped", "sent"} /\ batch'.flush
      PROVE  Telling'
  <2>1. batch.finished \in Seq(Streams)
    BY DEF Types, DataTypes, Batches
  <2>2. \A i \in 1..Len(batch.finished) : batch.finished[i] \in Streams
    BY <2>1, ElementOfSeq
  <2> QED
    BY <1>1, <2>2 DEF Telling, Gathers
<1>2. ASSUME NEW t \in Tasks, NEW place, NEW ops, Moved(t, place, ops), t # Sender,
             \A s \in Streams : ~In(Set(Finished(s)), ops) \/ (response[s].opened /\ ~Present(s)'
                                    /\ response'[s].ended # 1),
             \A s \in Streams : /\ ~Present(s) => ~Present(s)'
                                /\ response'[s].opened = response[s].opened
                                /\ response'[s].ended = response[s].ended,
             unflushed' \subseteq unflushed, batch' = batch
      PROVE  Telling'
  <2>1. pc'[Sender] = pc[Sender]
    BY <1>0, <1>2 DEF Moved
  <2>2. \A s \in Streams : Told(s)' <=> Told(s) \/ In(Set(Finished(s)), ops)
    BY <1>2, ToldMoves
  <2>3. unflushed' # {} => pc'[Sender] \in {"send", "popped", "sent"} /\ batch'.flush
    BY <1>2, <2>1 DEF Telling
  <2> QED
    BY <1>1, <1>2, <2>2, <2>3
<1>3. /\ \A s \in Streams : Set(Finished(s)) # Set(HasData)
      /\ \A s \in Streams : \A e : Set(Finished(s)) # WaitFor(e) /\ Set(Finished(s)) # Clear(e)
                                     /\ Set(Finished(s)) # Touch(e)
      /\ \A s, r \in Streams : Set(Finished(s)) # Set(Paused(r))
                               /\ (s # r => Set(Finished(s)) # Set(Finished(r)))
  BY OpNames, EventNames
<1>4. ASSUME NEW t \in Tasks, Acts(t) PROVE Telling'
  <2>1. UNCHANGED <<pc, batch, buffers, response, unflushed>>
    BY <1>4 DEF Acts, Acted, dataVars
  <2>2. \A s \in Streams : Told(s)' => Told(s)
    BY <1>4, ToldActs
  <2> QED
    BY <1>1, <2>1, <2>2 DEF Telling, Present
<1>5. ASSUME NEW r \in Streams, Opens(r) PROVE Telling'
  <2>1. /\ ~response[r].opened /\ batch' = batch /\ unflushed' = unflushed
        /\ todo' = todo /\ events' = events
        /\ \A s \in Streams :
             /\ Present(s)' <=> (s = r \/ Present(s))
             /\ response'[s].opened <=> (s = r \/ response[s].opened)
             /\ response'[s].ended = response[s].ended
    BY <1>5 DEF Opens, Present
  <2>2. pc'[Sender] = pc[Sender]
    BY <1>0, <1>5 DEF Opens
  <2>3. \A s \in Streams : Told(s)' <=> Told(s)
    BY <2>1 DEF Told, Pending
  <2> QED
    BY <1>1, <2>1, <2>2, <2>3 DEF Telling
<1>6. ASSUME NEW s \in Streams, NEW t \in Tasks, NEW place, Shuts(t, s, place),
             t = Sender => place = "sent"
      PROVE  Telling'
  <2>1. /\ batch' = batch /\ response' = response /\ unflushed' = unflushed /\ Present(s)
        /\ \A r \in Streams : Present(r)' <=> (r # s /\ Present(r))
        /\ Moved(t, place, CloseOps(s))
        /\ t = Sender => pc[Sender] \in {"send", "popped"}
    BY <1>0, <1>6 DEF Shuts, Present
  <2>2. response[s].ended = 0 /\ response[s].opened
    BY <2>1 DEF Books, Plans, Alive, Present
  <2>3. \A r \in Streams : Told(r)' => Told(r) \/ r = s
    BY <1>3, <2>1, ToldMoves, ListsHave DEF Closes
  <2>4. pc'[Sender] = IF t = Sender THEN "sent" ELSE pc[Sender]
    BY <1>0, <1>6, <2>1 DEF Moved
  <2> QED
    BY <1>1, <2>1, <2>2, <2>3, <2>4 DEF Telling
<1>7. ASSUME NEW s \in Streams, AppSteps(s) PROVE Telling'
  <2>0. s \in Tasks /\ s # Sender
    BY <1>0
  <2>1. CASE AppGoes(s)
    BY <1>2, <2>0, <2>1, ListsHave DEF AppGoes, Quiet, Present
  <2>2. ASSUME NEW n \in Sizes, Sends(s, n) PROVE Telling'
    BY <1>2, <1>3, <2>0, <2>2, ListsHave DEF Sends, Present
  <2>3. CASE Schedules(s)
    <3>1. \A r \in Streams : ~In(Set(Finished(r)), PushOps(s))
      BY <1>3, ListsHave
    <3> QED
      BY <1>2, <2>0, <2>3, <3>1 DEF Schedules, Present
  <2>4. CASE Completes(s)
    <3>1. \A r \in Streams : ~In(Set(Finished(r)), <<Set(HasData), WaitFor(Finished(s))>>)
      BY <1>3, ListsHave
    <3> QED
      BY <1>2, <2>0, <2>4, <3>1 DEF Completes, Present
  <2>5. CASE Abandons(s)
    BY <1>2, <2>0, <2>5, ListsHave DEF Abandons, Present
  <2> QED
    BY <1>5, <1>6, <1>7, <2>0, <2>1, <2>2, <2>3, <2>4, <2>5 DEF AppSteps
<1>8. CASE ReaderSteps
  <2>1. CASE ReaderGoes
    <3>1. PICK place \in ReaderPlaces, ops \in {<<>>, <<Set(HasData)>>} :
             Quiet(Reader, place, ops) /\ unflushed' \subseteq unflushed
      BY <2>1 DEF ReaderGoes
    <3>2. \A r \in Streams : ~In(Set(Finished(r)), ops)
      BY <1>3, <3>1, ListsHave
    <3> QED
      BY <1>0, <1>2, <3>1, <3>2 DEF Quiet, Present
  <2>2. CASE Windows
    BY <1>0, <1>2, <2>2, ListsHave DEF Windows, Quiet, Present
  <2>3. CASE Breaks
    BY <1>0, <1>2, <2>3, ListsHave DEF Breaks, Quiet, Present
  <2>4. CASE Updates
    BY <1>0, <1>2, <1>3, <2>4, ListsHave DEF Updates, Present
  <2> QED
    BY <1>0, <1>5, <1>6, <1>8, <2>1, <2>2, <2>3, <2>4 DEF ReaderSteps
<1>9. CASE SenderSteps
  <2>1. CASE SenderGoes
    <3>1. PICK place \in SenderPlaces, ops \in {<<>>, Sleep} :
            /\ Quiet(Sender, place, ops)
            /\ \/ pc[Sender] = "next" /\ unflushed' = unflushed
               \/ unflushed' = {}
               \/ pc[Sender] = "sent" /\ ~batch.flush /\ unflushed' = unflushed
               \/ place = "sent" /\ pc[Sender] \in {"send", "popped"} /\ unflushed' = unflushed
      BY <2>1 DEF SenderGoes
    <3>2. \A r \in Streams : Told(r)' => Told(r)
      BY <1>0, <1>3, <3>1, ToldMoves, ListsHave DEF Quiet
    <3>3. pc'[Sender] = place
      BY <1>0, <3>1 DEF Quiet, Moved
    <3>4. unflushed' # {} => pc'[Sender] \in {"send", "popped", "sent"} /\ batch'.flush
      BY <3>1, <3>3 DEF Telling, Quiet
    <3>5. unflushed' \subseteq unflushed /\ UNCHANGED <<buffers, response, batch>>
      BY <3>1 DEF Quiet
    <3> QED
      BY <1>1, <3>2, <3>4, <3>5 DEF Present
  <2>2. CASE Finishing
    <3>1. /\ Moved(Sender, "next", FinishOps) /\ UNCHANGED <<buffers, response, unflushed>>
          /\ pc[Sender] \in {"written", "finish"} /\ batch'.finished = <<>>
      BY <2>2 DEF Finishing, dataVars, NoBatch
    <3>2. unflushed = {}
      BY <3>1 DEF Telling
    <3>3. ASSUME NEW r \in Streams, Told(r)'
          PROVE  response[r].opened /\ ~Present(r)
      <4>1. CASE Told(r)
        BY <4>1 DEF Telling
      <4>2. CASE In(Set(Finished(r)), FinishOps)
        <5>1. PICK i \in 1..Len(batch.finished) : Set(Finished(r)) = Set(Finished(batch.finished[i]))
          BY <4>2, FinishOpsHave
        <5>2. batch.finished[i] \in Streams
          <6>1. batch.finished \in Seq(Streams)
            BY DEF Types, DataTypes, Batches
          <6> QED
            BY <6>1, ElementOfSeq
        <5>3. r = batch.finished[i]
          BY <1>3, <5>1, <5>2
        <5> QED
          BY <5>3 DEF Telling
      <4> QED
        BY <1>0, <3>1, <3>3, <4>1, <4>2, ToldMoves
    <3>4. inHand'[Sender] = {}
      BY <1>0, <3>1 DEF Hands, Moved, Flushing
    <3> QED
      BY <3>1, <3>2, <3>3, <3>4 DEF Telling, Present
  <2>3. ASSUME NEW s \in Streams, Picks(s) PROVE Telling'
    <3>1. /\ Moved(Sender, "send", <<>>) /\ UNCHANGED <<buffers, response, unflushed>>
          /\ batch'.finished = batch.finished /\ batch'.flush = batch.flush
      BY <2>3 DEF Picks, dataVars
    <3>2. \A r \in Streams : Told(r)' => Told(r)
      BY <1>0, <3>1, ToldMoves, ListsHave
    <3>3. pc'[Sender] = "send"
      BY <1>0, <3>1 DEF Moved
    <3> QED
      BY <1>1, <3>1, <3>2, <3>3 DEF Telling, Present
  <2>4. ASSUME NEW s \in Streams, NEW n \in Nat, Pops(s, n) PROVE Telling'
    <3>1. /\ Moved(Sender, "popped", PopSets(s, n, buffers[s].size - n))
          /\ UNCHANGED <<response, unflushed>> /\ \A r \in Streams : Present(r)' <=> Present(r)
          /\ batch'.finished = batch.finished /\ batch'.flush = batch.flush
      BY <2>4 DEF Pops, Present
    <3>2. \A r \in Streams : ~In(Set(Finished(r)), PopSets(s, n, buffers[s].size - n))
      BY <1>3, ListsHave
    <3>3. \A r \in Streams : Told(r)' => Told(r)
      BY <1>0, <3>1, <3>2, ToldMoves
    <3>4. pc'[Sender] = "popped"
      BY <1>0, <3>1 DEF Moved
    <3> QED
      BY <1>1, <3>1, <3>3, <3>4 DEF Telling
  <2>5. ASSUME NEW s \in Streams, Ships(s) PROVE Telling'
    <3>1. /\ Moved(Sender, "sent", <<>>) /\ pc[Sender] = "popped" /\ Present(s)
          /\ unflushed' = IF batch.data > 0 \/ Complete(s) THEN unflushed \cup {s} ELSE unflushed
          /\ batch'.flush = (batch.flush \/ batch.data > 0 \/ Complete(s))
          /\ batch'.finished = IF Complete(s) THEN Append(batch.finished, s) ELSE batch.finished
          /\ \A r \in Streams :
               /\ Present(r)' <=> (Present(r) /\ ~(r = s /\ Complete(s)))
               /\ response'[r].opened = response[r].opened
               /\ response'[r].ended = IF r = s /\ Complete(s) THEN response[r].ended + 1
                                       ELSE response[r].ended
      BY <2>5 DEF Ships, Present
    <3>2. \A r \in Streams : Told(r)' => Told(r)
      BY <1>0, <3>1, ToldMoves, ListsHave
    <3>3. ~Told(s)'
      BY <3>1, <3>2 DEF Telling
    <3>4. response[s].ended = 0 /\ response[s].opened
      BY <3>1 DEF Books, Plans, Alive, Present
    <3>5. pc'[Sender] = "sent"
      BY <1>0, <3>1 DEF Moved
    <3>6. batch.finished \in Seq(Streams)
      BY DEF Types, DataTypes, Batches
    <3>7. \A i \in 1..Len(batch'.finished) :
             /\ response'[batch'.finished[i]].ended = 1 /\ ~buffers'[batch'.finished[i]].present
             /\ response'[batch'.finished[i]].opened
      <4>1. \A r \in Streams : response[r].ended = 1 /\ ~Present(r) /\ response[r].opened =>
               response'[r].ended = 1 /\ ~Present(r)' /\ response'[r].opened
        BY <3>1, <3>4
      <4>2. \A i \in 1..Len(batch.finished) : batch.finished[i] \in Streams
        BY <3>6, ElementOfSeq
      <4>5. ASSUME NEW i \in 1..Len(batch.finished)
            PROVE  /\ response'[batch.finished[i]].ended = 1 /\ ~buffers'[batch.finished[i]].present
                   /\ response'[batch.finished[i]].opened
        <5>1. PICK r \in Streams : r = batch.finished[i]
          BY <4>2
        <5>2. response[r].ended = 1 /\ ~Present(r) /\ response[r].opened
          BY <5>1 DEF Telling
        <5>3. response'[r].ended = 1 /\ ~Present(r)' /\ response'[r].opened
          BY <4>1, <5>2
        <5> QED
          BY <5>1, <5>3 DEF Present
      <4>3. CASE ~Complete(s)
        BY <3>1, <4>3, <4>5 DEF Present
      <4>4. CASE Complete(s)
        <5>1. response'[s].ended = 1 /\ ~Present(s)' /\ response'[s].opened
          BY <3>1, <3>4, <4>4
        <5>2. /\ Len(batch'.finished) = Len(batch.finished) + 1 /\ Len(batch.finished) \in Nat
              /\ batch'.finished[Len(batch.finished) + 1] = s
              /\ \A i \in 1..Len(batch.finished) : batch'.finished[i] = batch.finished[i]
          BY <3>1, <3>6, <4>4, AppendProperties
        <5>3. \A i \in 1..Len(batch'.finished) : i \in 1..Len(batch.finished) \/ i = Len(batch.finished) + 1
          BY <5>2
        <5> QED
          BY <4>5, <5>1, <5>2, <5>3 DEF Present
      <4> QED
        BY <4>3, <4>4
    <3>8. ASSUME NEW r \in Streams, Told(r)'
          PROVE  response'[r].opened /\ ~Present(r)' /\ (response'[r].ended = 1 => r \notin unflushed')
      BY <3>1, <3>2, <3>3, <3>8 DEF Telling
    <3>10. inHand'[Sender] = {}
      BY <1>0, <3>5 DEF Hands, Flushing
    <3>9. unflushed' # {} => batch'.flush
      BY <3>1 DEF Telling
    <3> QED
      BY <3>5, <3>7, <3>8, <3>9, <3>10 DEF Telling, Present
  <2> QED
    BY <1>0, <1>6, <1>9, <2>1, <2>2, <2>3, <2>4, <2>5 DEF SenderSteps
<1> QED
  BY <1>4, <1>7, <1>8, <1>9 DEF Steps

-----------------------------------------------------------------------------
(* Only End makes a response complete.                                     *)

(* _finished stays set.                                                    *)
LEMMA SetStays ==
    ASSUME Types, Plans, NEW s \in Streams, Steps
    PROVE  events[Finished(s)].set => events'[Finished(s)].set
<1>1. Finished(s) \in EventIds
  BY EventNames
<1>2. ASSUME NEW t \in Tasks, Acts(t) PROVE events[Finished(s)].set => events'[Finished(s)].set
  BY <1>2, ToldActs
<1>3. ASSUME NEW r \in Streams, Opens(r) PROVE events[Finished(s)].set => events'[Finished(s)].set
  BY <1>3 DEF Opens
<1>4. ASSUME NEW t \in Tasks, Goes(t) PROVE events[Finished(s)].set => events'[Finished(s)].set
  BY <1>1, <1>4 DEF Goes, Moved
<1> QED
  BY <1>2, <1>3, <1>4, Kinds

(* An application returns from the wait for its end only when told.        *)
LEMMA ReturnsTold ==
    ASSUME Types, Plans, Lines, Sprung, NEW t \in Tasks, Acts(t), NEW s \in Streams,
           pc[s] = "ended", todo[s] # <<>>, todo'[s] = <<>>
    PROVE  events[Finished(s)].set /\ events'[Finished(s)].set
<1>1. /\ s \in Tasks /\ Finished(s) \in EventIds /\ TaskTypes /\ Acted(t)
  BY TaskNames, EventNames DEF Types, Acts
<1>2. t = s /\ Passes(s) /\ todo'[s] = Tail(todo[s])
  BY <1>1 DEF Acted, Parks, Passes
<1>3. todo[s] \in {<<WaitFor(Finished(s))>>, <<Set(HasData), WaitFor(Finished(s))>>}
  BY DEF Plans, AppPlanned, AppPlans
<1>4. todo[s] = <<WaitFor(Finished(s))>>
  <2>1. PICK a, b : a = Set(HasData) /\ b = WaitFor(Finished(s))
    OBVIOUS
  <2>2. Tail(<<a, b>>) = <<b>> /\ <<b>> # <<>>
    BY TailTuples
  <2> QED
    BY <1>2, <1>3, <2>1, <2>2
<1>5. Head(todo[s]) = WaitFor(Finished(s)) /\ Head(todo[s]).do = "wait" /\ Head(todo[s]).on = Finished(s)
  BY <1>4, TailTuples, OpNames
<1>6. events[Finished(s)].set \/ (~world.trio /\ events[Finished(s)].turn # <<>>)
  BY <1>2, <1>5 DEF Passes
<1>7. events[Finished(s)].set
  BY <1>6 DEF Sprung
<1> QED
  BY <1>7, ToldActs

(* Every step keeps the ends.                                              *)
LEMMA StepEnding ==
    ASSUME Types, Plans, Lines, Sprung, Books, Telling, Ending, Steps
    PROVE  Ending'
<1> SUFFICES ASSUME NEW s \in Streams PROVE Ends(s)'
  BY DEF Ending
<1>0. /\ Sender \in Tasks /\ Reader \in Tasks /\ Reader # Sender
      /\ \A r \in Streams : r \in Tasks /\ r # Sender /\ r # Reader
  BY TaskNames
<1>1. Ends(s)
  BY DEF Ending
<1>2. /\ events[Finished(s)].set => events'[Finished(s)].set
      /\ events[Finished(s)].set => ~Present(s)
      /\ Present(s) => response[s].ended = 0
  BY SetStays DEF Telling, Told, Books
<1>3. ASSUME Present(s)' /\ buffers'[s].complete => Present(s) /\ buffers[s].complete,
             response'[s].ended = 1 => response[s].ended = 1,
             pc'[s] = pc[s], todo'[s] = todo[s]
      PROVE  Ends(s)'
  BY <1>1, <1>2, <1>3 DEF Ends
<1>4. ASSUME NEW t \in Tasks, NEW place, NEW ops, Moved(t, place, ops), t # s,
             Present(s)' /\ buffers'[s].complete => Present(s) /\ buffers[s].complete,
             response'[s].ended = 1 => response[s].ended = 1
      PROVE  Ends(s)'
  <2>1. pc'[s] = pc[s] /\ todo'[s] = todo[s]
    BY <1>0, <1>4 DEF Moved
  <2> QED
    BY <1>3, <1>4, <2>1
<1>5. ASSUME NEW place, NEW ops, Moved(s, place, ops),
             Present(s)' /\ buffers'[s].complete =>
                (Present(s) /\ buffers[s].complete) \/ (place = "ended" /\ ops # <<>>),
             response'[s].ended = 1 => response[s].ended = 1,
             response[s].ended = 1 => place \in Past \/ pc[s] \in {"app", "pushed", "responding"}
      PROVE  Ends(s)'
  <2>1. pc'[s] = place /\ todo'[s] = ops /\ todo[s] = <<>>
    BY <1>0, <1>5 DEF Moved
  <2> QED
    BY <1>1, <1>2, <1>5, <2>1 DEF Ends, Past
<1>6. ASSUME NEW t \in Tasks, Acts(t) PROVE Ends(s)'
  <2>1. /\ UNCHANGED <<pc, buffers, response>>
        /\ todo'[s] = <<>> \/ todo'[s] # <<>>
    BY <1>6 DEF Acts, Acted, dataVars
  <2>2. CASE todo'[s] # <<>>
    <3>1. todo[s] # <<>>
      BY <1>0, <1>6, <2>2 DEF Acts, Acted
    <3> QED
      BY <1>1, <1>2, <2>1, <2>2, <3>1 DEF Ends, Present
  <2>3. CASE todo'[s] = <<>> /\ todo[s] # <<>> /\ pc[s] = "ended"
    <3>1. events[Finished(s)].set /\ events'[Finished(s)].set
      BY <1>6, <2>3, ReturnsTold
    <3> QED
      BY <1>1, <1>2, <2>1, <3>1 DEF Ends, Present
  <2>4. CASE todo[s] = <<>> \/ pc[s] # "ended"
    BY <1>1, <1>2, <2>1, <2>4 DEF Ends, Present
  <2> QED
    BY <2>1, <2>2, <2>3, <2>4
<1>7. ASSUME NEW r \in Streams, Opens(r) PROVE Ends(s)'
  <2>1. /\ ~response[r].opened /\ todo' = todo
        /\ Present(s)' <=> (s = r \/ Present(s))
        /\ buffers'[s].complete <=> (s # r /\ buffers[s].complete)
        /\ response'[s].ended = response[s].ended
        /\ pc'[s] = pc[s] \/ s = r \/ (pc[s] = "promising" /\ pc'[s] = "app")
    BY <1>0, <1>7 DEF Opens, Present
  <2>2. CASE s = r
    <3>1. response[s].ended = 0
      BY <2>1, <2>2 DEF Books
    <3> QED
      BY <2>1, <2>2, <3>1 DEF Ends
  <2>3. CASE s # r
    BY <1>1, <1>2, <2>1, <2>3 DEF Ends, Past
  <2> QED
    BY <2>2, <2>3
<1>8. ASSUME NEW r \in Streams, NEW t \in Tasks, NEW place, Shuts(t, r, place), t = s => place = "closed"
      PROVE  Ends(s)'
  <2>1. /\ Moved(t, place, CloseOps(r)) /\ response' = response
        /\ Present(s)' <=> (s # r /\ Present(s))
        /\ buffers'[s].complete <=> (s = r \/ buffers[s].complete)
    BY <1>8 DEF Shuts, Present
  <2>2. CASE t = s
    BY <1>5, <1>8, <2>1, <2>2 DEF Past
  <2>3. CASE t # s
    BY <1>4, <2>1, <2>3
  <2> QED
    BY <2>2, <2>3
<1>9. ASSUME NEW t \in Tasks, NEW place, NEW ops, Quiet(t, place, ops), t # s
      PROVE  Ends(s)'
  BY <1>4, <1>9 DEF Quiet, Present
<1>10. ASSUME NEW r \in Streams, AppSteps(r) PROVE Ends(s)'
  <2>1. CASE AppGoes(r)
    <3>1. CASE r # s
      BY <1>0, <1>9, <2>1, <3>1 DEF AppGoes
    <3>2. CASE r = s
      <4>1. PICK place \in AppPlaces :
              /\ Quiet(s, place, <<>>)
              /\ place \in Past \/ pc[s] \in {"app", "pushed", "responding"}
        BY <2>1, <3>2 DEF AppGoes, Past
      <4> QED
        BY <1>5, <4>1 DEF Quiet, Present
    <3> QED
      BY <3>1, <3>2
  <2>2. ASSUME NEW n \in Sizes, Sends(r, n) PROVE Ends(s)'
    <3>1. /\ Moved(r, "pushed", <<Touch(IsEmpty(r))>>) /\ pc[r] = "app"
          /\ Present(s)' <=> Present(s)
          /\ buffers'[s].complete <=> buffers[s].complete
          /\ response'[s].ended = response[s].ended
      BY <2>2 DEF Sends, Present
    <3> QED
      BY <1>0, <1>4, <1>5, <3>1 DEF Past
  <2>3. CASE Schedules(r)
    <3>1. /\ Moved(r, "app", PushOps(r)) /\ pc[r] = "pushed"
          /\ UNCHANGED <<buffers, response>>
      BY <2>3 DEF Schedules
    <3> QED
      BY <1>0, <1>4, <1>5, <3>1 DEF Present, Past
  <2>4. CASE Completes(r)
    <3>1. /\ Moved(r, "ended", <<Set(HasData), WaitFor(Finished(r))>>) /\ pc[r] = "app"
          /\ <<Set(HasData), WaitFor(Finished(r))>> # <<>>
          /\ response' = response
          /\ Present(s)' <=> Present(s)
          /\ s # r => (buffers'[s].complete <=> buffers[s].complete)
      BY <2>4 DEF Completes, Present
    <3> QED
      BY <1>0, <1>4, <1>5, <3>1 DEF Past
  <2>5. CASE Abandons(r)
    <3>1. /\ Moved(r, "ended", <<>>) /\ pc[r] = "app"
          /\ buffers' = buffers /\ response'[s].ended = response[s].ended
      BY <2>5 DEF Abandons
    <3> QED
      BY <1>0, <1>4, <1>5, <3>1 DEF Present, Past
  <2> QED
    BY <1>0, <1>7, <1>8, <1>10, <2>1, <2>2, <2>3, <2>4, <2>5 DEF AppSteps
<1>11. CASE ReaderSteps
  <2>1. CASE ReaderGoes
    BY <1>0, <1>9, <2>1 DEF ReaderGoes
  <2>2. CASE Windows
    BY <1>0, <1>9, <2>2 DEF Windows
  <2>3. CASE Breaks
    BY <1>0, <1>9, <2>3 DEF Breaks
  <2>4. CASE Updates
    BY <1>0, <1>4, <2>4 DEF Updates, Present
  <2> QED
    BY <1>0, <1>7, <1>8, <1>11, <2>1, <2>2, <2>3, <2>4 DEF ReaderSteps
<1>12. CASE SenderSteps
  <2>1. CASE SenderGoes
    BY <1>0, <1>9, <2>1 DEF SenderGoes
  <2>2. CASE Finishing
    BY <1>0, <1>4, <2>2 DEF Finishing, dataVars, Present
  <2>3. ASSUME NEW r \in Streams, Picks(r) PROVE Ends(s)'
    BY <1>0, <1>4, <2>3 DEF Picks, dataVars, Present
  <2>4. ASSUME NEW r \in Streams, NEW n \in Nat, Pops(r, n) PROVE Ends(s)'
    BY <1>0, <1>4, <2>4 DEF Pops, Present
  <2>5. ASSUME NEW r \in Streams, Ships(r) PROVE Ends(s)'
    <3>1. /\ Moved(Sender, "sent", <<>>) /\ Present(r)
          /\ Present(s)' => Present(s)
          /\ buffers'[s].complete <=> buffers[s].complete
          /\ response'[s].ended = 1 => response[s].ended = 1 \/ (s = r /\ Complete(s))
      BY <2>5 DEF Ships, Present
    <3>2. CASE s = r /\ Complete(s)
      <4>1. pc[s] = "ended" /\ todo[s] # <<>>
        BY <1>1, <3>1, <3>2 DEF Ends, Complete
      <4>2. pc'[s] = pc[s] /\ todo'[s] = todo[s]
        BY <1>0, <3>1 DEF Moved
      <4> QED
        BY <4>1, <4>2 DEF Ends, Past
    <3>3. CASE ~(s = r /\ Complete(s))
      BY <1>0, <1>4, <3>1, <3>3
    <3> QED
      BY <3>2, <3>3
  <2> QED
    BY <1>0, <1>8, <1>12, <2>1, <2>2, <2>3, <2>4, <2>5 DEF SenderSteps
<1> QED
  BY <1>6, <1>10, <1>11, <1>12 DEF Steps

-----------------------------------------------------------------------------
(* Why a response may end without END_STREAM.                              *)

(* A response that may end without END_STREAM stays so.                    *)
LEMMA ExcusedStays ==
    ASSUME Types, Books, Steps, NEW s \in Streams, Excused(s)
    PROVE  Excused(s)'
<1>1. /\ world' = world
      /\ resets \subseteq resets' /\ (closed => closed')
      /\ response[s].abandoned => response'[s].abandoned
      /\ response[s].ended = 1 => response'[s].ended = 1
  <2>0. Present(s) => response[s].ended = 0
    BY DEF Books
  <2>1. ASSUME NEW t \in Tasks, Acts(t) PROVE UNCHANGED <<world, resets, closed, response>>
    BY <2>1 DEF Acts, dataVars, readerVars
  <2>2. ASSUME NEW r \in Streams, Opens(r)
        PROVE  /\ UNCHANGED <<world, resets, closed>>
               /\ response'[s].abandoned = response[s].abandoned
               /\ response'[s].ended = response[s].ended
    BY <2>2 DEF Opens
  <2>3. ASSUME NEW r \in Streams, NEW t \in Tasks, NEW place, Shuts(t, r, place)
        PROVE  UNCHANGED <<world, resets, closed, response>>
    BY <2>3 DEF Shuts
  <2>4. ASSUME NEW r \in Streams, AppSteps(r)
        PROVE  /\ UNCHANGED <<world, resets, closed>>
               /\ response[s].abandoned => response'[s].abandoned
               /\ response'[s].ended = response[s].ended
    <3>1. CASE AppGoes(r)
      BY <3>1 DEF AppGoes, Quiet
    <3>2. CASE \E n \in Sizes : Sends(r, n)
      BY <3>2 DEF Sends, readerVars
    <3>3. CASE Schedules(r)
      BY <3>3 DEF Schedules, readerVars
    <3>4. CASE Completes(r)
      BY <3>4 DEF Completes, readerVars
    <3>5. CASE Abandons(r)
      BY <3>5 DEF Abandons, readerVars
    <3> QED
      BY <2>2, <2>3, <2>4, <3>1, <3>2, <3>3, <3>4, <3>5, TaskNames DEF AppSteps
  <2>5. CASE ReaderSteps
    <3>1. CASE ReaderGoes
      BY <3>1 DEF ReaderGoes, Quiet
    <3>2. CASE Windows
      BY <3>2 DEF Windows, Quiet
    <3>3. CASE Breaks
      BY <3>3 DEF Breaks, Quiet
    <3>4. CASE Updates
      BY <3>4 DEF Updates
    <3> QED
      BY <2>2, <2>3, <2>5, <3>1, <3>2, <3>3, <3>4, TaskNames DEF ReaderSteps
  <2>6. CASE SenderSteps
    <3>1. CASE SenderGoes
      BY <3>1 DEF SenderGoes, Quiet, readerVars
    <3>2. CASE Finishing
      BY <3>2 DEF Finishing, dataVars, readerVars
    <3>3. ASSUME NEW r \in Streams, Picks(r) PROVE UNCHANGED <<world, resets, closed, response>>
      BY <3>3 DEF Picks, dataVars, readerVars
    <3>4. ASSUME NEW r \in Streams, NEW n \in Nat, Pops(r, n)
          PROVE  UNCHANGED <<world, resets, closed, response>>
      BY <3>4 DEF Pops, readerVars
    <3>5. ASSUME NEW r \in Streams, Ships(r)
          PROVE  /\ UNCHANGED <<world, resets, closed>>
                 /\ response'[s].abandoned = response[s].abandoned
                 /\ response[s].ended = 1 => response'[s].ended = 1
      <4>1. /\ UNCHANGED <<world, resets, closed>> /\ Present(r)
            /\ response'[s].abandoned = response[s].abandoned
            /\ response'[s].ended = IF s = r /\ Complete(r) THEN response[s].ended + 1
                                    ELSE response[s].ended
        BY <3>5 DEF Ships, readerVars
      <4>2. s = r => response[s].ended # 1
        BY <2>0, <4>1
      <4> QED
        BY <4>1, <4>2
    <3> QED
      BY <2>3, <2>6, <3>1, <3>2, <3>3, <3>4, <3>5, TaskNames DEF SenderSteps
  <2> QED
    BY <2>1, <2>4, <2>5, <2>6 DEF Steps
<1> QED
  BY <1>1 DEF Excused, May

(* A response is over only with END_STREAM or an excuse.                   *)
LEMMA PartedExcused ==
    ASSUME Types, Plans, Lines, Sprung, Books, Telling, Excuses, Steps, NEW s \in Streams, Parted(s)'
    PROVE  Excused(s)'
<1>0. /\ Sender \in Tasks /\ Reader \in Tasks /\ Reader # Sender
      /\ \A r \in Streams : r \in Tasks /\ r # Sender /\ r # Reader
  BY TaskNames
<1>1. Parted(s) => Excused(s)'
  BY ExcusedStays DEF Excuses
<1>2. /\ response[s].opened /\ ~Present(s) => Parted(s)
      /\ pc[s] \in Past /\ pc[s] # "ended" => Parted(s)
      /\ pc[s] = "ended" /\ todo[s] = <<>> => Parted(s)
  BY DEF Parted, Past
<1>3. ASSUME response'[s].opened => response[s].opened, ~Present(s)' => ~Present(s),
             pc'[s] = pc[s], todo'[s] = todo[s]
      PROVE  Excused(s)'
  BY <1>1, <1>3 DEF Parted
<1>4. ASSUME NEW t \in Tasks, NEW place, NEW ops, Moved(t, place, ops), t # s,
             response'[s].opened => response[s].opened, ~Present(s)' => ~Present(s)
      PROVE  Excused(s)'
  <2>1. pc'[s] = pc[s] /\ todo'[s] = todo[s]
    BY <1>0, <1>4 DEF Moved
  <2> QED
    BY <1>3, <1>4, <2>1
<1>5. ASSUME NEW place, NEW ops, Moved(s, place, ops),
             response'[s].opened => response[s].opened, ~Present(s)' => ~Present(s),
             place \notin Past \/ (place = "ended" /\ ops # <<>>)
      PROVE  Excused(s)'
  <2>1. pc'[s] = place /\ todo'[s] = ops
    BY <1>0, <1>5 DEF Moved
  <2> QED
    BY <1>1, <1>2, <1>5, <2>1 DEF Parted
<1>6. ASSUME NEW t \in Tasks, Acts(t) PROVE Excused(s)'
  <2>1. /\ UNCHANGED <<pc, buffers, response>>
        /\ Present(s)' <=> Present(s)
    BY <1>6 DEF Acts, Acted, dataVars, Present
  <2>2. CASE pc[s] = "ended" /\ todo'[s] = <<>> /\ todo[s] # <<>>
    <3>1. events[Finished(s)].set
      BY <1>6, <2>2, ReturnsTold
    <3>2. response[s].opened /\ ~Present(s)
      BY <3>1 DEF Telling, Told
    <3> QED
      BY <1>1, <1>2, <3>2
  <2>3. CASE ~(pc[s] = "ended" /\ todo'[s] = <<>> /\ todo[s] # <<>>)
    BY <1>1, <2>1, <2>3 DEF Parted
  <2> QED
    BY <2>2, <2>3
<1>7. ASSUME NEW r \in Streams, Opens(r) PROVE Excused(s)'
  <2>1. /\ ~response[r].opened /\ todo' = todo
        /\ Present(s)' <=> (s = r \/ Present(s))
        /\ response'[s].opened <=> (s = r \/ response[s].opened)
        /\ pc'[s] = pc[s] \/ pc'[s] = "app"
        /\ s = r => pc'[s] = "app"
    BY <1>0, <1>7 DEF Opens, Present
  <2> QED
    BY <1>1, <2>1 DEF Parted, Past
<1>8. ASSUME NEW r \in Streams, NEW t \in Tasks, NEW place, Shuts(t, r, place), t = s => place = "closed"
      PROVE  Excused(s)'
  <2>1. /\ Moved(t, place, CloseOps(r)) /\ response' = response /\ Present(r)
        /\ Present(s)' <=> (s # r /\ Present(s))
        /\ \/ t = r /\ pc[r] = "popping" /\ place = "closed"
           \/ leaving # <<>> /\ r = Head(leaving) /\ t = Reader
           \/ t = Sender /\ r \in resets
           \/ t = Sender /\ r = batch.stream /\ Refused(r) /\ pc[Sender] = "popped"
        /\ t \in {r, Reader, Sender}
    BY <1>8 DEF Shuts, Present
  <2>2. CASE r # s
    BY <1>0, <1>4, <2>1, <2>2
  <2>3. CASE r = s
    <3>1. CASE t = r /\ pc[r] = "popping"
      BY <1>1, <1>2, <2>3, <3>1 DEF Past
    <3>2. CASE leaving # <<>> /\ r = Head(leaving)
      <4>1. leaving \in Seq(Streams)
        BY DEF Types, DataTypes
      <4>2. Head(leaving) = leaving[1] /\ 1 \in 1..Len(leaving)
        BY <3>2, <4>1, HeadTailProperties, EmptySeq
      <4>3. r \in resets \/ closed
        BY <3>2, <4>2 DEF Excuses
      <4>4. Excused(s)
        BY <2>3, <4>3 DEF Excused
      <4> QED
        BY <4>4, ExcusedStays
    <3>3. CASE r \in resets
      <4>1. Excused(s)
        BY <2>3, <3>3 DEF Excused
      <4> QED
        BY <4>1, ExcusedStays
    <3>4. CASE r = batch.stream /\ Refused(r) /\ pc[Sender] = "popped"
      <4>1. r \in resets \/ batch.data > Most(0, FlowWindow(r))
        BY <3>4 DEF Refused
      <4>2. batch.data <= Most(0, FlowWindow(r)) \/ (world.trio /\ May("shrink"))
        BY <2>1, <3>4 DEF Excuses, Fits
      <4>3. batch.data \in Nat /\ Most(0, FlowWindow(r)) \in Int
        <5>1. window.all \in Nat /\ window.of[r] \in Int
          BY DEF Types, DataTypes
        <5> QED
          BY <5>1 DEF Types, DataTypes, Batches, Most, FlowWindow, Least
      <4>4. r \in resets \/ (world.trio /\ May("shrink"))
        BY <4>1, <4>2, <4>3
      <4>5. Excused(s)
        BY <2>3, <4>4 DEF Excused
      <4> QED
        BY <4>5, ExcusedStays
    <3> QED
      BY <2>1, <3>1, <3>2, <3>3, <3>4
  <2> QED
    BY <2>2, <2>3
<1>9. ASSUME NEW t \in Tasks, NEW place, NEW ops, Quiet(t, place, ops), t # s
      PROVE  Excused(s)'
  BY <1>4, <1>9 DEF Quiet, Present
<1>10. ASSUME NEW r \in Streams, AppSteps(r) PROVE Excused(s)'
  <2>1. CASE AppGoes(r)
    <3>1. CASE r # s
      BY <1>0, <1>9, <2>1, <3>1 DEF AppGoes
    <3>2. CASE r = s
      <4>1. PICK place \in AppPlaces :
              /\ Quiet(s, place, <<>>)
              /\ \/ place \in Idle
                 \/ ~Present(s) /\ pc[s] = "app"
                 \/ pc[s] \in Past
        BY <2>1, <3>2 DEF AppGoes, Idle, Past
      <4>2. todo[s] = <<>> /\ buffers' = buffers /\ response' = response
        BY <4>1 DEF Quiet, Moved
      <4>3. CASE place \in Idle
        BY <1>5, <4>1, <4>2, <4>3 DEF Present, Quiet, Idle, Past
      <4>4. CASE ~Present(s) /\ pc[s] = "app"
        BY <1>1, <1>2, <4>4 DEF Plans, Alive
      <4>5. CASE pc[s] \in Past
        BY <1>1, <1>2, <4>2, <4>5
      <4> QED
        BY <4>1, <4>3, <4>4, <4>5
    <3> QED
      BY <3>1, <3>2
  <2>2. ASSUME NEW n \in Sizes, Sends(r, n) PROVE Excused(s)'
    <3>1. /\ Moved(r, "pushed", <<Touch(IsEmpty(r))>>)
          /\ Present(s)' <=> Present(s)
          /\ response'[s].opened = response[s].opened
      BY <2>2 DEF Sends, Present
    <3> QED
      BY <1>0, <1>4, <1>5, <3>1 DEF Past
  <2>3. CASE Schedules(r)
    <3>1. /\ Moved(r, "app", PushOps(r))
          /\ UNCHANGED <<buffers, response>>
      BY <2>3 DEF Schedules
    <3> QED
      BY <1>0, <1>4, <1>5, <3>1 DEF Present, Past
  <2>4. CASE Completes(r)
    <3>1. /\ Moved(r, "ended", <<Set(HasData), WaitFor(Finished(r))>>)
          /\ <<Set(HasData), WaitFor(Finished(r))>> # <<>>
          /\ response' = response
          /\ Present(s)' <=> Present(s)
      BY <2>4 DEF Completes, Present
    <3> QED
      BY <1>0, <1>4, <1>5, <3>1 DEF Past
  <2>5. CASE Abandons(r)
    <3>1. /\ Moved(r, "ended", <<>>)
          /\ buffers' = buffers /\ response'[s].opened = response[s].opened
          /\ r = s => response'[s].abandoned
      BY <2>5 DEF Abandons
    <3>2. CASE r = s
      BY <3>1, <3>2 DEF Excused
    <3> QED
      BY <1>0, <1>4, <3>1, <3>2 DEF Present
  <2> QED
    BY <1>0, <1>7, <1>8, <1>10, <2>1, <2>2, <2>3, <2>4, <2>5 DEF AppSteps
<1>11. CASE ReaderSteps
  <2>1. CASE ReaderGoes
    BY <1>0, <1>9, <2>1 DEF ReaderGoes
  <2>2. CASE Windows
    BY <1>0, <1>9, <2>2 DEF Windows
  <2>3. CASE Breaks
    BY <1>0, <1>9, <2>3 DEF Breaks
  <2>4. CASE Updates
    BY <1>0, <1>4, <2>4 DEF Updates, Present
  <2> QED
    BY <1>0, <1>7, <1>8, <1>11, <2>1, <2>2, <2>3, <2>4 DEF ReaderSteps
<1>12. CASE SenderSteps
  <2>1. CASE SenderGoes
    BY <1>0, <1>9, <2>1 DEF SenderGoes
  <2>2. CASE Finishing
    BY <1>0, <1>4, <2>2 DEF Finishing, dataVars, Present
  <2>3. ASSUME NEW r \in Streams, Picks(r) PROVE Excused(s)'
    BY <1>0, <1>4, <2>3 DEF Picks, dataVars, Present
  <2>4. ASSUME NEW r \in Streams, NEW n \in Nat, Pops(r, n) PROVE Excused(s)'
    BY <1>0, <1>4, <2>4 DEF Pops, Present
  <2>5. ASSUME NEW r \in Streams, Ships(r) PROVE Excused(s)'
    <3>1. /\ Moved(Sender, "sent", <<>>) /\ Present(r)
          /\ Present(s)' <=> (Present(s) /\ ~(s = r /\ Complete(r)))
          /\ response'[s].opened = response[s].opened
          /\ s = r /\ Complete(r) => response'[s].ended = response[s].ended + 1
      BY <2>5 DEF Ships, Present
    <3>2. CASE s = r /\ Complete(s)
      <4>1. response[s].ended = 0
        BY <3>1, <3>2 DEF Books
      <4> QED
        BY <3>1, <3>2, <4>1 DEF Excused
    <3>3. CASE ~(s = r /\ Complete(s))
      BY <1>0, <1>4, <3>1, <3>3
    <3> QED
      BY <3>2, <3>3
  <2> QED
    BY <1>0, <1>8, <1>12, <2>1, <2>2, <2>3, <2>4, <2>5 DEF SenderSteps
<1> QED
  BY <1>6, <1>10, <1>11, <1>12 DEF Steps

(* Under asyncio nobody comes between the pop and the send.                *)
LEMMA SenderKeeps ==
    ASSUME Types, Plans, Lines, ~world.trio, pc[Sender] = "popped"
    PROVE  cpu = Sender
<1>1. TaskTypes /\ Sender \in Tasks
  BY TaskNames DEF Types
<1>2. CASE todo[Sender] = <<>>
  BY <1>1, <1>2 DEF Lines, Running, Suspended
<1>3. CASE todo[Sender] # <<>>
  <2>1. In(Head(todo[Sender]), todo[Sender])
    BY <1>1, <1>3, Awaited
  <2>2. SenderHas(Head(todo[Sender]))
    BY <1>1, <2>1, Having, TaskNames
  <2>3. Head(todo[Sender]).do # "wait"
    BY <2>2, OpNames DEF SenderHas
  <2> QED
    BY <1>1, <1>3, <2>3, Busy
<1> QED
  BY <1>2, <1>3

(* The reader closes the streams of a reset or a lost connection.          *)
LEMMA LeaversStep ==
    ASSUME Types, Plans, Steps, \A i \in 1..Len(leaving) : leaving[i] \in resets \/ closed
    PROVE  \A i \in 1..Len(leaving') : leaving'[i] \in resets' \/ closed'
<1>0. leaving \in Seq(Streams)
  BY DEF Types, DataTypes
<1>1. ASSUME leaving' = leaving, resets' = resets, closed' = closed
      PROVE  \A i \in 1..Len(leaving') : leaving'[i] \in resets' \/ closed'
  BY <1>1
<1>2. ASSUME leaving # <<>>, leaving' = Tail(leaving), resets' = resets, closed' = closed
      PROVE  \A i \in 1..Len(leaving') : leaving'[i] \in resets' \/ closed'
  <2>1. PICK r, n : r = Tail(leaving) /\ n = Len(leaving)
    OBVIOUS
  <2>2. n \in Nat /\ n > 0 /\ Len(r) = n - 1 /\ \A i \in 1..(n-1) : r[i] = leaving[i+1]
    BY <1>0, <1>2, <2>1, EmptySeq, HeadTailProperties
  <2>3. \A i \in 1..(n-1) : i + 1 \in 1..n
    BY <2>2
  <2> QED
    BY <1>2, <2>1, <2>2, <2>3
<1>3. CASE Breaks
  <2>1. closed' \/ \E s \in resets' : leaving' = <<s>>
    BY <1>3 DEF Breaks
  <2>2. ASSUME NEW s \in resets', leaving' = <<s>>
        PROVE  \A i \in 1..Len(leaving') : leaving'[i] \in resets' \/ closed'
    BY <2>2
  <2> QED
    BY <2>1, <2>2
<1>4. ASSUME NEW r \in Streams, NEW t \in Tasks, NEW place, Shuts(t, r, place)
      PROVE  \A i \in 1..Len(leaving') : leaving'[i] \in resets' \/ closed'
  <2>1. /\ resets' = resets /\ closed' = closed
        /\ leaving' = leaving \/ (leaving # <<>> /\ leaving' = Tail(leaving))
    BY <1>4 DEF Shuts
  <2> QED
    BY <1>1, <1>2, <2>1
<1>5. ASSUME NEW t \in Tasks, Acts(t) PROVE UNCHANGED <<resets, closed, leaving>>
  BY <1>5 DEF Acts, readerVars
<1>6. ASSUME NEW r \in Streams, Opens(r) PROVE UNCHANGED <<resets, closed, leaving>>
  BY <1>6 DEF Opens
<1>7. ASSUME NEW s \in Streams, AppSteps(s)
      PROVE  UNCHANGED <<resets, closed, leaving>> \/ Shuts(s, s, "closed")
  BY <1>6, <1>7 DEF AppSteps, AppGoes, Sends, Schedules, Completes, Abandons, readerVars
<1>8. CASE ReaderSteps
  <2>1. CASE ReaderGoes
    <3>1. /\ resets' = resets /\ closed' = closed
          /\ leaving' = leaving \/ (pc[Reader] = "popping" /\ leaving' = Tail(leaving))
      BY <2>1 DEF ReaderGoes
    <3> QED
      BY <1>1, <1>2, <3>1 DEF Plans, ReaderPlanned
  <2>2. CASE Windows
    BY <1>1, <2>2 DEF Windows
  <2>3. CASE Updates
    BY <1>1, <2>3 DEF Updates
  <2> QED
    BY <1>1, <1>3, <1>4, <1>6, <1>8, <2>1, <2>2, <2>3, TaskNames DEF ReaderSteps
<1>9. CASE SenderSteps
  <2>1. ASSUME NEW s \in Streams, Picks(s) \/ (\E n \in Nat : Pops(s, n)) \/ Ships(s)
        PROVE  UNCHANGED <<resets, closed, leaving>>
    BY <2>1 DEF Picks, Pops, Ships, readerVars
  <2>2. CASE SenderGoes \/ Finishing
    BY <1>1, <2>2 DEF SenderGoes, Finishing, readerVars
  <2> QED
    BY <1>1, <1>4, <1>9, <2>1, <2>2, TaskNames DEF SenderSteps
<1> QED
  BY <1>1, <1>4, <1>5, <1>7, <1>8, <1>9, TaskNames DEF Steps

(* What is popped fits.                                                    *)
LEMMA LengthFits ==
    ASSUME Types, NEW s \in Streams
    PROVE  Length(s) <= Most(0, FlowWindow(s))
<1>1. /\ window.all \in Nat /\ window.of[s] \in Int /\ FlowWindow(s) \in Int
      /\ MaxFrame \in Nat /\ buffers[s].size \in Nat
  BY H2SendAssumption DEF Types, DataTypes, FlowWindow, Least, Buffers
<1>2. PICK f : f = FlowWindow(s)
  OBVIOUS
<1>3. Frame(s) \in Int /\ Frame(s) <= Most(0, f)
  BY <1>1, <1>2 DEF Frame, Most, Least
<1>4. Length(s) <= Frame(s)
  BY <1>1, <1>3 DEF Length, Least
<1>5. Length(s) \in Int /\ Most(0, f) \in Int
  BY <1>1, <1>2, <1>3 DEF Length, Least, Most
<1> QED
  BY <1>2, <1>3, <1>4, <1>5

(* Every step keeps what is popped within the windows.                     *)
LEMMA FitsStep ==
    ASSUME Types, Plans, Lines, Fits, Steps, Types'
    PROVE  Fits'
<1>0. /\ Sender \in Tasks /\ Reader \in Tasks /\ Reader # Sender
      /\ \A r \in Streams : r \in Tasks /\ r # Sender /\ r # Reader
      /\ world' = world
  BY TaskNames, Kinds
<1>1. PICK s : s = batch'.stream
  OBVIOUS
<1>2. SUFFICES ASSUME pc'[Sender] = "popped", buffers'[s].present, ~(world.trio /\ May("shrink"))
               PROVE  batch'.data <= Most(0, FlowWindow(s)')
  BY <1>0, <1>1 DEF Fits, May, Present, FlowWindow
<1>3. /\ window.all \in Nat /\ \A r \in Streams : window.of[r] \in Int
      /\ \A r \in Streams : FlowWindow(r) \in Int
      /\ batch.data \in Nat
  BY DEF Types, DataTypes, FlowWindow, Least, Batches
<1>4. pc[Sender] = "popped" => batch.stream \in Streams /\ response[batch.stream].opened
  BY DEF Plans, SenderPlanned
<1>5. ASSUME pc[Sender] = "popped", batch' = batch, FlowWindow(s)' = FlowWindow(s),
             \A r \in Streams : response[r].opened /\ buffers'[r].present => buffers[r].present
      PROVE  batch'.data <= Most(0, FlowWindow(s)')
  <2>1. s \in Streams /\ s = batch.stream /\ Present(s)
    BY <1>1, <1>2, <1>4, <1>5 DEF Present
  <2> QED
    BY <1>2, <1>5, <2>1 DEF Fits
<1>6. ASSUME NEW t \in Tasks, NEW place, NEW ops, Moved(t, place, ops), t # Sender,
             batch' = batch, window' = window,
             \A r \in Streams : buffers'[r].present => buffers[r].present
      PROVE  batch'.data <= Most(0, FlowWindow(s)')
  <2>1. pc[Sender] = "popped"
    BY <1>0, <1>2, <1>6 DEF Moved
  <2> QED
    BY <1>5, <1>6, <2>1 DEF FlowWindow
<1>7. ASSUME NEW t \in Tasks, Acts(t) PROVE batch'.data <= Most(0, FlowWindow(s)')
  BY <1>2, <1>5, <1>7 DEF Acts, Acted, dataVars, FlowWindow
<1>8. ASSUME NEW r \in Streams, Opens(r) PROVE batch'.data <= Most(0, FlowWindow(s)')
  <2>1. /\ pc'[Sender] = pc[Sender] /\ ~response[r].opened /\ batch' = batch /\ window' = window
        /\ \A q \in Streams : buffers'[q].present <=> (q = r \/ buffers[q].present)
    BY <1>0, <1>8 DEF Opens
  <2> QED
    BY <1>2, <1>5, <2>1 DEF FlowWindow
<1>9. ASSUME NEW r \in Streams, NEW t \in Tasks, NEW place, Shuts(t, r, place),
             t = Sender => place = "sent"
      PROVE  batch'.data <= Most(0, FlowWindow(s)')
  <2>1. t # Sender
    BY <1>2, <1>9 DEF Shuts, Moved
  <2> QED
    BY <1>6, <1>9, <2>1 DEF Shuts
<1>10. ASSUME NEW r \in Streams, AppSteps(r) PROVE batch'.data <= Most(0, FlowWindow(s)')
  <2>1. CASE AppGoes(r)
    BY <1>0, <1>6, <2>1 DEF AppGoes, Quiet
  <2>2. CASE \E n \in Sizes : Sends(r, n)
    BY <1>0, <1>6, <2>2 DEF Sends
  <2>3. CASE Schedules(r)
    BY <1>0, <1>6, <2>3 DEF Schedules
  <2>4. CASE Completes(r)
    BY <1>0, <1>6, <2>4 DEF Completes
  <2>5. CASE Abandons(r)
    BY <1>0, <1>6, <2>5 DEF Abandons
  <2> QED
    BY <1>0, <1>8, <1>9, <1>10, <2>1, <2>2, <2>3, <2>4, <2>5 DEF AppSteps
<1>11. CASE ReaderSteps
  <2>1. CASE ReaderGoes
    BY <1>0, <1>6, <2>1 DEF ReaderGoes, Quiet
  <2>2. CASE Windows
    <3>1. /\ Moved(Reader, "update", <<>>) /\ UNCHANGED <<buffers, batch>>
          /\ \A r \in Streams : ~May("shrink") => FlowWindow(r)' >= FlowWindow(r)
      BY <2>2 DEF Windows, Quiet
    <3>2. pc[Sender] = "popped" /\ cpu # Sender
      BY <1>0, <1>2, <3>1, TaskNames DEF Moved
    <3>3. world.trio /\ ~May("shrink")
      <4>1. world.trio \/ ~world.trio
        OBVIOUS
      <4> QED
        BY <1>2, <3>2, <4>1, SenderKeeps
    <3>4. s \in Streams /\ s = batch.stream /\ Present(s)
      BY <1>1, <1>2, <1>4, <3>1, <3>2 DEF Present
    <3>5. batch.data <= Most(0, FlowWindow(s))
      BY <1>2, <3>2, <3>4 DEF Fits
    <3>6. FlowWindow(s)' >= FlowWindow(s) /\ FlowWindow(s) \in Int
      BY <1>3, <3>1, <3>3, <3>4
    <3>7. FlowWindow(s)' \in Int
      BY <3>4 DEF Types, DataTypes, FlowWindow, Least
    <3> QED
      BY <1>3, <3>1, <3>5, <3>6, <3>7 DEF Most
  <2>3. CASE Breaks
    BY <1>0, <1>6, <2>3 DEF Breaks, Quiet
  <2>4. CASE Updates
    BY <1>0, <1>6, <2>4 DEF Updates
  <2> QED
    BY <1>0, <1>8, <1>9, <1>11, <2>1, <2>2, <2>3, <2>4 DEF ReaderSteps
<1>12. CASE SenderSteps
  <2>1. CASE SenderGoes
    BY <1>0, <1>2, <2>1 DEF SenderGoes, Quiet, Moved
  <2>2. CASE Finishing
    BY <1>0, <1>2, <2>2 DEF Finishing, Moved
  <2>3. ASSUME NEW r \in Streams, Picks(r) PROVE FALSE
    BY <1>0, <1>2, <2>3 DEF Picks, Moved
  <2>4. ASSUME NEW r \in Streams, NEW n \in Nat, Pops(r, n) PROVE batch'.data <= Most(0, FlowWindow(s)')
    <3>1. s = r /\ batch'.data = Length(r) /\ FlowWindow(s)' = FlowWindow(s)
      BY <1>1, <2>4 DEF Pops, FlowWindow
    <3> QED
      BY <3>1, LengthFits
  <2>5. ASSUME NEW r \in Streams, Ships(r) PROVE FALSE
    BY <1>0, <1>2, <2>5 DEF Ships, Moved
  <2> QED
    BY <1>0, <1>9, <1>12, <2>1, <2>2, <2>3, <2>4, <2>5 DEF SenderSteps
<1> QED
  BY <1>7, <1>10, <1>11, <1>12 DEF Steps

(* Every step keeps the excuses.                                           *)
LEMMA StepExcuses ==
    ASSUME Types, Plans, Lines, Sprung, Books, Telling, Excuses, Steps, Types'
    PROVE  Excuses'
BY PartedExcused, LeaversStep, FitsStep DEF Excuses

-----------------------------------------------------------------------------
(* The room in a buffer.                                                   *)

(* The marks of a buffer are numbers in order.                             *)
LEMMA Marks ==
    ASSUME NEW n \in Sizes
    PROVE  /\ LowWater \in Nat /\ HighWater \in Nat /\ n \in Nat
           /\ LowWater < HighWater /\ HighWater <= HighWater + n /\ HighWater + n <= HighWater + 2 * n
           /\ HighWater + n \in Nat /\ HighWater + 2 * n \in Nat
<1>1. HighWater \in Nat /\ HighWater > 0 /\ n \in Nat
  BY H2SendAssumption
<1>2. LowWater \in Nat /\ LowWater < HighWater
  BY <1>1 DEF LowWater
<1> QED
  BY <1>1, <1>2

(* Whoever closes a buffer tells the application that it is finished, too. *)
LEMMA ClosersFinish ==
    ASSUME NEW s, NEW plan \in Closings(s), In(Set(Paused(s)), plan), s \in Streams
    PROVE  In(Set(Finished(s)), plan)
<1> PICK a, b, c, d : /\ a = Touch(IsEmpty(s)) /\ b = Set(Paused(s))
                      /\ c = Set(Finished(s)) /\ d = Set(HasData)
  OBVIOUS
<1>1. plan \in {<<>>, <<d>>, <<c, d>>, <<b, c, d>>, <<a, b, c, d>>}
  BY DEF Closings, CloseOps
<1>2. b # c /\ b # d
  BY OpNames, EventNames
<1>3. plan # <<>> /\ plan # <<d>> /\ plan # <<c, d>>
  BY <1>2, InTuples
<1>4. In(c, <<b, c, d>>) /\ In(c, <<a, b, c, d>>)
  BY InTuples
<1> QED
  BY <1>1, <1>3, <1>4

(* Nobody but the sender sets the event of the room of a live buffer.      *)
LEMMA TellsOnly ==
    ASSUME Types, Plans, Telling, NEW s \in Streams, NEW t \in Tasks, In(Set(Paused(s)), todo[t])
    PROVE  /\ response[s].opened
           /\ Present(s) => t = Sender /\ Tells(s)
<1>1. \/ t = s /\ pc[s] = "closed"
      \/ t = Reader /\ pc[Reader] = "closing"
      \/ t = Sender /\ batch.stream = s /\ pc[Sender] \in {"popped", "sent"}
  BY Owners, OpNames
<1>2. ASSUME In(Set(Finished(s)), todo[t]) PROVE response[s].opened /\ ~Present(s)
  BY <1>2 DEF Telling, Told, Pending
<1>3. CASE t = s /\ pc[s] = "closed"
  <2>1. todo[s] \in Closings(s)
    BY <1>3 DEF Plans, AppPlanned, AppPlans
  <2> QED
    BY <1>2, <1>3, <2>1, ClosersFinish
<1>4. CASE t = Reader /\ pc[Reader] = "closing"
  <2>1. todo[Reader] = <<>> \/ \E r \in Streams : todo[Reader] \in Closings(r)
    BY <1>4 DEF Plans, ReaderPlanned, ReaderPlans
  <2>2. PICK r \in Streams : todo[Reader] \in Closings(r)
    BY <1>4, <2>1, InTuples
  <2>3. Set(Paused(s)) \in Closes(r)
    BY <1>4, <2>2, ClosingsHave
  <2>4. r = s
    BY <2>3, OpNames, EventNames DEF Closes
  <2> QED
    BY <1>2, <1>4, <2>2, <2>4, ClosersFinish
<1>5. CASE t = Sender /\ batch.stream = s /\ pc[Sender] = "sent"
  <2>1. todo[Sender] \in Closings(s)
    BY <1>5 DEF Plans, SenderPlanned, SenderPlans
  <2> QED
    BY <1>2, <1>5, <2>1, ClosersFinish
<1>6. CASE t = Sender /\ batch.stream = s /\ pc[Sender] = "popped"
  <2> PICK a, b : a = Set(Paused(s)) /\ b = Touch(IsEmpty(s))
    OBVIOUS
  <2>1. todo[Sender] \in {<<>>, <<a>>, <<b>>, <<a, b>>}
    BY <1>6 DEF Plans, SenderPlanned, SenderPlans
  <2>2. a # b
    BY OpNames
  <2>3. todo[Sender] = <<a>> \/ todo[Sender] = <<a, b>>
    BY <1>6, <2>1, <2>2, InTuples
  <2>4. Head(<<a>>) = a /\ Head(<<a, b>>) = a /\ <<a>> # <<>> /\ <<a, b>> # <<>>
    BY TailTuples
  <2>5. Tells(s)
    BY <1>6, <2>3, <2>4 DEF Tells, Handled
  <2>6. response[s].opened
    BY <1>6 DEF Plans, SenderPlanned
  <2> QED
    BY <1>6, <2>5, <2>6
<1> QED
  BY <1>1, <1>3, <1>4, <1>5, <1>6

(* A move of another task than the sender.                                 *)
LEMMA TellsMoves ==
    ASSUME NEW t \in Tasks, NEW place, NEW ops, Moved(t, place, ops), NEW s \in Streams
    PROVE  /\ t # Sender /\ batch' = batch => (Tells(s)' <=> Tells(s)) /\ (Roomy(s)' <=> Roomy(s))
           /\ t = Sender => ~Tells(s)
           /\ t = Sender /\ place # "popped" => ~Tells(s)' /\ (Roomy(s)' <=> Roomy(s))
<1>1. /\ todo[t] = <<>> /\ \A u \in Tasks : /\ pc'[u] = IF u = t THEN place ELSE pc[u]
                                            /\ todo'[u] = IF u = t THEN ops ELSE todo[u]
      /\ events'[Paused(s)].set = events[Paused(s)].set
      /\ Sender \in Tasks
  BY EventNames, TaskNames DEF Moved
<1>2. t # Sender /\ batch' = batch => (Tells(s)' <=> Tells(s))
  BY <1>1 DEF Tells, Handled
<1>3. t = Sender => ~Tells(s)
  BY <1>1 DEF Tells
<1>4. t = Sender /\ place # "popped" => ~Tells(s)'
  BY <1>1 DEF Tells, Handled
<1> QED
  BY <1>1, <1>2, <1>3, <1>4 DEF Roomy

(* Taking part in an event makes no room.                                  *)
LEMMA TellsActs ==
    ASSUME Types, Plans, Telling, NEW t \in Tasks, Acts(t), NEW s \in Streams, Present(s), Types'
    PROVE  /\ Tells(s)' => Tells(s)
           /\ Roomy(s)' => Roomy(s)
           /\ t # Sender => (Tells(s)' <=> Tells(s))
<1>0. /\ TaskTypes /\ Acted(t) /\ Sender \in Tasks /\ Paused(s) \in EventIds /\ todo[t] # <<>>
      /\ pc' = pc /\ batch' = batch
  BY TaskNames, EventNames DEF Types, Acts, Acted
<1>1. ASSUME Tells(s)' PROVE Tells(s)
  <2>1. todo'[Sender] \in Seq(Ops) /\ todo'[Sender] # <<>> /\ Head(todo'[Sender]) = Set(Paused(s))
    BY <1>0, <1>1 DEF Types, TaskTypes, Tells
  <2>2. In(Set(Paused(s)), todo'[Sender])
    BY <2>1, InTail
  <2>3. In(Set(Paused(s)), todo[Sender])
    BY <1>0, <2>2, ActedPending
  <2> QED
    BY <1>0, <2>3, TellsOnly
<1>2. ASSUME Roomy(s)' PROVE Roomy(s)
  <2>1. CASE Tells(s)'
    BY <1>1, <2>1 DEF Roomy
  <2>2. CASE events'[Paused(s)].set
    <3>1. CASE Parks(t)
      BY <1>0, <2>2, <3>1 DEF Parks, Roomy
    <3>2. CASE Passes(t)
      <4>1. events'[Paused(s)].set = IF Paused(s) # Head(todo[t]).on \/ Head(todo[t]).do = "wait"
                                     THEN events[Paused(s)].set ELSE Head(todo[t]).do = "set"
        BY <1>0, <3>2 DEF Passes
      <4>2. CASE Paused(s) # Head(todo[t]).on \/ Head(todo[t]).do = "wait"
        BY <2>2, <4>1, <4>2 DEF Roomy
      <4>3. CASE Paused(s) = Head(todo[t]).on /\ Head(todo[t]).do = "set"
        <5>1. In(Head(todo[t]), todo[t])
          BY <1>0, Awaited
        <5>2. Head(todo[t]) = Set(Paused(s))
          BY <4>3, <5>1, Owners, OpNames
        <5> QED
          BY <5>1, <5>2, TellsOnly DEF Roomy
      <4> QED
        BY <2>2, <4>1, <4>2, <4>3
    <3> QED
      BY <1>0, <3>1, <3>2 DEF Acted
  <2> QED
    BY <1>2, <2>1, <2>2 DEF Roomy
<1>3. t # Sender => (Tells(s)' <=> Tells(s))
  BY <1>0 DEF Acted, Tells, Handled
<1> QED
  BY <1>1, <1>2, <1>3

(* A stream whose application stays where it is, while the buffer does not *)
(* grow and nobody is told more.                                           *)
LEMMA RoomedStays ==
    ASSUME NEW s \in Streams, NEW n \in Sizes, Roomed(s, n), Types, Types',
           world' = world, Present(s)' => Present(s), buffers'[s].size <= buffers[s].size,
           pc'[s] = pc[s], todo'[s] = todo[s],
           Present(s)' => (Roomy(s)' => Roomy(s)) /\ (Tells(s)' => Tells(s)),
           Present(s)' /\ Tells(s)' /\ Precedes(Sender, s, events[Paused(s)].turn)
             => Precedes(Sender, s, events'[Paused(s)].turn)
    PROVE  Roomed(s, n)'
<1>1. PICK m, k, h, l : /\ h = HighWater /\ m = HighWater + n /\ k = HighWater + 2 * n /\ l = LowWater
                        /\ h \in Nat /\ m \in Nat /\ k \in Nat /\ l \in Nat
  BY Marks
<1>2. buffers[s].size \in Nat /\ buffers'[s].size \in Nat
  BY DEF Types, DataTypes, Buffers
<1>3. \A x \in Nat : buffers[s].size < x => buffers'[s].size < x
  BY <1>2
<1>4. \A x \in Nat : buffers[s].size <= x => buffers'[s].size <= x
  BY <1>2
<1>5. buffers'[s].size > l => buffers[s].size > l
  BY <1>1, <1>2
<1>6. Present(s)' /\ pc'[s] \in Idle /\ ~In(Clear(Paused(s)), todo'[s]) =>
         buffers'[s].size < h \/ (buffers'[s].size < m /\ ~Roomy(s)')
  BY <1>1, <1>3 DEF Roomed
<1>7. Present(s)' /\ (pc'[s] = "pushed" \/ In(WaitFor(Paused(s)), todo'[s])) =>
         buffers'[s].size < m \/ (buffers'[s].size < k /\ ~Roomy(s)')
  BY <1>1, <1>3 DEF Roomed
<1>8. Present(s)' /\ todo'[s] = <<Clear(Paused(s))>> =>
         buffers'[s].size < m /\ (Tells(s)' => buffers'[s].size <= l)
  BY <1>1, <1>3, <1>4 DEF Roomed
<1>9. Present(s)' /\ Tells(s)' /\ buffers'[s].size > l /\ Awaits(s, Paused(s))' =>
         world'.trio /\ Precedes(Sender, s, events'[Paused(s)].turn)
  BY <1>1, <1>5 DEF Roomed, Awaits
<1>10. buffers'[s].size < k
  BY <1>1, <1>3 DEF Roomed
<1> QED
  BY <1>1, <1>6, <1>7, <1>8, <1>9, <1>10 DEF Roomed

(* The application of s takes part in an event itself.                     *)
LEMMA RoomedOwn ==
    ASSUME Types, Plans, Lines, Sprung, Telling, NEW s \in Streams, NEW n \in Sizes, Roomed(s, n),
           Acts(s), Types'
    PROVE  Roomed(s, n)'
<1>0. /\ s \in Tasks /\ s # Sender /\ TaskTypes /\ Acted(s) /\ Sender \in Tasks
      /\ pc' = pc /\ buffers' = buffers /\ world' = world /\ todo[s] # <<>>
      /\ Present(s)' <=> Present(s)
      /\ Paused(s) \in EventIds
  BY TaskNames, EventNames DEF Types, Acts, Acted, dataVars, Present
<1>1. PICK m, k, h, l : /\ h = HighWater /\ m = HighWater + n /\ k = HighWater + 2 * n /\ l = LowWater
                        /\ h \in Nat /\ m \in Nat /\ k \in Nat /\ l \in Nat
                        /\ l < h /\ h <= m /\ m <= k
  BY Marks
<1>2. PICK z : z = buffers[s].size
  OBVIOUS
<1>3. z \in Nat /\ buffers'[s].size = z /\ z < k
  BY <1>0, <1>1, <1>2 DEF Types, DataTypes, Buffers, Roomed
<1>4. Present(s) => (Tells(s)' <=> Tells(s)) /\ (Roomy(s)' => Roomy(s))
  BY <1>0, TellsActs
<1>5. CASE ~Present(s)
  BY <1>0, <1>1, <1>2, <1>3, <1>5 DEF Roomed
<1>6. CASE Present(s) /\ Parks(s)
  <2>1. todo'[s] = todo[s]
    BY <1>6 DEF Parks
  <2>2. \A a, b : a # s /\ Precedes(a, b, events[Paused(s)].turn) => Precedes(a, b, events'[Paused(s)].turn)
    BY <1>0 DEF Acted
  <2>3. Precedes(Sender, s, events[Paused(s)].turn) => Precedes(Sender, s, events'[Paused(s)].turn)
    BY <1>0, <2>2
  <2>4. pc'[s] = pc[s] /\ buffers'[s].size <= buffers[s].size
    BY <1>0, <1>2, <1>3
  <2> QED
    BY <1>0, <1>4, <2>1, <2>3, <2>4, RoomedStays
<1>7. CASE Present(s) /\ Passes(s)
  <2> PICK a, b, c, d : /\ a = Set(HasData) /\ b = WaitFor(Paused(s)) /\ c = Clear(Paused(s))
                        /\ d = Touch(IsEmpty(s))
    OBVIOUS
  <2>0. /\ a # b /\ a # c /\ b # c /\ d # b /\ d # c
        /\ a.on # Paused(s) /\ d.on # Paused(s) /\ b.on = Paused(s) /\ b.do = "wait"
        /\ c.on = Paused(s) /\ c.do = "clear"
    BY OpNames, EventNames
  <2>1. /\ todo'[s] = Tail(todo[s])
        /\ Head(todo[s]).do = "wait" => events[Head(todo[s]).on].set
                                        \/ (~world.trio /\ events[Head(todo[s]).on].turn # <<>>)
        /\ events'[Paused(s)].set = IF Paused(s) # Head(todo[s]).on \/ Head(todo[s]).do = "wait"
                                    THEN events[Paused(s)].set ELSE Head(todo[s]).do = "set"
    BY <1>0, <1>7 DEF Passes
  <2>2. ~In(b, <<>>) /\ ~In(c, <<>>)
    BY InTuples
  <2>3. CASE pc[s] = "app"
    <3>1. todo[s] \in {<<a>>, <<c>>, <<b, c>>, <<a, b, c>>}
      BY <1>0, <2>3 DEF Plans, AppPlanned, AppPlans, Room
    <3>2. CASE todo[s] = <<a>>
      <4>1. todo'[s] = <<>> /\ ~In(c, <<a>>)
        BY <2>0, <2>1, <3>2, TailTuples, InTuples
      <4>2. z < h \/ (z < m /\ ~Roomy(s))
        BY <1>1, <1>2, <1>7, <2>3, <3>2, <4>1 DEF Roomed, Idle
      <4>3. <<>> # <<c>> /\ ~Awaits(s, Paused(s))'
        BY <4>1 DEF Awaits
      <4> QED
        BY <1>0, <1>1, <1>3, <1>4, <1>7, <2>2, <2>3, <4>1, <4>2, <4>3 DEF Roomed, Idle
    <3>3. CASE todo[s] = <<a, b, c>>
      <4>1. /\ todo'[s] = <<b, c>> /\ In(b, <<a, b, c>>) /\ In(c, <<b, c>>) /\ In(b, <<b, c>>)
            /\ Head(<<b, c>>) = b /\ <<b, c>> # <<>>
        BY <2>1, <3>3, TailTuples, InTuples
      <4>2. z < m \/ (z < k /\ ~Roomy(s))
        BY <1>1, <1>2, <1>7, <3>3, <4>1 DEF Roomed, Idle
      <4>3. ASSUME Tells(s)
            PROVE  world.trio /\ Precedes(Sender, s, events'[Paused(s)].turn)
        <5>1. world.trio
          <6>1. pc[Sender] = "popped" /\ cpu # Sender
            BY <1>0, <4>3, TaskNames DEF Tells, Handled, Acted
          <6>2. world.trio \/ ~world.trio
            OBVIOUS
          <6> QED
            BY <6>1, <6>2, SenderKeeps
        <5>2. Line(Paused(s)) /\ Awaits(Sender, Paused(s)) /\ ~AwaitsTo(Sender, "wait")
          BY <1>0, <4>3, OpNames DEF Lines, Tells, Awaits, AwaitsTo
        <5>3. In(Sender, events[Paused(s)].turn)
          BY <1>0, <5>1, <5>2 DEF Line
        <5>4. Head(todo'[s]).on = Paused(s) /\ todo'[s] # <<>>
          BY <2>0, <4>1
        <5>5. Precedes(Sender, s, events'[Paused(s)].turn)
          <6>1. Head(Tail(todo[s])).on = Paused(s) /\ Tail(todo[s]) # <<>>
            BY <2>1, <5>4
          <6> QED
            BY <1>0, <1>7, <5>1, <5>3, <6>1 DEF Passes
        <5> QED
          BY <5>1, <5>5
      <4>4. <<b, c>> # <<c>>
        OBVIOUS
      <4>5. world'.trio = world.trio /\ pc'[s] = "app"
        BY <1>0, <2>3
      <4> QED
        BY <1>0, <1>1, <1>3, <1>4, <1>7, <4>1, <4>2, <4>3, <4>4, <4>5 DEF Roomed, Idle
    <3>4. CASE todo[s] = <<b, c>>
      <4>1. /\ todo'[s] = <<c>> /\ Head(todo[s]) = b /\ In(b, <<b, c>>) /\ In(c, <<c>>) /\ ~In(b, <<c>>)
        BY <2>0, <2>1, <3>4, TailTuples, InTuples
      <4>2. z < m \/ (z < k /\ ~Roomy(s))
        BY <1>1, <1>2, <1>7, <3>4, <4>1 DEF Roomed, Idle
      <4>3. Roomy(s)
        BY <2>0, <2>1, <4>1 DEF Sprung, Roomy
      <4>4. z < m
        BY <4>2, <4>3
      <4>5. Tells(s) => z <= l
        <5>1. ASSUME Tells(s), z > l PROVE FALSE
          <6>1. Awaits(s, Paused(s))
            BY <1>0, <2>0, <4>1 DEF Awaits
          <6>2. world.trio /\ Precedes(Sender, s, events[Paused(s)].turn)
            BY <1>1, <1>2, <1>7, <5>1, <6>1 DEF Roomed, Idle
          <6> QED
            BY <1>0, <2>0, <4>1, <6>2 DEF Acted
        <5> QED
          BY <1>1, <1>3, <5>1
      <4>6. Tells(s)' => z <= l
        BY <1>4, <1>7, <4>5
      <4> QED
        BY <1>0, <1>1, <1>3, <1>7, <2>3, <4>1, <4>4, <4>6 DEF Roomed, Idle
    <3>5. CASE todo[s] = <<c>>
      <4>1. /\ todo'[s] = <<>> /\ Head(todo[s]) = c
        BY <2>1, <3>5, TailTuples
      <4>2. z < m /\ (Tells(s) => z <= l)
        BY <1>1, <1>2, <1>7, <3>5 DEF Roomed, Idle
      <4>3. ~events'[Paused(s)].set
        BY <2>0, <2>1, <4>1
      <4>4. z < h \/ (z < m /\ ~Roomy(s)')
        BY <1>1, <1>3, <1>4, <1>7, <4>2, <4>3 DEF Roomy
      <4>5. <<>> # <<c>> /\ ~Awaits(s, Paused(s))'
        BY <4>1 DEF Awaits
      <4> QED
        BY <1>0, <1>1, <1>3, <1>7, <2>2, <2>3, <4>1, <4>4, <4>5 DEF Roomed, Idle
    <3> QED
      BY <3>1, <3>2, <3>3, <3>4, <3>5
  <2>4. CASE pc[s] # "app"
    <3>1. ~In(b, todo[s]) /\ ~In(c, todo[s])
      BY <1>0, <2>0, <2>4, Owners, OpNames
    <3>2. ~In(b, todo'[s]) /\ ~In(c, todo'[s])
      BY <1>0, <3>1, ActedPending
    <3>3. todo'[s] # <<c>> /\ todo[s] # <<c>>
      BY <3>1, <3>2, InTuples
    <3>4. pc[s] \notin Idle
      BY <1>0, <2>4 DEF Plans, AppPlanned, AppPlans, Idle
    <3>5. ~Awaits(s, Paused(s))'
      <4>1. ASSUME Awaits(s, Paused(s))' PROVE FALSE
        <5>1. todo'[s] \in Seq(Ops) /\ todo'[s] # <<>> /\ Head(todo'[s]).on = Paused(s)
          BY <1>0, <4>1 DEF Types, TaskTypes, Awaits
        <5>2. In(Head(todo'[s]), todo'[s])
          BY <5>1, InTail
        <5>3. In(Head(todo'[s]), todo[s])
          BY <1>0, <5>2, ActedPending
        <5>4. Head(todo'[s]) = Set(Paused(s))
          BY <1>0, <2>4, <5>1, <5>3, Owners
        <5> QED
          BY <1>0, <1>7, <5>3, <5>4, TellsOnly
      <4> QED
        BY <4>1
    <3>6. pc[s] = "pushed" => z < m \/ (z < k /\ ~Roomy(s))
      BY <1>1, <1>2, <1>7 DEF Roomed
    <3> QED
      BY <1>0, <1>1, <1>3, <1>4, <1>7, <2>4, <3>2, <3>3, <3>4, <3>5, <3>6 DEF Roomed
  <2> QED
    BY <2>3, <2>4
<1> QED
  BY <1>0, <1>5, <1>6, <1>7 DEF Acted

(* The application of s goes on.                                           *)
LEMMA RoomedGoes ==
    ASSUME Types, NEW s \in Streams, NEW n \in Sizes, Roomed(s, n), Types',
           NEW place, NEW ops, Moved(s, place, ops), batch' = batch,
           Present(s)' => Present(s),
           buffers'[s].size = buffers[s].size \/ (buffers'[s].size = 0 /\ ~Present(s)'),
           Present(s)' => \/ place = "app" /\ ops = PushOps(s) /\ pc[s] = "pushed"
                          \/ place \in Idle /\ ops = <<>> /\ pc[s] \in Idle
                          \/ /\ place \in Past
                             /\ ops \in {<<>>, <<Set(HasData), WaitFor(Finished(s))>>}
    PROVE  Roomed(s, n)'
<1>0. /\ s \in Tasks /\ s # Sender /\ pc'[s] = place /\ todo'[s] = ops /\ todo[s] = <<>>
      /\ (Tells(s)' <=> Tells(s)) /\ (Roomy(s)' <=> Roomy(s))
  <2>1. s \in Tasks /\ s # Sender
    BY TaskNames
  <2>2. pc'[s] = place /\ todo'[s] = ops /\ todo[s] = <<>>
    BY <2>1 DEF Moved
  <2>3. (Tells(s)' <=> Tells(s)) /\ (Roomy(s)' <=> Roomy(s))
    BY <2>1, TellsMoves
  <2> QED
    BY <2>1, <2>2, <2>3
<1>1. PICK m, k, h, l : /\ h = HighWater /\ m = HighWater + n /\ k = HighWater + 2 * n /\ l = LowWater
                        /\ h \in Nat /\ m \in Nat /\ k \in Nat /\ l \in Nat
                        /\ l < h /\ h <= m /\ m <= k
  BY Marks
<1>2. PICK z : z = buffers[s].size
  OBVIOUS
<1>3. z \in Nat /\ z < k /\ 0 < k
  BY <1>1, <1>2 DEF Types, DataTypes, Buffers, Roomed
<1>4. CASE ~Present(s)'
  <2>1. buffers'[s].size < k
    BY <1>2, <1>3, <1>4
  <2> QED
    BY <1>1, <1>4, <2>1 DEF Roomed
<1> PICK a, b, c, e : /\ a = Set(HasData) /\ b = WaitFor(Paused(s)) /\ c = Clear(Paused(s))
                      /\ e = WaitFor(Finished(s))
  OBVIOUS
<1>5. /\ a # b /\ a # c /\ b # c /\ e # b /\ e # c /\ a.on # Paused(s) /\ b.on = Paused(s)
  BY OpNames, EventNames
<1>6. Present(s)' => buffers'[s].size = z
  BY <1>2
<1>7. CASE Present(s)' /\ place = "app" /\ ops = PushOps(s) /\ pc[s] = "pushed"
  <2>1. z < m \/ (z < k /\ ~Roomy(s)')
    BY <1>0, <1>1, <1>2, <1>7 DEF Roomed, Idle, Past
  <2>2. CASE Full(s)
    <3>1. ops = <<a, b, c>>
      BY <1>7, <2>2, PushPlan
    <3>2. In(c, ops) /\ ops # <<c>> /\ ops # <<>> /\ Head(ops) = a
      <4>1. In(c, <<a, b, c>>) /\ In(a, <<a, b, c>>) /\ ~In(a, <<c>>) /\ Head(<<a, b, c>>) = a /\ <<a, b, c>> # <<>>
        BY <1>5, InTuples, TailTuples
      <4> QED
        BY <3>1, <4>1
    <3>3. ~Awaits(s, Paused(s))'
      BY <1>0, <1>5, <3>2 DEF Awaits
    <3> QED
      BY <1>0, <1>1, <1>3, <1>6, <1>7, <2>1, <3>2, <3>3 DEF Roomed, Idle, Past
  <2>3. CASE ~Full(s)
    <3>1. ops = <<a>>
      BY <1>7, <2>3, PushPlan
    <3>2. ~In(b, ops) /\ ~In(c, ops) /\ ops # <<c>> /\ ops # <<>> /\ Head(ops) = a
      <4>1. ~In(b, <<a>>) /\ ~In(c, <<a>>) /\ In(c, <<c>>) /\ Head(<<a>>) = a /\ <<a>> # <<>>
        BY <1>5, InTuples, TailTuples
      <4> QED
        BY <3>1, <4>1
    <3>3. ~Awaits(s, Paused(s))'
      BY <1>0, <1>5, <3>2 DEF Awaits
    <3>4. z < h
      BY <1>1, <1>2, <1>3, <2>3 DEF Full
    <3> QED
      BY <1>0, <1>1, <1>3, <1>6, <1>7, <3>2, <3>3, <3>4 DEF Roomed, Idle, Past
  <2> QED
    BY <2>2, <2>3
<1>8. CASE Present(s)' /\ place \in Idle /\ ops = <<>> /\ pc[s] \in Idle
  <2>1. ~In(b, <<>>) /\ ~In(c, <<>>) /\ <<>> # <<c>>
    BY InTuples
  <2>2. z < h \/ (z < m /\ ~Roomy(s)')
    BY <1>0, <1>1, <1>2, <1>8, <2>1 DEF Roomed, Idle, Past
  <2>3. ~Awaits(s, Paused(s))'
    BY <1>0, <1>8 DEF Awaits
  <2> QED
    BY <1>0, <1>1, <1>3, <1>6, <1>8, <2>1, <2>2, <2>3 DEF Roomed, Idle, Past
<1>9. CASE /\ Present(s)' /\ place \in Past
           /\ ops \in {<<>>, <<a, e>>}
  <2>1. /\ ~In(b, <<>>) /\ <<>> # <<c>> /\ ~In(b, <<a, e>>) /\ ~In(c, <<a, e>>) /\ In(c, <<c>>)
        /\ Head(<<a, e>>) = a
    BY <1>5, InTuples, TailTuples
  <2>2. ~In(b, ops) /\ ops # <<c>>
    BY <1>9, <2>1
  <2>3. ~Awaits(s, Paused(s))'
    BY <1>0, <1>5, <1>9, <2>1 DEF Awaits
  <2> QED
    BY <1>0, <1>1, <1>3, <1>6, <1>9, <2>2, <2>3 DEF Roomed, Idle, Past
<1> QED
  BY <1>4, <1>7, <1>8, <1>9

(* The application of s pushes data.                                       *)
LEMMA RoomedSends ==
    ASSUME Types, NEW s \in Streams, NEW n, Largest(n), NEW size \in Sizes, Roomed(s, n), Types',
           Sends(s, size)
    PROVE  Roomed(s, n)'
<1>0. /\ s \in Tasks /\ s # Sender /\ pc[s] = "app" /\ pc'[s] = "pushed" /\ todo[s] = <<>>
      /\ todo'[s] = <<Touch(IsEmpty(s))>> /\ Present(s) /\ Present(s)'
      /\ buffers'[s].size = buffers[s].size + size
      /\ (Roomy(s)' <=> Roomy(s))
      /\ n \in Sizes /\ size <= n
  <2>1. s \in Tasks /\ s # Sender
    BY TaskNames
  <2>2. Moved(s, "pushed", <<Touch(IsEmpty(s))>>) /\ batch' = batch
    BY DEF Sends
  <2>3. pc'[s] = "pushed" /\ todo'[s] = <<Touch(IsEmpty(s))>> /\ todo[s] = <<>>
    BY <2>1, <2>2 DEF Moved
  <2>4. Roomy(s)' <=> Roomy(s)
    BY <2>1, <2>2, TellsMoves
  <2>5. n \in Sizes /\ size <= n
    BY DEF Largest
  <2>6. /\ pc[s] = "app" /\ Present(s) /\ Present(s)'
        /\ buffers'[s].size = buffers[s].size + size
    BY DEF Sends, Present
  <2> QED
    BY <2>1, <2>3, <2>4, <2>5, <2>6
<1>1. PICK m, k, h, l : /\ h = HighWater /\ m = HighWater + n /\ k = HighWater + 2 * n /\ l = LowWater
                        /\ h \in Nat /\ m \in Nat /\ k \in Nat /\ l \in Nat /\ n \in Nat
                        /\ l < h /\ h <= m /\ m <= k /\ m = h + n /\ k = m + n
  BY <1>0, Marks
<1>2. PICK z : z = buffers[s].size
  OBVIOUS
<1>3. z \in Nat /\ size \in Nat
  BY <1>2, H2SendAssumption DEF Types, DataTypes, Buffers
<1> PICK b, c, d : /\ b = WaitFor(Paused(s)) /\ c = Clear(Paused(s)) /\ d = Touch(IsEmpty(s))
  OBVIOUS
<1>4. /\ d # b /\ d # c /\ d.on # Paused(s)
  BY OpNames, EventNames
<1>5. ~In(c, <<>>) /\ ~In(b, <<d>>) /\ ~In(c, <<d>>) /\ In(c, <<c>>) /\ Head(<<d>>) = d
  BY <1>4, InTuples, TailTuples
<1>6. z < h \/ (z < m /\ ~Roomy(s))
  BY <1>0, <1>1, <1>2, <1>5 DEF Roomed, Idle
<1>7. z + size < m \/ (z + size < k /\ ~Roomy(s)')
  <2>1. z < h => z + size < m
    BY <1>0, <1>1, <1>3
  <2>2. z < m => z + size < k
    BY <1>0, <1>1, <1>3
  <2> QED
    BY <1>0, <1>6, <2>1, <2>2
<1>8. z + size < k
  BY <1>1, <1>3, <1>7
<1>9. ~Awaits(s, Paused(s))'
  BY <1>0, <1>4, <1>5 DEF Awaits
<1>10. todo'[s] # <<c>>
  BY <1>0, <1>5
<1> QED
  BY <1>0, <1>1, <1>2, <1>7, <1>8, <1>9, <1>10 DEF Roomed, Idle

(* The sender takes data from the buffer.                                  *)
LEMMA RoomedPops ==
    ASSUME Types, NEW s \in Streams, NEW n \in Sizes, Roomed(s, n), NEW k \in Nat, Types',
           Pops(s, k)
    PROVE  Roomed(s, n)'
<1>0. /\ s \in Tasks /\ s # Sender /\ Sender \in Tasks /\ pc'[s] = pc[s] /\ todo'[s] = todo[s]
      /\ pc'[Sender] = "popped" /\ todo'[Sender] = PopSets(s, k, buffers[s].size - k)
      /\ todo[Sender] = <<>> /\ Present(s) /\ Present(s)'
      /\ buffers'[s].size = buffers[s].size - k
      /\ events'[Paused(s)].set = events[Paused(s)].set /\ world' = world
  BY TaskNames, EventNames DEF Pops, Moved, Present
<1>1. ~Tells(s)
  BY <1>0 DEF Tells
<1>2. buffers[s].size \in Nat /\ buffers'[s].size \in Nat /\ LowWater \in Nat
  BY Marks DEF Types, DataTypes, Buffers
<1>3. Tells(s)' => buffers'[s].size <= LowWater
  <2>1. ASSUME Tells(s)' PROVE buffers'[s].size <= LowWater
    <3>1. todo'[Sender] # <<>> /\ Head(todo'[Sender]) = Set(Paused(s)) /\ todo'[Sender] \in Seq(Ops)
      BY <1>0, <2>1 DEF Tells, Types, TaskTypes
    <3>2. In(Set(Paused(s)), todo'[Sender])
      BY <3>1, InTail
    <3>3. Set(Paused(s)) # Touch(IsEmpty(s))
      BY OpNames
    <3> QED
      BY <1>0, <3>2, <3>3, ListsHave
  <2> QED
    BY <2>1
<1>4. CASE ~Tells(s)'
  <2>1. Roomy(s)' => Roomy(s)
    BY <1>0, <1>4 DEF Roomy
  <2> QED
    BY <1>0, <1>2, <1>4, <2>1, RoomedStays
<1>5. CASE Tells(s)'
  <2>1. buffers'[s].size <= LowWater
    BY <1>3, <1>5
  <2> QED
    BY <1>2, <2>1, Marks DEF Roomed
<1> QED
  BY <1>4, <1>5

(* Another task than the application of s goes on.                         *)
LEMMA RoomedMoves ==
    ASSUME Types, NEW s \in Streams, NEW n \in Sizes, Roomed(s, n), Types', world' = world,
           NEW t \in Tasks, NEW place, NEW ops, Moved(t, place, ops), t # s,
           t # Sender => batch' = batch, t = Sender => place # "popped",
           Present(s)' => Present(s), buffers'[s].size <= buffers[s].size
    PROVE  Roomed(s, n)'
<1>1. s \in Tasks /\ Paused(s) \in EventIds
  BY TaskNames, EventNames
<1>2. /\ pc'[s] = pc[s] /\ todo'[s] = todo[s]
      /\ t # Sender => (Precedes(Sender, s, events[Paused(s)].turn)
                          => Precedes(Sender, s, events'[Paused(s)].turn))
  BY <1>1 DEF Moved
<1>3. /\ t # Sender => (Tells(s)' <=> Tells(s)) /\ (Roomy(s)' <=> Roomy(s))
      /\ t = Sender => ~Tells(s)' /\ (Roomy(s)' <=> Roomy(s))
  BY TellsMoves
<1> QED
  BY <1>2, <1>3, RoomedStays

(* Another task than the application of s takes part in an event.          *)
LEMMA RoomedActs ==
    ASSUME Types, Plans, Telling, NEW s \in Streams, NEW n \in Sizes, Roomed(s, n), Types',
           NEW t \in Tasks, Acts(t), t # s
    PROVE  Roomed(s, n)'
<1>1. /\ s \in Tasks /\ Paused(s) \in EventIds /\ Acted(t) /\ world' = world
      /\ buffers' = buffers /\ pc' = pc /\ todo'[s] = todo[s] /\ batch' = batch
  BY TaskNames, EventNames DEF Acts, Acted, dataVars
<1>2. (Present(s)' <=> Present(s)) /\ buffers'[s].size <= buffers[s].size
  BY <1>1 DEF Present, Types, DataTypes, Buffers
<1>3. Present(s) => (Tells(s)' => Tells(s)) /\ (Roomy(s)' => Roomy(s))
  BY TellsActs
<1>4. ASSUME Present(s), Tells(s)' PROVE t # Sender
  <2>1. SUFFICES ASSUME t = Sender PROVE FALSE
    OBVIOUS
  <2> PICK a, b : a = Set(Paused(s)) /\ b = Touch(IsEmpty(s))
    OBVIOUS
  <2>2. a # b /\ a.do # "wait"
    BY OpNames
  <2>3. Tells(s) /\ pc[Sender] = "popped" /\ batch.stream = s /\ Head(todo[Sender]) = a
        /\ todo'[Sender] # <<>> /\ Head(todo'[Sender]) = a
    BY <1>3, <1>4 DEF Tells, Handled
  <2>4. todo[Sender] \in {<<>>, <<a>>, <<b>>, <<a, b>>}
    BY <2>3 DEF Plans, SenderPlanned, SenderPlans
  <2>5. todo'[Sender] = Tail(todo[Sender]) /\ todo[Sender] # <<>>
    BY <1>1, <2>1, <2>2, <2>3 DEF Acted, Parks, Passes
  <2> QED
    BY <2>2, <2>3, <2>4, <2>5, TailTuples
<1>5. Present(s) /\ Tells(s)' /\ Precedes(Sender, s, events[Paused(s)].turn)
        => Precedes(Sender, s, events'[Paused(s)].turn)
  BY <1>1, <1>4, TaskNames DEF Acted
<1>6. pc'[s] = pc[s]
  BY <1>1
<1> QED
  BY <1>1, <1>2, <1>3, <1>5, <1>6, RoomedStays

(* A stream is opened.                                                     *)
LEMMA RoomedOpens ==
    ASSUME Types, Plans, NEW s \in Streams, NEW n \in Sizes, Roomed(s, n), Types',
           NEW r \in Streams, Opens(r)
    PROVE  Roomed(s, n)'
<1>1. /\ s \in Tasks /\ Sender \in Tasks /\ s # Sender /\ s # Reader /\ Reader # Sender
      /\ \A u \in Streams : u # Sender /\ u # Reader
  BY TaskNames
<1>2. /\ ~response[r].opened /\ todo' = todo /\ events' = events /\ world' = world /\ batch' = batch
      /\ Present(s)' <=> s = r \/ Present(s)
      /\ buffers'[s].size = IF s = r THEN 0 ELSE buffers[s].size
  BY DEF Opens, Present
<1>3. PICK o \in Streams \cup {Reader} :
         /\ todo[o] = <<>> /\ o # r
         /\ \/ o = Reader /\ \A u \in Tasks : u # Reader => pc'[u] = IF u = r THEN "app" ELSE pc[u]
            \/ o \in Streams /\ pc[o] = "promising"
                 /\ \A u \in Tasks : pc'[u] = IF u \in {r, o} THEN "app" ELSE pc[u]
  BY DEF Opens
<1>4. pc'[Sender] = pc[Sender] /\ (s \notin {r, o} => pc'[s] = pc[s]) /\ (s \in {r, o} => pc'[s] = "app")
  BY <1>1, <1>3
<1>5. (Tells(s)' <=> Tells(s)) /\ (Roomy(s)' <=> Roomy(s))
  BY <1>2, <1>4 DEF Tells, Roomy, Handled
<1>6. CASE s \notin {r, o}
  <2>1. buffers'[s].size <= buffers[s].size
    BY <1>2, <1>6 DEF Types, DataTypes, Buffers
  <2> QED
    BY <1>2, <1>4, <1>5, <1>6, <2>1, RoomedStays
<1> PICK m, k, h, l : /\ h = HighWater /\ m = HighWater + n /\ k = HighWater + 2 * n /\ l = LowWater
                      /\ h \in Nat /\ m \in Nat /\ k \in Nat /\ l \in Nat
                      /\ l < h /\ h <= m /\ m <= k
  BY Marks
<1>7. ~In(WaitFor(Paused(s)), <<>>) /\ ~In(Clear(Paused(s)), <<>>) /\ <<>> # <<Clear(Paused(s))>>
  BY InTuples
<1>8. CASE s \in {r, o} /\ todo[s] = <<>>
  <2>1. ~Awaits(s, Paused(s))'
    BY <1>2, <1>8 DEF Awaits
  <2>2. CASE s = r
    <3>1. buffers'[s].size = 0 /\ 0 < h /\ 0 < k
      BY <1>2, <2>2
    <3> QED
      BY <1>2, <1>4, <1>7, <1>8, <2>1, <3>1 DEF Roomed, Idle
  <2>3. CASE s = o
    <3>1. pc[s] = "promising" /\ buffers'[s].size = buffers[s].size /\ (Present(s)' <=> Present(s))
      BY <1>1, <1>2, <1>3, <2>3
    <3> QED
      BY <1>2, <1>4, <1>5, <1>7, <1>8, <2>1, <3>1 DEF Roomed, Idle
  <2> QED
    BY <1>8, <2>2, <2>3
<1>9. s = r => todo[s] = <<>>
  BY <1>2 DEF Plans, AppPlanned, Alive, AppPlans
<1> QED
  BY <1>3, <1>6, <1>8, <1>9

(* Every step keeps the buffers bounded.                                   *)
LEMMA StepRooms ==
    ASSUME Types, Plans, Lines, Sprung, Telling, Rooms, Steps, Types'
    PROVE  Rooms'
<1>1. SUFFICES ASSUME NEW s \in Streams, NEW n \in Sizes, Largest(n)
               PROVE  Roomed(s, n)'
  BY DEF Rooms, Largest
<1>2. Roomed(s, n) /\ world' = world
  BY <1>1, Kinds DEF Rooms
<1>0. /\ Sender \in Tasks /\ Reader \in Tasks /\ Reader # Sender
      /\ \A r \in Streams : r \in Tasks /\ r # Sender /\ r # Reader
      /\ \A r \in Streams : buffers[r].size \in Nat
  BY TaskNames DEF Types, DataTypes, Buffers
<1>3. ASSUME NEW t \in Tasks, NEW place, NEW ops, Quiet(t, place, ops), t # s,
             t = Sender => place # "popped"
      PROVE  Roomed(s, n)'
  <2>1. Moved(t, place, ops) /\ batch' = batch /\ Present(s)' = Present(s)
        /\ buffers'[s].size <= buffers[s].size
    BY <1>0, <1>3 DEF Quiet, Present
  <2> QED
    BY <1>2, <1>3, <2>1, RoomedMoves
<1>4. ASSUME NEW r \in Streams, NEW t \in Tasks, NEW place, Shuts(t, r, place),
             t = s => s = r, place # "popped"
      PROVE  Roomed(s, n)'
  <2>1. /\ Moved(t, place, CloseOps(r)) /\ batch' = batch /\ (Present(s)' => Present(s))
        /\ buffers'[s].size = IF s = r THEN 0 ELSE buffers[s].size
        /\ s = r => ~Present(s)'
    BY <1>4 DEF Shuts, Present
  <2>2. buffers'[s].size <= buffers[s].size
    BY <1>0, <2>1
  <2>3. CASE t # s
    BY <1>2, <1>4, <2>1, <2>2, <2>3, RoomedMoves
  <2>4. CASE t = s
    BY <1>2, <1>4, <2>1, <2>4, RoomedGoes
  <2> QED
    BY <2>3, <2>4
<1>5. ASSUME NEW t \in Tasks, Acts(t) PROVE Roomed(s, n)'
  BY <1>2, <1>5, RoomedOwn, RoomedActs
<1>6. ASSUME NEW r \in Streams, Opens(r) PROVE Roomed(s, n)'
  BY <1>2, <1>6, RoomedOpens
<1>7. ASSUME NEW r \in Streams, AppSteps(r), r # s PROVE Roomed(s, n)'
  <2>1. CASE AppGoes(r)
    BY <1>0, <1>3, <1>7, <2>1 DEF AppGoes
  <2>2. ASSUME NEW m \in Sizes, Sends(r, m) PROVE Roomed(s, n)'
    <3>1. Moved(r, "pushed", <<Touch(IsEmpty(r))>>) /\ batch' = batch /\ Present(s)' = Present(s)
          /\ buffers'[s].size <= buffers[s].size
      BY <1>0, <1>7, <2>2 DEF Sends, Present
    <3> QED
      BY <1>0, <1>2, <1>7, <3>1, RoomedMoves
  <2>3. CASE Schedules(r)
    <3>1. Moved(r, "app", PushOps(r)) /\ batch' = batch /\ Present(s)' = Present(s)
          /\ buffers'[s].size <= buffers[s].size
      BY <1>0, <2>3 DEF Schedules, Present
    <3> QED
      BY <1>0, <1>2, <1>7, <3>1, RoomedMoves
  <2>4. CASE Completes(r)
    <3>1. /\ Moved(r, "ended", <<Set(HasData), WaitFor(Finished(r))>>)
          /\ batch' = batch /\ buffers'[s].present = buffers[s].present
          /\ buffers'[s].size = buffers[s].size
      BY <2>4 DEF Completes
    <3>2. (Present(s)' => Present(s)) /\ buffers'[s].size <= buffers[s].size
      BY <1>0, <3>1 DEF Present
    <3> QED
      BY <1>0, <1>2, <1>7, <3>1, <3>2, RoomedMoves
  <2>5. CASE Abandons(r)
    <3>1. Moved(r, "ended", <<>>) /\ batch' = batch /\ Present(s)' = Present(s)
          /\ buffers'[s].size <= buffers[s].size
      BY <1>0, <2>5 DEF Abandons, Present
    <3> QED
      BY <1>0, <1>2, <1>7, <3>1, RoomedMoves
  <2> QED
    BY <1>0, <1>4, <1>6, <1>7, <2>1, <2>2, <2>3, <2>4, <2>5 DEF AppSteps
<1>8. CASE AppSteps(s)
  <2>1. CASE AppGoes(s)
    <3>1. PICK place \in AppPlaces :
            /\ Quiet(s, place, <<>>)
            /\ \/ place \in Idle /\ pc[s] \in Idle
               \/ ~Present(s)
               \/ place \in Past
      BY <2>1 DEF AppGoes, Idle, Past
    <3>2. /\ Moved(s, place, <<>>) /\ batch' = batch /\ (Present(s)' <=> Present(s))
          /\ buffers'[s].size = buffers[s].size
      BY <3>1 DEF Quiet, Present
    <3> QED
      BY <1>2, <3>1, <3>2, RoomedGoes
  <2>2. ASSUME NEW m \in Sizes, Sends(s, m) PROVE Roomed(s, n)'
    BY <1>1, <1>2, <2>2, RoomedSends
  <2>3. CASE Schedules(s)
    <3>1. /\ Moved(s, "app", PushOps(s)) /\ pc[s] = "pushed" /\ batch' = batch
          /\ Present(s)' = Present(s) /\ buffers'[s].size = buffers[s].size
      BY <2>3 DEF Schedules, Present
    <3> QED
      BY <1>2, <3>1, RoomedGoes DEF Past
  <2>4. CASE Completes(s)
    <3>1. /\ Moved(s, "ended", <<Set(HasData), WaitFor(Finished(s))>>)
          /\ batch' = batch /\ Present(s)' = Present(s) /\ buffers'[s].size = buffers[s].size
      BY <2>4 DEF Completes, Present
    <3> QED
      BY <1>2, <3>1, RoomedGoes DEF Past
  <2>5. CASE Abandons(s)
    <3>1. Moved(s, "ended", <<>>) /\ batch' = batch /\ Present(s)' = Present(s)
          /\ buffers'[s].size = buffers[s].size
      BY <2>5 DEF Abandons, Present
    <3> QED
      BY <1>2, <3>1, RoomedGoes DEF Past
  <2> QED
    BY <1>0, <1>4, <1>6, <1>8, <2>1, <2>2, <2>3, <2>4, <2>5 DEF AppSteps
<1>9. CASE ReaderSteps
  <2>1. CASE ReaderGoes
    BY <1>0, <1>3, <2>1 DEF ReaderGoes
  <2>2. CASE Windows
    BY <1>0, <1>3, <2>2 DEF Windows
  <2>3. CASE Breaks
    BY <1>0, <1>3, <2>3 DEF Breaks
  <2>4. CASE Updates
    <3>1. Moved(Reader, "flush", <<Set(HasData)>>) /\ batch' = batch /\ Present(s)' = Present(s)
          /\ buffers'[s].size <= buffers[s].size
      BY <1>0, <2>4 DEF Updates, Present
    <3> QED
      BY <1>0, <1>2, <3>1, RoomedMoves
  <2> QED
    BY <1>0, <1>4, <1>6, <1>9, <2>1, <2>2, <2>3, <2>4 DEF ReaderSteps
<1>10. CASE SenderSteps
  <2>1. CASE SenderGoes
    <3>1. PICK place \in SenderPlaces, ops \in {<<>>, Sleep} : Quiet(Sender, place, ops) /\ place # "popped"
      BY <2>1 DEF SenderGoes
    <3> QED
      BY <1>0, <1>3, <3>1
  <2>2. CASE Finishing
    <3>1. Moved(Sender, "next", FinishOps) /\ Present(s)' = Present(s)
          /\ buffers'[s].size <= buffers[s].size
      BY <1>0, <2>2 DEF Finishing, dataVars, Present
    <3> QED
      BY <1>0, <1>2, <3>1, RoomedMoves
  <2>3. ASSUME NEW r \in Streams, Picks(r) PROVE Roomed(s, n)'
    <3>1. Moved(Sender, "send", <<>>) /\ Present(s)' = Present(s)
          /\ buffers'[s].size <= buffers[s].size
      BY <1>0, <2>3 DEF Picks, dataVars, Present
    <3> QED
      BY <1>0, <1>2, <3>1, RoomedMoves
  <2>4. ASSUME NEW r \in Streams, NEW k \in Nat, Pops(r, k) PROVE Roomed(s, n)'
    <3>1. CASE r = s
      BY <1>2, <2>4, <3>1, RoomedPops
    <3>2. CASE r # s
      <4>1. /\ Moved(Sender, "popped", PopSets(r, k, buffers[r].size - k))
            /\ Present(s)' = Present(s) /\ buffers'[s].size <= buffers[s].size
            /\ batch'.stream = r
        BY <1>0, <2>4, <3>2 DEF Pops, Present
      <4>2. ~Tells(s)'
        BY <3>2, <4>1 DEF Tells, Handled
      <4>3. pc'[s] = pc[s] /\ todo'[s] = todo[s] /\ events'[Paused(s)].set = events[Paused(s)].set
        BY <1>0, <4>1, EventNames DEF Moved
      <4>4. Roomy(s)' => Roomy(s)
        BY <4>2, <4>3 DEF Roomy
      <4> QED
        BY <1>2, <4>1, <4>2, <4>3, <4>4, RoomedStays
    <3> QED
      BY <3>1, <3>2
  <2>5. ASSUME NEW r \in Streams, Ships(r) PROVE Roomed(s, n)'
    <3>1. /\ Moved(Sender, "sent", <<>>) /\ (buffers'[s].present => buffers[s].present)
          /\ buffers'[s].size = buffers[s].size
      BY <2>5 DEF Ships
    <3>2. (Present(s)' => Present(s)) /\ buffers'[s].size <= buffers[s].size
      BY <1>0, <3>1 DEF Present
    <3> QED
      BY <1>0, <1>2, <3>1, <3>2, RoomedMoves
  <2> QED
    BY <1>0, <1>4, <1>10, <2>1, <2>2, <2>3, <2>4, <2>5 DEF SenderSteps
<1> QED
  BY <1>5, <1>7, <1>8, <1>9, <1>10 DEF Steps

-----------------------------------------------------------------------------
(* A pop of nothing.                                                       *)

(* Two tasks are between the pop and the rest of _send_data only under     *)
(* trio, and then the sender stands in the line of _is_empty.              *)
LEMMA EmptyWaits ==
    ASSUME Types, Plans, Lines, Emptied, pc[Sender] = "popped", cpu # Sender,
           NEW s \in Streams, s = batch.stream, Present(s), batch.data = 0
    PROVE  /\ world.trio /\ todo[Sender] = <<Touch(IsEmpty(s))>>
           /\ In(Sender, events[IsEmpty(s)].turn)
           /\ buffers[s].size # 0 => pc[s] = "pushed" /\ todo[s] = <<Touch(IsEmpty(s))>>
                                     /\ Precedes(Sender, s, events[IsEmpty(s)].turn)
<1>1. Sender \in Tasks /\ IsEmpty(s) \in EventIds
  BY TaskNames, EventNames
<1>2. world.trio
  <2>1. world.trio \/ ~world.trio
    OBVIOUS
  <2> QED
    BY <2>1, SenderKeeps
<1>3. todo[Sender] # <<>>
  BY <1>1 DEF Lines, Running, Suspended
<1>4. todo[Sender] = <<Touch(IsEmpty(s))>>
      /\ (buffers[s].size # 0 => pc[s] = "pushed" /\ todo[s] = <<Touch(IsEmpty(s))>>
                                 /\ Precedes(Sender, s, events[IsEmpty(s)].turn))
  BY <1>3 DEF Emptied
<1>5. Head(<<Touch(IsEmpty(s))>>) = Touch(IsEmpty(s))
  BY TailTuples
<1>6. Awaits(Sender, IsEmpty(s)) /\ ~AwaitsTo(Sender, "wait")
  BY <1>3, <1>4, <1>5, OpNames DEF Awaits, AwaitsTo
<1>7. In(Sender, events[IsEmpty(s)].turn)
  BY <1>1, <1>2, <1>6 DEF Lines, Line
<1> QED
  BY <1>2, <1>4, <1>7

(* Every step keeps what a pop of nothing finds.                           *)
LEMMA StepEmptied ==
    ASSUME Types, Plans, Lines, Emptied, Steps
    PROVE  Emptied'
<1>1. SUFFICES ASSUME NEW s, s = batch'.stream, pc'[Sender] = "popped", batch'.data = 0,
                      buffers'[s].present
               PROVE  IF todo'[Sender] = <<>>
                      THEN buffers'[s].size = 0 \/ FlowWindow(s)' <= 0 \/ pc'[s] = "pushed"
                      ELSE /\ todo'[Sender] = <<Touch(IsEmpty(s))>>
                           /\ \/ buffers'[s].size = 0
                              \/ /\ pc'[s] = "pushed" /\ todo'[s] = <<Touch(IsEmpty(s))>>
                                 /\ world'.trio
                                 /\ Precedes(Sender, s, events'[IsEmpty(s)].turn)
  <2>1. PICK s : s = batch'.stream
    OBVIOUS
  <2> QED
    BY <1>1, <2>1 DEF Emptied, Present
<1>0. /\ Sender \in Tasks /\ Reader \in Tasks /\ Reader # Sender
      /\ \A r \in Streams : r \in Tasks /\ r # Sender /\ r # Reader
      /\ \A r \in Streams : IsEmpty(r) \in EventIds
  BY TaskNames, EventNames
<1>2. world' = world
  BY Kinds
<1>3. pc[Sender] = "popped" => batch.stream \in Streams /\ response[batch.stream].opened
  BY DEF Plans, SenderPlanned
<1> PICK e : e = Touch(IsEmpty(s))
  OBVIOUS
<1>4. /\ e.on = IsEmpty(s) /\ e.do = "touch" /\ Tail(<<e>>) = <<>> /\ Head(<<e>>) = e /\ <<e>> # <<>>
  BY OpNames, TailTuples
\* The application and the reader, while the sender is in its place.
<1>5. ASSUME NEW t \in Tasks, NEW place, NEW ops, Moved(t, place, ops), t # Sender, batch' = batch,
             \A r \in Streams : /\ buffers'[r].present => buffers[r].present
                                /\ buffers'[r].size \in {0, buffers[r].size}
      PROVE  /\ todo'[Sender] = <<e>>
             /\ \/ buffers'[s].size = 0
                \/ /\ pc'[s] = "pushed" /\ todo'[s] = <<e>> /\ world'.trio
                   /\ Precedes(Sender, s, events'[IsEmpty(s)].turn)
  <2>1. /\ cpu # Sender /\ todo[t] = <<>> /\ pc[Sender] = "popped" /\ todo'[Sender] = todo[Sender]
        /\ s \in Streams /\ s = batch.stream /\ Present(s) /\ batch.data = 0
    BY <1>0, <1>1, <1>3, <1>5, TaskNames DEF Moved, Present
  <2>2. /\ world.trio /\ todo[Sender] = <<e>>
        /\ buffers[s].size # 0 => pc[s] = "pushed" /\ todo[s] = <<e>>
                                  /\ Precedes(Sender, s, events[IsEmpty(s)].turn)
    BY <2>1, EmptyWaits
  <2>3. CASE buffers'[s].size # 0
    <3>1. pc[s] = "pushed" /\ todo[s] = <<e>> /\ Precedes(Sender, s, events[IsEmpty(s)].turn)
      BY <1>5, <2>1, <2>2, <2>3
    <3>2. s # t
      BY <1>4, <2>1, <3>1
    <3>3. pc'[s] = pc[s] /\ todo'[s] = todo[s] /\ Precedes(Sender, s, events'[IsEmpty(s)].turn)
      BY <1>0, <1>5, <2>1, <3>1, <3>2 DEF Moved
    <3> QED
      BY <1>2, <2>1, <2>2, <3>1, <3>3
  <2> QED
    BY <2>1, <2>2, <2>3
<1>6. ASSUME NEW t \in Tasks, NEW place, NEW ops, Quiet(t, place, ops), t # Sender
      PROVE  /\ todo'[Sender] = <<e>>
             /\ \/ buffers'[s].size = 0
                \/ /\ pc'[s] = "pushed" /\ todo'[s] = <<e>> /\ world'.trio
                   /\ Precedes(Sender, s, events'[IsEmpty(s)].turn)
  BY <1>5, <1>6 DEF Quiet
<1>7. ASSUME NEW t \in Tasks, NEW place, NEW ops, Moved(t, place, ops), t = Sender, place # "popped"
      PROVE  FALSE
  BY <1>1, <1>7 DEF Moved
<1>8. ASSUME NEW t \in Tasks, NEW r \in Streams, NEW place, Shuts(t, r, place), place # "popped"
      PROVE  /\ todo'[Sender] = <<e>>
             /\ \/ buffers'[s].size = 0
                \/ /\ pc'[s] = "pushed" /\ todo'[s] = <<e>> /\ world'.trio
                   /\ Precedes(Sender, s, events'[IsEmpty(s)].turn)
  <2>1. /\ Moved(t, place, CloseOps(r)) /\ batch' = batch
        /\ \A q \in Streams : /\ buffers'[q].present => buffers[q].present
                              /\ buffers'[q].size \in {0, buffers[q].size}
    BY <1>8 DEF Shuts
  <2>2. t # Sender
    BY <1>7, <1>8, <2>1
  <2> QED
    BY <1>5, <2>1, <2>2
<1>9. CASE \E t \in Tasks : Acts(t)
  <2>1. PICK t \in Tasks : Acts(t)
    BY <1>9
  <2>2. /\ Acted(t) /\ pc' = pc /\ batch' = batch /\ buffers' = buffers /\ window' = window
        /\ todo[t] # <<>> /\ cpu \in {NoTask, t} /\ NoTask # Sender
        /\ \A u \in Tasks : u # t => todo'[u] = todo[u]
    BY <2>1, TaskNames DEF Acts, Acted, dataVars
  <2>3. s \in Streams /\ s = batch.stream /\ Present(s) /\ batch.data = 0 /\ pc[Sender] = "popped"
        /\ FlowWindow(s)' = FlowWindow(s)
    BY <1>1, <1>3, <2>2 DEF Present, FlowWindow
  <2>4. CASE t = Sender
    <3>1. todo[Sender] = <<e>> /\ (buffers[s].size = 0 \/ pc[s] = "pushed")
      BY <2>2, <2>3, <2>4 DEF Emptied
    <3>2. todo'[Sender] = <<>>
      BY <1>4, <2>2, <2>4, <3>1 DEF Acted, Parks, Passes
    <3> QED
      BY <2>2, <3>1, <3>2
  <2>5. CASE t # Sender
    <3>1. /\ world.trio /\ todo[Sender] = <<e>>
          /\ buffers[s].size # 0 => pc[s] = "pushed" /\ todo[s] = <<e>>
                                    /\ Precedes(Sender, s, events[IsEmpty(s)].turn)
      BY <2>2, <2>3, <2>5, EmptyWaits
    <3>2. CASE buffers[s].size # 0
      <4>1. t # s
        BY <1>4, <2>2, <3>1, <3>2 DEF Acted
      <4>2. Precedes(Sender, s, events'[IsEmpty(s)].turn)
        BY <1>0, <2>2, <2>3, <2>5, <3>1, <3>2 DEF Acted
      <4>3. todo'[s] = todo[s] /\ todo'[Sender] = todo[Sender]
        BY <1>0, <2>2, <2>3, <2>5, <4>1
      <4> QED
        BY <1>2, <1>4, <2>2, <3>1, <3>2, <4>2, <4>3
    <3>3. CASE buffers[s].size = 0
      BY <1>0, <1>4, <2>2, <2>5, <3>1, <3>3
    <3> QED
      BY <3>2, <3>3
  <2> QED
    BY <2>4, <2>5
<1>10. ASSUME NEW r \in Streams, Opens(r)
       PROVE  /\ todo'[Sender] = <<e>>
              /\ \/ buffers'[s].size = 0
                 \/ /\ pc'[s] = "pushed" /\ todo'[s] = <<e>> /\ world'.trio
                    /\ Precedes(Sender, s, events'[IsEmpty(s)].turn)
  <2>1. PICK o \in Streams \cup {Reader} :
           /\ todo[o] = <<>> /\ cpu \in {NoTask, o} /\ o # r
           /\ \/ o = Reader /\ \A u \in Tasks : u # Reader => pc'[u] = IF u = r THEN "app" ELSE pc[u]
              \/ o \in Streams /\ pc[o] = "promising"
                   /\ \A u \in Tasks : pc'[u] = IF u \in {r, o} THEN "app" ELSE pc[u]
    BY <1>10 DEF Opens
  <2>2. /\ pc[Sender] = "popped" /\ cpu # Sender /\ todo' = todo /\ events' = events
        /\ batch' = batch /\ ~response[r].opened
    BY <1>0, <1>1, <1>10, <2>1, TaskNames DEF Opens
  <2>3. /\ s \in Streams /\ s = batch.stream /\ batch.data = 0 /\ s # r
        /\ buffers'[s].size = buffers[s].size /\ Present(s)
    BY <1>1, <1>3, <1>10, <2>2 DEF Opens, Present
  <2>4. /\ world.trio /\ todo[Sender] = <<e>>
        /\ buffers[s].size # 0 => pc[s] = "pushed" /\ todo[s] = <<e>>
                                  /\ Precedes(Sender, s, events[IsEmpty(s)].turn)
    BY <2>2, <2>3, EmptyWaits
  <2>5. pc[s] = "pushed" => pc'[s] = "pushed"
    BY <1>0, <2>1, <2>3
  <2> QED
    BY <1>2, <2>2, <2>3, <2>4, <2>5
<1>11. ASSUME NEW r \in Streams, NEW n \in Sizes, Sends(r, n)
       PROVE  /\ todo'[Sender] = <<e>>
              /\ \/ buffers'[s].size = 0
                 \/ /\ pc'[s] = "pushed" /\ todo'[s] = <<e>> /\ world'.trio
                    /\ Precedes(Sender, s, events'[IsEmpty(s)].turn)
  <2>1. /\ Moved(r, "pushed", <<Touch(IsEmpty(r))>>) /\ batch' = batch
        /\ \A q \in Streams : /\ buffers'[q].present => buffers[q].present
                              /\ q # r => buffers'[q].size = buffers[q].size
    BY <1>11 DEF Sends
  <2>2. /\ cpu # Sender /\ todo[r] = <<>> /\ pc[Sender] = "popped" /\ todo'[Sender] = todo[Sender]
        /\ s \in Streams /\ s = batch.stream /\ Present(s) /\ batch.data = 0
        /\ pc'[r] = "pushed" /\ todo'[r] = <<Touch(IsEmpty(r))>>
    BY <1>0, <1>1, <1>3, <2>1, TaskNames DEF Moved, Present
  <2>3. /\ world.trio /\ todo[Sender] = <<e>> /\ In(Sender, events[IsEmpty(s)].turn)
        /\ buffers[s].size # 0 => pc[s] = "pushed" /\ todo[s] = <<e>>
                                  /\ Precedes(Sender, s, events[IsEmpty(s)].turn)
    BY <2>2, EmptyWaits
  <2>4. CASE r = s
    <3>1. Moved(s, "pushed", <<e>>)
      BY <2>1, <2>4
    <3>2. Precedes(Sender, s, events'[IsEmpty(s)].turn)
      BY <1>0, <1>4, <2>2, <2>3, <3>1 DEF Moved
    <3> QED
      BY <1>2, <2>2, <2>3, <2>4, <3>2
  <2>5. CASE r # s
    <3>1. pc'[s] = pc[s] /\ todo'[s] = todo[s] /\ buffers'[s].size = buffers[s].size
          /\ (Precedes(Sender, s, events[IsEmpty(s)].turn)
                => Precedes(Sender, s, events'[IsEmpty(s)].turn))
      BY <1>0, <2>1, <2>2, <2>5 DEF Moved
    <3> QED
      BY <1>2, <2>2, <2>3, <3>1
  <2> QED
    BY <2>4, <2>5
<1>12. ASSUME NEW r \in Streams, AppSteps(r)
       PROVE  /\ todo'[Sender] = <<e>>
              /\ \/ buffers'[s].size = 0
                 \/ /\ pc'[s] = "pushed" /\ todo'[s] = <<e>> /\ world'.trio
                    /\ Precedes(Sender, s, events'[IsEmpty(s)].turn)
  <2>1. CASE AppGoes(r)
    BY <1>0, <1>6, <2>1 DEF AppGoes
  <2>2. CASE Schedules(r)
    BY <1>0, <1>5, <2>2 DEF Schedules
  <2>3. CASE Completes(r)
    BY <1>0, <1>5, <2>3 DEF Completes
  <2>4. CASE Abandons(r)
    BY <1>0, <1>5, <2>4 DEF Abandons
  <2> QED
    BY <1>0, <1>8, <1>10, <1>11, <1>12, <2>1, <2>2, <2>3, <2>4 DEF AppSteps
<1>13. ASSUME ReaderSteps
       PROVE  /\ todo'[Sender] = <<e>>
              /\ \/ buffers'[s].size = 0
                 \/ /\ pc'[s] = "pushed" /\ todo'[s] = <<e>> /\ world'.trio
                    /\ Precedes(Sender, s, events'[IsEmpty(s)].turn)
  <2>1. CASE ReaderGoes
    BY <1>0, <1>6, <2>1 DEF ReaderGoes
  <2>2. CASE Windows
    BY <1>0, <1>6, <2>2 DEF Windows
  <2>3. CASE Breaks
    BY <1>0, <1>6, <2>3 DEF Breaks
  <2>4. CASE Updates
    BY <1>0, <1>5, <2>4 DEF Updates
  <2> QED
    BY <1>0, <1>8, <1>10, <1>13, <2>1, <2>2, <2>3, <2>4 DEF ReaderSteps
<1>14. CASE SenderSteps
  <2>1. CASE SenderGoes
    BY <1>0, <1>7, <2>1 DEF SenderGoes, Quiet
  <2>2. CASE Finishing
    BY <1>0, <1>7, <2>2 DEF Finishing
  <2>3. ASSUME NEW r \in Streams, Picks(r) PROVE FALSE
    BY <1>0, <1>7, <2>3 DEF Picks
  <2>4. ASSUME NEW r \in Streams, NEW n \in Nat, Pops(r, n)
        PROVE  IF todo'[Sender] = <<>>
               THEN buffers'[s].size = 0 \/ FlowWindow(s)' <= 0
               ELSE todo'[Sender] = <<e>> /\ buffers'[s].size = 0
    <3>1. /\ Moved(Sender, "popped", PopSets(r, n, buffers[r].size - n))
          /\ batch'.stream = r /\ batch'.data = n /\ n = Length(r) /\ window' = window
          /\ buffers'[r].size = buffers[r].size - n
      BY <2>4 DEF Pops
    <3>2. s = r /\ n = 0 /\ FlowWindow(s)' = FlowWindow(s)
      BY <1>1, <3>1 DEF FlowWindow
    <3>3. buffers[s].size \in Nat
      BY <3>2 DEF Types, DataTypes, Buffers
    <3>4. buffers[s].size = 0 \/ FlowWindow(s) <= 0
      BY <3>1, <3>2, LengthBounds
    <3>5. buffers'[s].size = buffers[s].size /\ buffers[s].size - n = buffers[s].size
      BY <3>1, <3>2, <3>3
    <3>6. todo'[Sender] = PopSets(s, 0, buffers[s].size)
      BY <1>0, <3>1, <3>2, <3>5 DEF Moved
    <3>7. todo'[Sender] = IF buffers[s].size = 0 THEN <<e>> ELSE <<>>
      BY <3>6, PopPlan
    <3> QED
      BY <1>4, <3>2, <3>4, <3>5, <3>7
  <2>5. ASSUME NEW r \in Streams, Ships(r) PROVE FALSE
    BY <1>0, <1>7, <2>5 DEF Ships
  <2>6. CASE \E r \in Streams : Shuts(Sender, r, "sent")
    BY <1>0, <1>7, <2>6 DEF Shuts
  <2> QED
    BY <1>0, <1>4, <1>14, <2>1, <2>2, <2>3, <2>4, <2>5, <2>6 DEF SenderSteps
<1> QED
  BY <1>4, <1>9, <1>12, <1>13, <1>14 DEF Steps

-----------------------------------------------------------------------------
(* The streams that are scheduled.                                         *)

(* What can be sent depends on the buffer and the windows.                 *)
LEMMA SendableSame ==
    ASSUME NEW s, buffers'[s] = buffers[s], FlowWindow(s)' = FlowWindow(s)
    PROVE  Sendable(s)' <=> Sendable(s)
BY DEF Sendable, Complete

(* A stream that can be sent stays scheduled, while others go on.          *)
LEMMA ReadyMoves ==
    ASSUME NEW s \in Streams, Ready(s), NEW t \in Tasks, NEW place, NEW ops, Moved(t, place, ops),
           s \in active => s \in active', touched' = touched,
           t = s => pc[s] # "pushed", t = Reader => pc[Reader] # "update"
    PROVE  Ready(s)'
BY TaskNames DEF Ready, Moved

(* A stream that can be sent is scheduled after every step.                *)
LEMMA ReadyStep ==
    ASSUME Types, Plans, Lines, Emptied, Scheduled, Steps, NEW s \in Streams, Sendable(s)',
           Types'
    PROVE  Ready(s)'
<1>0. /\ Sender \in Tasks /\ Reader \in Tasks /\ Reader # Sender
      /\ \A r \in Streams : r \in Tasks /\ r # Sender /\ r # Reader
  BY TaskNames
<1>1. Sendable(s) => Ready(s)
  BY DEF Scheduled
<1>2. /\ FlowWindow(s) \in Int /\ FlowWindow(s)' \in Int
      /\ buffers[s].size \in Nat /\ buffers'[s].size \in Nat /\ Present(s)'
  BY DEF Types, DataTypes, Buffers, FlowWindow, Least, Sendable, Present
<1>3. ASSUME NEW t \in Tasks, NEW place, NEW ops, Quiet(t, place, ops),
             window' = window, touched' = touched,
             t = s => pc[s] # "pushed" \/ ~Present(s), t = Reader => pc[Reader] # "update"
      PROVE  Ready(s)'
  <2>1. Moved(t, place, ops) /\ active' = active /\ Present(s)
    BY <1>2, <1>3 DEF Quiet, Present
  <2>2. Sendable(s)
    BY <1>3, SendableSame DEF Quiet, FlowWindow
  <2> QED
    BY <1>1, <1>3, <2>1, <2>2, ReadyMoves
<1>4. ASSUME NEW r \in Streams, NEW t \in Tasks, NEW place, Shuts(t, r, place) PROVE Ready(s)'
  <2>1. /\ Moved(t, place, CloseOps(r)) /\ active' = active \ {r} /\ touched' = touched
        /\ t = s => pc[s] # "pushed"
        /\ t = Reader => pc[Reader] # "update"
    BY <1>0, <1>4 DEF Shuts
  <2>2. s # r /\ buffers'[s].size = buffers[s].size /\ buffers'[s].complete = buffers[s].complete
        /\ buffers[s].present /\ FlowWindow(s)' = FlowWindow(s)
    BY <1>2, <1>4 DEF Shuts, Present, FlowWindow
  <2>3. Sendable(s)
    BY <2>2 DEF Sendable, Complete
  <2> QED
    BY <1>1, <2>1, <2>2, <2>3, ReadyMoves
<1>5. ASSUME NEW t \in Tasks, Acts(t) PROVE Ready(s)'
  <2>1. pc' = pc /\ buffers' = buffers /\ active' = active /\ window' = window /\ touched' = touched
    BY <1>5 DEF Acts, Acted, dataVars, readerVars
  <2> QED
    BY <1>1, <2>1 DEF Ready, Sendable, Complete, FlowWindow
<1>6. ASSUME NEW r \in Streams, Opens(r) PROVE Ready(s)'
  <2>1. /\ active' = active /\ touched' = touched /\ FlowWindow(s)' = FlowWindow(s)
        /\ buffers'[s].present = (s = r \/ buffers[s].present)
        /\ buffers'[s].complete = (s # r /\ buffers[s].complete)
        /\ buffers'[s].size = IF s = r THEN 0 ELSE buffers[s].size
    BY <1>6 DEF Opens, FlowWindow
  <2>2. s # r
    <3>1. (buffers'[s].size > 0 \/ buffers'[s].complete)
      BY DEF Sendable, Complete
    <3>2. s = r => ~buffers'[s].complete
      BY <2>1
    <3>3. s = r => buffers'[s].size = 0
      BY <2>1
    <3>4. buffers'[s].size = 0 => ~(buffers'[s].size > 0)
      BY <1>2
    <3> QED
      BY <3>1, <3>2, <3>3, <3>4
  <2>3. Sendable(s)
    BY <2>1, <2>2 DEF Sendable, Complete
  <2>4. /\ pc[s] = "pushed" => pc'[s] = "pushed"
        /\ pc[Reader] = "update" => pc'[Reader] = "update"
    BY <1>0, <1>6, <2>2 DEF Opens
  <2> QED
    BY <1>1, <2>1, <2>3, <2>4 DEF Ready
<1>7. ASSUME NEW r \in Streams, AppSteps(r) PROVE Ready(s)'
  <2>1. CASE AppGoes(r)
    BY <1>0, <1>3, <2>1 DEF AppGoes
  <2>2. ASSUME NEW n \in Sizes, Sends(r, n) PROVE Ready(s)'
    <3>1. /\ Moved(r, "pushed", <<Touch(IsEmpty(r))>>) /\ pc[r] = "app" /\ active' = active
          /\ touched' = touched /\ FlowWindow(s)' = FlowWindow(s)
          /\ buffers'[s].present = buffers[s].present /\ buffers'[s].complete = buffers[s].complete
          /\ s # r => buffers'[s].size = buffers[s].size
      BY <2>2 DEF Sends, readerVars, FlowWindow
    <3>2. CASE s = r
      BY <1>0, <3>1, <3>2 DEF Moved, Ready
    <3>3. CASE s # r
      <4>1. Sendable(s)
        BY <3>1, <3>3 DEF Sendable, Complete
      <4> QED
        BY <1>0, <1>1, <3>1, <3>3, <4>1, ReadyMoves
    <3> QED
      BY <3>2, <3>3
  <2>3. CASE Schedules(r)
    <3>1. /\ Moved(r, "app", PushOps(r)) /\ active' = active \cup {r} /\ buffers' = buffers
          /\ touched' = touched /\ FlowWindow(s)' = FlowWindow(s)
      BY <2>3 DEF Schedules, readerVars, FlowWindow
    <3>2. CASE s = r
      BY <3>1, <3>2 DEF Ready
    <3>3. CASE s # r
      <4>1. Sendable(s)
        BY <3>1, SendableSame
      <4> QED
        BY <1>0, <1>1, <3>1, <3>3, <4>1, ReadyMoves
    <3> QED
      BY <3>2, <3>3
  <2>4. CASE Completes(r)
    <3>1. /\ Moved(r, "ended", <<Set(HasData), WaitFor(Finished(r))>>)
          /\ active' = active \cup {r}
          /\ touched' = touched /\ FlowWindow(s)' = FlowWindow(s)
          /\ buffers'[s].present = buffers[s].present /\ buffers'[s].size = buffers[s].size
          /\ s # r => buffers'[s].complete = buffers[s].complete
      BY <2>4 DEF Completes, readerVars, FlowWindow
    <3>2. CASE s = r
      BY <3>1, <3>2 DEF Ready
    <3>3. CASE s # r
      <4>1. Sendable(s)
        BY <3>1, <3>3 DEF Sendable, Complete
      <4> QED
        BY <1>0, <1>1, <3>1, <3>3, <4>1, ReadyMoves
    <3> QED
      BY <3>2, <3>3
  <2>5. CASE Abandons(r)
    <3>1. /\ Moved(r, "ended", <<>>) /\ pc[r] = "app" /\ active' = active /\ buffers' = buffers
          /\ touched' = touched /\ FlowWindow(s)' = FlowWindow(s)
      BY <2>5 DEF Abandons, readerVars, FlowWindow
    <3>2. Sendable(s)
      BY <3>1, SendableSame
    <3> QED
      BY <1>0, <1>1, <3>1, <3>2, ReadyMoves
  <2> QED
    BY <1>0, <1>4, <1>6, <1>7, <2>1, <2>2, <2>3, <2>4, <2>5 DEF AppSteps
<1>8. CASE ReaderSteps
  <2>1. CASE ReaderGoes
    <3>1. PICK place \in ReaderPlaces, ops \in {<<>>, <<Set(HasData)>>} :
             /\ Quiet(Reader, place, ops) /\ window' = window /\ touched' = touched
             /\ pc[Reader] # "update"
      BY <2>1 DEF ReaderGoes
    <3> QED
      BY <1>0, <1>3, <3>1
  <2>2. CASE Windows
    <3>1. /\ Quiet(Reader, "update", <<>>) /\ pc[Reader] = "read"
          /\ FlowWindow(s)' > FlowWindow(s) => s \in touched'
      BY <2>2 DEF Windows
    <3>2. /\ pc'[Reader] = "update" /\ pc'[s] = pc[s] /\ active' = active /\ buffers' = buffers
      BY <1>0, <3>1 DEF Quiet, Moved
    <3>3. CASE s \in touched'
      BY <3>2, <3>3 DEF Ready
    <3>4. CASE s \notin touched'
      <4>1. FlowWindow(s)' > 0 => FlowWindow(s) > 0
        BY <1>2, <3>1, <3>4
      <4>2. Sendable(s)
        BY <3>2, <4>1 DEF Sendable, Complete
      <4> QED
        BY <1>1, <3>1, <3>2, <4>2 DEF Ready
    <3> QED
      BY <3>3, <3>4
  <2>3. CASE Breaks
    BY <1>0, <1>3, <2>3 DEF Breaks
  <2>4. CASE Updates
    <3>1. /\ Moved(Reader, "flush", <<Set(HasData)>>) /\ buffers' = buffers
          /\ active' = active \cup {r \in touched : Present(r)}
          /\ FlowWindow(s)' = FlowWindow(s)
      BY <2>4 DEF Updates, FlowWindow
    <3>2. Ready(s) /\ pc'[s] = pc[s] /\ Present(s)
      BY <1>0, <1>1, <1>2, <3>1, SendableSame DEF Moved, Present
    <3> QED
      BY <3>1, <3>2 DEF Ready
  <2> QED
    BY <1>0, <1>4, <1>6, <1>8, <2>1, <2>2, <2>3, <2>4 DEF ReaderSteps
<1>9. CASE SenderSteps
  <2>1. CASE SenderGoes
    <3>1. PICK place \in SenderPlaces, ops \in {<<>>, Sleep} :
             Quiet(Sender, place, ops) /\ window' = window /\ touched' = touched
      BY <2>1 DEF SenderGoes, readerVars
    <3> QED
      BY <1>0, <1>3, <3>1
  <2>2. CASE Finishing
    <3>1. /\ Moved(Sender, "next", FinishOps) /\ active' = active /\ buffers' = buffers
          /\ touched' = touched /\ FlowWindow(s)' = FlowWindow(s)
      BY <2>2 DEF Finishing, dataVars, readerVars, FlowWindow
    <3>2. Sendable(s)
      BY <3>1, SendableSame
    <3> QED
      BY <1>0, <1>1, <3>1, <3>2, ReadyMoves
  <2>3. ASSUME NEW r \in Streams, Picks(r) PROVE Ready(s)'
    <3>1. /\ Moved(Sender, "send", <<>>) /\ active' = active /\ buffers' = buffers
          /\ touched' = touched /\ FlowWindow(s)' = FlowWindow(s)
      BY <2>3 DEF Picks, dataVars, readerVars, FlowWindow
    <3>2. Sendable(s)
      BY <3>1, SendableSame
    <3> QED
      BY <1>0, <1>1, <3>1, <3>2, ReadyMoves
  <2>4. ASSUME NEW r \in Streams, NEW n \in Nat, Pops(r, n) PROVE Ready(s)'
    <3>1. /\ Moved(Sender, "popped", PopSets(r, n, buffers[r].size - n)) /\ pc[Sender] = "send"
          /\ active' = active /\ r = batch.stream /\ Present(r)
          /\ touched' = touched /\ FlowWindow(s)' = FlowWindow(s)
          /\ buffers'[s].present = buffers[s].present /\ buffers'[s].complete = buffers[s].complete
          /\ s # r => buffers'[s].size = buffers[s].size
      BY <2>4 DEF Pops, readerVars, FlowWindow
    <3>2. CASE s = r
      BY <3>1, <3>2 DEF Ready, Scheduled
    <3>3. CASE s # r
      <4>1. Sendable(s)
        BY <3>1, <3>3 DEF Sendable, Complete
      <4> QED
        BY <1>0, <1>1, <3>1, <4>1, ReadyMoves
    <3> QED
      BY <3>2, <3>3
  <2>5. ASSUME NEW r \in Streams, Ships(r) PROVE Ready(s)'
    <3>1. /\ Moved(Sender, "sent", <<>>) /\ pc[Sender] = "popped" /\ r = batch.stream /\ Present(r)
          /\ active' = IF batch.data = 0 \/ Complete(r) THEN active \ {r} ELSE active
          /\ touched' = touched /\ FlowWindow(s)' <= FlowWindow(s)
          /\ buffers'[s].present = (buffers[s].present /\ ~(s = r /\ Complete(r)))
          /\ buffers'[s].complete = buffers[s].complete
          /\ buffers'[s].size = buffers[s].size
      BY <2>5 DEF Ships, readerVars
    <3>2. /\ FlowWindow(s)' > 0 => FlowWindow(s) > 0
          /\ todo[Sender] = <<>> /\ pc'[s] = pc[s]
      BY <1>0, <1>2, <3>1 DEF Moved
    <3>3. Sendable(s) /\ ~(s = r /\ Complete(r))
      BY <3>1, <3>2 DEF Sendable, Complete
    <3>4. CASE s = r /\ batch.data = 0
      <4>1. buffers[s].size = 0 \/ FlowWindow(s) <= 0 \/ pc[s] = "pushed"
        BY <3>1, <3>2, <3>4 DEF Emptied
      <4>2. buffers[s].size > 0 /\ FlowWindow(s) > 0
        BY <3>3, <3>4 DEF Sendable
      <4>3. pc[s] = "pushed"
        BY <1>2, <4>1, <4>2
      <4> QED
        BY <3>2, <4>3 DEF Ready
    <3>5. CASE ~(s = r /\ batch.data = 0)
      <4>1. s \in active => s \in active'
        BY <3>1, <3>3, <3>5
      <4> QED
        BY <1>0, <1>1, <3>1, <3>3, <4>1, ReadyMoves
    <3> QED
      BY <3>4, <3>5
  <2> QED
    BY <1>0, <1>4, <1>9, <2>1, <2>2, <2>3, <2>4, <2>5 DEF SenderSteps
<1> QED
  BY <1>5, <1>7, <1>8, <1>9 DEF Steps

(* The stream the sender is at is scheduled.                               *)
LEMMA SentIsActive ==
    ASSUME Types, Plans, Scheduled, Steps, NEW s \in Streams,
           pc'[Sender] \in {"send", "popped"}, batch'.stream = s, Present(s)'
    PROVE  s \in active'
<1>0. /\ Sender \in Tasks /\ Reader \in Tasks /\ Reader # Sender
      /\ \A r \in Streams : r \in Tasks /\ r # Sender /\ r # Reader
  BY TaskNames
<1>1. ASSUME pc[Sender] \in {"send", "popped"}, batch.stream = s, Present(s) PROVE s \in active
  BY <1>1 DEF Scheduled
<1>2. ASSUME NEW t \in Tasks, NEW place, NEW ops, Moved(t, place, ops), batch' = batch,
             t = Sender => place \notin {"send", "popped"},
             Present(s)' => Present(s), s \in active => s \in active' \/ ~Present(s)'
      PROVE  s \in active'
  BY <1>0, <1>1, <1>2 DEF Moved
<1>3. ASSUME NEW t \in Tasks, NEW place, NEW ops, Quiet(t, place, ops),
             t = Sender => place \notin {"send", "popped"}
      PROVE  s \in active'
  BY <1>2, <1>3 DEF Quiet, Present
<1>4. ASSUME NEW r \in Streams, NEW t \in Tasks, NEW place, Shuts(t, r, place),
             place \notin {"send", "popped"}
      PROVE  s \in active'
  <2>1. /\ Moved(t, place, CloseOps(r)) /\ active' = active \ {r} /\ batch' = batch
        /\ Present(s)' => Present(s) /\ s # r
    BY <1>4 DEF Shuts, Present
  <2> QED
    BY <1>2, <1>4, <2>1
<1>5. ASSUME NEW t \in Tasks, Acts(t) PROVE s \in active'
  BY <1>1, <1>5 DEF Acts, Acted, dataVars, Present
<1>6. ASSUME NEW r \in Streams, Opens(r) PROVE s \in active'
  <2>1. /\ pc'[Sender] = pc[Sender] /\ ~response[r].opened /\ batch' = batch /\ active' = active
        /\ Present(s)' <=> s = r \/ Present(s)
    BY <1>0, <1>6 DEF Opens, Present
  <2>2. s # r
    BY <2>1 DEF Plans, SenderPlanned
  <2> QED
    BY <1>1, <2>1, <2>2
<1>7. ASSUME NEW r \in Streams, AppSteps(r) PROVE s \in active'
  <2>1. CASE AppGoes(r)
    BY <1>0, <1>3, <2>1 DEF AppGoes
  <2>2. ASSUME NEW n \in Sizes, Sends(r, n) PROVE s \in active'
    BY <1>0, <1>2, <2>2 DEF Sends, Present
  <2>3. CASE Schedules(r)
    BY <1>0, <1>2, <2>3 DEF Schedules, Present
  <2>4. CASE Completes(r)
    <3>1. /\ Moved(r, "ended", <<Set(HasData), WaitFor(Finished(r))>>) /\ batch' = batch
          /\ active' = active \cup {r} /\ (Present(s)' => Present(s))
      BY <2>4 DEF Completes, Present
    <3> QED
      BY <1>0, <1>2, <3>1
  <2>5. CASE Abandons(r)
    BY <1>0, <1>2, <2>5 DEF Abandons, Present
  <2> QED
    BY <1>0, <1>4, <1>6, <1>7, <2>1, <2>2, <2>3, <2>4, <2>5 DEF AppSteps
<1>8. CASE ReaderSteps
  <2>1. CASE ReaderGoes
    BY <1>0, <1>3, <2>1 DEF ReaderGoes
  <2>2. CASE Windows
    BY <1>0, <1>3, <2>2 DEF Windows
  <2>3. CASE Breaks
    BY <1>0, <1>3, <2>3 DEF Breaks
  <2>4. CASE Updates
    BY <1>0, <1>2, <2>4 DEF Updates, Present
  <2> QED
    BY <1>0, <1>4, <1>6, <1>8, <2>1, <2>2, <2>3, <2>4 DEF ReaderSteps
<1>9. CASE SenderSteps
  <2>1. CASE SenderGoes
    BY <1>0, <1>3, <2>1 DEF SenderGoes
  <2>2. CASE Finishing
    BY <1>0, <2>2 DEF Finishing, Moved
  <2>3. ASSUME NEW r \in Streams, Picks(r) PROVE s \in active'
    BY <2>3 DEF Picks, dataVars
  <2>4. ASSUME NEW r \in Streams, NEW n \in Nat, Pops(r, n) PROVE s \in active'
    <3>1. r = s /\ pc[Sender] = "send" /\ batch.stream = s /\ Present(s) /\ active' = active
      BY <2>4 DEF Pops
    <3> QED
      BY <1>1, <3>1
  <2>5. ASSUME NEW r \in Streams, Ships(r) PROVE FALSE
    BY <1>0, <2>5 DEF Ships, Moved
  <2> QED
    BY <1>0, <1>4, <1>9, <2>1, <2>2, <2>3, <2>4, <2>5 DEF SenderSteps
<1> QED
  BY <1>5, <1>7, <1>8, <1>9 DEF Steps

(* Somebody wakes the sender that sleeps on work.                          *)
LEMMA SleepHas ==
    /\ In(WaitFor(HasData), Sleep)
    /\ \A s : WaitFor(HasData) \notin Closes(s) /\ WaitFor(HasData) # Touch(IsEmpty(s))
              /\ WaitFor(HasData) # Set(Paused(s)) /\ WaitFor(HasData) # Set(Finished(s))
    /\ Tail(Sleep) # Sleep /\ <<Clear(HasData)>> # Sleep /\ <<>> # Sleep
<1> PICK a, b : a = WaitFor(HasData) /\ b = Clear(HasData)
  OBVIOUS
<1>1. a # b /\ Sleep = <<a, b>>
  BY OpNames DEF Sleep
<1>2. In(a, <<a, b>>) /\ ~In(a, <<b>>) /\ ~In(a, <<>>) /\ Tail(<<a, b>>) = <<b>>
  BY <1>1, InTuples, TailTuples
<1>3. \A e : a # Set(e) /\ a # Touch(e)
  BY OpNames
<1> QED
  BY <1>1, <1>2, <1>3 DEF Closes

(* Only the sender that sleeps awaits has_data.                            *)
LEMMA Sleeper ==
    ASSUME Types, Plans, In(WaitFor(HasData), todo[Sender])
    PROVE  todo[Sender] = Sleep
<1>0. \A e : WaitFor(HasData) # Set(e) /\ WaitFor(HasData) # Touch(e)
  BY OpNames
<1>1. pc[Sender] = "next"
  <2>1. SenderHas(WaitFor(HasData))
    BY TaskNames, Having
  <2> QED
    BY <1>0, <2>1, SleepHas DEF SenderHas
<1>2. todo[Sender] \in {Sleep, <<Clear(HasData)>>} \cup Finishes
  BY <1>1 DEF Plans, SenderPlanned, SenderPlans
<1>3. ASSUME todo[Sender] \in Finishes PROVE FALSE
  BY <1>3, SleepHas DEF Finishes, In
<1>4. todo[Sender] # <<Clear(HasData)>>
  <2> PICK a, b : a = WaitFor(HasData) /\ b = Clear(HasData)
    OBVIOUS
  <2>1. a # b
    BY OpNames
  <2>2. ~In(a, <<b>>)
    BY <2>1, InTuples
  <2> QED
    BY <2>2
<1> QED
  BY <1>2, <1>3, <1>4

(* A task that goes on takes no wake-up away.                              *)
LEMMA RousedMoves ==
    ASSUME NEW t \in Tasks, NEW place, NEW ops, Moved(t, place, ops),
           Roused \/ In(Set(HasData), ops)
    PROVE  Roused'
<1>1. events'[HasData].set = events[HasData].set
  BY EventNames DEF Moved
<1>2. Pending(Set(HasData))' <=> Pending(Set(HasData)) \/ In(Set(HasData), ops)
  BY MovedPending
<1> QED
  BY <1>1, <1>2 DEF Roused

(* A task that takes part in an event takes no wake-up away.               *)
LEMMA RousedActs ==
    ASSUME Types, Plans, NEW t \in Tasks, Acts(t), Roused,
           t # Sender \/ Parks(t)
    PROVE  Roused'
<1>1. Acted(t) /\ TaskTypes /\ HasData \in EventIds /\ todo[t] # <<>>
  BY EventNames DEF Types, Acts, Acted
<1>2. CASE Parks(t)
  <2>1. todo'[t] = todo[t] /\ \A u \in Tasks : todo'[u] = todo[u]
    BY <1>1, <1>2 DEF Acted, Parks
  <2>2. events'[HasData].set = events[HasData].set
    BY <1>1, <1>2 DEF Parks
  <2> QED
    BY <2>1, <2>2 DEF Roused, Pending
<1>3. CASE Passes(t) /\ t # Sender
  <2>1. events'[HasData].set = IF HasData # Head(todo[t]).on \/ Head(todo[t]).do = "wait"
                               THEN events[HasData].set ELSE Head(todo[t]).do = "set"
    BY <1>1, <1>3 DEF Passes
  <2>2. In(Head(todo[t]), todo[t])
    BY <1>1, Awaited
  <2> PICK op : op = Head(todo[t])
    OBVIOUS
  <2>3. op.on = HasData => op = Set(HasData)
    <3>1. ASSUME NEW s \in Streams, op.on = HasData PROVE op = Set(HasData) \/ t = Sender
      BY <1>3, <2>2, <3>1, Owners
    <3>2. t \in Streams => (op.on = HasData => op = Set(HasData))
      BY <1>3, <3>1
    <3>3. ASSUME t = Reader, op.on = HasData PROVE op = Set(HasData)
      <4>1. ReaderHas(op)
        BY <2>2, <3>3, TaskNames, Having
      <4>2. op = Set(HasData) \/ \E s \in Streams : op \in Closes(s)
        BY <4>1 DEF ReaderHas
      <4> QED
        BY <1>3, <3>1, <3>3, <4>2
    <3> QED
      BY <1>3, <3>2, <3>3 DEF Tasks
  <2>4. events[HasData].set => events'[HasData].set
    BY <2>1, <2>3, OpNames
  <2>5. Set(HasData).on = HasData /\ Set(HasData).do = "set"
    BY OpNames
  <2>6. Pending(Set(HasData)) /\ ~Pending(Set(HasData))' => op = Set(HasData)
    BY <1>1, ActedPending
  <2>7. Pending(Set(HasData)) /\ ~Pending(Set(HasData))' => events'[HasData].set
    BY <2>1, <2>5, <2>6
  <2> QED
    BY <2>4, <2>7 DEF Roused
<1> QED
  BY <1>1, <1>2, <1>3 DEF Acted

(* The sender that sleeps on work is woken after every step.               *)
LEMMA RousedStep ==
    ASSUME Types, Plans, Lines, Scheduled, Steps, todo'[Sender] = Sleep, active' # {}
    PROVE  Roused'
<1>0. /\ Sender \in Tasks /\ Reader \in Tasks /\ Reader # Sender
      /\ \A r \in Streams : r \in Tasks /\ r # Sender /\ r # Reader
  BY TaskNames
<1>1. In(WaitFor(HasData), todo'[Sender])
  BY SleepHas
<1>2. todo[Sender] = Sleep /\ active # {} => Roused
  BY DEF Scheduled
<1>3. ASSUME NEW t \in Tasks, NEW place, NEW ops, Moved(t, place, ops),
             t = Sender => ~In(WaitFor(HasData), ops),
             active' \subseteq active \/ In(Set(HasData), ops)
      PROVE  Roused'
  <2>1. t # Sender /\ todo[Sender] = Sleep
    BY <1>0, <1>1, <1>3 DEF Moved
  <2>2. Roused \/ In(Set(HasData), ops)
    BY <1>2, <1>3, <2>1
  <2> QED
    BY <1>3, <2>2, RousedMoves
<1>4. ASSUME NEW t \in Tasks, NEW place, NEW ops, Quiet(t, place, ops), t # Sender
      PROVE  Roused'
  BY <1>3, <1>4 DEF Quiet
<1>5. ASSUME NEW r \in Streams, NEW t \in Tasks, NEW place, Shuts(t, r, place)
      PROVE  Roused'
  <2>1. Moved(t, place, CloseOps(r)) /\ active' \subseteq active
    BY <1>5 DEF Shuts
  <2>2. ~In(WaitFor(HasData), CloseOps(r))
    BY ListsHave, SleepHas
  <2> QED
    BY <1>3, <2>1, <2>2
<1>6. ASSUME NEW t \in Tasks, Acts(t) PROVE Roused'
  <2>1. Acted(t) /\ active' = active /\ todo[t] # <<>> /\ TaskTypes
        /\ \A u \in Tasks \ {t} : todo'[u] = todo[u]
    BY <1>6 DEF Acts, Acted, dataVars, Types
  <2>2. In(WaitFor(HasData), todo[Sender])
    BY <1>0, <1>1, <2>1, ActedPending
  <2>3. todo[Sender] = Sleep
    BY <2>2, Sleeper
  <2>4. t # Sender \/ Parks(t)
    BY <2>1, <2>3, SleepHas DEF Acted, Passes
  <2> QED
    BY <1>2, <1>6, <2>1, <2>3, <2>4, RousedActs
<1>7. ASSUME NEW r \in Streams, Opens(r) PROVE Roused'
  BY <1>2, <1>7 DEF Opens, Roused, Pending
<1>8. ASSUME NEW r \in Streams, AppSteps(r) PROVE Roused'
  <2>1. CASE AppGoes(r)
    BY <1>0, <1>4, <2>1 DEF AppGoes
  <2>2. ASSUME NEW n \in Sizes, Sends(r, n) PROVE Roused'
    BY <1>0, <1>3, <2>2 DEF Sends
  <2>3. CASE Schedules(r)
    <3>1. Moved(r, "app", PushOps(r)) /\ In(Set(HasData), PushOps(r))
      BY <2>3, ListsHave DEF Schedules
    <3> QED
      BY <1>0, <1>3, <3>1
  <2>4. CASE Completes(r)
    <3>1. /\ Moved(r, "ended", <<Set(HasData), WaitFor(Finished(r))>>)
          /\ In(Set(HasData), <<Set(HasData), WaitFor(Finished(r))>>)
      BY <2>4, ListsHave DEF Completes
    <3> QED
      BY <1>0, <1>3, <3>1
  <2>5. CASE Abandons(r)
    BY <1>0, <1>3, <2>5 DEF Abandons
  <2> QED
    BY <1>0, <1>5, <1>7, <1>8, <2>1, <2>2, <2>3, <2>4, <2>5 DEF AppSteps
<1>9. CASE ReaderSteps
  <2>1. CASE ReaderGoes
    BY <1>0, <1>4, <2>1 DEF ReaderGoes
  <2>2. CASE Windows
    BY <1>0, <1>4, <2>2 DEF Windows
  <2>3. CASE Breaks
    BY <1>0, <1>4, <2>3 DEF Breaks
  <2>4. CASE Updates
    <3>1. Moved(Reader, "flush", <<Set(HasData)>>) /\ In(Set(HasData), <<Set(HasData)>>)
      BY <2>4, ListsHave DEF Updates
    <3> QED
      BY <1>0, <1>3, <3>1
  <2> QED
    BY <1>0, <1>5, <1>7, <1>9, <2>1, <2>2, <2>3, <2>4 DEF ReaderSteps
<1>10. CASE SenderSteps
  <2>1. CASE SenderGoes
    <3>1. PICK place \in SenderPlaces, ops \in {<<>>, Sleep} :
             /\ Moved(Sender, place, ops) /\ active' = active
             /\ ops = Sleep => active = {}
      BY <2>1, SleepHas DEF SenderGoes, Quiet
    <3>2. todo'[Sender] = ops
      BY <1>0, <3>1 DEF Moved
    <3> QED
      BY <3>1, <3>2
  <2>2. CASE Finishing
    <3>1. Moved(Sender, "next", FinishOps) /\ active' = active
      BY <2>2 DEF Finishing, dataVars
    <3>2. ~In(WaitFor(HasData), FinishOps)
      BY FinishOpsHave, SleepHas
    <3> QED
      BY <1>0, <1>3, <3>1, <3>2
  <2>3. ASSUME NEW r \in Streams, Picks(r) PROVE Roused'
    <3>1. Moved(Sender, "send", <<>>) /\ active' = active /\ ~In(WaitFor(HasData), <<>>)
      BY <2>3, InTuples DEF Picks, dataVars
    <3> QED
      BY <1>0, <1>3, <3>1
  <2>4. ASSUME NEW r \in Streams, NEW n \in Nat, Pops(r, n) PROVE Roused'
    <3>1. Moved(Sender, "popped", PopSets(r, n, buffers[r].size - n)) /\ active' = active
      BY <2>4 DEF Pops
    <3>2. ~In(WaitFor(HasData), PopSets(r, n, buffers[r].size - n))
      BY ListsHave, SleepHas
    <3> QED
      BY <1>0, <1>3, <3>1, <3>2
  <2>5. ASSUME NEW r \in Streams, Ships(r) PROVE Roused'
    <3>1. Moved(Sender, "sent", <<>>) /\ active' \subseteq active /\ ~In(WaitFor(HasData), <<>>)
      BY <2>5, InTuples DEF Ships
    <3> QED
      BY <1>0, <1>3, <3>1
  <2> QED
    BY <1>0, <1>5, <1>10, <2>1, <2>2, <2>3, <2>4, <2>5 DEF SenderSteps
<1> QED
  BY <1>6, <1>8, <1>9, <1>10 DEF Steps

(* Every step keeps what is scheduled.                                     *)
LEMMA StepScheduled ==
    ASSUME Types, Plans, Lines, Emptied, Scheduled, Steps, Types'
    PROVE  Scheduled'
BY ReadyStep, SentIsActive, RousedStep DEF Scheduled

-----------------------------------------------------------------------------
(* The theorems.                                                           *)

(* At the start.                                                           *)
LEMMA InitTypes == ASSUME Init PROVE Types /\ Plans
<1>0. /\ Sender \in Tasks /\ Reader \in Tasks /\ Reader # Sender
      /\ \A r \in Streams : r \in Tasks /\ r # Sender /\ r # Reader
  BY TaskNames
<1>1. /\ pc \in [Tasks -> Places] /\ pc[Reader] = "read" /\ pc[Sender] = "next"
      /\ \A s \in Streams : pc[s] = "none"
  BY <1>0 DEF Init, Places, Suspended
<1>2. \A t \in Tasks : todo[t] = <<>>
  BY DEF Init
<1>3. TaskTypes
  <2>1. <<>> \in Seq(Ops) /\ <<>> \in Seq(Tasks)
    OBVIOUS
  <2>2. NewEvent \in Events(Tasks)
    BY <2>1 DEF NewEvent, Events
  <2> QED
    BY <1>1, <2>1, <2>2 DEF Init, TaskTypes
<1>4. DataTypes
  <2>1. world \in Worlds /\ world \in WorldRecords
    BY H2SendAssumption DEF Init, WorldRecords
  <2>2. <<>> \in Seq(Streams) /\ MaxWindow \in Nat /\ MaxShrinks \in Nat
    BY H2SendAssumption
  <2>3. buffers \in [Streams -> Buffers]
    BY DEF Init, NewBuffer, Buffers
  <2>4. window \in [all : Nat, of : [Streams -> Int]]
    BY <2>2 DEF Init
  <2>5. batch \in Batches
    BY <2>2 DEF Init, NoBatch, Batches
  <2>6. response \in [Streams -> Responses]
    BY DEF Init, Responses
  <2>7. \A s \in Streams : response[s].written <= world.bytes
    <3>1. world.bytes \in Nat
      BY <2>1 DEF WorldRecords
    <3> SUFFICES ASSUME NEW s \in Streams PROVE response[s].written <= world.bytes
      OBVIOUS
    <3>2. response[s].written = 0
      BY DEF Init
    <3> QED
      BY <3>1, <3>2
  <2>8. known = <<>> /\ leaving = <<>> /\ active = {} /\ resets = {} /\ unflushed = {} /\ touched = {}
        /\ closed = FALSE
    BY DEF Init
  <2>9. shrinks \in 0..MaxShrinks
    BY <2>2 DEF Init
  <2> QED
    BY <2>1, <2>2, <2>3, <2>4, <2>5, <2>6, <2>7, <2>8, <2>9 DEF DataTypes
<1>5. Plans
  <2>1. \A s \in Streams : ~response[s].opened /\ ~buffers[s].present
    <3> SUFFICES ASSUME NEW s \in Streams PROVE ~response[s].opened /\ ~buffers[s].present
      OBVIOUS
    <3>1. response[s].opened = FALSE
      BY DEF Init
    <3>2. buffers[s].present = FALSE
      BY DEF Init, NewBuffer
    <3> QED
      BY <3>1, <3>2
  <2>2. \A s \in Streams : AppPlanned(s) /\ Alive(s)
    <3>1. \A s \in Streams : <<>> \in AppPlans(s, "none")
      BY NothingPlanned DEF AppPlaces
    <3>2. active = {}
      BY DEF Init
    <3> QED
      BY <1>0, <1>1, <1>2, <2>1, <3>1, <3>2, Zenon DEF AppPlanned, Alive, AppPlaces
  <2>3. ReaderPlanned
    BY <1>0, <1>1, <1>2 DEF ReaderPlanned, ReaderPlans, ReaderPlaces
  <2>4. SenderPlanned
    <3>1. batch.stream \in Streams \cup {NoTask}
      BY <1>4 DEF DataTypes, Batches
    <3>2. <<>> \in SenderPlans("next", batch.stream)
      BY <3>1, NothingPlanned DEF SenderPlaces
    <3> QED
      BY <1>0, <1>1, <1>2, <3>2 DEF SenderPlanned, SenderPlaces
  <2> QED
    BY <2>2, <2>3, <2>4 DEF Plans
<1> QED
  BY <1>3, <1>4, <1>5 DEF Types

(* The invariant holds at the start.                                       *)
LEMMA InitIInv == ASSUME Init PROVE IInv
<1>0. /\ Sender \in Tasks /\ Reader \in Tasks /\ Reader # Sender
      /\ \A r \in Streams : r \in Tasks /\ r # Sender /\ r # Reader
  BY TaskNames
<1>1. /\ pc[Reader] = "read" /\ pc[Sender] = "next" /\ active = {} /\ unflushed = {}
      /\ inHand = [t \in Tasks \cup {Consumers} |-> {}]
      /\ leaving = <<>> /\ batch.finished = <<>> /\ cpu = NoTask
      /\ \A t \in Tasks : todo[t] = <<>>
      /\ \A e \in EventIds : events[e] = NewEvent
      /\ \A s \in Streams : pc[s] = "none" /\ ~Present(s) /\ buffers[s].size = 0
                            /\ ~buffers[s].complete /\ ~response[s].opened
                            /\ response[s].ended = 0 /\ response[s].written = 0
                            /\ response[s].sent = 0
  BY <1>0 DEF Init, NewBuffer, Present, NoBatch
<1>2. Types /\ Plans
  BY InitTypes
<1>3. NewEvent.turn = <<>> /\ NewEvent.waiters = <<>> /\ ~NewEvent.set
  BY DEF NewEvent
<1>4. \A x : ~In(x, <<>>)
  BY InTuples
<1>5. Lines
  <2>1. Orderly(NewEvent)
    BY <1>3, <1>4 DEF Orderly, Distinct
  <2>2. \A e \in EventIds : Line(e)
    BY <1>1, <1>3, <1>4, <2>1 DEF Line, Awaits
  <2>3. Running
    <3>1. \A t \in Tasks : pc[t] \in Suspended \cup {"next"}
      BY <1>1 DEF Tasks, Suspended
    <3> QED
      BY <3>1 DEF Running
  <2> QED
    BY <2>2, <2>3 DEF Lines
<1>6. Sprung
  BY <1>1, <1>3, EventNames DEF Sprung
<1>7. Books
  <2>1. ASSUME NEW s \in Streams
        PROVE  /\ ~Present(s) /\ response[s].ended <= 1 /\ buffers[s].size = 0
               /\ response[s].ended = 1 => response[s].sent = response[s].written
               /\ response[s].ended = 0 /\ response[s].written = 0 /\ response[s].sent = 0
    BY <1>1
  <2> QED
    BY <2>1, Zenon DEF Books
<1>8. \A op : ~Pending(op)
  BY <1>1, <1>4 DEF Pending
<1>15. Hands
  BY <1>1, TaskNames DEF Hands, Tasks
<1>9. Telling
  BY <1>1, <1>3, <1>8, EventNames DEF Telling, Told
<1>10. Ending
  <2>1. ASSUME NEW s \in Streams PROVE ~Present(s) /\ response[s].ended # 1
    BY <1>1
  <2> QED
    BY <2>1 DEF Ending, Ends
<1>11. Excuses
  BY <1>1 DEF Excuses, Parted, Fits, Past
<1>12. Rooms
  <2>1. SUFFICES ASSUME NEW s \in Streams, NEW n \in Sizes PROVE Roomed(s, n)
    BY DEF Rooms
  <2>2. buffers[s].size < HighWater + 2 * n
    <3>1. HighWater + 2 * n \in Nat /\ 0 < HighWater /\ HighWater <= HighWater + 2 * n
      BY Marks
    <3> QED
      BY <1>1, <3>1, Marks
  <2> QED
    BY <1>1, <2>2 DEF Roomed
<1>13. Emptied
  BY <1>1 DEF Emptied
<1>14. Scheduled
  <2>1. \A s \in Streams : ~Sendable(s)
    BY <1>1 DEF Sendable, Present
  <2>2. todo[Sender] # Sleep
    BY <1>0, <1>1, SleepHas
  <2> QED
    BY <1>1, <2>1, <2>2 DEF Scheduled
<1> QED
  BY <1>2, <1>5, <1>6, <1>7, <1>15, <1>9, <1>10, <1>11, <1>12, <1>13, <1>14 DEF IInv

(* The others, and a step of none of the tasks, keep the invariant.        *)
LEMMA SameIInv == ASSUME IInv, OthersStep \/ UNCHANGED vars PROVE IInv'
<1>0. Sender \in Tasks /\ Sender # Consumers /\ \A t \in Tasks : t # Consumers
  BY TaskNames, H2SendAssumption DEF Tasks, Reader, Sender, Consumers
<1>1. /\ UNCHANGED <<world, buffers, active, window, response>>
      /\ UNCHANGED <<known, shrinks, resets, closed, leaving, touched>>
      /\ UNCHANGED <<pc, todo, cpu, events, batch>>
      /\ unflushed' \subseteq unflushed
  BY DEF vars, dataVars, readerVars, taskVars, OthersStep, OthersKeep, Acknowledge, Acknowledged,
         Terminate
<1>2. Types' /\ Plans'
  BY <1>1 DEF IInv, Types, TaskTypes, DataTypes, Plans, AppPlanned, Alive, ReaderPlanned,
              SenderPlanned
<1>3. Lines' /\ Sprung'
  BY <1>1 DEF IInv, Lines, Running, Line, Orderly, Awaits, AwaitsTo, Sprung
<1>8. Hands' /\ \A t \in Tasks : inHand'[t] = inHand[t]
  <2>1. /\ inHand \in [Tasks \cup {Consumers} -> SUBSET Streams] /\ unflushed \subseteq Streams
        /\ \A t \in Tasks : inHand[t] # {} => pc[t] \in Flushing
    BY DEF IInv, Hands, Types, DataTypes
  <2>2. CASE inHand' = inHand
    BY <1>1, <2>1, <2>2 DEF Hands
  <2>3. ASSUME NEW h \in SUBSET Streams, inHand' = [inHand EXCEPT ![Consumers] = h]
        PROVE  Hands' /\ \A t \in Tasks : inHand'[t] = inHand[t]
    BY <1>0, <1>1, <2>1, <2>3 DEF Hands
  <2>4. inHand[Consumers] \subseteq Streams
    BY <2>1
  <2>5. CASE Acknowledge
    <3>1. inHand' = [inHand EXCEPT ![Consumers] = inHand[Consumers] \cup unflushed]
      BY <2>5 DEF Acknowledge
    <3> QED
      BY <2>1, <2>3, <2>4, <3>1
  <2>6. ASSUME NEW s \in Streams, Acknowledged(s)
        PROVE  Hands' /\ \A t \in Tasks : inHand'[t] = inHand[t]
    <3>1. inHand' = [inHand EXCEPT ![Consumers] = inHand[Consumers] \ {s}]
      BY <2>6 DEF Acknowledged
    <3> QED
      BY <2>3, <2>4, <3>1
  <2>7. CASE Terminate \/ UNCHANGED vars
    BY <2>2, <2>7 DEF Terminate, vars, dataVars
  <2> QED
    BY <2>5, <2>6, <2>7 DEF OthersStep
<1>4. Books' /\ Ending'
  BY <1>1 DEF IInv, Books, Present, Handled, Ending, Ends
<1>9. Telling'
  BY <1>0, <1>1, <1>8 DEF IInv, Telling, Told, Pending, Present
<1>5. Excuses'
  BY <1>1 DEF IInv, Excuses, Parted, Excused, Fits, Present, FlowWindow, May
<1>6. Rooms'
  BY <1>1 DEF IInv, Rooms, Roomed, Largest, Present, Tells, Roomy, Handled, Awaits
<1>7. Emptied' /\ Scheduled'
  BY <1>1 DEF IInv, Emptied, Scheduled, Sendable, Ready, Roused, Pending, Present, FlowWindow,
              Complete
<1> QED
  BY <1>2, <1>3, <1>4, <1>5, <1>6, <1>7, <1>8, <1>9 DEF IInv

(* Every step keeps the invariant.                                         *)
LEMMA StepIInv == ASSUME IInv, [Next]_vars PROVE IInv'
<1>1. CASE OthersStep \/ UNCHANGED vars
  BY <1>1, SameIInv
<1>2. CASE Next /\ ~OthersStep
  <2>1. Types' /\ Lines' /\ Steps
    BY <1>2, StepDoes DEF IInv
  <2>5. Hands' /\ Gathers
    BY <1>2, StepHands DEF IInv
  <2>2. Plans' /\ Sprung' /\ Books'
    BY <2>1, StepPlans, StepSprung, StepBooks DEF IInv
  <2>3. Telling' /\ Ending' /\ Excuses'
    BY <2>1, <2>5, StepTelling, StepEnding, StepExcuses DEF IInv
  <2>4. Rooms' /\ Emptied' /\ Scheduled'
    BY <2>1, StepRooms, StepEmptied, StepScheduled DEF IInv
  <2> QED
    BY <2>1, <2>2, <2>3, <2>4, <2>5 DEF IInv
<1> QED
  BY <1>1, <1>2

(* Every behaviour keeps the inductive invariant.                          *)
THEOREM Invariant == Spec => []IInv
<1>1. Init => IInv
  BY InitIInv
<1>2. IInv /\ [Next]_vars => IInv'
  BY StepIInv
<1> QED
  BY <1>1, <1>2, PTL DEF Spec

(* Whether the server stops is a Boolean.                                  *)
LEMMA Stopping == Spec => [](terminated \in BOOLEAN)
<1>1. Init => terminated \in BOOLEAN
  BY DEF Init
<1>2. terminated \in BOOLEAN /\ [Next]_vars => (terminated \in BOOLEAN)'
  <2>1. ASSUME NEW s \in Streams, App(s) PROVE terminated' = terminated
    BY <2>1 DEF App, AppResumes, EventStep, Respond, Responded, Send, Pushed, End, Abandon,
       PopStream, AppPopped, Depart, Departed, Promise, Promised, Open, FlushKeeps
  <2>2. ASSUME ReaderStep PROVE terminated' = terminated
    BY <2>2 DEF ReaderStep, ReaderResumes, EventStep, RequestReceived, Open, OtherReceived, Grant,
       GrantAll, Shrink, Windowed, ReaderKeeps, Update, StreamReset, Lost, Closing, ReaderPopped,
       Closed, ReaderFlush, ReaderFlushed, FlushKeeps
  <2>3. ASSUME SenderStep PROVE terminated' = terminated
    BY <2>3 DEF SenderStep, EventStep, SenderIdles, BatchEnds, FinishBatch, Pop, SendData, NotSent,
       Pick, FlushKeeps
  <2>4. ASSUME OthersStep PROVE terminated' \in {TRUE, terminated}
    BY <2>4 DEF OthersStep, Acknowledge, Acknowledged, Terminate
  <2> QED
    BY <2>1, <2>2, <2>3, <2>4 DEF Next, vars
<1> QED
  BY <1>1, <1>2, PTL DEF Spec

(* The memory a response takes is bounded, whatever the peer's windows: a  *)
(* buffer holds less than the high-water mark and two of the largest data  *)
(* of a Body, however the sends, the pops and the wakings interleave, under*)
(* either runtime (StreamBuffer.push, pop).                                *)
THEOREM MemoryIsBounded == Spec => []BufferBounded
<1>1. IInv /\ terminated \in BOOLEAN => BufferBounded
  <2> SUFFICES ASSUME IInv, terminated \in BOOLEAN PROVE BufferBounded
    OBVIOUS
  <2>1. TypeOK
    <3>1. batch.stream \in Streams \cup {NoTask} /\ batch.finished \in Seq(Streams)
      BY DEF IInv, Types, DataTypes, Batches
    <3>2. \A s \in Streams : response[s].written \in 0..world.bytes
      <4> SUFFICES ASSUME NEW s \in Streams PROVE response[s].written \in 0..world.bytes
        OBVIOUS
      <4>1. world.bytes \in Nat /\ response[s].written \in Nat
        BY DEF IInv, Types, DataTypes, Responses, WorldRecords
      <4>2. response[s].written <= world.bytes
        BY DEF IInv, Types, DataTypes
      <4> QED
        BY <4>1, <4>2
    <3> QED
      BY <3>1, <3>2 DEF IInv, Types, TaskTypes, DataTypes, Hands, TypeOK, Buffers
  <2>2. ASSUME NEW s \in Streams, NEW n \in Sizes, \A m \in Sizes : m <= n
        PROVE  buffers[s].size < HighWater + 2 * n
    BY <2>2 DEF IInv, Rooms, Roomed, Largest
  <2> QED
    BY <2>1, <2>2 DEF BufferBounded
<1> QED
  BY <1>1, Invariant, Stopping, PTL

(* No wake-up is lost: while the sender sleeps nothing can be sent, unless *)
(* a task that is under way is about to wake it (has_data, the priority    *)
(* tree and the windows change in three tasks' hands).                     *)
THEOREM NoWakeIsLost == Spec => []ReadyIsScheduled
<1>1. IInv => ReadyIsScheduled
  <2> SUFFICES ASSUME IInv, Asleep, NEW s \in Streams, Sendable(s)
               PROVE  Awoken(s)
    BY DEF ReadyIsScheduled
  <2>1. todo[Sender] = Sleep
    <3>1. HasData \in EventIds /\ events[HasData].waiters \in Seq(Tasks)
      BY EventNames DEF IInv, Types, TaskTypes, Events
    <3>2. PICK t \in Tasks : In(t, events[HasData].waiters)
      BY <3>1, SomeoneIn DEF Asleep
    <3>3. Awaits(t, HasData) /\ AwaitsTo(t, "wait")
      BY <3>1, <3>2 DEF IInv, Lines, Line
    <3>4. In(Head(todo[t]), todo[t]) /\ Head(todo[t]).on = HasData /\ Head(todo[t]).do = "wait"
      BY <3>3, Awaited DEF IInv, Types, Awaits, AwaitsTo
    <3>5. Head(todo[t]) = WaitFor(HasData) /\ t = Sender
      <4>1. Head(todo[t]) # Set(HasData) /\ Head(todo[t]) # Clear(HasData)
        BY <3>4, OpNames
      <4> QED
        BY <3>4, <4>1, Owners DEF IInv
    <3> QED
      BY <3>4, <3>5, Sleeper DEF IInv
  <2>2. Ready(s) /\ (active # {} => Roused)
    BY <2>1 DEF IInv, Scheduled
  <2>3. Roused => events[HasData].set \/ \E t \in Tasks : \E i \in DOMAIN todo[t] : todo[t][i] = Set(HasData)
    <3>1. \A t \in Tasks : DOMAIN todo[t] = 1..Len(todo[t])
      BY DEF IInv, Types, TaskTypes
    <3> QED
      BY <3>1 DEF Roused, Pending, In
  <2> QED
    BY <2>2, <2>3 DEF Ready, Awoken
<1> QED
  BY <1>1, Invariant, PTL

(* Whichever of the tasks that flush takes them, an application learns that*)
(* its response is over only after its frames have left the connection's   *)
(* buffer, and those the sender took are with the socket; while the sender *)
(* sleeps nothing is left in either (_send_ready_batch, _flush,            *)
(* stream_send).                                                           *)
THEOREM EndsAreTaken == Spec => []EndIsTaken
<1>1. IInv => EndIsTaken
  <2> SUFFICES ASSUME IInv PROVE EndIsTaken
    OBVIOUS
  <2>1. ASSUME Asleep PROVE unflushed = {} /\ inHand[Sender] = {}
    <3>1. HasData \in EventIds /\ events[HasData].waiters \in Seq(Tasks)
      BY EventNames DEF IInv, Types, TaskTypes, Events
    <3>2. PICK t \in Tasks : In(t, events[HasData].waiters)
      BY <2>1, <3>1, SomeoneIn DEF Asleep
    <3>3. Awaits(t, HasData) /\ AwaitsTo(t, "wait")
      BY <3>1, <3>2 DEF IInv, Lines, Line
    <3>4. In(Head(todo[t]), todo[t]) /\ Head(todo[t]).on = HasData /\ Head(todo[t]).do = "wait"
      BY <3>3, Awaited DEF IInv, Types, Awaits, AwaitsTo
    <3>5. pc[Sender] = "next" \/ Streams = {}
      BY <3>4, OpNames, Owners DEF IInv
    <3>6. unflushed \subseteq Streams /\ inHand[Sender] \subseteq Streams
      BY TaskNames DEF IInv, Types, DataTypes, Hands
    <3> QED
      BY <3>5, <3>6, TaskNames DEF IInv, Telling, Hands, Flushing
  <2>2. ASSUME NEW s \in Streams, Over(s), response[s].ended = 1
        PROVE  s \notin unflushed \cup inHand[Sender]
    BY <2>2 DEF IInv, Ending, Ends, Telling, Told, Over, Past
  <2>3. \A s \in Streams : \A t \in Tasks : s \in inHand[t] => pc[t] \in Flushing
    BY DEF IInv, Hands
  <2> QED
    BY <2>1, <2>2, <2>3 DEF EndIsTaken
<1> QED
  BY <1>1, Invariant, PTL

(* The books say how responses end.                                        *)
LEMMA BooksClose == ASSUME Books PROVE EndsWhole
<1>1. ASSUME NEW s \in Streams, Present(s) PROVE response[s].ended <= 1 /\ response[s].ended # 1
  <2>1. response[s].ended = 0
    BY <1>1 DEF Books
  <2> QED
    BY <2>1
<1>2. ASSUME NEW s \in Streams, ~Present(s)
      PROVE  response[s].ended <= 1 /\ (response[s].ended = 1 => response[s].sent = response[s].written)
  BY <1>2 DEF Books
<1> QED
  BY <1>1, <1>2 DEF EndsWhole

(* A stream is ended once, and only when all its application wrote has been*)
(* sent: no window of zero, full batch or reset cuts a response short      *)
(* (StreamBuffer.pop, complete, _send_data).                               *)
THEOREM EndsAreWhole == Spec => []EndsWhole
<1>1. IInv => EndsWhole
  BY BooksClose DEF IInv
<1> QED
  BY <1>1, Invariant, PTL

(* A response an application completed is sent in full and ended, unless   *)
(* the peer resets the stream or goes: under asyncio always, under trio    *)
(* while the peer does not lower its window between the pop of the data    *)
(* and its frame.  (When it does, _send_data takes the error for a reset   *)
(* and the response is lost.)                                              *)
THEOREM ResponsesAreDelivered ==
    ASSUME \A w \in Worlds : ~(w.trio /\ "shrink" \in w.may)
    PROVE  Spec => []DeliveredWhole
<1>1. IInv => DeliveredWhole
  <2> SUFFICES ASSUME IInv PROVE DeliveredWhole
    OBVIOUS
  <2>1. ~(world.trio /\ May("shrink"))
    BY DEF IInv, Types, DataTypes, May
  <2>2. Delivered
    BY <2>1 DEF IInv, Excuses, Parted, Excused, Delivered, Over
  <2>3. EndsWhole
    BY BooksClose DEF IInv
  <2> QED
    BY <2>2, <2>3 DEF DeliveredWhole
<1> QED
  BY <1>1, Invariant, PTL
=============================================================================
