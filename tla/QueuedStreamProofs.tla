-------------------------- MODULE QueuedStreamProofs --------------------------
(***************************************************************************)
(* For every queue size, byte limit, data size and either runtime.  The    *)
(* module is in layers, each an inductive invariant over the ones before:  *)
(*   IInv            the types, the two bounds, the exact byte count and   *)
(*                   the order of the events;                              *)
(*   Labelled        the entries of the queue say what was accepted, and   *)
(*                   with it the refinement of BoundedFifo;                *)
(*   Acknowledging   what is acknowledged is what was handled, less the    *)
(*                   callbacks the consumer is still calling;              *)
(*   Ending          who may still come once the stream is closed;         *)
(*   Waking          has_events and the queue agree, by the order in which *)
(*                   the tasks take the lock of a trio.Condition, and by   *)
(*                   who has the processor under asyncio.                  *)
(***************************************************************************)
EXTENDS QueuedStream, SequenceTheorems, TLAPS

Offered == [kind : Kinds, size : Sizes \cup {0}]

(* Where each task may be, and what it holds there.                        *)
Control ==
    /\ \A p \in Producers :
         /\ pc[p] \in {"idle", "set", "wait", "clear"}
         /\ pc[p] # "idle" => held[p] \in Offered
    /\ pc[Consumer] \in {"wait", "set", "clear", "handle", "callback", "done"}
    /\ pc[Consumer] \in {"set", "clear", "handle", "callback"} =>
         current \in QueuedEvents
    /\ pc[Consumer] = "callback" => current.callbacks # <<>>

(* What a queue q of b bytes has to do with the log l, n of whose events   *)
(* are popped: the byte counts of the log never decrease, the entries of   *)
(* the queue are consecutive and reach the end of the log, and each entry, *)
(* and the whole, has the size of the events in it.                        *)
Grows(l) == \A i, j \in 0..Len(l) : i =< j => Upto(l, i) =< Upto(l, j)

Entries(q, l, n) ==
    \A i \in 1..Len(q) :
        /\ Consecutive(q[i].events, End(q, n, i-1) + 1)
        /\ q[i].bytes = Upto(l, End(q, n, i)) - Upto(l, End(q, n, i-1))

Account(q, b, l, n) ==
    /\ Grows(l)
    /\ \A i \in 0..Len(q) : End(q, n, i) \in 0..Len(l)
    /\ Entries(q, l, n)
    /\ End(q, n, Len(q)) = Len(l)
    /\ b = Upto(l, Len(l)) - Upto(l, n)

(* What the consumer has handled, and what it holds, are the popped events.*)
Holding == pc[Consumer] \in {"set", "clear", "handle"}

Handing ==
    /\ \A i \in 1..Len(handled) : handled[i] = i
    /\ Holding => Consecutive(current.events, Len(handled) + 1)

Accounting == Account(queue, queuedBytes, log, Popped) /\ Handing

IInv == TypeOK /\ Control /\ Accounting /\ Bounded

-----------------------------------------------------------------------------
(* The operations on an event keep its type.                               *)
LEMMA EventTypes ==
    ASSUME NEW e \in Events(Tasks), NEW t \in Tasks
    PROVE  /\ Reach(e, t) \in Events(Tasks)
           /\ Leave(e, t) \in Events(Tasks)
           /\ AfterSet(e, t) \in Events(Tasks)
           /\ AfterClear(e, t) \in Events(Tasks)
           /\ AfterWait(e, t) \in Events(Tasks)
           /\ AfterBlock(e, t) \in Events(Tasks)
<1>1. Reach(e, t) \in Events(Tasks)
  BY SMTT(60) DEF Reach, Events
<1>2. Leave(e, t) \in Events(Tasks)
  BY DEF Leave, Holds, Events
<1>3. AfterSet(e, t) \in Events(Tasks)
  BY <1>2 DEF AfterSet, Events
<1>4. AfterClear(e, t) \in Events(Tasks)
  BY <1>2 DEF AfterClear, Events
<1>5. AfterBlock(e, t) \in Events(Tasks)
  <2> DEFINE w == Append(Leave(e, t).waiters, t)
  <2>1. w \in Seq(Tasks)
    BY <1>2 DEF Events
  <2> HIDE DEF w
  <2>2. [Leave(e, t) EXCEPT !.waiters = w] \in Events(Tasks)
    BY <1>2, <2>1 DEF Events
  <2> QED
    BY <2>2 DEF AfterBlock, w
<1>6. QED
  BY <1>1, <1>2, <1>3, <1>4, <1>5 DEF AfterWait

(* The empty queue of __init__ satisfies the inductive invariant.          *)
LEMMA InitIInv == Init => IInv
<1> SUFFICES ASSUME Init PROVE IInv
  OBVIOUS
<1> USE QueuedStreamAssumption
<1>1. NewEvent \in Events(Tasks)
  BY DEF NewEvent, Events
<1>2. Reach(NewEvent, Consumer) \in Events(Tasks)
  BY <1>1, EventTypes DEF Tasks
<1>3. TypeOK
  <2>1. /\ queue \in Seq(QueuedEvents) /\ queuedBytes \in Nat
        /\ log \in Seq([kind : Kinds, upto : Nat])
        /\ handled \in Seq(Nat) /\ acked \in Seq(Nat)
    BY DEF Init
  <2>2. pc \in [Tasks -> {"idle", "set", "wait", "clear", "handle",
                          "callback", "done"}]
    BY DEF Init, Tasks, Producers, Consumer
  <2>3. held \in [Producers -> [kind : Kinds \cup {"None"}, size : Nat]]
    BY DEF Init, NoEvent
  <2>4. cpu \in Tasks \cup {NoTask}
    BY DEF Init, Tasks, CpuAt
  <2>5. /\ hasEvents \in Events(Tasks) /\ hasSpace \in Events(Tasks)
        /\ current \in QueuedEvents \cup {Nothing} /\ closed \in BOOLEAN
        /\ request \in {"none", "open", "ended"} /\ closing \in BOOLEAN
    BY <1>1, <1>2 DEF Init
  <2>6. bodies \in 0..MaxBodies /\ trio \in BOOLEAN
    BY DEF Init
  <2> QED
    BY <2>1, <2>2, <2>3, <2>4, <2>5, <2>6 DEF TypeOK
<1>4. Control
  BY DEF Init, Control, Producers, Consumer
<1>5. Popped = 0
  BY DEF Init, Popped, Producers, Consumer
<1>6. Accounting
  BY <1>5 DEF Init, Accounting, Account, Grows, Entries, Handing, Holding,
     End, Upto, Producers, Consumer
<1>7. Bounded
  BY DEF Init, Bounded
<1> QED
  BY <1>3, <1>4, <1>6, <1>7 DEF IInv

-----------------------------------------------------------------------------
(* Lemmas about a queue and its log, whatever the tasks do.                *)
Logs == Seq([kind : Kinds, upto : Nat])

(* The calls of handle() offer events of the types the queue holds.        *)
LEMMA OfferedTypes ==
    ASSUME NEW ev \in Offered
    PROVE  ev.kind \in Kinds /\ ev.size \in Nat /\ ev.size \in Sizes \cup {0}
<1>1. ev.kind \in Kinds /\ ev.size \in Sizes \cup {0}
  BY DEF Offered
<1>2. Sizes \cup {0} \subseteq Nat
  BY QueuedStreamAssumption DEF QueuedStreamAssumption
<1> QED
  BY <1>1, <1>2

(* The bytes accepted up to any point of the log are a natural number.     *)
LEMMA UptoTypes ==
    ASSUME NEW l \in Logs
    PROVE  Len(l) \in Nat /\ \A n \in 0..Len(l) : Upto(l, n) \in Nat
<1>1. Len(l) \in Nat
  BY DEF Logs
<1>2. ASSUME NEW n \in 1..Len(l) PROVE l[n].upto \in Nat
  <2>1. l[n] \in [kind : Kinds, upto : Nat]
    BY ElementOfSeq DEF Logs
  <2> QED
    BY <2>1
<1> QED
  BY <1>1, <1>2 DEF Upto

(* What the log says once an event of that kind and size is accepted.      *)
LEMMA LogExtended ==
    ASSUME NEW l \in Logs, Grows(l), NEW ev \in Offered,
           NEW m, m = Append(l, [kind |-> ev.kind,
                                 upto |-> Upto(l, Len(l)) + ev.size])
    PROVE  /\ m \in Logs /\ Len(m) = Len(l) + 1 /\ Grows(m)
           /\ \A n \in 0..Len(l) : Upto(m, n) = Upto(l, n)
           /\ Upto(m, Len(l) + 1) = Upto(l, Len(l)) + ev.size
<1>1. Len(l) \in Nat /\ \A n \in 0..Len(l) : Upto(l, n) \in Nat
  BY UptoTypes
<1>2. ev.kind \in Kinds /\ ev.size \in Nat
  BY OfferedTypes
<1> DEFINE entry == [kind |-> ev.kind, upto |-> Upto(l, Len(l)) + ev.size]
<1>3. entry \in [kind : Kinds, upto : Nat]
  <2>1. Upto(l, Len(l)) + ev.size \in Nat
    BY <1>1, <1>2
  <2> QED
    BY <1>2, <2>1
<1>4. entry.upto = Upto(l, Len(l)) + ev.size
  OBVIOUS
<1>5. m = Append(l, entry)
  OBVIOUS
<1> HIDE DEF entry
<1>6. /\ m \in Logs
      /\ Len(m) = Len(l) + 1
      /\ \A n \in 1..Len(l) : m[n] = l[n]
      /\ m[Len(l) + 1] = entry
  BY <1>3, <1>5, AppendProperties DEF Logs
<1>7. \A n \in 0..Len(l) : Upto(m, n) = Upto(l, n)
  BY <1>1, <1>6 DEF Upto
<1>8. Upto(m, Len(l) + 1) = Upto(l, Len(l)) + ev.size
  BY <1>1, <1>4, <1>6 DEF Upto
<1>9. Grows(m)
  BY <1>1, <1>2, <1>6, <1>7, <1>8 DEF Grows
<1> QED
  BY <1>6, <1>7, <1>8, <1>9

(* _QueuedEvent.create and .append build queue entries of their type.      *)
LEMMA EntryTypes ==
    ASSUME NEW q \in Seq(QueuedEvents), NEW i \in 1..Len(q)
    PROVE  q[i].events \in Seq(Nat) /\ q[i].bytes \in Nat /\ q[i].kind \in Kinds
<1>1. q[i] \in QueuedEvents
  BY ElementOfSeq
<1> QED
  BY <1>1 DEF QueuedEvents

(* A run of consecutive indices stays one when the next index is added.    *)
LEMMA ConsecutiveExtended ==
    ASSUME NEW u \in Seq(Nat), NEW a \in Nat, NEW x \in Nat,
           Consecutive(u, a), u[Len(u)] + 1 = x
    PROVE  /\ Len(u) \in Nat \ {0}
           /\ Consecutive(u \o <<x>>, a)
           /\ (u \o <<x>>)[Len(u \o <<x>>)] = x
<1>1. Len(u) \in Nat \ {0}
  BY EmptySeq DEF Consecutive
<1>2. u \o <<x>> = Append(u, x)
  BY AppendIsConcat
<1> DEFINE v == Append(u, x)
<1>3. /\ Len(v) = Len(u) + 1 /\ v # <<>>
      /\ \A i \in 1..Len(u) : v[i] = u[i]
      /\ v[Len(u) + 1] = x
  BY AppendProperties
<1> HIDE DEF v
<1>4. Len(u) \in 1..Len(u)
  BY <1>1
<1>5. u[Len(u)] = a + Len(u) - 1
  BY <1>4 DEF Consecutive
<1>6. x = a + (Len(u) + 1) - 1
  BY <1>1, <1>5
<1>7. ASSUME NEW i \in 1..Len(v) PROVE v[i] = a + i - 1
  <2>1. CASE i = Len(u) + 1
    BY <1>3, <1>6, <2>1
  <2>2. CASE i # Len(u) + 1
    <3>1. i \in 1..Len(u)
      BY <1>1, <1>3, <2>2
    <3> QED
      BY <1>3, <3>1 DEF Consecutive
  <2> QED
    BY <2>1, <2>2
<1>8. Consecutive(v, a) /\ v[Len(v)] = x
  BY <1>3, <1>7 DEF Consecutive
<1> QED
  BY <1>1, <1>2, <1>8 DEF v

(* An event appended to the queue.                                         *)
LEMMA AppendKeeps ==
    ASSUME NEW l \in Logs, NEW q \in Seq(QueuedEvents), NEW b \in Nat,
           NEW n \in Nat, Account(q, b, l, n), NEW ev \in Offered,
           NEW m, m = Append(l, [kind |-> ev.kind,
                                 upto |-> Upto(l, Len(l)) + ev.size]),
           NEW e \in QueuedEvents, e.events = <<Len(l) + 1>>, e.bytes = ev.size
    PROVE  Account(Append(q, e), b + ev.size, m, n)
<1> DEFINE r == Append(q, e)
<1>1. /\ m \in Logs /\ Len(m) = Len(l) + 1 /\ Grows(m)
      /\ \A k \in 0..Len(l) : Upto(m, k) = Upto(l, k)
      /\ Upto(m, Len(l) + 1) = Upto(l, Len(l)) + ev.size
  BY LogExtended DEF Account
<1>2. /\ Len(r) = Len(q) + 1 /\ Len(q) \in Nat
      /\ \A i \in 1..Len(q) : r[i] = q[i]
      /\ r[Len(q) + 1] = e
  BY AppendProperties
<1>3. Len(l) \in Nat /\ \A k \in 0..Len(l) : Upto(l, k) \in Nat
  BY UptoTypes
<1>4. ev.size \in Nat
  BY OfferedTypes
<1> HIDE DEF r
<1>5. /\ \A i \in 0..Len(q) : End(r, n, i) = End(q, n, i)
      /\ End(r, n, Len(q) + 1) = Len(l) + 1
  <2>1. ASSUME NEW i \in 0..Len(q) PROVE End(r, n, i) = End(q, n, i)
    <3>1. CASE i = 0
      BY <3>1 DEF End
    <3>2. CASE i # 0
      <4>1. r[i] = q[i]
        BY <1>2, <3>2
      <4> QED
        BY <3>2, <4>1 DEF End
    <3> QED
      BY <3>1, <3>2
  <2>2. Len(e.events) = 1 /\ e.events[1] = Len(l) + 1
    OBVIOUS
  <2>3. Len(q) + 1 # 0
    BY <1>2
  <2>4. End(r, n, Len(q) + 1) = e.events[Len(e.events)]
    BY <1>2, <2>3 DEF End
  <2> QED
    BY <2>1, <2>2, <2>4
<1>6. \A i \in 0..Len(r) : End(r, n, i) \in 0..Len(m)
  <2>1. ASSUME NEW i \in 0..Len(r) PROVE End(r, n, i) \in 0..Len(m)
    <3>1. CASE i = Len(q) + 1
      BY <1>1, <1>3, <1>5, <3>1
    <3>2. CASE i # Len(q) + 1
      <4>1. i \in 0..Len(q)
        BY <1>2, <3>2
      <4>2. End(r, n, i) \in 0..Len(l)
        BY <1>5, <4>1 DEF Account
      <4> QED
        BY <1>1, <1>3, <4>2
    <3> QED
      BY <3>1, <3>2
  <2> QED
    BY <2>1
<1>7. Entries(r, m, n)
  <2> SUFFICES ASSUME NEW i \in 1..Len(r)
               PROVE  /\ Consecutive(r[i].events, End(r, n, i-1) + 1)
                      /\ r[i].bytes = Upto(m, End(r, n, i)) - Upto(m, End(r, n, i-1))
    BY DEF Entries
  <2>1. CASE i =< Len(q)
    <3>1. i \in 1..Len(q) /\ i \in 0..Len(q) /\ i - 1 \in 0..Len(q)
      BY <1>2, <2>1
    <3>2. End(q, n, i) \in 0..Len(l) /\ End(q, n, i-1) \in 0..Len(l)
      BY <3>1 DEF Account
    <3>3. r[i] = q[i] /\ End(r, n, i) = End(q, n, i) /\ End(r, n, i-1) = End(q, n, i-1)
      BY <1>2, <1>5, <3>1
    <3>4. /\ Upto(m, End(r, n, i)) = Upto(l, End(q, n, i))
          /\ Upto(m, End(r, n, i-1)) = Upto(l, End(q, n, i-1))
      BY <1>1, <3>2, <3>3
    <3> QED
      BY <3>1, <3>3, <3>4 DEF Account, Entries
  <2>2. CASE i = Len(q) + 1
    <3>1. End(r, n, i-1) = Len(l)
      BY <1>2, <1>5, <2>2 DEF Account
    <3>2. Consecutive(r[i].events, End(r, n, i-1) + 1)
      <4>1. /\ r[i].events = <<Len(l) + 1>> /\ Len(<<Len(l) + 1>>) = 1
            /\ <<Len(l) + 1>>[1] = Len(l) + 1 /\ <<Len(l) + 1>> # <<>>
        BY <1>2, <2>2
      <4>2. Consecutive(<<Len(l) + 1>>, Len(l) + 1)
        BY <1>3, <4>1 DEF Consecutive
      <4> QED
        BY <3>1, <4>1, <4>2
    <3> QED
      BY <1>1, <1>2, <1>3, <1>4, <1>5, <2>2, <3>1, <3>2
  <2> QED
    BY <1>2, <2>1, <2>2
<1>8. b + ev.size = Upto(m, Len(m)) - Upto(m, n)
  <2>1. n \in 0..Len(l)
    BY <1>2 DEF Account, End
  <2> QED
    BY <1>1, <1>3, <1>4, <2>1, SMTT(60) DEF Account
<1> QED
  BY <1>1, <1>2, <1>5, <1>6, <1>7, <1>8 DEF Account, r

(* A run of data merged into the last entry.                               *)
LEMMA MergeKeeps ==
    ASSUME NEW l \in Logs, NEW q \in Seq(QueuedEvents), NEW b \in Nat,
           NEW n \in Nat, Account(q, b, l, n), NEW ev \in Offered, q # <<>>,
           NEW m, m = Append(l, [kind |-> ev.kind,
                                 upto |-> Upto(l, Len(l)) + ev.size]),
           NEW e \in QueuedEvents,
           e.events = q[Len(q)].events \o <<Len(l) + 1>>,
           e.bytes = q[Len(q)].bytes + ev.size
    PROVE  Account([q EXCEPT ![Len(q)] = e], b + ev.size, m, n)
<1> DEFINE r == [q EXCEPT ![Len(q)] = e]
           f == q[Len(q)]
<1>1. /\ m \in Logs /\ Len(m) = Len(l) + 1 /\ Grows(m)
      /\ \A k \in 0..Len(l) : Upto(m, k) = Upto(l, k)
      /\ Upto(m, Len(l) + 1) = Upto(l, Len(l)) + ev.size
  BY LogExtended DEF Account
<1>2. Len(q) \in Nat \ {0}
  BY EmptySeq
<1>3. /\ Len(r) = Len(q)
      /\ \A i \in 1..(Len(q) - 1) : r[i] = q[i]
      /\ r[Len(q)] = e
  BY <1>2, ExceptSeq
<1>4. Len(l) \in Nat /\ \A k \in 0..Len(l) : Upto(l, k) \in Nat
  BY UptoTypes
<1>5. ev.size \in Nat
  BY OfferedTypes
<1>6. /\ f.events \in Seq(Nat) /\ f.bytes \in Nat
      /\ Consecutive(f.events, End(q, n, Len(q) - 1) + 1)
      /\ f.bytes = Upto(l, End(q, n, Len(q))) - Upto(l, End(q, n, Len(q) - 1))
  BY <1>2, EntryTypes DEF Account, Entries
<1>7. /\ End(q, n, Len(q)) = f.events[Len(f.events)]
      /\ End(q, n, Len(q)) = Len(l)
      /\ End(q, n, Len(q) - 1) \in 0..Len(l)
  BY <1>2 DEF Account, End
<1>8. /\ Consecutive(e.events, End(q, n, Len(q) - 1) + 1)
      /\ e.events[Len(e.events)] = Len(l) + 1
      /\ e.bytes = f.bytes + ev.size
  <2>1. e.events = f.events \o <<Len(l) + 1>> /\ e.bytes = f.bytes + ev.size
    OBVIOUS
  <2>2. End(q, n, Len(q) - 1) + 1 \in Nat /\ Len(l) + 1 \in Nat
    BY <1>4, <1>7
  <2>3. f.events[Len(f.events)] + 1 = Len(l) + 1
    BY <1>7
  <2> HIDE DEF f
  <2> QED
    BY <1>6, <2>1, <2>2, <2>3, ConsecutiveExtended, ZenonT(60)
<1> HIDE DEF r, f
<1>9. /\ \A i \in 0..(Len(q) - 1) : End(r, n, i) = End(q, n, i)
      /\ End(r, n, Len(q)) = Len(l) + 1
  <2>1. ASSUME NEW i \in 0..(Len(q) - 1) PROVE End(r, n, i) = End(q, n, i)
    <3>1. CASE i = 0
      BY <3>1 DEF End
    <3>2. CASE i # 0
      <4>1. r[i] = q[i]
        BY <1>2, <1>3, <3>2
      <4> QED
        BY <3>2, <4>1 DEF End
    <3> QED
      BY <3>1, <3>2
  <2>2. End(r, n, Len(q)) = e.events[Len(e.events)]
    BY <1>2, <1>3 DEF End
  <2> QED
    BY <1>8, <2>1, <2>2
<1>10. \A i \in 0..Len(r) : End(r, n, i) \in 0..Len(m)
  BY <1>1, <1>2, <1>3, <1>4, <1>9 DEF Account
<1>11. Entries(r, m, n)
  <2> SUFFICES ASSUME NEW i \in 1..Len(r)
               PROVE  /\ Consecutive(r[i].events, End(r, n, i-1) + 1)
                      /\ r[i].bytes = Upto(m, End(r, n, i)) - Upto(m, End(r, n, i-1))
    BY DEF Entries
  <2>1. CASE i < Len(q)
    <3>1. i \in 1..Len(q) /\ i \in 0..(Len(q) - 1) /\ i - 1 \in 0..(Len(q) - 1)
          /\ i \in 1..(Len(q) - 1) /\ i \in 0..Len(q) /\ i - 1 \in 0..Len(q)
      BY <1>2, <1>3, <2>1
    <3>2. End(q, n, i) \in 0..Len(l) /\ End(q, n, i-1) \in 0..Len(l)
      BY <3>1 DEF Account
    <3>3. r[i] = q[i] /\ End(r, n, i) = End(q, n, i) /\ End(r, n, i-1) = End(q, n, i-1)
      BY <1>3, <1>9, <3>1
    <3>4. /\ Upto(m, End(r, n, i)) = Upto(l, End(q, n, i))
          /\ Upto(m, End(r, n, i-1)) = Upto(l, End(q, n, i-1))
      BY <1>1, <3>2, <3>3
    <3> QED
      BY <3>1, <3>3, <3>4 DEF Account, Entries
  <2>2. CASE i = Len(q)
    <3>1. End(r, n, i-1) = End(q, n, Len(q) - 1) /\ r[i] = e
      BY <1>2, <1>3, <1>9, <2>2
    <3>2. e.bytes = Upto(m, Len(l) + 1) - Upto(m, End(q, n, Len(q) - 1))
      <4>1. /\ Upto(m, End(q, n, Len(q) - 1)) = Upto(l, End(q, n, Len(q) - 1))
            /\ Upto(l, End(q, n, Len(q) - 1)) \in Nat
            /\ Upto(l, Len(l)) \in Nat
        BY <1>1, <1>4, <1>7, SMTT(60)
      <4>2. f.bytes = Upto(l, Len(l)) - Upto(l, End(q, n, Len(q) - 1))
        BY <1>6, <1>7
      <4> QED
        BY <1>1, <1>5, <1>8, <4>1, <4>2
    <3> QED
      BY <1>8, <1>9, <2>2, <3>1, <3>2
  <2> QED
    BY <1>2, <1>3, <2>1, <2>2
<1>12. b + ev.size = Upto(m, Len(m)) - Upto(m, n)
  <2>1. n \in 0..Len(l)
    BY <1>2 DEF Account, End
  <2> QED
    BY <1>1, <1>4, <1>5, <2>1, SMTT(60) DEF Account
<1> QED
  BY <1>1, <1>3, <1>9, <1>10, <1>11, <1>12 DEF Account, r

(* The first entry popped.                                                 *)
LEMMA PopKeeps ==
    ASSUME NEW l \in Logs, NEW q \in Seq(QueuedEvents), NEW b \in Nat,
           NEW n \in Nat, Account(q, b, l, n), q # <<>>
    PROVE  /\ Account(Tail(q), b - Head(q).bytes, l, n + Len(Head(q).events))
           /\ b - Head(q).bytes \in Nat
           /\ Len(q) = 1 => b - Head(q).bytes = 0
           /\ Consecutive(Head(q).events, n + 1)
           /\ Head(q).bytes \in Nat
           /\ n + Len(Head(q).events) \in Nat
<1> DEFINE r == Tail(q)
           f == q[1]
           k == n + Len(f.events)
<1>1. /\ Len(q) \in Nat \ {0} /\ r \in Seq(QueuedEvents) /\ Head(q) = f
      /\ Len(r) = Len(q) - 1
      /\ \A i \in 1..Len(r) : r[i] = q[i+1]
  BY EmptySeq, HeadTailProperties
<1>2. Len(l) \in Nat /\ \A i \in 0..Len(l) : Upto(l, i) \in Nat
  BY UptoTypes
<1>3. End(q, n, 0) = n /\ End(q, n, 1) = f.events[Len(f.events)]
  BY DEF End
<1>4. /\ f.events \in Seq(Nat) /\ f.bytes \in Nat
      /\ Consecutive(f.events, n + 1)
      /\ f.bytes = Upto(l, End(q, n, 1)) - Upto(l, n)
  <2>1. 1 \in 1..Len(q)
    BY <1>1
  <2> QED
    BY <1>3, <2>1, EntryTypes DEF Account, Entries
<1> HIDE DEF r, f
<1>5. Len(f.events) \in Nat \ {0}
  BY <1>4, EmptySeq DEF Consecutive
<1>6. k \in Nat /\ End(q, n, 1) = k
  <2>1. Len(f.events) \in 1..Len(f.events)
    BY <1>5
  <2>2. f.events[Len(f.events)] = n + 1 + Len(f.events) - 1
    BY <1>4, <2>1 DEF Consecutive
  <2>3. k \in Nat
    BY <1>5
  <2>4. n + 1 + Len(f.events) - 1 = k
    <3>1. \A x, y \in Nat : x + 1 + y - 1 = x + y
      OBVIOUS
    <3>2. Len(f.events) \in Nat
      BY <1>5
    <3> QED
      BY <3>1, <3>2
  <2> HIDE DEF k
  <2> QED
    BY <1>3, <2>2, <2>3, <2>4
<1>7. n \in 0..Len(l) /\ k \in 0..Len(l)
  <2>1. 0 \in 0..Len(q) /\ 1 \in 0..Len(q)
    BY <1>1
  <2> QED
    BY <1>3, <1>6, <2>1 DEF Account
<1>8. b - f.bytes = Upto(l, Len(l)) - Upto(l, k)
  <2>1. b = Upto(l, Len(l)) - Upto(l, n) /\ f.bytes = Upto(l, k) - Upto(l, n)
    BY <1>4, <1>6 DEF Account
  <2>2. Upto(l, Len(l)) \in Nat /\ Upto(l, n) \in Nat /\ Upto(l, k) \in Nat
    BY <1>2, <1>7
  <2> HIDE DEF k
  <2> QED
    BY <2>1, <2>2
<1>9. b - f.bytes \in Nat
  <2>1. Len(l) \in 0..Len(l) /\ k =< Len(l)
    BY <1>2, <1>7
  <2>2. Upto(l, k) =< Upto(l, Len(l))
    BY <1>7, <2>1 DEF Account, Grows
  <2> QED
    BY <1>2, <1>7, <1>8, <2>1, <2>2
<1>10. Len(q) = 1 => b - f.bytes = 0
  BY <1>2, <1>6, <1>7, <1>8 DEF Account
<1> HIDE DEF k
<1>11. \A i \in 0..Len(r) : End(r, k, i) = End(q, n, i+1)
  <2> SUFFICES ASSUME NEW i \in 0..Len(r) PROVE End(r, k, i) = End(q, n, i+1)
    OBVIOUS
  <2>1. CASE i = 0
    BY <1>6, <2>1 DEF End
  <2>2. CASE i # 0
    <3>1. r[i] = q[i+1] /\ i + 1 # 0
      BY <1>1, <2>2
    <3> QED
      BY <2>2, <3>1 DEF End
  <2> QED
    BY <2>1, <2>2
<1>12. \A i \in 0..Len(r) : End(r, k, i) \in 0..Len(l)
  <2> SUFFICES ASSUME NEW i \in 0..Len(r) PROVE End(r, k, i) \in 0..Len(l)
    OBVIOUS
  <2>1. i + 1 \in 0..Len(q)
    BY <1>1
  <2> QED
    BY <1>11, <2>1 DEF Account
<1>13. Entries(r, l, k)
  <2> SUFFICES ASSUME NEW i \in 1..Len(r)
               PROVE  /\ Consecutive(r[i].events, End(r, k, i-1) + 1)
                      /\ r[i].bytes = Upto(l, End(r, k, i)) - Upto(l, End(r, k, i-1))
    BY DEF Entries
  <2>1. /\ i \in 0..Len(r) /\ i - 1 \in 0..Len(r) /\ i + 1 \in 1..Len(q)
        /\ (i - 1) + 1 = i /\ (i + 1) - 1 = i
    BY <1>1
  <2>2. End(r, k, i) = End(q, n, i+1) /\ End(r, k, i-1) = End(q, n, i)
    BY <1>11, <2>1
  <2>3. /\ Consecutive(q[i+1].events, End(q, n, (i+1)-1) + 1)
        /\ q[i+1].bytes = Upto(l, End(q, n, i+1)) - Upto(l, End(q, n, (i+1)-1))
    BY <2>1 DEF Account, Entries
  <2> QED
    BY <1>1, <2>1, <2>2, <2>3
<1>14. End(r, k, Len(r)) = Len(l)
  <2>1. Len(r) \in 0..Len(r) /\ Len(r) + 1 = Len(q)
    BY <1>1
  <2> QED
    BY <1>11, <2>1 DEF Account
<1>15. Account(r, b - f.bytes, l, k)
  BY <1>8, <1>12, <1>13, <1>14 DEF Account
<1> QED
  BY <1>1, <1>4, <1>6, <1>9, <1>10, <1>15 DEF r, k

-----------------------------------------------------------------------------
(* Steps that leave the queue, its log and what is popped alone.           *)
LEMMA AccountingFrame ==
    ASSUME Accounting, Bounded,
           UNCHANGED <<queue, queuedBytes, log, handled, current>>,
           Holding' = Holding
    PROVE  Accounting' /\ Bounded'
<1>1. Popped' = Popped
  BY DEF Popped, Holding
<1> QED
  BY <1>1 DEF Accounting, Handing, Bounded, Holding

(* What the consumer has popped so far is counted by a natural number.     *)
LEMMA PoppedType ==
    ASSUME IInv
    PROVE  Popped \in Nat /\ Len(handled) \in Nat /\ log \in Logs
           /\ (Holding => Popped = Len(handled) + Len(current.events))
           /\ (~Holding => Popped = Len(handled))
<1>1. Len(handled) \in Nat /\ log \in Logs
  BY DEF IInv, TypeOK, Logs
<1>2. Holding => current.events \in Seq(Nat)
  BY DEF IInv, Control, Holding, QueuedEvents
<1> QED
  BY <1>1, <1>2 DEF Popped, Holding

(* One turn of the loop of handle(): merged, appended, or back to waiting. *)
LEMMA AttemptKeeps ==
    ASSUME IInv, NEW p \in Producers, NEW ev \in Offered,
           NEW space \in Events(Tasks), Attempt(p, ev, space),
           UNCHANGED <<current, handled>>
    PROVE  /\ Accounting' /\ Bounded'
           /\ queue' \in Seq(QueuedEvents) /\ queuedBytes' \in Nat
           /\ log' \in Logs
           /\ hasEvents' \in Events(Tasks) /\ hasSpace' \in Events(Tasks)
           /\ held' = [held EXCEPT ![p] = ev]
           /\ cpu' \in Tasks \cup {NoTask}
           /\ \E where \in {"set", "wait"} : pc' = [pc EXCEPT ![p] = where]
<1> DEFINE e == CreateQueuedEvent(ev)
           m == Append(log, [kind |-> ev.kind,
                             upto |-> Upto(log, Len(log)) + ev.size])
<1>1. /\ p \in Tasks /\ p # Consumer /\ Consumer \in Tasks
  BY DEF Tasks, Producers, Consumer
<1>2. /\ queue \in Seq(QueuedEvents) /\ queuedBytes \in Nat /\ log \in Logs
      /\ Popped \in Nat /\ Len(log) \in Nat
  BY PoppedType DEF IInv, TypeOK
<1>3. ev.size \in Nat /\ ev.kind \in Kinds
  BY OfferedTypes
<1>4. /\ Account(queue, queuedBytes, log, Popped) /\ Handing /\ Bounded
      /\ hasEvents \in Events(Tasks)
  BY DEF IInv, Accounting, TypeOK
<1>5. m \in Logs
  BY <1>2, <1>4, LogExtended DEF Account
<1>6. e \in QueuedEvents /\ e.events = <<Len(log) + 1>> /\ e.bytes = ev.size
  BY <1>2, <1>3 DEF CreateQueuedEvent, QueuedEvents
<1>7. Popped' = Popped /\ Holding' = Holding /\ Handing'
  <2>1. pc'[Consumer] = pc[Consumer]
    BY <1>1 DEF Attempt, Accept, IInv, TypeOK
  <2> QED
    BY <1>4, <2>1 DEF Popped, Holding, Handing
<1>11. /\ held' = [held EXCEPT ![p] = ev] /\ cpu' \in Tasks \cup {NoTask}
  BY <1>1 DEF Attempt, CpuAt
<1>8. CASE CanMerge(ev) /\ Accept(p, ev, [queue EXCEPT ![Len(queue)] =
                                            MergeInto(@, CreateQueuedEvent(ev))])
           /\ hasSpace' = space
  <2> DEFINE f == queue[Len(queue)]
             g == MergeInto(f, e)
  <2>1. queue # <<>> /\ Len(queue) \in 1..Len(queue)
    BY <1>2, <1>8, EmptySeq DEF CanMerge
  <2>2. f \in QueuedEvents
    BY <1>2, <2>1, ElementOfSeq
  <2>3. /\ g \in QueuedEvents /\ g.events = f.events \o <<Len(log) + 1>>
        /\ g.bytes = f.bytes + ev.size
    <3> HIDE DEF f, e
    <3>1. /\ f.events \in Seq(Nat) /\ f.callbacks \in Seq(Nat)
          /\ e.events \in Seq(Nat) /\ e.callbacks \in Seq(Nat)
          /\ f.bytes \in Nat /\ e.bytes \in Nat
      BY <1>6, <2>2 DEF QueuedEvents
    <3>2. /\ f.events \o e.events \in Seq(Nat)
          /\ f.callbacks \o e.callbacks \in Seq(Nat)
          /\ f.bytes + e.bytes \in Nat
      BY <3>1, ConcatProperties
    <3> QED
      BY <1>6, <2>2, <3>2 DEF MergeInto, QueuedEvents
  <2>4. /\ queue' = [queue EXCEPT ![Len(queue)] = g] /\ log' = m
        /\ queuedBytes' = queuedBytes + ev.size
        /\ hasEvents' = Reach(hasEvents, p) /\ pc' = [pc EXCEPT ![p] = "set"]
    BY <1>8 DEF Accept
  <2> HIDE DEF f, g, e, m
  <2>5. Account(queue', queuedBytes', log', Popped')
    <3>1. Account([queue EXCEPT ![Len(queue)] = g], queuedBytes + ev.size, m, Popped)
      BY <1>2, <1>4, <2>1, <2>3, MergeKeeps DEF f, m
    <3> QED
      BY <1>7, <2>4, <3>1
  <2>6. queue' \in Seq(QueuedEvents) /\ Len(queue') = Len(queue)
    BY <1>2, <2>1, <2>3, <2>4, ExceptSeq
  <2>7. Bounded'
    BY <1>4, <1>8, <2>1, <2>4, <2>6 DEF Bounded, CanMerge, HasByteSpace
  <2>8. Accounting'
    BY <1>7, <2>5 DEF Accounting
  <2>9. /\ queuedBytes' \in Nat /\ log' \in Logs /\ hasEvents' \in Events(Tasks)
        /\ hasSpace' \in Events(Tasks)
    <3>1. Reach(hasEvents, p) \in Events(Tasks)
      BY <1>1, <1>4, EventTypes
    <3>2. queuedBytes + ev.size \in Nat
      BY <1>2, <1>3
    <3>3. m \in Logs
      BY <1>5 DEF m
    <3> QED
      BY <1>8, <2>4, <3>1, <3>2, <3>3
  <2>10. \E where \in {"set", "wait"} : pc' = [pc EXCEPT ![p] = where]
    BY <2>4
  <2> QED
    BY <1>11, <2>6, <2>7, <2>8, <2>9, <2>10
<1>9. CASE /\ ~CanMerge(ev) /\ HasCountSpace /\ HasByteSpace(ev)
           /\ Accept(p, ev, Append(queue, CreateQueuedEvent(ev)))
           /\ hasSpace' = space
  <2>1. /\ queue' = Append(queue, e) /\ log' = m
        /\ queuedBytes' = queuedBytes + ev.size
        /\ hasEvents' = Reach(hasEvents, p) /\ pc' = [pc EXCEPT ![p] = "set"]
    BY <1>9 DEF Accept
  <2> HIDE DEF e, m
  <2>2. Account(queue', queuedBytes', log', Popped')
    <3>1. Account(Append(queue, e), queuedBytes + ev.size, m, Popped)
      BY <1>2, <1>4, <1>6, AppendKeeps DEF m
    <3> QED
      BY <1>7, <2>1, <3>1
  <2>3. queue' \in Seq(QueuedEvents) /\ Len(queue') = Len(queue) + 1
        /\ Len(queue) \in Nat /\ (queue = <<>> => Len(queue) = 0)
    BY <1>2, <1>6, <2>1, AppendProperties
  <2>4. Bounded'
    BY <1>3, <1>4, <1>9, <2>1, <2>3, QueuedStreamAssumption
    DEF QueuedStreamAssumption, Bounded, HasCountSpace, HasByteSpace
  <2>5. Accounting'
    BY <1>7, <2>2 DEF Accounting
  <2>6. /\ queuedBytes' \in Nat /\ log' \in Logs /\ hasEvents' \in Events(Tasks)
        /\ hasSpace' \in Events(Tasks)
    <3>1. Reach(hasEvents, p) \in Events(Tasks)
      BY <1>1, <1>4, EventTypes
    <3>2. queuedBytes + ev.size \in Nat
      BY <1>2, <1>3
    <3>3. m \in Logs
      BY <1>5 DEF m
    <3> QED
      BY <1>9, <2>1, <3>1, <3>2, <3>3
  <2>7. \E where \in {"set", "wait"} : pc' = [pc EXCEPT ![p] = where]
    BY <2>1
  <2> QED
    BY <1>11, <2>3, <2>4, <2>5, <2>6, <2>7
<1>10. CASE /\ hasSpace' = Reach(space, p) /\ pc' = [pc EXCEPT ![p] = "wait"]
            /\ UNCHANGED <<queue, queuedBytes, hasEvents, log>>
  <2>1. Accounting' /\ Bounded'
    BY <1>7, <1>10, AccountingFrame DEF IInv
  <2>2. hasSpace' \in Events(Tasks)
    BY <1>1, <1>10, EventTypes
  <2>3. \E where \in {"set", "wait"} : pc' = [pc EXCEPT ![p] = where]
    BY <1>10
  <2> QED
    BY <1>2, <1>4, <1>10, <1>11, <2>1, <2>2, <2>3
<1> QED
  BY <1>8, <1>9, <1>10 DEF Attempt

(* What every step of the consumer that takes or drops an event achieves.  *)
Consumed ==
    /\ Accounting' /\ Bounded'
    /\ queue' \in Seq(QueuedEvents) /\ queuedBytes' \in Nat
    /\ hasEvents' \in Events(Tasks) /\ hasSpace' \in Events(Tasks)
    /\ cpu' \in Tasks \cup {NoTask}
    /\ current' \in QueuedEvents \cup {Nothing}
    /\ \E where \in {"wait", "set", "clear", "handle", "done"} :
         /\ pc' = [pc EXCEPT ![Consumer] = where]
         /\ where \in {"set", "clear", "handle"} => current' \in QueuedEvents

(* All that has been popped has been handled.                              *)
AllHandled ==
    /\ handled' \in Seq(Nat) /\ Len(handled') = Popped
    /\ \A i \in 1..Len(handled') : handled'[i] = i

(* The head of `while self._queue`: popping keeps the accounting.          *)
LEMMA PopConsumes ==
    ASSUME IInv, NEW events \in Events(Tasks), Pop(events), AllHandled, log' = log
    PROVE  Consumed
<1>1. /\ queue \in Seq(QueuedEvents) /\ queuedBytes \in Nat /\ log \in Logs
      /\ Popped \in Nat /\ queue # <<>> /\ hasSpace \in Events(Tasks)
      /\ Account(queue, queuedBytes, log, Popped) /\ Consumer \in Tasks
      /\ pc \in [Tasks -> {"idle", "set", "wait", "clear", "handle", "callback",
                           "done"}]
  BY PoppedType DEF IInv, TypeOK, Accounting, Pop, Tasks
<1>2. /\ current' = Head(queue) /\ queue' = Tail(queue)
      /\ queuedBytes' = queuedBytes - Head(queue).bytes
  BY DEF Pop
<1>3. PICK where \in {"set", "clear", "handle"} :
        pc' = [pc EXCEPT ![Consumer] = where]
  BY DEF Pop, ToHandle
<1>4. /\ hasEvents' \in Events(Tasks) /\ hasSpace' \in Events(Tasks)
      /\ cpu' \in Tasks \cup {NoTask}
  BY <1>1, EventTypes DEF Pop, ToHandle, CpuAt
<1>5. /\ Head(queue) \in QueuedEvents /\ Tail(queue) \in Seq(QueuedEvents)
      /\ Len(Tail(queue)) = Len(queue) - 1 /\ Len(queue) \in Nat \ {0}
  BY <1>1, HeadTailProperties, EmptySeq
<1>6. /\ Account(queue', queuedBytes', log',
                 Popped + Len(Head(queue).events))
      /\ queuedBytes' \in Nat
      /\ Len(queue) = 1 => queuedBytes' = 0
      /\ Consecutive(Head(queue).events, Popped + 1)
      /\ Head(queue).bytes \in Nat
  BY <1>1, <1>2, PopKeeps
<1>7. pc'[Consumer] = where
  BY <1>1, <1>3
<1>8. Popped' = Popped + Len(Head(queue).events)
  BY <1>2, <1>3, <1>7 DEF Popped, AllHandled
<1>9. Handing'
  BY <1>2, <1>6 DEF Handing, AllHandled
<1>10. Accounting'
  BY <1>6, <1>8, <1>9 DEF Accounting
<1>11. Bounded'
  BY <1>1, <1>2, <1>5, <1>6, QueuedStreamAssumption
  DEF QueuedStreamAssumption, Bounded, IInv
<1> QED
  BY <1>2, <1>3, <1>4, <1>5, <1>6, <1>10, <1>11 DEF Consumed

(* The consumer has nothing popped and the queue is untouched.             *)
LEMMA IdleConsumes ==
    ASSUME IInv, AllHandled, NEW where \in {"wait", "callback", "done"},
           pc' = [pc EXCEPT ![Consumer] = where],
           UNCHANGED <<queue, queuedBytes, log>>
    PROVE  Accounting' /\ Bounded'
<1>1. pc'[Consumer] = where
  BY DEF IInv, TypeOK, Tasks
<1>2. Popped' = Popped
  <2>1. pc'[Consumer] \notin {"set", "clear", "handle"}
    BY <1>1
  <2>2. Len(handled') = Popped /\ Len(handled') \in Nat
    BY DEF AllHandled
  <2> QED
    BY <2>1, <2>2 DEF Popped
<1>3. Handing'
  BY <1>1 DEF Handing, Holding, AllHandled
<1> QED
  BY <1>2, <1>3 DEF IInv, Accounting, Bounded

(* Going back to has_events.wait() with the queue empty keeps it.          *)
LEMMA ToWaitConsumes ==
    ASSUME IInv, NEW events \in Events(Tasks), ToWait(events), AllHandled,
           log' = log
    PROVE  Consumed
<1>1. Consumer \in Tasks
  BY DEF Tasks
<1>2. Accounting' /\ Bounded'
  BY IdleConsumes DEF ToWait
<1> QED
  BY <1>1, <1>2, EventTypes DEF Consumed, ToWait, CpuAt, IInv, TypeOK

(* After the last callback: returning, popping or waiting keep it.         *)
LEMMA FinishConsumes ==
    ASSUME IInv, Finish, AllHandled, log' = log
    PROVE  Consumed /\ closed' \in BOOLEAN
<1>1. closed' \in BOOLEAN
  BY DEF Finish, IInv, TypeOK
<1>2. CASE /\ pc' = [pc EXCEPT ![Consumer] = "done"] /\ current' = Nothing
           /\ UNCHANGED <<bufferVars, cpu>>
  <2>1. Accounting' /\ Bounded'
    BY <1>2, IdleConsumes DEF bufferVars
  <2> QED
    BY <1>1, <1>2, <2>1 DEF Consumed, bufferVars, IInv, TypeOK
<1>3. CASE Pop(hasEvents) \/ ToWait(hasEvents)
  <2>1. hasEvents \in Events(Tasks)
    BY DEF IInv, TypeOK
  <2> QED
    BY <1>1, <1>3, <2>1, PopConsumes, ToWaitConsumes
<1> QED
  BY <1>2, <1>3 DEF Finish

-----------------------------------------------------------------------------
(* The parts of the state the callers own.                                 *)
CallersKept ==
    UNCHANGED <<trio, held, request, bodies, closing, log>>

(* Whatever Consumed describes keeps the inductive invariant.              *)
LEMMA ConsumerKeeps ==
    ASSUME IInv, Consumed, CallersKept, closed' \in BOOLEAN,
           handled' \in Seq(Nat), acked' \in Seq(Nat)
    PROVE  IInv'
<1>1. PICK where \in {"wait", "set", "clear", "handle", "done"} :
        /\ pc' = [pc EXCEPT ![Consumer] = where]
        /\ where \in {"set", "clear", "handle"} => current' \in QueuedEvents
  BY DEF Consumed
<1>2. Consumer \in Tasks /\ \A p \in Producers : p \in Tasks /\ p # Consumer
  BY DEF Tasks, Producers, Consumer
<1>3. /\ pc'[Consumer] = where
      /\ \A p \in Producers : pc'[p] = pc[p]
      /\ pc' \in [Tasks -> {"idle", "set", "wait", "clear", "handle", "callback",
                            "done"}]
  BY <1>1, <1>2 DEF IInv, TypeOK
<1>4. TypeOK'
  BY <1>3 DEF Consumed, CallersKept, IInv, TypeOK
<1>5. Control'
  BY <1>1, <1>3 DEF CallersKept, IInv, Control
<1> QED
  BY <1>4, <1>5 DEF Consumed, IInv

(* When stream.handle() returns, all that was popped has been handled.     *)
LEMMA HandledAll ==
    ASSUME IInv, Handled
    PROVE  /\ AllHandled /\ pc[Consumer] = "handle" /\ CallersKept
           /\ acked' = acked /\ current \in QueuedEvents
<1>1. /\ pc[Consumer] = "handle" /\ handled' = handled \o current.events
      /\ CallersKept /\ acked' = acked /\ current \in QueuedEvents
  BY DEF Handled, CallersKept, callerVars, IInv, Control
<1>2. /\ handled \in Seq(Nat) /\ current.events \in Seq(Nat)
      /\ Popped = Len(handled) + Len(current.events)
      /\ Consecutive(current.events, Len(handled) + 1)
      /\ \A i \in 1..Len(handled) : handled[i] = i
  BY <1>1, PoppedType DEF IInv, TypeOK, QueuedEvents, Holding, Accounting, Handing
<1>3. AllHandled
  <2>1. /\ handled' \in Seq(Nat) /\ Len(handled') = Popped
        /\ Len(handled) \in Nat /\ Len(current.events) \in Nat
        /\ \A i \in 1..(Len(handled) + Len(current.events)) :
             handled'[i] = IF i =< Len(handled) THEN handled[i]
                           ELSE current.events[i - Len(handled)]
    BY <1>1, <1>2, ConcatProperties
  <2> SUFFICES ASSUME NEW i \in 1..Len(handled') PROVE handled'[i] = i
    BY <2>1 DEF AllHandled
  <2>2. i \in 1..(Len(handled) + Len(current.events)) /\ i \in Nat
    BY <1>2, <2>1
  <2>3. CASE i =< Len(handled)
    <3>1. i \in 1..Len(handled)
      BY <2>1, <2>3, <2>2
    <3> QED
      BY <1>2, <2>1, <2>3, <2>2, <3>1
  <2>4. CASE ~(i =< Len(handled))
    <3>1. i - Len(handled) \in 1..Len(current.events)
      BY <1>2, <2>1, <2>4
    <3>2. current.events[i - Len(handled)] = Len(handled) + 1 + (i - Len(handled)) - 1
      BY <1>2, <3>1 DEF Consecutive
    <3>3. \A a, b \in Nat : a + 1 + (b - a) - 1 = b
      OBVIOUS
    <3>4. current.events[i - Len(handled)] = i
      BY <2>1, <2>2, <3>2, <3>3
    <3> QED
      BY <2>1, <2>4, <2>2, <3>4
  <2> QED
    BY <2>1, <2>3, <2>4
<1> QED
  BY <1>1, <1>3

(* The return of stream.handle() keeps the inductive invariant.            *)
LEMMA HandledKeeps == IInv /\ Handled => IInv'
<1> SUFFICES ASSUME IInv, Handled PROVE IInv'
  OBVIOUS
<1>1. /\ pc[Consumer] = "handle" /\ CallersKept /\ acked' = acked
      /\ current \in QueuedEvents
  BY HandledAll
<1>3. AllHandled
  BY HandledAll
<1>4. CASE Finish
  BY <1>1, <1>3, <1>4, FinishConsumes, ConsumerKeeps
  DEF AllHandled, CallersKept, IInv, TypeOK
<1>5. CASE /\ current.callbacks # <<>>
           /\ pc' = [pc EXCEPT ![Consumer] = "callback"]
           /\ UNCHANGED <<bufferVars, closed, current, cpu>>
  <2>1. Accounting' /\ Bounded'
    BY <1>1, <1>3, <1>5, IdleConsumes DEF CallersKept, bufferVars
  <2>2. Consumer \in Tasks /\ \A p \in Producers : p \in Tasks /\ p # Consumer
    BY DEF Tasks, Producers, Consumer
  <2>3. /\ pc'[Consumer] = "callback" /\ \A p \in Producers : pc'[p] = pc[p]
        /\ pc' \in [Tasks -> {"idle", "set", "wait", "clear", "handle",
                              "callback", "done"}]
    BY <1>5, <2>2 DEF IInv, TypeOK
  <2>4. TypeOK'
    BY <1>1, <1>3, <1>5, <2>3
    DEF AllHandled, CallersKept, bufferVars, IInv, TypeOK
  <2>5. Control'
    BY <1>1, <1>5, <2>3 DEF CallersKept, IInv, Control
  <2> QED
    BY <2>1, <2>4, <2>5 DEF IInv
<1> QED
  BY <1>4, <1>5 DEF Handled

(* The return of an acknowledgement callback keeps it.                     *)
LEMMA CallbackKeeps == IInv /\ Callback => IInv'
<1> SUFFICES ASSUME IInv, Callback PROVE IInv'
  OBVIOUS
<1>1. /\ pc[Consumer] = "callback" /\ handled' = handled /\ CallersKept
      /\ current \in QueuedEvents /\ current.callbacks # <<>>
      /\ acked' = Append(acked, Head(current.callbacks))
  BY DEF Callback, CallersKept, callerVars, IInv, Control
<1>2. current.callbacks \in Seq(Nat)
  BY <1>1 DEF QueuedEvents
<1>3. acked' \in Seq(Nat)
  <2>1. Head(current.callbacks) \in Nat
    BY <1>1, <1>2, HeadTailProperties
  <2> QED
    BY <1>1, <2>1, AppendProperties DEF IInv, TypeOK
<1>4. ~Holding /\ AllHandled
  BY <1>1, PoppedType DEF Holding, AllHandled, IInv, TypeOK, Accounting, Handing
<1>5. CASE Finish
  BY <1>1, <1>3, <1>4, <1>5, FinishConsumes, ConsumerKeeps
  DEF AllHandled, CallersKept
<1>6. CASE /\ Tail(current.callbacks) # <<>>
           /\ current' = [current EXCEPT !.callbacks = Tail(@)]
           /\ UNCHANGED <<bufferVars, closed, pc, cpu>>
  <2>1. current' \in QueuedEvents /\ current'.callbacks # <<>>
    <3>1. Tail(current.callbacks) \in Seq(Nat)
      BY <1>1, <1>2, HeadTailProperties
    <3> QED
      BY <1>1, <1>6, <3>1 DEF QueuedEvents
  <2>2. Accounting' /\ Bounded'
    <3>1. pc' = [pc EXCEPT ![Consumer] = "callback"]
      BY <1>1, <1>6 DEF IInv, TypeOK
    <3> QED
      BY <1>1, <1>4, <1>6, <3>1, IdleConsumes DEF CallersKept, bufferVars
  <2>3. TypeOK'
    BY <1>1, <1>3, <1>6, <2>1 DEF CallersKept, bufferVars, IInv, TypeOK
  <2>4. Control'
    BY <1>1, <1>6, <2>1 DEF CallersKept, IInv, Control
  <2> QED
    BY <2>2, <2>3, <2>4 DEF IInv
<1> QED
  BY <1>5, <1>6 DEF Callback

(* A turn of the loop of handle() keeps the inductive invariant.           *)
LEMMA AttemptIInv ==
    ASSUME IInv, NEW p \in Producers, NEW ev \in Offered,
           NEW space \in Events(Tasks), Attempt(p, ev, space),
           UNCHANGED <<trio, closed, current, handled, acked>>,
           request' \in {"none", "open", "ended"}, bodies' \in 0..MaxBodies,
           closing' \in BOOLEAN
    PROVE  IInv'
<1>1. /\ Accounting' /\ Bounded'
      /\ queue' \in Seq(QueuedEvents) /\ queuedBytes' \in Nat /\ log' \in Logs
      /\ hasEvents' \in Events(Tasks) /\ hasSpace' \in Events(Tasks)
      /\ held' = [held EXCEPT ![p] = ev] /\ cpu' \in Tasks \cup {NoTask}
      /\ \E where \in {"set", "wait"} : pc' = [pc EXCEPT ![p] = where]
  BY AttemptKeeps
<1>2. PICK where \in {"set", "wait"} : pc' = [pc EXCEPT ![p] = where]
  BY <1>1
<1>3. p \in Tasks /\ p # Consumer /\ Consumer \in Tasks /\ Producers \subseteq Tasks
  BY DEF Tasks, Producers, Consumer
<1>4. /\ pc' \in [Tasks -> {"idle", "set", "wait", "clear", "handle", "callback",
                            "done"}]
      /\ pc'[Consumer] = pc[Consumer] /\ pc'[p] = where
      /\ \A q \in Producers \ {p} : pc'[q] = pc[q]
  BY <1>2, <1>3 DEF IInv, TypeOK
<1>5. /\ held' \in [Producers -> [kind : Kinds \cup {"None"}, size : Nat]]
      /\ held'[p] = ev /\ \A q \in Producers \ {p} : held'[q] = held[q]
  <2>1. held \in [Producers -> [kind : Kinds \cup {"None"}, size : Nat]]
    BY DEF IInv, TypeOK
  <2>2. ev \in [kind : Kinds \cup {"None"}, size : Nat]
    BY OfferedTypes DEF Offered
  <2> QED
    BY <1>1, <2>1, <2>2
<1>6. TypeOK'
  BY <1>1, <1>4, <1>5 DEF IInv, TypeOK, Logs
<1>7. Control'
  <2>1. \A q \in Producers : /\ pc'[q] \in {"idle", "set", "wait", "clear"}
                             /\ pc'[q] # "idle" => held'[q] \in Offered
    BY <1>4, <1>5 DEF IInv, Control
  <2> QED
    BY <1>4, <2>1 DEF IInv, Control
<1> QED
  BY <1>1, <1>6, <1>7 DEF IInv

(* A new call of handle() keeps the inductive invariant.                   *)
LEMMA OfferKeeps ==
    IInv /\ (OfferRequest \/ OfferBody \/ OfferEndBody \/ OfferClosed) => IInv'
<1> SUFFICES ASSUME IInv,
                    OfferRequest \/ OfferBody \/ OfferEndBody \/ OfferClosed
             PROVE  IInv'
  OBVIOUS
<1>1. /\ "reader" \in Producers /\ "closer" \in Producers
      /\ hasSpace \in Events(Tasks) /\ request \in {"none", "open", "ended"}
      /\ bodies \in 0..MaxBodies /\ closing \in BOOLEAN
  BY DEF Producers, IInv, TypeOK
<1>2. CASE OfferRequest
  <2>1. [kind |-> "Request", size |-> 0] \in Offered
    BY DEF Offered, Kinds
  <2> QED
    BY <1>1, <1>2, <2>1, AttemptIInv DEF OfferRequest, Call
<1>3. CASE OfferBody
  <2>1. PICK s \in Sizes : Call("reader", [kind |-> "Body", size |-> s])
    BY <1>3 DEF OfferBody
  <2>2. [kind |-> "Body", size |-> s] \in Offered
    BY DEF Offered, Kinds
  <2>3. bodies' \in 0..MaxBodies
    BY <1>1, <1>3, QueuedStreamAssumption DEF OfferBody, QueuedStreamAssumption
  <2> QED
    BY <1>1, <1>3, <2>1, <2>2, <2>3, AttemptIInv DEF OfferBody, Call
<1>4. CASE OfferEndBody
  <2>1. [kind |-> "EndBody", size |-> 0] \in Offered
    BY DEF Offered, Kinds
  <2> QED
    BY <1>1, <1>4, <2>1, AttemptIInv DEF OfferEndBody, Call
<1>5. CASE OfferClosed
  <2>1. [kind |-> "StreamClosed", size |-> 0] \in Offered
    BY DEF Offered, Kinds
  <2> QED
    BY <1>1, <1>5, <2>1, AttemptIInv DEF OfferClosed, Call
<1> QED
  BY <1>2, <1>3, <1>4, <1>5

(* A producer's step that touches neither the queue nor its log.           *)
LEMMA ProducerFrame ==
    ASSUME IInv, NEW p \in Producers, NEW where \in {"idle", "wait", "clear"},
           pc' = [pc EXCEPT ![p] = where],
           \/ held' = held /\ pc[p] # "idle"
           \/ held' = [held EXCEPT ![p] = NoEvent] /\ where = "idle",
           UNCHANGED <<trio, queue, queuedBytes, closed, current, callerVars,
                       log, handled, acked>>,
           hasEvents' \in Events(Tasks), hasSpace' \in Events(Tasks),
           cpu' \in Tasks \cup {NoTask}
    PROVE  IInv'
<1>1. p \in Tasks /\ p # Consumer /\ Consumer \in Tasks /\ Producers \subseteq Tasks
  BY DEF Tasks, Producers, Consumer
<1>2. /\ pc' \in [Tasks -> {"idle", "set", "wait", "clear", "handle", "callback",
                            "done"}]
      /\ pc'[Consumer] = pc[Consumer] /\ pc'[p] = where
      /\ \A q \in Producers \ {p} : pc'[q] = pc[q]
  BY <1>1 DEF IInv, TypeOK
<1>3. /\ held' \in [Producers -> [kind : Kinds \cup {"None"}, size : Nat]]
      /\ \A q \in Producers \ {p} : held'[q] = held[q]
      /\ where # "idle" => held'[p] = held[p] /\ pc[p] # "idle"
  <2>1. held \in [Producers -> [kind : Kinds \cup {"None"}, size : Nat]]
    BY DEF IInv, TypeOK
  <2>2. NoEvent \in [kind : Kinds \cup {"None"}, size : Nat]
    BY DEF NoEvent
  <2>3. CASE held' = held /\ pc[p] # "idle"
    BY <2>1, <2>3
  <2>4. CASE held' = [held EXCEPT ![p] = NoEvent] /\ where = "idle"
    BY <2>1, <2>2, <2>4
  <2> QED
    BY <2>3, <2>4
<1>4. Accounting' /\ Bounded'
  BY <1>2, AccountingFrame DEF Holding, IInv
<1>5. TypeOK'
  BY <1>2, <1>3 DEF callerVars, IInv, TypeOK
<1>6. Control'
  <2>1. \A q \in Producers : /\ pc'[q] \in {"idle", "set", "wait", "clear"}
                             /\ pc'[q] # "idle" => held'[q] \in Offered
    BY <1>2, <1>3 DEF IInv, Control
  <2> QED
    BY <1>2, <2>1 DEF IInv, Control
<1> QED
  BY <1>4, <1>5, <1>6 DEF IInv

(* Every step inside a call of handle() keeps it.                          *)
LEMMA ProducerKeeps ==
    ASSUME IInv, NEW p \in Producers, Producer(p) PROVE IInv'
<1>1. /\ p \in Tasks /\ hasSpace \in Events(Tasks) /\ hasEvents \in Events(Tasks)
      /\ pc[p] # "idle" => held[p] \in Offered
      /\ pc \in [Tasks -> {"idle", "set", "wait", "clear", "handle", "callback",
                           "done"}]
  BY DEF Tasks, IInv, TypeOK, Control
<1>2. CASE SetEvents(p)
  BY <1>1, <1>2, EventTypes, ProducerFrame DEF SetEvents
<1>3. CASE ParkForSpace(p)
  <2>1. pc' = [pc EXCEPT ![p] = "wait"]
    BY <1>1, <1>3 DEF ParkForSpace
  <2>2. hasSpace' \in Events(Tasks) /\ hasEvents' \in Events(Tasks)
        /\ cpu' \in Tasks \cup {NoTask}
    BY <1>1, <1>3, EventTypes DEF ParkForSpace
  <2> QED
    BY <1>3, <2>1, <2>2, ProducerFrame DEF ParkForSpace
<1>4. CASE SpaceSeen(p)
  <2>1. hasSpace' \in Events(Tasks) /\ hasEvents' \in Events(Tasks)
        /\ cpu' \in Tasks \cup {NoTask}
    BY <1>1, <1>4, EventTypes DEF SpaceSeen, CpuAt
  <2> QED
    BY <1>4, <2>1, ProducerFrame DEF SpaceSeen
<1>5. CASE Retry(p)
  <2>1. AfterClear(hasSpace, p) \in Events(Tasks) /\ held[p] \in Offered
    BY <1>1, <1>5, EventTypes DEF Retry
  <2> QED
    BY <1>5, <2>1, AttemptIInv DEF Retry, callerVars, IInv, TypeOK
<1> QED
  BY <1>2, <1>3, <1>4, <1>5 DEF Producer

(* A consumer's step between two awaits that hold the same event, or none. *)
LEMMA ConsumerFrame ==
    ASSUME IInv, NEW where \in {"wait", "clear", "handle"},
           pc' = [pc EXCEPT ![Consumer] = where],
           Holding <=> where \in {"clear", "handle"},
           UNCHANGED <<trio, queue, queuedBytes, closed, held, current,
                       callerVars, log, handled, acked>>,
           hasEvents' \in Events(Tasks), hasSpace' \in Events(Tasks),
           cpu' \in Tasks \cup {NoTask}
    PROVE  IInv'
<1>1. pc'[Consumer] = where
  BY DEF IInv, TypeOK, Tasks
<1>2. Accounting' /\ Bounded'
  <2>1. Holding' = Holding
    BY <1>1 DEF Holding
  <2> QED
    BY <2>1, AccountingFrame DEF IInv
<1>3. where \in {"clear", "handle"} => current' \in QueuedEvents
  BY DEF Holding, IInv, Control
<1>4. Consumed
  BY <1>2, <1>3 DEF Consumed, IInv, TypeOK
<1> QED
  BY <1>4, ConsumerKeeps DEF CallersKept, callerVars, IInv, TypeOK

(* Every step of the consumer task _handle() keeps it.                     *)
LEMMA ConsumeKeeps == IInv /\ Consume => IInv'
<1> SUFFICES ASSUME IInv, Consume PROVE IInv'
  OBVIOUS
<1>1. /\ Consumer \in Tasks /\ hasSpace \in Events(Tasks)
      /\ hasEvents \in Events(Tasks)
      /\ pc \in [Tasks -> {"idle", "set", "wait", "clear", "handle", "callback",
                           "done"}]
  BY DEF Tasks, IInv, TypeOK
<1>2. CASE ParkForEvents
  <2>1. pc' = [pc EXCEPT ![Consumer] = "wait"] /\ ~Holding
    BY <1>1, <1>2 DEF ParkForEvents, Holding
  <2>2. hasEvents' \in Events(Tasks) /\ hasSpace' \in Events(Tasks)
        /\ cpu' \in Tasks \cup {NoTask}
    BY <1>1, <1>2, EventTypes DEF ParkForEvents
  <2> QED
    BY <1>2, <2>1, <2>2, ConsumerFrame DEF ParkForEvents
<1>3. CASE EventsSeen
  <2>1. AllHandled
    BY <1>3, PoppedType
    DEF EventsSeen, AllHandled, Holding, IInv, TypeOK, Accounting, Handing
  <2>2. AfterWait(hasEvents, Consumer) \in Events(Tasks)
    BY <1>1, EventTypes
  <2>3. Consumed
    BY <1>3, <2>1, <2>2, PopConsumes, ToWaitConsumes DEF EventsSeen
  <2> QED
    BY <1>3, <2>3, ConsumerKeeps
    DEF EventsSeen, CallersKept, callerVars, IInv, TypeOK
<1>4. CASE SetSpace
  <2>1. PICK where \in {"clear", "handle"} : pc' = [pc EXCEPT ![Consumer] = where]
    BY <1>4 DEF SetSpace, ToHandle
  <2>2. hasEvents' \in Events(Tasks) /\ hasSpace' \in Events(Tasks)
        /\ cpu' \in Tasks \cup {NoTask}
    BY <1>1, <1>4, EventTypes DEF SetSpace, ToHandle, CpuAt
  <2>3. Holding
    BY <1>4 DEF SetSpace, Holding
  <2> QED
    BY <1>4, <2>1, <2>2, <2>3, ConsumerFrame DEF SetSpace
<1>5. CASE ClearEvents
  <2>1. hasEvents' \in Events(Tasks) /\ hasSpace' \in Events(Tasks)
        /\ cpu' \in Tasks \cup {NoTask} /\ Holding
    BY <1>1, <1>5, EventTypes DEF ClearEvents, Holding
  <2> QED
    BY <1>5, <2>1, ConsumerFrame DEF ClearEvents
<1> QED
  BY <1>2, <1>3, <1>4, <1>5, HandledKeeps, CallbackKeeps DEF Consume

(* Every step of the queue and its callers keeps it.                       *)
LEMMA NextIInv == IInv /\ [Next]_vars => IInv'
<1> SUFFICES ASSUME IInv, [Next]_vars PROVE IInv'
  OBVIOUS
<1>1. CASE OfferRequest \/ OfferBody \/ OfferEndBody \/ OfferClosed
  BY <1>1, OfferKeeps
<1>2. CASE \E p \in Producers : Producer(p)
  BY <1>2, ProducerKeeps
<1>3. CASE Consume
  BY <1>3, ConsumeKeeps
<1>4. CASE UNCHANGED vars
  <2>1. Accounting' /\ Bounded'
    BY <1>4, AccountingFrame DEF vars, Holding, IInv
  <2> QED
    BY <1>4, <2>1 DEF vars, IInv, TypeOK, Control
<1> QED
  BY <1>1, <1>2, <1>3, <1>4 DEF Next

(* In every behaviour of the queue the inductive invariant always holds.   *)
THEOREM Invariance == Spec => []IInv
  BY InitIInv, NextIInv, PTL DEF Spec

-----------------------------------------------------------------------------
(* Every variable keeps its type in every behaviour of the queue: in       *)
(* particular _queued_bytes never goes below zero.                         *)
THEOREM QueueTypes == Spec => []TypeOK
<1>1. IInv => TypeOK
  BY DEF IInv
<1> QED
  BY <1>1, Invariance, PTL

(* The queue of queued_stream.py keeps both its bounds, whatever max_size, *)
(* max_bytes and the sizes of the data, under either runtime.              *)
THEOREM QueueBounded == Spec => []Bounded
<1>1. IInv => Bounded
  BY DEF IInv
<1> QED
  BY <1>1, Invariance, PTL

(* _queued_bytes is exactly what was accepted and not yet popped.          *)
THEOREM QueueCountsBytes == Spec => []ByteCount
<1>1. IInv => ByteCount
  BY DEF IInv, Accounting, Account, ByteCount
<1> QED
  BY <1>1, Invariance, PTL

(* The counter that decides who may enter the queue never drifts, and with *)
(* it the bounds hold.                                                     *)
THEOREM QueueWithinLimits == Spec => []WithinLimits
  BY QueueBounded, QueueCountsBytes, PTL DEF WithinLimits

(* Events reach the stream in the order handle() accepted them, none lost  *)
(* and none repeated, through every merge.                                 *)
THEOREM QueueInOrder == Spec => []InOrder
<1>1. IInv => InOrder
  BY DEF IInv, Accounting, Account, Entries, Handing, Holding, InOrder
<1> QED
  BY <1>1, Invariance, PTL

-----------------------------------------------------------------------------
(* What a step is to the queue: an event is accepted, the head entry is    *)
(* popped, or the queue and what is popped stay as they are.               *)
Accepts ==
    \E p \in Producers, ev \in Offered :
        /\ HasByteSpace(ev)
        /\ log' = Append(log, [kind |-> ev.kind,
                               upto |-> Upto(log, Len(log)) + ev.size])
        /\ \/ /\ CanMerge(ev)
              /\ queue' = [queue EXCEPT ![Len(queue)] =
                               MergeInto(@, CreateQueuedEvent(ev))]
           \/ queue' = Append(queue, CreateQueuedEvent(ev))
        /\ Popped' = Popped /\ Holding' = Holding /\ current' = current

Takes ==
    /\ AllHandled /\ queue # <<>>
    /\ Popped' = Popped + Len(Head(queue).events)
    /\ current' = Head(queue) /\ queue' = Tail(queue) /\ log' = log

Stays ==
    /\ UNCHANGED <<queue, log>> /\ Popped' = Popped
    /\ Holding' => Holding /\ current' = current

(* A turn of handle()'s loop accepts its event or leaves the queue alone.  *)
LEMMA AttemptMoves ==
    ASSUME IInv, NEW p \in Producers, NEW ev \in Offered, NEW space,
           Attempt(p, ev, space), UNCHANGED <<current, handled>>
    PROVE  Accepts \/ Stays
<1>1. p \in Tasks /\ p # Consumer /\ Consumer \in Tasks
  BY DEF Tasks, Producers, Consumer
<1>2. pc'[Consumer] = pc[Consumer]
  BY <1>1 DEF Attempt, Accept, IInv, TypeOK
<1>3. Popped' = Popped /\ Holding' = Holding
  BY <1>2 DEF Popped, Holding
<1>4. CASE CanMerge(ev) /\ Accept(p, ev, [queue EXCEPT ![Len(queue)] =
                                            MergeInto(@, CreateQueuedEvent(ev))])
  BY <1>3, <1>4 DEF Accepts, Accept, CanMerge
<1>5. CASE /\ HasByteSpace(ev)
           /\ Accept(p, ev, Append(queue, CreateQueuedEvent(ev)))
  BY <1>3, <1>5 DEF Accepts, Accept
<1>6. CASE UNCHANGED <<queue, queuedBytes, hasEvents, log>>
  BY <1>3, <1>6 DEF Stays
<1> QED
  BY <1>4, <1>5, <1>6 DEF Attempt

(* The head of the loop of _handle() takes the head entry.                 *)
LEMMA PopMoves ==
    ASSUME IInv, NEW events, Pop(events), AllHandled, log' = log
    PROVE  Takes
<1>1. PICK where \in {"set", "clear", "handle"} :
        pc' = [pc EXCEPT ![Consumer] = where]
  BY DEF Pop, ToHandle
<1>2. pc'[Consumer] = where
  BY <1>1 DEF IInv, TypeOK, Tasks
<1>3. Popped' = Popped + Len(Head(queue).events)
  BY <1>2 DEF Pop, Popped, AllHandled
<1> QED
  BY <1>3 DEF Takes, Pop

(* Waiting, the callbacks and the end take nothing.                        *)
LEMMA IdleMoves ==
    ASSUME IInv, AllHandled, NEW where \in {"wait", "callback", "done"},
           pc' = [pc EXCEPT ![Consumer] = where], UNCHANGED <<queue, log>>
    PROVE  Stays
<1>1. pc'[Consumer] = where
  BY DEF IInv, TypeOK, Tasks
<1>2. ~Holding'
  BY <1>1 DEF Holding
<1>3. Popped' = Popped
  <2>1. Len(handled') = Popped /\ Len(handled') \in Nat
    BY DEF AllHandled
  <2>2. Popped' = Len(handled') + 0
    BY <1>1 DEF Popped
  <2> QED
    BY <2>1, <2>2
<1> QED
  BY <1>2, <1>3 DEF Stays

(* The end of a turn of the loop of _handle().                             *)
LEMMA FinishMoves ==
    ASSUME IInv, Finish, AllHandled, log' = log
    PROVE  Takes \/ Stays
<1>1. CASE /\ pc' = [pc EXCEPT ![Consumer] = "done"]
           /\ UNCHANGED <<bufferVars, cpu>>
  BY <1>1, IdleMoves DEF bufferVars
<1>2. CASE Pop(hasEvents)
  BY <1>2, PopMoves
<1>3. CASE ToWait(hasEvents)
  BY <1>3, IdleMoves DEF ToWait
<1> QED
  BY <1>1, <1>2, <1>3 DEF Finish

(* A step that leaves the queue, its log and the consumer alone.           *)
LEMMA StaysFrame ==
    ASSUME UNCHANGED <<queue, log, handled, current>>, pc'[Consumer] = pc[Consumer]
    PROVE  Stays
  BY DEF Stays, Popped, Holding

(* Every step accepts, takes or leaves the queue alone.                    *)
LEMMA StepMoves ==
    ASSUME IInv, [Next]_vars
    PROVE  Accepts \/ Takes \/ Stays
<1>1. CASE OfferRequest \/ OfferBody \/ OfferEndBody \/ OfferClosed
  <2>1. PICK p \in Producers, ev \in Offered : Call(p, ev)
    <3>1. /\ [kind |-> "Request", size |-> 0] \in Offered
          /\ \A s \in Sizes : [kind |-> "Body", size |-> s] \in Offered
          /\ [kind |-> "EndBody", size |-> 0] \in Offered
          /\ [kind |-> "StreamClosed", size |-> 0] \in Offered
          /\ "reader" \in Producers /\ "closer" \in Producers
      BY DEF Offered, Kinds, Producers
    <3> QED
      BY <1>1, <3>1 DEF OfferRequest, OfferBody, OfferEndBody, OfferClosed
  <2> QED
    BY <2>1, AttemptMoves DEF Call
<1>2. ASSUME NEW p \in Producers, Producer(p)
      PROVE  Accepts \/ Stays
  <2>1. p \in Tasks /\ p # Consumer /\ Consumer \in Tasks
    BY DEF Tasks, Producers, Consumer
  <2>2. CASE SetEvents(p) \/ ParkForSpace(p) \/ SpaceSeen(p)
    <3>1. pc'[Consumer] = pc[Consumer]
      BY <2>1, <2>2 DEF SetEvents, ParkForSpace, SpaceSeen, IInv, TypeOK
    <3> QED
      BY <2>2, <3>1, StaysFrame DEF SetEvents, ParkForSpace, SpaceSeen
  <2>3. CASE Retry(p)
    <3>1. held[p] \in Offered
      BY <2>3 DEF Retry, IInv, Control
    <3> QED
      BY <2>3, <3>1, AttemptMoves DEF Retry
  <2> QED
    BY <1>2, <2>2, <2>3 DEF Producer
<1>3. CASE Consume
  <2>1. CASE ParkForEvents
    BY <2>1, StaysFrame DEF ParkForEvents
  <2>2. CASE EventsSeen
    <3>1. AllHandled
      BY <2>2, PoppedType
      DEF EventsSeen, AllHandled, Holding, IInv, TypeOK, Accounting, Handing
    <3>2. CASE Pop(AfterWait(hasEvents, Consumer))
      BY <2>2, <3>1, <3>2, PopMoves DEF EventsSeen
    <3>3. CASE ToWait(AfterWait(hasEvents, Consumer))
      BY <2>2, <3>1, <3>3, IdleMoves DEF EventsSeen, ToWait
    <3> QED
      BY <2>2, <3>2, <3>3 DEF EventsSeen
  <2>3. CASE SetSpace \/ ClearEvents
    <3>1. pc[Consumer] \in {"set", "clear"} /\ pc'[Consumer] \in {"clear", "handle"}
      BY <2>3 DEF SetSpace, ClearEvents, ToHandle, IInv, TypeOK, Tasks
    <3> QED
      BY <2>3, <3>1 DEF Stays, Popped, Holding, SetSpace, ClearEvents
  <2>4. CASE Handled
    <3>1. AllHandled /\ CallersKept
      BY <2>4, HandledAll
    <3> QED
      BY <2>4, <3>1, FinishMoves, IdleMoves DEF Handled, CallersKept, bufferVars
  <2>5. CASE Callback
    <3>1. AllHandled
      BY <2>5, PoppedType
      DEF Callback, AllHandled, Holding, IInv, TypeOK, Accounting, Handing
    <3>2. CASE Finish
      BY <2>5, <3>1, <3>2, FinishMoves DEF Callback
    <3>3. CASE UNCHANGED <<bufferVars, closed, pc, cpu>>
      BY <2>5, <3>3 DEF Stays, Popped, Holding, bufferVars, Callback
    <3> QED
      BY <2>5, <3>2, <3>3 DEF Callback
  <2> QED
    BY <1>3, <2>1, <2>2, <2>3, <2>4, <2>5 DEF Consume
<1>4. CASE UNCHANGED vars
  BY <1>4, StaysFrame DEF vars
<1> QED
  BY <1>1, <1>2, <1>3, <1>4 DEF Next

-----------------------------------------------------------------------------
(* An entry says what the log says of its events, only Body is merged, and *)
(* the callbacks are those of its Body events.                             *)
Faithful(entry, l) ==
    /\ \A j \in 1..Len(entry.events) : l[entry.events[j]].kind = entry.kind
    /\ Len(entry.events) > 1 => entry.kind = "Body"
    /\ entry.callbacks = IF entry.kind = "Body" THEN entry.events ELSE <<>>

Labelled ==
    /\ \A i \in 1..Len(queue) : Faithful(queue[i], log)
    /\ Holding => Faithful(current, log)

(* What consecutive indices, ending within the log, are.                   *)
LEMMA ConsecutiveWithin ==
    ASSUME NEW u \in Seq(Nat), NEW a \in Nat, NEW n \in Nat,
           Consecutive(u, a + 1), u[Len(u)] =< n \/ a + Len(u) =< n
    PROVE  /\ Len(u) \in Nat \ {0} /\ a + Len(u) =< n
           /\ \A j \in 1..Len(u) : u[j] = a + j /\ u[j] \in 1..n
<1>1. Len(u) \in Nat \ {0}
  BY EmptySeq DEF Consecutive
<1>2. ASSUME NEW j \in 1..Len(u) PROVE u[j] = a + j
  <2>1. u[j] = a + 1 + j - 1
    BY DEF Consecutive
  <2> QED
    BY <1>1, <2>1
<1>3. a + Len(u) =< n
  <2>1. Len(u) \in 1..Len(u)
    BY <1>1
  <2>2. u[Len(u)] = a + Len(u)
    BY <1>2, <2>1
  <2> QED
    BY <2>2
<1>4. ASSUME NEW j \in 1..Len(u) PROVE u[j] \in 1..n
  BY <1>1, <1>2, <1>3
<1> QED
  BY <1>1, <1>2, <1>3, <1>4

(* Whatever is queued or held has been accepted.                           *)
LEMMA EventsInLog ==
    ASSUME IInv
    PROVE  /\ \A i \in 1..Len(queue) :
                \A j \in 1..Len(queue[i].events) : queue[i].events[j] \in 1..Len(log)
           /\ Holding => \A j \in 1..Len(current.events) :
                            /\ current.events[j] = Len(handled) + j
                            /\ current.events[j] \in 1..Len(log)
           /\ queue # <<>> =>
                /\ Popped + Len(Head(queue).events) =< Len(log)
                /\ Len(Head(queue).events) \in Nat \ {0}
                /\ \A j \in 1..Len(Head(queue).events) :
                     Head(queue).events[j] = Popped + j
           /\ Popped \in 0..Len(log) /\ Len(log) \in Nat
<1>1. /\ queue \in Seq(QueuedEvents) /\ Popped \in Nat /\ Len(handled) \in Nat
      /\ Len(log) \in Nat /\ log \in Logs
      /\ Account(queue, queuedBytes, log, Popped) /\ Handing
      /\ Holding => current.events \in Seq(Nat) /\ Popped = Len(handled) + Len(current.events)
  BY PoppedType DEF IInv, TypeOK, Accounting, Control, Holding, QueuedEvents
<1>2. Len(queue) \in Nat
  BY <1>1, LenProperties
<1>3. Popped \in 0..Len(log)
  <2>1. End(queue, Popped, 0) = Popped /\ 0 \in 0..Len(queue)
    BY <1>2 DEF End
  <2> QED
    BY <1>1, <2>1 DEF Account
<1>4. ASSUME NEW i \in 1..Len(queue)
      PROVE  \E a \in Nat :
                /\ queue[i].events \in Seq(Nat) /\ Consecutive(queue[i].events, a + 1)
                /\ queue[i].events[Len(queue[i].events)] =< Len(log)
                /\ i = 1 => a = Popped
  <2>1. i - 1 \in 0..Len(queue) /\ i \in 0..Len(queue) /\ i # 0
    BY <1>2
  <2>2. End(queue, Popped, i-1) \in 0..Len(log) /\ End(queue, Popped, i) \in 0..Len(log)
    BY <1>1, <2>1 DEF Account
  <2>3. Consecutive(queue[i].events, End(queue, Popped, i-1) + 1)
    BY <1>1 DEF Account, Entries
  <2>4. queue[i].events \in Seq(Nat)
    BY <1>1, EntryTypes
  <2>5. End(queue, Popped, i) = queue[i].events[Len(queue[i].events)]
    BY <2>1 DEF End
  <2>6. i = 1 => End(queue, Popped, i-1) = Popped
    BY DEF End
  <2> QED
    BY <1>1, <2>2, <2>3, <2>4, <2>5, <2>6
<1>5. \A i \in 1..Len(queue) :
         \A j \in 1..Len(queue[i].events) : queue[i].events[j] \in 1..Len(log)
  BY <1>1, <1>4, ConsecutiveWithin
<1>6. ASSUME Holding
      PROVE  \A j \in 1..Len(current.events) : /\ current.events[j] = Len(handled) + j
                                               /\ current.events[j] \in 1..Len(log)
  <2>1. Consecutive(current.events, Len(handled) + 1)
    BY <1>1, <1>6 DEF Handing
  <2> QED
    BY <1>1, <1>3, <1>6, <2>1, ConsecutiveWithin
<1>7. ASSUME queue # <<>>
      PROVE  /\ Popped + Len(Head(queue).events) =< Len(log)
             /\ Len(Head(queue).events) \in Nat \ {0}
             /\ \A j \in 1..Len(Head(queue).events) : Head(queue).events[j] = Popped + j
  <2>1. 1 \in 1..Len(queue) /\ Head(queue) = queue[1]
    BY <1>1, <1>7, EmptySeq
  <2>2. /\ queue[1].events \in Seq(Nat) /\ Consecutive(queue[1].events, Popped + 1)
        /\ queue[1].events[Len(queue[1].events)] =< Len(log)
    BY <1>4, <2>1
  <2> QED
    BY <1>1, <2>1, <2>2, ConsecutiveWithin
<1> QED
  BY <1>1, <1>3, <1>5, <1>6, <1>7

(* What was accepted before keeps its label.                               *)
LEMMA StillFaithful ==
    ASSUME NEW e, NEW l \in Logs, NEW x \in [kind : Kinds, upto : Nat],
           \A j \in 1..Len(e.events) : e.events[j] \in 1..Len(l),
           Faithful(e, l)
    PROVE  Faithful(e, Append(l, x))
<1>1. \A k \in 1..Len(l) : Append(l, x)[k] = l[k]
  BY AppendProperties DEF Logs
<1> QED
  BY <1>1 DEF Faithful

(* Accepting an event: a new entry, or one more event of body.             *)
LEMMA AcceptLabels ==
    ASSUME IInv, Labelled, Accepts
    PROVE  Labelled'
<1>1. PICK p \in Producers, ev \in Offered :
        /\ log' = Append(log, [kind |-> ev.kind,
                               upto |-> Upto(log, Len(log)) + ev.size])
        /\ \/ /\ CanMerge(ev)
              /\ queue' = [queue EXCEPT ![Len(queue)] =
                               MergeInto(@, CreateQueuedEvent(ev))]
           \/ queue' = Append(queue, CreateQueuedEvent(ev))
        /\ Holding' = Holding /\ current' = current
  BY DEF Accepts
<1> DEFINE x == [kind |-> ev.kind, upto |-> Upto(log, Len(log)) + ev.size]
           e == CreateQueuedEvent(ev)
           id == Len(log) + 1
<1>2. /\ queue \in Seq(QueuedEvents) /\ log \in Logs /\ Len(log) \in Nat
      /\ ev.kind \in Kinds /\ ev.size \in Nat
  BY OfferedTypes, PoppedType DEF IInv, TypeOK
<1>3. x \in [kind : Kinds, upto : Nat]
  <2>1. Upto(log, Len(log)) \in Nat
    BY <1>2, UptoTypes
  <2>2. Upto(log, Len(log)) + ev.size \in Nat
    BY <1>2, <2>1
  <2> QED
    BY <1>2, <2>2
<1>4. x.kind = ev.kind
  OBVIOUS
<1>5. /\ e.events = <<id>> /\ e.kind = ev.kind
      /\ e.callbacks = IF ev.kind = "Body" THEN <<id>> ELSE <<>>
  BY DEF CreateQueuedEvent
<1>6. e \in QueuedEvents
  BY <1>2 DEF CreateQueuedEvent, QueuedEvents
<1> HIDE DEF x, e
<1>7. log' = Append(log, x)
  BY <1>1 DEF x
<1>8. log'[id].kind = ev.kind
  BY <1>2, <1>3, <1>4, <1>7, AppendProperties DEF Logs
<1>9. \A i \in 1..Len(queue) : Faithful(queue[i], log')
  BY <1>2, <1>3, <1>7, EventsInLog, StillFaithful DEF Labelled
<1>10. Holding' => Faithful(current', log')
  BY <1>1, <1>2, <1>3, <1>7, EventsInLog, StillFaithful DEF Labelled
<1>11. Faithful(e, log')
  <2>1. Len(e.events) = 1 /\ \A j \in 1..Len(e.events) : e.events[j] = id
    BY <1>5
  <2> QED
    BY <1>5, <1>8, <2>1 DEF Faithful
<1>12. CASE queue' = Append(queue, CreateQueuedEvent(ev))
  <2>1. /\ Len(queue') = Len(queue) + 1 /\ Len(queue) \in Nat
        /\ \A i \in 1..Len(queue) : queue'[i] = queue[i]
        /\ queue'[Len(queue) + 1] = e
    BY <1>2, <1>6, <1>12, AppendProperties DEF e
  <2>2. ASSUME NEW i \in 1..Len(queue') PROVE Faithful(queue'[i], log')
    <3>1. i \in 1..Len(queue) \/ i = Len(queue) + 1
      BY <2>1
    <3> QED
      BY <1>9, <1>11, <2>1, <3>1
  <2> QED
    BY <1>10, <2>2 DEF Labelled
<1>13. CASE /\ CanMerge(ev)
            /\ queue' = [queue EXCEPT ![Len(queue)] = MergeInto(@, e)]
  <2> DEFINE n == Len(queue)
             f == queue[n]
             g == MergeInto(f, e)
  <2>1. n \in 1..n /\ f.kind = "Body" /\ ev.kind = "Body"
    BY <1>2, <1>13, EmptySeq DEF CanMerge
  <2>2. f \in QueuedEvents /\ Faithful(f, log')
    BY <1>2, <1>9, <2>1, ElementOfSeq
  <2>3. /\ f.events \in Seq(Nat) /\ f.callbacks = f.events /\ f.callbacks \in Seq(Nat)
    BY <2>1, <2>2 DEF QueuedEvents, Faithful
  <2>4. /\ g.events = f.events \o <<id>> /\ g.callbacks = f.callbacks \o <<id>>
        /\ g.kind = f.kind
    <3> HIDE DEF f, n
    <3> QED
      BY <1>5, <2>1, <2>2 DEF MergeInto, QueuedEvents
  <2>5. /\ Len(g.events) = Len(f.events) + 1 /\ Len(f.events) \in Nat
        /\ \A j \in 1..Len(f.events) : g.events[j] = f.events[j]
        /\ g.events[Len(f.events) + 1] = id
    <3>1. <<id>> \in Seq(Nat) /\ Len(<<id>>) = 1 /\ <<id>>[1] = id
      BY <1>2
    <3> HIDE DEF f, g
    <3> QED
      BY <2>3, <2>4, <3>1, ConcatProperties, AppendIsConcat, AppendProperties
  <2>6. queue' = [queue EXCEPT ![n] = g]
    BY <1>13
  <2> HIDE DEF f, g
  <2>7. Faithful(g, log')
    <3>1. ASSUME NEW j \in 1..Len(g.events) PROVE log'[g.events[j]].kind = "Body"
      <4>1. j \in 1..Len(f.events) \/ j = Len(f.events) + 1
        BY <2>5
      <4> QED
        BY <1>8, <2>1, <2>2, <2>5, <4>1 DEF Faithful
    <3> QED
      BY <2>1, <2>3, <2>4, <3>1 DEF Faithful
  <2>8. \A i \in 1..Len(queue') : Faithful(queue'[i], log')
    BY <1>2, <1>9, <2>1, <2>6, <2>7
  <2> QED
    BY <1>10, <2>8 DEF Labelled
<1> QED
  BY <1>1, <1>12, <1>13 DEF e

(* Every step keeps the labels.                                            *)
LEMMA StepLabels ==
    ASSUME IInv, Labelled, [Next]_vars
    PROVE  Labelled'
<1>1. CASE Takes
  <2>1. /\ queue # <<>> /\ queue \in Seq(QueuedEvents)
        /\ queue' = Tail(queue) /\ current' = Head(queue) /\ log' = log
    BY <1>1 DEF Takes, IInv, TypeOK
  <2>2. /\ Len(queue) \in Nat \ {0} /\ Len(queue') = Len(queue) - 1
        /\ Head(queue) = queue[1]
        /\ \A i \in 1..Len(queue') : queue'[i] = queue[i+1]
    BY <2>1, EmptySeq, HeadTailProperties
  <2>3. \A i \in 1..Len(queue') : i + 1 \in 1..Len(queue)
    BY <2>2
  <2>4. 1 \in 1..Len(queue)
    BY <2>2
  <2> QED
    BY <2>1, <2>2, <2>3, <2>4 DEF Labelled
<1>2. CASE Stays
  BY <1>2 DEF Stays, Labelled
<1> QED
  BY <1>1, <1>2, AcceptLabels, StepMoves

(* In the initial state there is nothing to label.                         *)
LEMMA InitLabels == Init => Labelled
  BY DEF Init, Labelled, Holding, Producers, Consumer

(* In every behaviour the queue's entries say what was accepted.           *)
THEOREM Labels == Spec => []Labelled
<1>1. IInv /\ Labelled /\ [Next]_vars => Labelled'
  BY StepLabels
<1> QED
  BY <1>1, InitLabels, Invariance, PTL DEF Spec

-----------------------------------------------------------------------------
(* A step of the queue is a step of the abstract channel, or leaves it     *)
(* alone.                                                                  *)
LEMMA StepRefines ==
    ASSUME IInv, IInv', Labelled, [Next]_vars
    PROVE  [Fifo!FifoNext]_(Fifo!fifoVars)
<1>1. /\ Popped \in 0..Len(log) /\ Len(log) \in Nat /\ log \in Logs
      /\ queuedBytes = Upto(log, Len(log)) - Upto(log, Popped)
  BY EventsInLog, PoppedType DEF IInv, Accounting, Account
<1>2. \A n \in 0..Len(log) : Fifo!BytesUpto(n) = Upto(log, n) /\ Upto(log, n) \in Nat
  BY <1>1, UptoTypes DEF Fifo!BytesUpto, Upto
<1>3. CASE Accepts
  <2>1. PICK p \in Producers, ev \in Offered :
          /\ HasByteSpace(ev) /\ Popped' = Popped
          /\ log' = Append(log, [kind |-> ev.kind,
                                 upto |-> Upto(log, Len(log)) + ev.size])
    BY <1>3 DEF Accepts
  <2>2. ev.kind \in Kinds /\ ev.size \in Sizes \cup {0} /\ ev.size \in Nat
    BY OfferedTypes
  <2>3. Fifo!BytesUpto(Len(log)) = Upto(log, Len(log))
        /\ Fifo!BytesUpto(Popped) = Upto(log, Popped)
    BY <1>1, <1>2
  <2>4. queue = <<>> => Popped = Len(log)
    <3>1. queue = <<>> => End(queue, Popped, Len(queue)) = Popped
      BY DEF End
    <3> QED
      BY <3>1 DEF IInv, Accounting, Account
  <2>5. \/ MaxQueueBytes = 0
        \/ Popped = Len(log)
        \/ Upto(log, Len(log)) - Upto(log, Popped) + ev.size =< MaxQueueBytes
    BY <1>1, <2>1, <2>4 DEF HasByteSpace
  <2>6. Fifo!Admit(ev.kind, ev.size)
    BY <2>1, <2>3, <2>5 DEF Fifo!Admit
  <2> QED
    BY <2>2, <2>6 DEF Fifo!FifoNext
<1>4. CASE Takes
  <2> DEFINE n == Len(Head(queue).events)
  <2>1. /\ queue # <<>> /\ n \in Nat \ {0} /\ Popped + n =< Len(log)
        /\ \A j \in 1..n : Head(queue).events[j] = Popped + j
        /\ Popped' = Popped + n /\ log' = log
    BY <1>4, EventsInLog DEF Takes
  <2>2. Faithful(Head(queue), log)
    <3>1. 1 \in 1..Len(queue) /\ Head(queue) = queue[1]
      BY <2>1, EmptySeq DEF IInv, TypeOK
    <3> QED
      BY <3>1 DEF Labelled
  <2> HIDE DEF n
  <2>3. ASSUME n > 1, NEW i \in (Popped + 1)..(Popped + n)
        PROVE  log[i].kind = "Body"
    <3>1. i - Popped \in 1..n /\ Popped + (i - Popped) = i
      BY <1>1, <2>1
    <3>2. Head(queue).events[i - Popped] = i
      BY <2>1, <3>1
    <3> QED
      BY <2>2, <2>3, <3>1, <3>2 DEF Faithful, n
  <2>4. Fifo!Take(n)
    BY <2>1, <2>3 DEF Fifo!Take
  <2>5. n \in 1..(Len(log) - Popped)
    BY <1>1, <2>1
  <2> QED
    BY <2>4, <2>5 DEF Fifo!FifoNext
<1>5. CASE Stays
  BY <1>5 DEF Stays, Fifo!fifoVars
<1> QED
  BY <1>3, <1>4, <1>5, StepMoves

(* The empty queue is the empty channel.                                   *)
LEMMA InitRefines == Init => Fifo!FifoInit
  BY DEF Init, Fifo!FifoInit, Popped, Producers, Consumer

(* queued_stream.py implements a bounded first-in first-out channel: what  *)
(* the tasks, the merging and the two limits do is only ever to admit an   *)
(* event while there is room, or to take the next one, or the next pieces  *)
(* of body, whatever the limits and the runtime.                           *)
THEOREM QueueImplementsFifo == Spec => ImplementsFifo
<1>1. IInv /\ IInv' /\ Labelled /\ [Next]_vars => [Fifo!FifoNext]_(Fifo!fifoVars)
  BY StepRefines
<1> QED
  BY <1>1, InitRefines, Invariance, Labels, PTL
  DEF Spec, ImplementsFifo, Fifo!FifoSpec

-----------------------------------------------------------------------------
(* The callbacks still to be called of what has been handled, what has     *)
(* been acknowledged, and who may still come once the stream has closed.   *)
Due == IF pc[Consumer] = "callback" THEN Len(current.callbacks) ELSE 0

AckedUpto(n) ==
    /\ \A i \in 1..Len(acked) : acked[i] \in 1..n /\ log[acked[i]].kind = "Body"
    /\ \A i \in 1..(Len(acked) - 1) : acked[i] < acked[i+1]
    /\ \A i \in 1..n : log[i].kind = "Body" => \E j \in 1..Len(acked) : acked[j] = i

Calling ==
    pc[Consumer] = "callback" =>
        /\ current.kind = "Body"
        /\ Consecutive(current.callbacks, Len(handled) - Due + 1)
        /\ \A i \in (Len(handled) - Due + 1)..Len(handled) : log[i].kind = "Body"

Acknowledging ==
    /\ Len(handled) - Due \in Nat
    /\ AckedUpto(Len(handled) - Due)
    /\ Calling

HoldsClosed == \E i \in 1..Len(log) : log[i].kind = "StreamClosed"

Ending ==
    /\ pc["closer"] # "idle" => closing
    /\ held["reader"].kind # "StreamClosed"
    /\ closed \/ HoldsClosed => closing /\ pc["closer"] \in {"idle", "set"}
    /\ pc[Consumer] = "done" =>
         /\ closed /\ Len(log) - Len(handled) =< 1
         /\ pc["reader"] \in {"wait", "clear"} => Len(log) = Len(handled)

(* A log only grows.                                                       *)
LEMMA LogGrows ==
    ASSUME IInv, [Next]_vars
    PROVE  /\ Len(log) \in Nat /\ Len(log') \in Nat
           /\ \/ log' = log
              \/ Accepts /\ Len(log') = Len(log) + 1
           /\ \A i \in 1..Len(log) : log'[i] = log[i]
<1>1. log \in Logs /\ Len(log) \in Nat
  BY PoppedType
<1>2. CASE Accepts
  <2>1. PICK ev \in Offered :
          log' = Append(log, [kind |-> ev.kind, upto |-> Upto(log, Len(log)) + ev.size])
    BY <1>2 DEF Accepts
  <2>2. /\ Len(log') = Len(log) + 1 /\ \A i \in 1..Len(log) : log'[i] = log[i]
    BY <1>1, <2>1, AppendProperties DEF Logs
  <2> QED
    BY <1>1, <1>2, <2>2
<1> QED
  BY <1>1, <1>2, StepMoves DEF Takes, Stays

(* Steps that neither handle nor acknowledge anything.                     *)
LEMMA AcksFrame ==
    ASSUME IInv, Acknowledging, [Next]_vars,
           UNCHANGED <<handled, acked>>,
           \/ pc[Consumer] # "callback" /\ pc'[Consumer] # "callback"
           \/ pc'[Consumer] = pc[Consumer] /\ current' = current
    PROVE  Acknowledging'
<1>1. Due' = Due
  BY DEF Due
<1>2. /\ Len(handled) - Due \in 0..Len(log) /\ Len(log) \in Nat
      /\ Len(handled) \in 0..Len(log)
  <2>1. Len(handled) \in Nat /\ Len(handled) =< Len(log) /\ Len(log) \in Nat
    <3>1. /\ Popped \in 0..Len(log) /\ Len(log) \in Nat /\ Len(handled) \in Nat
      BY EventsInLog, PoppedType
    <3>2. Len(handled) =< Popped
      <4>1. CASE Holding
        <5>1. current.events \in Seq(Nat)
          BY <4>1 DEF IInv, Control, Holding, QueuedEvents
        <5> QED
          BY <3>1, <4>1, <5>1, PoppedType
      <4>2. CASE ~Holding
        BY <3>1, <4>2, PoppedType
      <4> QED
        BY <4>1, <4>2
    <3> QED
      BY <3>1, <3>2
  <2>2. Due \in Nat
    BY DEF Due, IInv, Control, QueuedEvents
  <2> QED
    BY <2>1, <2>2 DEF Acknowledging
<1>3. \A i \in 1..Len(log) : log'[i].kind = log[i].kind
  BY LogGrows
<1>4. AckedUpto(Len(handled) - Due)'
  <2> DEFINE n == Len(handled) - Due
  <2>1. n' = n
    BY <1>1
  <2>2. n \in 0..Len(log) /\ AckedUpto(n)
    BY <1>2 DEF Acknowledging
  <2> HIDE DEF n
  <2>3. \A i \in 1..n : log'[i].kind = log[i].kind
    BY <1>2, <1>3, <2>2
  <2>4. AckedUpto(n)'
    BY <2>1, <2>2, <2>3 DEF AckedUpto
  <2> QED
    BY <2>4 DEF n
<1>5. Calling'
  <2>1. \A i \in (Len(handled) - Due + 1)..Len(handled) : i \in 1..Len(log)
    BY <1>2
  <2> QED
    BY <1>1, <1>3, <2>1 DEF Acknowledging, Calling
<1> QED
  BY <1>1, <1>4, <1>5 DEF Acknowledging

(* Where the end of _handle()'s loop leads.                                *)
LEMMA FinishPlaces ==
    ASSUME IInv, Finish
    PROVE  pc'[Consumer] \in {"set", "clear", "handle", "wait", "done"}
  BY DEF Finish, Pop, ToHandle, ToWait, IInv, TypeOK, Tasks

(* stream.handle() returns: what has callbacks is due, the rest needs none.*)
LEMMA HandledAcks ==
    ASSUME IInv, Labelled, Acknowledging, Handled
    PROVE  Acknowledging'
<1> DEFINE h == Len(handled)
           k == Len(current.events)
<1>1. /\ Holding /\ pc[Consumer] = "handle" /\ AllHandled
      /\ log' = log /\ acked' = acked /\ current \in QueuedEvents
  BY HandledAll DEF CallersKept, Holding
<1>2. /\ h \in Nat /\ k \in Nat /\ Popped = h + k /\ Len(handled') = h + k
      /\ h + k =< Len(log) /\ Len(log) \in Nat /\ Due = 0
      /\ \A j \in 1..k : current.events[j] = h + j
  BY <1>1, EventsInLog, PoppedType DEF AllHandled, QueuedEvents, Due
<1>3. AckedUpto(h)
  BY <1>2 DEF Acknowledging
<1>4. \A i \in (h+1)..(h+k) : log[i].kind = current.kind
  <2> SUFFICES ASSUME NEW i \in (h+1)..(h+k) PROVE log[i].kind = current.kind
    OBVIOUS
  <2>1. i - h \in 1..k /\ h + (i - h) = i
    BY <1>2
  <2>2. current.events[i - h] = i
    BY <1>2, <2>1
  <2> QED
    BY <1>1, <2>1, <2>2 DEF Labelled, Faithful
<1> HIDE DEF h, k
<1>5. CASE current.callbacks = <<>> /\ Finish
  <2>1. Due' = 0 /\ pc'[Consumer] # "callback"
    BY <1>5, FinishPlaces DEF Due
  <2>2. \A i \in (h+1)..(h+k) : log[i].kind # "Body"
    <3>1. ASSUME current.kind = "Body" PROVE k = 0
      BY <1>1, <1>5, <3>1 DEF Labelled, Faithful, k
    <3> QED
      BY <1>2, <1>4, <3>1
  <2>3. Len(handled') - Due' = h + k
    BY <1>2, <2>1
  <2>4. AckedUpto(Len(handled) - Due)'
    <3>1. \A i \in 1..(h+k) : i \in 1..h \/ i \in (h+1)..(h+k)
      BY <1>2
    <3>2. 1..h \subseteq 1..(h+k)
      BY <1>2
    <3> QED
      BY <1>1, <1>3, <2>2, <2>3, <3>1, <3>2 DEF AckedUpto
  <2> QED
    BY <1>2, <2>1, <2>3, <2>4 DEF Acknowledging, Calling
<1>6. CASE /\ current.callbacks # <<>>
           /\ pc' = [pc EXCEPT ![Consumer] = "callback"]
           /\ UNCHANGED <<bufferVars, closed, current, cpu>>
  <2>1. /\ pc'[Consumer] = "callback" /\ current' = current
    BY <1>6 DEF IInv, TypeOK, Tasks
  <2>2. current.kind = "Body" /\ current.callbacks = current.events
    BY <1>1, <1>6 DEF Labelled, Faithful
  <2>3. Due' = k
    BY <2>1, <2>2 DEF Due, k
  <2>4. Len(handled') - Due' = h /\ h + 1 = Len(handled') - Due' + 1
    BY <1>2, <2>3
  <2>5. Consecutive(current.callbacks, h + 1)
    BY <1>1, <2>2 DEF IInv, Accounting, Handing, h
  <2>6. AckedUpto(Len(handled) - Due)'
    BY <1>1, <1>3, <2>4 DEF AckedUpto
  <2>7. Calling'
    BY <1>1, <1>2, <1>4, <2>1, <2>2, <2>4, <2>5 DEF Calling, Consecutive
  <2> QED
    BY <1>2, <2>4, <2>6, <2>7 DEF Acknowledging
<1> QED
  BY <1>5, <1>6 DEF Handled

(* A callback returns: the first event that was due is acknowledged, next  *)
(* after those acknowledged already.                                       *)
LEMMA CallbackAcks ==
    ASSUME IInv, Acknowledging, Callback
    PROVE  Acknowledging'
<1>0. PICK h, calls, n :
        h = Len(handled) /\ calls = current.callbacks /\ n = h - Len(calls)
  OBVIOUS
<1>1. /\ pc[Consumer] = "callback" /\ handled' = handled /\ log' = log
      /\ current \in QueuedEvents /\ calls # <<>> /\ calls \in Seq(Nat)
      /\ acked' = Append(acked, Head(calls)) /\ acked \in Seq(Nat)
  BY <1>0 DEF Callback, IInv, Control, TypeOK, QueuedEvents
<1>2. PICK k \in Nat : k = Len(calls)
  BY <1>1
<1>2a. /\ Due = k /\ k > 0 /\ h \in Nat /\ n \in Nat /\ h = n + k
      /\ Len(acked) \in Nat
  BY <1>0, <1>1, <1>2, EmptySeq, PoppedType DEF Due, Acknowledging
<1>3. /\ AckedUpto(n) /\ current.kind = "Body" /\ Consecutive(calls, n + 1)
      /\ \A i \in (n+1)..h : log[i].kind = "Body"
  BY <1>0, <1>1, <1>2, <1>2a DEF Acknowledging, Calling
<1>4. Head(calls) = n + 1 /\ log[n+1].kind = "Body"
  <2>1. calls[1] = (n + 1) + 1 - 1 /\ n + 1 \in (n+1)..h
    BY <1>2, <1>2a, <1>3 DEF Consecutive
  <2> QED
    BY <1>1, <1>2, <1>2a, <1>3, <2>1
<1>5. Len(handled') - Due' = n + 1 /\ Calling'
  <2>1. CASE Tail(calls) = <<>> /\ Finish
    <3>1. Due' = 0 /\ pc'[Consumer] # "callback"
      BY <2>1, FinishPlaces DEF Due
    <3>2. Len(calls) = 1
      <4>1. Len(Tail(calls)) = Len(calls) - 1
        BY <1>1, HeadTailProperties
      <4> QED
        BY <1>2, <1>2a, <2>1, <4>1
    <3> QED
      BY <1>0, <1>1, <1>2, <1>2a, <3>1, <3>2 DEF Calling
  <2>2. CASE /\ current' = [current EXCEPT !.callbacks = Tail(@)]
             /\ UNCHANGED <<bufferVars, closed, pc, cpu>> /\ Tail(calls) # <<>>
    <3>1. /\ Len(Tail(calls)) = Len(calls) - 1 /\ Tail(calls) \in Seq(Nat)
          /\ \A i \in 1..Len(Tail(calls)) : Tail(calls)[i] = calls[i+1]
      BY <1>1, HeadTailProperties
    <3>2. /\ current'.callbacks = Tail(calls) /\ current'.kind = current.kind
          /\ pc'[Consumer] = "callback"
      BY <1>0, <1>1, <2>2 DEF QueuedEvents
    <3>3. Due' = Len(calls) - 1 /\ Len(handled') - Due' = n + 1
      <4>1. Due' = Len(current'.callbacks)
        BY <3>2 DEF Due
      <4>2. Len(current'.callbacks) = k - 1 /\ Len(handled') = h
        BY <1>0, <1>1, <1>2, <1>2a, <3>1, <3>2
      <4> QED
        BY <1>2, <1>2a, <4>1, <4>2
    <3>4. Consecutive(Tail(calls), n + 1 + 1)
      <4> SUFFICES ASSUME NEW i \in 1..Len(Tail(calls))
                   PROVE  Tail(calls)[i] = n + 1 + 1 + i - 1
        BY <2>2 DEF Consecutive
      <4>1. i + 1 \in 1..Len(calls)
        BY <1>2, <1>2a, <3>1
      <4>2. calls[i + 1] = n + 1 + (i + 1) - 1
        BY <1>3, <4>1 DEF Consecutive
      <4> QED
        BY <1>2, <1>2a, <3>1, <4>2
    <3>5. \A i \in (n+1+1)..h : i \in (n+1)..h
      BY <1>2, <1>2a
    <3> QED
      BY <1>0, <1>1, <1>3, <3>2, <3>3, <3>4, <3>5 DEF Calling
  <2> QED
    BY <1>0, <1>1, <2>1, <2>2 DEF Callback
<1>6. /\ Len(acked') = Len(acked) + 1 /\ acked'[Len(acked) + 1] = n + 1
      /\ \A i \in 1..Len(acked) : acked'[i] = acked[i]
  BY <1>1, <1>2, <1>2a, <1>4, AppendProperties
<1>7. AckedUpto(Len(handled) - Due)'
  <2>1. \A i \in 1..Len(acked') : acked'[i] \in 1..(n+1) /\ log[acked'[i]].kind = "Body"
    <3> SUFFICES ASSUME NEW i \in 1..Len(acked')
                 PROVE  acked'[i] \in 1..(n+1) /\ log[acked'[i]].kind = "Body"
      OBVIOUS
    <3>1. CASE i = Len(acked) + 1
      BY <1>2, <1>2a, <1>4, <1>6, <3>1
    <3>2. CASE i \in 1..Len(acked)
      BY <1>2, <1>2a, <1>3, <1>6, <3>2 DEF AckedUpto
    <3> QED
      BY <1>2, <1>2a, <1>6, <3>1, <3>2
  <2>2. \A i \in 1..(Len(acked') - 1) : acked'[i] < acked'[i+1]
    <3> SUFFICES ASSUME NEW i \in 1..Len(acked) PROVE acked'[i] < acked'[i+1]
      BY <1>2, <1>2a, <1>6
    <3>1. acked'[i] = acked[i] /\ acked[i] \in 1..n
      BY <1>3, <1>6 DEF AckedUpto
    <3>2. CASE i = Len(acked)
      BY <1>2, <1>2a, <1>6, <3>1, <3>2
    <3>3. CASE i \in 1..(Len(acked) - 1)
      <4>1. i + 1 \in 1..Len(acked)
        BY <1>2, <1>2a, <3>3
      <4> QED
        BY <1>3, <1>6, <3>1, <3>3, <4>1 DEF AckedUpto
    <3> QED
      BY <1>2, <1>2a, <3>2, <3>3
  <2>3. \A i \in 1..(n+1) : log[i].kind = "Body" =>
            \E j \in 1..Len(acked') : acked'[j] = i
    <3> SUFFICES ASSUME NEW i \in 1..(n+1), log[i].kind = "Body"
                 PROVE  \E j \in 1..Len(acked') : acked'[j] = i
      OBVIOUS
    <3>1. Len(acked) + 1 \in 1..Len(acked') /\ 1..Len(acked) \subseteq 1..Len(acked')
      BY <1>2, <1>2a, <1>6
    <3>2. CASE i = n + 1
      BY <1>6, <3>1, <3>2
    <3>3. CASE i \in 1..n
      BY <1>3, <1>6, <3>1, <3>3 DEF AckedUpto
    <3> QED
      BY <1>2, <1>2a, <3>2, <3>3
  <2> QED
    BY <1>1, <1>5, <2>1, <2>2, <2>3 DEF AckedUpto
<1> QED
  BY <1>2, <1>2a, <1>5, <1>7 DEF Acknowledging

(* Every step keeps what is acknowledged, and what is due, exact.          *)
LEMMA StepAcks ==
    ASSUME IInv, Labelled, Acknowledging, [Next]_vars
    PROVE  Acknowledging'
<1>1. CASE OfferRequest \/ OfferBody \/ OfferEndBody \/ OfferClosed
  <2>0. PICK p \in Producers : \E ev : Call(p, ev)
    <3>1. "reader" \in Producers /\ "closer" \in Producers
      BY DEF Producers
    <3> QED
      BY <1>1, <3>1 DEF OfferRequest, OfferBody, OfferEndBody, OfferClosed
  <2>1. PICK ev : Call(p, ev)
    BY <2>0
  <2>2. p # Consumer /\ Consumer \in Tasks /\ p \in Tasks
    BY DEF Producers, Consumer, Tasks
  <2>3. /\ pc'[Consumer] = pc[Consumer] /\ UNCHANGED <<current, handled, acked>>
    BY <2>1, <2>2 DEF Call, Attempt, Accept, IInv, TypeOK
  <2> QED
    BY <2>3, AcksFrame
<1>2. ASSUME NEW p \in Producers, Producer(p) PROVE Acknowledging'
  <2>1. p # Consumer /\ Consumer \in Tasks /\ p \in Tasks
    BY DEF Producers, Consumer, Tasks
  <2>2. pc'[Consumer] = pc[Consumer] /\ UNCHANGED <<current, handled, acked>>
    BY <1>2, <2>1 DEF Producer, SetEvents, ParkForSpace, SpaceSeen, Retry, Attempt,
       Accept, IInv, TypeOK
  <2> QED
    BY <2>2, AcksFrame
<1>3. CASE Consume
  <2>1. CASE ParkForEvents \/ EventsSeen \/ SetSpace \/ ClearEvents
    <3>1. /\ pc[Consumer] # "callback" /\ pc'[Consumer] # "callback"
          /\ UNCHANGED <<handled, acked>>
      BY <2>1 DEF ParkForEvents, EventsSeen, Pop, ToWait, ToHandle, SetSpace,
         ClearEvents, IInv, TypeOK, Tasks
    <3> QED
      BY <3>1, AcksFrame
  <2> QED
    BY <1>3, <2>1, HandledAcks, CallbackAcks DEF Consume
<1>4. CASE UNCHANGED vars
  BY <1>4, AcksFrame DEF vars
<1> QED
  BY <1>1, <1>2, <1>3, <1>4 DEF Next

LEMMA InitAcks == Init => Acknowledging
  BY DEF Init, Acknowledging, AckedUpto, Calling, Due

(* In every behaviour what was acknowledged is what was handled, less what *)
(* the callbacks of the moment are still to acknowledge.                   *)
THEOREM Acknowledges == Spec => []Acknowledging
<1>1. IInv /\ Labelled /\ Acknowledging /\ [Next]_vars => Acknowledging'
  BY StepAcks
<1> QED
  BY <1>1, InitAcks, Invariance, Labels, PTL DEF Spec

-----------------------------------------------------------------------------
(* One turn of the loop of handle() keeps the last conditions: the event   *)
(* that closes the stream comes from the task that pops it, once.          *)
LEMMA AttemptEnds ==
    ASSUME IInv, Ending, NEW p \in Producers, NEW ev \in Offered, NEW space,
           Attempt(p, ev, space), UNCHANGED <<closed, handled>>,
           p = "reader" => ev.kind # "StreamClosed",
           p = "closer" => closing' /\ ~closed /\ ~HoldsClosed,
           closing => closing',
           pc[Consumer] = "done" => Len(log) = Len(handled)
    PROVE  Ending'
<1>1. /\ p \in Tasks /\ p # Consumer /\ Consumer \in Tasks /\ "reader" \in Tasks
      /\ "closer" \in Tasks /\ p \in {"reader", "closer"}
      /\ Consumer \notin {"reader", "closer"}
  BY DEF Tasks, Producers, Consumer
<1>2. PICK where \in {"set", "wait"} :
        /\ pc' = [pc EXCEPT ![p] = where]
        /\ held' = [held EXCEPT ![p] = ev]
        /\ \/ where = "wait" /\ log' = log
           \/ where = "set" /\ log' = Append(log, [kind |-> ev.kind,
                                         upto |-> Upto(log, Len(log)) + ev.size])
  BY DEF Attempt, Accept
<1>3. /\ \A t \in Tasks : pc'[t] = IF t = p THEN where ELSE pc[t]
      /\ held'["reader"] = IF p = "reader" THEN ev ELSE held["reader"]
  BY <1>1, <1>2 DEF IInv, TypeOK, Producers
<1>4. /\ Len(log) \in Nat /\ Len(handled) \in Nat
      /\ where = "wait" => log' = log
      /\ where = "set" => Len(log') = Len(log) + 1
      /\ HoldsClosed' => \/ HoldsClosed
                         \/ ev.kind = "StreamClosed" /\ where = "set"
  <2>1. log \in Logs /\ Len(log) \in Nat /\ Len(handled) \in Nat
    BY PoppedType
  <2>2. CASE where = "wait"
    BY <1>2, <2>1, <2>2 DEF HoldsClosed
  <2>3. CASE where = "set"
    <3>1. PICK u : log' = Append(log, [kind |-> ev.kind, upto |-> u])
      BY <1>2, <2>3
    <3>2. /\ Len(log') = Len(log) + 1 /\ log'[Len(log) + 1].kind = ev.kind
          /\ \A i \in 1..Len(log) : log'[i] = log[i]
      BY <2>1, <3>1, AppendProperties DEF Logs
    <3> QED
      BY <2>1, <2>3, <3>2 DEF HoldsClosed
  <2> QED
    BY <2>2, <2>3
<1>5. /\ pc'["closer"] # "idle" => closing'
      /\ held'["reader"].kind # "StreamClosed"
  BY <1>1, <1>3 DEF Ending
<1>6. closed' \/ HoldsClosed' => closing' /\ pc'["closer"] \in {"idle", "set"}
  BY <1>1, <1>3, <1>4 DEF Ending
<1>7. pc'[Consumer] = "done" =>
        /\ closed' /\ Len(log') - Len(handled') =< 1
        /\ pc'["reader"] \in {"wait", "clear"} => Len(log') = Len(handled')
  BY <1>1, <1>3, <1>4 DEF Ending
<1> QED
  BY <1>5, <1>6, <1>7 DEF Ending

(* The consumer's steps that end no turn of its loop.                      *)
LEMMA EndingFrame ==
    ASSUME IInv, Ending, UNCHANGED <<closed, closing, held, log>>,
           pc'["reader"] = pc["reader"], pc'["closer"] = pc["closer"],
           pc'[Consumer] # "done"
    PROVE  Ending'
  BY DEF Ending, HoldsClosed

(* The end of a turn of the loop of _handle(): the consumer returns only   *)
(* once the stream is closed and the queue is empty.                       *)
LEMMA FinishEnds ==
    ASSUME IInv, IInv', Ending, Finish, CallersKept,
           current.kind = "StreamClosed" => HoldsClosed
    PROVE  Ending'
<1>1. /\ UNCHANGED <<held, closing, log>>
      /\ pc'["reader"] = pc["reader"] /\ pc'["closer"] = pc["closer"]
      /\ pc'[Consumer] = "done" => closed' /\ queue = <<>> /\ queue' = queue
  BY DEF Finish, Pop, ToHandle, ToWait, CallersKept, callerVars, bufferVars, IInv,
     TypeOK, Tasks, Producers, Consumer
<1>2. closed' => closed \/ HoldsClosed
  BY DEF Finish
<1>3. pc'[Consumer] = "done" => Len(log') = Len(handled')
  <2> SUFFICES ASSUME pc'[Consumer] = "done" PROVE Len(log') = Len(handled')
    OBVIOUS
  <2>1. Len(queue') = 0 /\ End(queue', Popped', Len(queue')) = Len(log')
    BY <1>1 DEF IInv, Accounting, Account
  <2>2. Popped' = Len(log')
    BY <2>1 DEF End
  <2>3. Popped' = Len(handled') + 0 /\ Len(handled') \in Nat
    BY DEF Popped, IInv, TypeOK
  <2> QED
    BY <2>2, <2>3
<1>4. Len(log') \in Nat /\ Len(handled') \in Nat
  BY DEF IInv, TypeOK
<1> QED
  BY <1>1, <1>2, <1>3, <1>4 DEF Ending, HoldsClosed

(* Every step keeps the last conditions.                                   *)
LEMMA StepEnds ==
    ASSUME IInv, Labelled, Acknowledging, Ending, [Next]_vars
    PROVE  Ending'
<1>1. /\ "reader" \in Producers /\ "closer" \in Producers
      /\ \A p \in Producers : p \in Tasks /\ p # Consumer
      /\ Consumer \in Tasks /\ Consumer \notin {"reader", "closer"}
  BY DEF Producers, Tasks, Consumer
<1>2. IInv'
  BY NextIInv
<1>3. CASE OfferRequest \/ OfferBody \/ OfferEndBody
  <2>1. PICK ev \in Offered : Call("reader", ev) /\ ev.kind # "StreamClosed"
    <3>1. /\ [kind |-> "Request", size |-> 0] \in Offered
          /\ \A s \in Sizes : [kind |-> "Body", size |-> s] \in Offered
          /\ [kind |-> "EndBody", size |-> 0] \in Offered
      BY DEF Offered, Kinds
    <3> QED
      BY <1>3, <3>1 DEF OfferRequest, OfferBody, OfferEndBody
  <2>2. closing' = closing /\ ~closing /\ pc[Consumer] # "done"
    BY <1>3, <2>1 DEF OfferRequest, OfferBody, OfferEndBody, Call, Ending
  <2> QED
    BY <1>1, <2>1, <2>2, AttemptEnds DEF Call
<1>4. CASE OfferClosed
  <2>1. [kind |-> "StreamClosed", size |-> 0] \in Offered
    BY DEF Offered, Kinds
  <2>2. /\ Call("closer", [kind |-> "StreamClosed", size |-> 0])
        /\ closing' /\ ~closing /\ ~closed /\ ~HoldsClosed /\ pc[Consumer] # "done"
    BY <1>4 DEF OfferClosed, Call, Ending
  <2> QED
    BY <1>1, <2>1, <2>2, AttemptEnds DEF Call
<1>5. ASSUME NEW p \in Producers, Producer(p) PROVE Ending'
  <2>1. CASE SetEvents(p) \/ ParkForSpace(p) \/ SpaceSeen(p)
    <3>1. /\ UNCHANGED <<closed, closing, log, handled>>
          /\ \/ held' = held
             \/ SetEvents(p) /\ held' = [held EXCEPT ![p] = NoEvent]
          /\ \/ pc' = pc
             \/ pc[p] = "set" /\ pc' = [pc EXCEPT ![p] = "idle"]
             \/ pc[p] = "wait" /\ pc' = [pc EXCEPT ![p] = "clear"]
      BY <2>1 DEF SetEvents, ParkForSpace, SpaceSeen, callerVars
    <3>2. held'["reader"].kind # "StreamClosed"
      <4>1. held'["reader"] \in {held["reader"], NoEvent}
        BY <1>1, <3>1 DEF IInv, TypeOK
      <4> QED
        BY <4>1 DEF Ending, NoEvent
    <3>3. /\ pc'[Consumer] = pc[Consumer]
          /\ pc'["reader"] \in {"wait", "clear"} => pc["reader"] \in {"wait", "clear"}
          /\ \/ pc'["closer"] = pc["closer"]
             \/ pc["closer"] = "set" /\ pc'["closer"] = "idle"
             \/ pc["closer"] = "wait" /\ pc'["closer"] = "clear"
      BY <1>1, <3>1 DEF IInv, TypeOK
    <3> QED
      BY <3>1, <3>2, <3>3 DEF Ending, HoldsClosed
  <2>2. CASE Retry(p)
    <3>1. /\ pc[p] = "clear" /\ held[p] \in Offered /\ UNCHANGED <<closed, closing, handled>>
          /\ Attempt(p, held[p], AfterClear(hasSpace, p)) /\ p \in {"reader", "closer"}
      BY <2>2 DEF Retry, callerVars, IInv, Control, Producers
    <3>2. /\ p = "reader" => held[p].kind # "StreamClosed"
          /\ p = "closer" => closing /\ ~closed /\ ~HoldsClosed
          /\ pc[Consumer] = "done" => p = "reader" /\ Len(log) = Len(handled)
      BY <3>1 DEF Ending
    <3> QED
      BY <3>1, <3>2, AttemptEnds
  <2> QED
    BY <1>5, <2>1, <2>2 DEF Producer
<1>6. CASE Consume
  <2>1. CASE ParkForEvents \/ EventsSeen \/ SetSpace \/ ClearEvents
    <3>1. /\ UNCHANGED <<closed, closing, held, log, handled>>
          /\ pc'["reader"] = pc["reader"] /\ pc'["closer"] = pc["closer"]
          /\ pc'[Consumer] # "done"
      BY <1>1, <2>1 DEF ParkForEvents, EventsSeen, Pop, ToWait, ToHandle, SetSpace,
         ClearEvents, callerVars, IInv, TypeOK
    <3> QED
      BY <3>1, EndingFrame
  <2>2. CASE Handled
    <3>1. CallersKept /\ Holding
      BY <2>2, HandledAll DEF Holding
    <3>2. CASE Finish
      <4>1. current.kind = "StreamClosed" => HoldsClosed
        <5>1. Len(current.events) > 0 /\ Len(current.events) \in Nat
          BY <2>2, <3>1, HandledAll, EmptySeq DEF IInv, Accounting, Handing, Consecutive,
             QueuedEvents
        <5>2. current.events[1] \in 1..Len(log)
          BY <3>1, <5>1, EventsInLog
        <5>3. log[current.events[1]].kind = current.kind
          BY <3>1, <5>1 DEF Labelled, Faithful
        <5> QED
          BY <5>2, <5>3 DEF HoldsClosed
      <4> QED
        BY <1>2, <3>1, <3>2, <4>1, FinishEnds
    <3>3. CASE /\ pc' = [pc EXCEPT ![Consumer] = "callback"]
               /\ UNCHANGED <<bufferVars, closed, current, cpu>>
      <4>1. /\ pc'["reader"] = pc["reader"] /\ pc'["closer"] = pc["closer"]
            /\ pc'[Consumer] = "callback"
        BY <1>1, <3>3 DEF IInv, TypeOK
      <4> QED
        BY <3>1, <3>3, <4>1, EndingFrame DEF CallersKept
    <3> QED
      BY <2>2, <3>2, <3>3 DEF Handled
  <2>3. CASE Callback
    <3>1. /\ CallersKept /\ current.kind = "Body" /\ pc[Consumer] = "callback"
      BY <2>3 DEF Callback, CallersKept, callerVars, Acknowledging, Calling
    <3>2. CASE Finish
      BY <1>2, <3>1, <3>2, FinishEnds
    <3>3. CASE UNCHANGED <<bufferVars, closed, pc, cpu>>
      BY <3>1, <3>3, EndingFrame DEF CallersKept
    <3> QED
      BY <2>3, <3>2, <3>3 DEF Callback
  <2> QED
    BY <1>6, <2>1, <2>2, <2>3 DEF Consume
<1>7. CASE UNCHANGED vars
  BY <1>7 DEF vars, Ending, HoldsClosed
<1> QED
  BY <1>3, <1>4, <1>5, <1>6, <1>7 DEF Next

LEMMA InitEnds == Init => Ending
  BY DEF Init, Ending, HoldsClosed, Producers, Consumer, NoEvent

(* The three layers give what the runs check.                              *)
LEMMA AckedFollows ==
    ASSUME IInv, Acknowledging, Ending
    PROVE  Acked
<1>1. Len(handled) \in Nat /\ Due \in Nat /\ Len(handled) - Due \in Nat
  BY DEF IInv, Control, TypeOK, Due, QueuedEvents, Acknowledging
<1>2. AckedOnce
  BY <1>1 DEF AckedOnce, Acknowledging, AckedUpto
<1>3. AllAcked
  <2>1. pc[Consumer] \in {"wait", "done"} => Len(handled) - Due = Len(handled)
    BY <1>1 DEF Due
  <2> QED
    BY <2>1 DEF AllAcked, Acknowledging, AckedUpto
<1>4. AtMostOneStranded
  BY DEF AtMostOneStranded, Ending
<1> QED
  BY <1>2, <1>3, <1>4 DEF Acked

(* What the application has been handed is acknowledged to the peer, once  *)
(* each, in order, never before the application had it and at the latest   *)
(* when the consumer waits again: the flow-control window given back is    *)
(* exactly the data consumed.  A queue whose consumer has returned keeps   *)
(* at most one event: the one whose handle() was blocked.                  *)
THEOREM QueueAcked == Spec => []Acked
<1>1. IInv /\ Labelled /\ Acknowledging /\ Ending /\ [Next]_vars => Ending'
  BY StepEnds
<1>2. IInv /\ Acknowledging /\ Ending => Acked
  BY AckedFollows
<1> QED
  BY <1>1, <1>2, InitEnds, Invariance, Labels, Acknowledges, PTL DEF Spec

-----------------------------------------------------------------------------
(* has_events as the tasks see it: the tasks in the order in which they    *)
(* reached it (under asyncio, the parked tasks that set() has scheduled),  *)
(* and the tasks that are parked.                                          *)
Turn == hasEvents.turn
Parked == hasEvents.waiters
Setting(p) == pc[p] = "set"

In(t, s) == \E i \in 1..Len(s) : s[i] = t
Distinct(s) == \A i, j \in 1..Len(s) : s[i] = s[j] => i = j
Behind(p, s) == \E i, j \in 1..Len(s) : i < j /\ s[i] = Consumer /\ s[j] = p

(* The flag is up, or about to go up, while the queue holds anything; and  *)
(* it is down, and stays so, when the consumer has emptied the queue and   *)
(* seen to the flag.                                                       *)
Flagged ==
    /\ queue # <<>> /\ pc[Consumer] # "clear" =>
         hasEvents.set \/ \E p \in Producers : Setting(p)
    /\ queue = <<>> /\ pc[Consumer] \in {"wait", "handle", "callback"} =>
         ~hasEvents.set /\ \A p \in Producers : ~Setting(p)

(* trio: the tasks queue for the lock once each, the consumer is in it or  *)
(* parked only where it waits or clears, and a producer that comes behind  *)
(* a consumer about to clear the flag has put something in the queue.      *)
TrioLine ==
    /\ Distinct(Turn)
    /\ \A p \in Producers : Setting(p) <=> In(p, Turn)
    /\ In(Consumer, Turn) => pc[Consumer] \in {"wait", "clear"} /\ Parked = <<>>
    /\ \/ Parked = <<>>
       \/ Parked = <<Consumer>> /\ pc[Consumer] = "wait"
    /\ pc[Consumer] = "clear" =>
         /\ In(Consumer, Turn)
         /\ queue = <<>> <=> \A p \in Producers : ~Behind(p, Turn)

(* asyncio: a task at set() or clear() has the processor, so that nothing  *)
(* comes between what it saw and what it does.                             *)
AsyncioAlone ==
    /\ \A t \in Tasks : pc[t] \in {"set", "clear"} => cpu = t
    /\ \A p \in Producers : Setting(p) => queue # <<>>
    /\ \/ Turn = <<>>
       \/ Turn = <<Consumer>> /\ pc[Consumer] = "wait" /\ hasEvents.set
            /\ Parked = <<>> /\ cpu # Consumer
    /\ \/ Parked = <<>>
       \/ Parked = <<Consumer>> /\ pc[Consumer] = "wait" /\ cpu # Consumer
    /\ pc[Consumer] = "clear" => queue = <<>>

Waking == Flagged /\ IF trio THEN TrioLine ELSE AsyncioAlone

(* A task that joins the line.                                             *)
LEMMA Joining ==
    ASSUME NEW s \in Seq(Tasks), NEW t \in Tasks
    PROVE  /\ \A x : In(x, Append(s, t)) <=> In(x, s) \/ x = t
           /\ Distinct(s) /\ ~In(t, s) => Distinct(Append(s, t))
           /\ \A p : Behind(p, Append(s, t)) <=>
                         Behind(p, s) \/ (In(Consumer, s) /\ p = t)
<1> DEFINE a == Append(s, t)
           n == Len(s)
<1>1. /\ n \in Nat /\ Len(a) = n + 1 /\ a[n + 1] = t
      /\ \A i \in 1..n : a[i] = s[i]
  BY AppendProperties
<1> HIDE DEF a, n
<1>2. \A i : i \in 1..Len(a) <=> i \in 1..n \/ i = n + 1
  BY <1>1
<1>3. \A x : In(x, a) <=> In(x, s) \/ x = t
  BY <1>1, <1>2 DEF In, n
<1>4. ASSUME Distinct(s), ~In(t, s) PROVE Distinct(a)
  BY <1>1, <1>2, <1>4 DEF Distinct, In, n
<1>5. ASSUME NEW p
      PROVE  Behind(p, a) <=> Behind(p, s) \/ (In(Consumer, s) /\ p = t)
  <2>1. ASSUME Behind(p, a) PROVE Behind(p, s) \/ (In(Consumer, s) /\ p = t)
    <3>1. PICK i \in 1..Len(a), j \in 1..Len(a) : i < j /\ a[i] = Consumer /\ a[j] = p
      BY <2>1 DEF Behind
    <3>2. i \in 1..n /\ s[i] = Consumer
      BY <1>1, <1>2, <3>1
    <3>3. CASE j \in 1..n
      BY <1>1, <3>1, <3>2, <3>3 DEF Behind, n
    <3>4. CASE j = n + 1
      BY <1>1, <3>1, <3>2, <3>4 DEF In, n
    <3> QED
      BY <1>2, <3>1, <3>3, <3>4
  <2>2. ASSUME Behind(p, s) PROVE Behind(p, a)
    BY <1>1, <1>2, <2>2 DEF Behind, n
  <2>3. ASSUME In(Consumer, s), p = t PROVE Behind(p, a)
    <3>1. PICK i \in 1..n : s[i] = Consumer
      BY <2>3 DEF In, n
    <3>2. i \in 1..Len(a) /\ n + 1 \in 1..Len(a) /\ i < n + 1 /\ a[i] = Consumer
      BY <1>1, <3>1
    <3> QED
      BY <1>1, <2>3, <3>2 DEF Behind
  <2> QED
    BY <2>1, <2>2, <2>3
<1> QED
  BY <1>3, <1>4, <1>5 DEF a

(* The task at the head leaves the line.                                   *)
LEMMA Leaving ==
    ASSUME NEW s \in Seq(Tasks), s # <<>>, Distinct(s)
    PROVE  /\ Tail(s) \in Seq(Tasks) /\ Distinct(Tail(s)) /\ In(Head(s), s)
           /\ \A x : In(x, Tail(s)) <=> In(x, s) /\ x # Head(s)
           /\ Head(s) # Consumer => \A p : Behind(p, Tail(s)) <=> Behind(p, s)
           /\ Head(s) = Consumer => \A p : Behind(p, s) <=> In(p, Tail(s))
<1>0. PICK r, n : r = Tail(s) /\ n = Len(s)
  OBVIOUS
<1>1. /\ r \in Seq(Tasks) /\ n \in Nat /\ n > 0 /\ Len(r) = n - 1 /\ Len(s) = n
      /\ Head(s) = s[1] /\ \A i \in 1..(n-1) : r[i] = s[i+1]
  BY <1>0, EmptySeq, HeadTailProperties
<1>2. \A i \in 1..(n-1) : i + 1 \in 1..n /\ i + 1 # 1
  BY <1>1
<1>3. \A i \in 1..n : i # 1 => i - 1 \in 1..(n-1) /\ r[i-1] = s[i]
  BY <1>1
<1>4. 1 \in 1..n
  BY <1>1
<1>5. In(Head(s), s)
  BY <1>1, <1>4 DEF In
<1>6. ASSUME NEW x PROVE In(x, r) <=> In(x, s) /\ x # Head(s)
  <2>1. ASSUME In(x, r) PROVE In(x, s) /\ x # Head(s)
    <3>1. PICK i \in 1..(n-1) : r[i] = x
      BY <1>1, <2>1 DEF In
    <3>2. i + 1 \in 1..n /\ i + 1 # 1 /\ s[i+1] = x
      BY <1>1, <1>2, <3>1
    <3> QED
      BY <1>1, <1>4, <3>2 DEF In, Distinct
  <2>2. ASSUME In(x, s), x # Head(s) PROVE In(x, r)
    <3>1. PICK i \in 1..n : s[i] = x
      BY <1>1, <2>2 DEF In
    <3>2. i # 1
      BY <1>1, <2>2, <3>1
    <3> QED
      BY <1>1, <1>3, <3>1, <3>2 DEF In
  <2> QED
    BY <2>1, <2>2
<1>7. Distinct(r)
  <2> SUFFICES ASSUME NEW i \in 1..(n-1), NEW j \in 1..(n-1), r[i] = r[j]
               PROVE  i = j
    BY <1>1 DEF Distinct
  <2>1. s[i+1] = s[j+1] /\ i + 1 \in 1..n /\ j + 1 \in 1..n
    BY <1>1, <1>2
  <2>2. i + 1 = j + 1
    BY <1>1, <2>1 DEF Distinct
  <2> QED
    BY <1>1, <2>2
<1>8. ASSUME Head(s) # Consumer, NEW p PROVE Behind(p, r) <=> Behind(p, s)
  <2>1. ASSUME Behind(p, r) PROVE Behind(p, s)
    <3>1. PICK i \in 1..(n-1), j \in 1..(n-1) : i < j /\ r[i] = Consumer /\ r[j] = p
      BY <1>1, <2>1 DEF Behind
    <3>2. /\ i + 1 \in 1..n /\ j + 1 \in 1..n /\ i + 1 < j + 1
          /\ s[i+1] = Consumer /\ s[j+1] = p
      BY <1>1, <3>1
    <3> QED
      BY <1>1, <3>2 DEF Behind
  <2>2. ASSUME Behind(p, s) PROVE Behind(p, r)
    <3>1. PICK i \in 1..n, j \in 1..n : i < j /\ s[i] = Consumer /\ s[j] = p
      BY <1>1, <2>2 DEF Behind
    <3>2. i # 1 /\ j # 1
      BY <1>1, <1>8, <3>1
    <3>3. /\ i - 1 \in 1..(n-1) /\ j - 1 \in 1..(n-1) /\ i - 1 < j - 1
          /\ r[i-1] = Consumer /\ r[j-1] = p
      BY <1>1, <1>3, <3>1, <3>2
    <3> QED
      BY <1>1, <3>3 DEF Behind
  <2> QED
    BY <2>1, <2>2
<1>9. ASSUME Head(s) = Consumer, NEW p PROVE Behind(p, s) <=> In(p, r)
  <2>1. ASSUME Behind(p, s) PROVE In(p, r)
    <3>1. PICK i \in 1..n, j \in 1..n : i < j /\ s[i] = Consumer /\ s[j] = p
      BY <1>1, <2>1 DEF Behind
    <3>2. j # 1
      BY <1>1, <3>1
    <3>3. j - 1 \in 1..(n-1) /\ r[j-1] = p
      BY <1>3, <3>1, <3>2
    <3> QED
      BY <1>1, <3>3 DEF In
  <2>2. ASSUME In(p, r) PROVE Behind(p, s)
    <3>1. PICK j \in 1..(n-1) : r[j] = p
      BY <1>1, <2>2 DEF In
    <3>2. j + 1 \in 1..n /\ 1 < j + 1 /\ s[j+1] = p
      BY <1>1, <3>1
    <3> QED
      BY <1>1, <1>4, <1>9, <3>2 DEF Behind
  <2> QED
    BY <2>1, <2>2
<1> QED
  BY <1>0, <1>1, <1>5, <1>6, <1>7, <1>8, <1>9

(* What the operations do to the line, with trio.                          *)
LEMMA LineOf ==
    ASSUME trio, NEW e \in Events(Tasks), NEW t \in Tasks
    PROVE  /\ e.turn \in Seq(Tasks) /\ e.waiters \in Seq(Tasks)
           /\ Reach(e, t) = [set |-> e.set, turn |-> Append(e.turn, t), waiters |-> e.waiters]
           /\ e.turn # <<>> /\ Head(e.turn) = t =>
                /\ AfterSet(e, t) = [set |-> TRUE, turn |-> Tail(e.turn) \o e.waiters,
                                     waiters |-> <<>>]
                /\ AfterClear(e, t) = [set |-> FALSE, turn |-> Tail(e.turn),
                                       waiters |-> e.waiters]
                /\ AfterWait(e, t) = [set |-> e.set, turn |-> Tail(e.turn),
                                      waiters |-> e.waiters]
                /\ AfterBlock(e, t) = [set |-> e.set, turn |-> Tail(e.turn),
                                       waiters |-> Append(e.waiters, t)]
<1>1. /\ e.turn \in Seq(Tasks) /\ e.waiters \in Seq(Tasks)
      /\ e = [set |-> e.set, turn |-> e.turn, waiters |-> e.waiters]
  BY DEF Events
<1>2. Reach(e, t) = [set |-> e.set, turn |-> Append(e.turn, t), waiters |-> e.waiters]
  BY <1>1 DEF Reach
<1>3. ASSUME e.turn # <<>>, Head(e.turn) = t
      PROVE  /\ AfterSet(e, t) = [set |-> TRUE, turn |-> Tail(e.turn) \o e.waiters,
                                  waiters |-> <<>>]
             /\ AfterClear(e, t) = [set |-> FALSE, turn |-> Tail(e.turn),
                                    waiters |-> e.waiters]
             /\ AfterWait(e, t) = [set |-> e.set, turn |-> Tail(e.turn),
                                   waiters |-> e.waiters]
             /\ AfterBlock(e, t) = [set |-> e.set, turn |-> Tail(e.turn),
                                    waiters |-> Append(e.waiters, t)]
  <2>1. Leave(e, t) = [set |-> e.set, turn |-> Tail(e.turn), waiters |-> e.waiters]
    <3>1. PICK u : u = IF Holds(e, t) THEN Tail(e.turn) ELSE e.turn
      OBVIOUS
    <3>2. Leave(e, t) = [e EXCEPT !.turn = u]
      BY <3>1 DEF Leave
    <3>3. [e EXCEPT !.turn = u] = [set |-> e.set, turn |-> u, waiters |-> e.waiters]
      BY <1>1
    <3>4. u = Tail(e.turn)
      BY <1>3, <3>1 DEF Holds
    <3> QED
      BY <3>2, <3>3, <3>4
  <2>2. PICK l : l = Leave(e, t)
    OBVIOUS
  <2>3. PICK s, u, w : s = e.set /\ u = Tail(e.turn) /\ w = e.waiters
    OBVIOUS
  <2>4. l = [set |-> s, turn |-> u, waiters |-> w]
    BY <2>1, <2>2, <2>3
  <2>5. AfterSet(e, t) = [set |-> TRUE, turn |-> Tail(e.turn) \o e.waiters,
                          waiters |-> <<>>]
    BY <2>1 DEF AfterSet
  <2>6. AfterClear(e, t) = [set |-> FALSE, turn |-> Tail(e.turn), waiters |-> e.waiters]
    <3>1. AfterClear(e, t) = [l EXCEPT !.set = FALSE]
      BY <2>2, Zenon DEF AfterClear
    <3> QED
      BY <2>3, <2>4, <3>1
  <2>7. AfterBlock(e, t) = [set |-> e.set, turn |-> Tail(e.turn),
                            waiters |-> Append(e.waiters, t)]
    <3>1. PICK v : v = Append(w, t)
      OBVIOUS
    <3>2. Append(Leave(e, t).waiters, t) = v
      BY <2>2, <2>4, <3>1
    <3>3. AfterBlock(e, t) = [l EXCEPT !.waiters = v]
      BY <2>2, <3>2, Zenon DEF AfterBlock
    <3> QED
      BY <2>3, <2>4, <3>1, <3>3
  <2> QED
    BY <2>1, <2>5, <2>6, <2>7 DEF AfterWait
<1> QED
  BY <1>1, <1>2, <1>3

(* trio: an accepted event's task joins the line of has_events.set().      *)
LEMMA TrioAccept ==
    ASSUME IInv, trio, TrioLine, NEW p \in Producers, ~Setting(p), queue' # <<>>,
           hasEvents' = Reach(hasEvents, p), pc' = [pc EXCEPT ![p] = "set"]
    PROVE  (Flagged /\ TrioLine)'
<1>1. /\ p \in Tasks /\ p # Consumer /\ Consumer \in Tasks
      /\ \A q \in Producers : q \in Tasks
  BY DEF Tasks, Producers, Consumer
<1>2. /\ pc'[Consumer] = pc[Consumer] /\ Setting(p)'
      /\ \A q \in Producers : Setting(q)' <=> Setting(q) \/ q = p
  BY <1>1 DEF Setting, IInv, TypeOK
<1>3. /\ Turn \in Seq(Tasks) /\ Turn' = Append(Turn, p) /\ Parked' = Parked
  <2>1. hasEvents \in Events(Tasks)
    BY DEF IInv, TypeOK
  <2>2. hasEvents' = [set |-> hasEvents.set, turn |-> Append(hasEvents.turn, p),
                      waiters |-> hasEvents.waiters]
    BY <1>1, <2>1, LineOf
  <2> QED
    BY <2>1, <2>2 DEF Turn, Parked, Events
<1>4. ~In(p, Turn)
  BY DEF TrioLine
<1>5. /\ Distinct(Turn') /\ \A x : In(x, Turn') <=> In(x, Turn) \/ x = p
      /\ In(Consumer, Turn) => Behind(p, Turn')
  BY <1>1, <1>3, <1>4, Joining DEF TrioLine
<1> QED
  BY <1>1, <1>2, <1>3, <1>5 DEF Flagged, TrioLine

(* trio: set() puts the flag up and the parked consumer into the line.     *)
LEMMA TrioSetEvents ==
    ASSUME IInv, trio, Flagged, TrioLine, NEW p \in Producers, SetEvents(p)
    PROVE  (Flagged /\ TrioLine)'
<1>1. /\ p \in Tasks /\ p # Consumer /\ Consumer \in Tasks
      /\ \A q \in Producers : q \in Tasks /\ q # Consumer
  BY DEF Tasks, Producers, Consumer
<1>2. /\ pc'[Consumer] = pc[Consumer] /\ queue' = queue /\ Setting(p)
      /\ \A q \in Producers : Setting(q)' <=> Setting(q) /\ q # p
  BY <1>1 DEF SetEvents, Setting, IInv, TypeOK
<1>3. /\ Turn \in Seq(Tasks) /\ Turn # <<>> /\ Head(Turn) = p
      /\ hasEvents'.set /\ Turn' = Tail(Turn) \o Parked /\ Parked' = <<>>
  <2>1. hasEvents \in Events(Tasks)
    BY DEF IInv, TypeOK
  <2>2. hasEvents.turn # <<>> /\ Head(hasEvents.turn) = p
    BY DEF SetEvents, MayAct, Holds
  <2>3. hasEvents' = [set |-> TRUE, turn |-> Tail(hasEvents.turn) \o hasEvents.waiters,
                      waiters |-> <<>>]
    BY <1>1, <2>1, <2>2, LineOf DEF SetEvents
  <2> QED
    BY <2>1, <2>2, <2>3 DEF Turn, Parked, Events
<1>4. /\ Tail(Turn) \in Seq(Tasks) /\ Distinct(Tail(Turn))
      /\ \A x : In(x, Tail(Turn)) <=> In(x, Turn) /\ x # p
      /\ \A q : Behind(q, Tail(Turn)) <=> Behind(q, Turn)
  BY <1>1, <1>3, Leaving DEF TrioLine
<1>5. CASE Parked = <<>>
  <2>1. Turn' = Tail(Turn)
    BY <1>3, <1>4, <1>5
  <2> QED
    BY <1>1, <1>2, <1>3, <1>4, <1>5, <2>1 DEF Flagged, TrioLine
<1>6. CASE Parked = <<Consumer>> /\ pc[Consumer] = "wait"
  <2>1. Turn' = Append(Tail(Turn), Consumer)
    BY <1>1, <1>3, <1>4, <1>6
  <2>2. ~In(Consumer, Turn)
    BY <1>6 DEF TrioLine
  <2>3. /\ Distinct(Turn')
        /\ \A x : In(x, Turn') <=> In(x, Tail(Turn)) \/ x = Consumer
    BY <1>1, <1>4, <2>1, <2>2, Joining
  <2> QED
    BY <1>1, <1>2, <1>3, <1>4, <1>6, <2>3 DEF Flagged, TrioLine
<1> QED
  BY <1>5, <1>6 DEF TrioLine

(* has_events where the consumer may go on with it: in its line stand the  *)
(* producers at set(), and only they.                                      *)
Unheld(e) ==
    /\ e \in Events(Tasks) /\ e.waiters = <<>> /\ e.set = hasEvents.set
    /\ Distinct(e.turn) /\ ~In(Consumer, e.turn)
    /\ \A p \in Producers : Setting(p) <=> In(p, e.turn)

(* trio: from the popped event to clear() or to stream.handle().           *)
LEMMA TrioToHandle ==
    ASSUME IInv, trio, NEW e, Unheld(e), ToHandle(queue', e),
           queue' # <<>> => e.set \/ \E p \in Producers : Setting(p)
    PROVE  (Flagged /\ TrioLine)'
<1>1. /\ Consumer \in Tasks /\ \A q \in Producers : q \in Tasks /\ q # Consumer
  BY DEF Tasks, Producers, Consumer
<1>2. \A q \in Producers : Setting(q)' <=> Setting(q)
  BY <1>1 DEF Setting, ToHandle, IInv, TypeOK
<1>3. CASE queue' = <<>>
  <2>1. /\ pc'[Consumer] = "clear" /\ hasEvents' = Reach(e, Consumer)
    BY <1>1, <1>3 DEF ToHandle, IInv, TypeOK
  <2>2. /\ Turn' = Append(e.turn, Consumer) /\ Parked' = <<>> /\ e.turn \in Seq(Tasks)
    <3>1. e \in Events(Tasks) /\ e.waiters = <<>>
      BY DEF Unheld
    <3>2. hasEvents' = [set |-> e.set, turn |-> Append(e.turn, Consumer),
                        waiters |-> e.waiters]
      BY <1>1, <2>1, <3>1, LineOf
    <3> QED
      BY <3>1, <3>2 DEF Turn, Parked, Events
  <2>3. /\ Distinct(Turn') /\ \A x : In(x, Turn') <=> In(x, e.turn) \/ x = Consumer
        /\ \A q \in Producers : Behind(q, Turn') <=> Behind(q, e.turn)
    BY <1>1, <2>2, Joining DEF Unheld
  <2>4. \A q \in Producers : ~Behind(q, e.turn)
    BY DEF Unheld, Behind, In
  <2> QED
    BY <1>1, <1>2, <1>3, <2>1, <2>2, <2>3, <2>4 DEF Flagged, TrioLine, Unheld
<1>4. CASE queue' # <<>>
  <2>1. /\ pc'[Consumer] = "handle" /\ hasEvents' = e
    BY <1>1, <1>4 DEF ToHandle, IInv, TypeOK
  <2>2. Turn' = e.turn /\ Parked' = <<>> /\ hasEvents'.set = e.set
    BY <2>1 DEF Turn, Parked, Unheld
  <2> QED
    BY <1>1, <1>2, <1>4, <2>1, <2>2 DEF Flagged, TrioLine, Unheld
<1> QED
  BY <1>3, <1>4

(* trio: the head of the loop of _handle().                                *)
LEMMA TrioPop ==
    ASSUME IInv, trio, NEW e, Unheld(e), Pop(e),
           e.set \/ \E p \in Producers : Setting(p)
    PROVE  (Flagged /\ TrioLine)'
<1>1. /\ Consumer \in Tasks /\ \A q \in Producers : q \in Tasks /\ q # Consumer
  BY DEF Tasks, Producers, Consumer
<1>2. CASE pc' = [pc EXCEPT ![Consumer] = "set"] /\ hasEvents' = e
  <2>1. /\ pc'[Consumer] = "set" /\ \A q \in Producers : Setting(q)' <=> Setting(q)
    BY <1>1, <1>2 DEF Setting, IInv, TypeOK
  <2>2. Turn' = e.turn /\ Parked' = <<>> /\ hasEvents'.set = e.set
    BY <1>2 DEF Turn, Parked, Unheld
  <2> QED
    BY <1>1, <2>1, <2>2 DEF Flagged, TrioLine, Unheld
<1>3. CASE ToHandle(Tail(queue), e) /\ queue' = Tail(queue)
  BY <1>3, TrioToHandle
<1> QED
  BY <1>2, <1>3 DEF Pop

(* trio: steps that touch neither the event nor the queue.                 *)
LEMMA TrioFrame ==
    ASSUME Flagged, TrioLine, UNCHANGED <<queue, hasEvents>>,
           \A p \in Producers : Setting(p)' <=> Setting(p),
           \/ pc'[Consumer] = pc[Consumer]
           \/ pc[Consumer] = "handle" /\ pc'[Consumer] = "callback"
    PROVE  (Flagged /\ TrioLine)'
<1>1. Turn' = Turn /\ Parked' = Parked /\ hasEvents'.set = hasEvents.set
  BY DEF Turn, Parked
<1> QED
  BY <1>1 DEF Flagged, TrioLine

(* trio: the consumer finds the flag down and parks.                       *)
LEMMA TrioPark ==
    ASSUME IInv, trio, Flagged, TrioLine, ParkForEvents
    PROVE  (Flagged /\ TrioLine)'
<1>1. /\ Consumer \in Tasks /\ \A q \in Producers : q \in Tasks /\ q # Consumer
  BY DEF Tasks, Producers, Consumer
<1>2. /\ pc' = pc /\ queue' = queue /\ pc[Consumer] = "wait"
      /\ \A q \in Producers : Setting(q)' <=> Setting(q)
  BY DEF ParkForEvents, Setting
<1>3. /\ Turn \in Seq(Tasks) /\ Turn # <<>> /\ Head(Turn) = Consumer
      /\ hasEvents'.set = hasEvents.set /\ Turn' = Tail(Turn)
      /\ Parked' = Append(Parked, Consumer)
  <2>1. hasEvents \in Events(Tasks)
    BY DEF IInv, TypeOK
  <2>2. hasEvents.turn # <<>> /\ Head(hasEvents.turn) = Consumer
    BY DEF ParkForEvents, Blocks, MayAct, Holds
  <2>3. hasEvents' = [set |-> hasEvents.set, turn |-> Tail(hasEvents.turn),
                      waiters |-> Append(hasEvents.waiters, Consumer)]
    BY <1>1, <2>1, <2>2, LineOf DEF ParkForEvents
  <2> QED
    BY <2>1, <2>2, <2>3 DEF Turn, Parked, Events
<1>4. /\ Distinct(Tail(Turn)) /\ In(Consumer, Turn)
      /\ \A x : In(x, Tail(Turn)) <=> In(x, Turn) /\ x # Consumer
  BY <1>1, <1>3, Leaving DEF TrioLine
<1>5. Parked' = <<Consumer>>
  <2>1. Parked = <<>>
    BY <1>4 DEF TrioLine
  <2> QED
    BY <1>3, <2>1
<1> QED
  BY <1>1, <1>2, <1>3, <1>4, <1>5 DEF Flagged, TrioLine

(* trio: the consumer finds the flag up, and so an event to pop.           *)
LEMMA TrioSeen ==
    ASSUME IInv, trio, Flagged, TrioLine, EventsSeen
    PROVE  (Flagged /\ TrioLine)'
<1>1. Consumer \in Tasks /\ \A q \in Producers : q # Consumer
  BY DEF Tasks, Producers, Consumer
<1>2. PICK e : e = AfterWait(hasEvents, Consumer)
  OBVIOUS
<1>3. /\ hasEvents \in Events(Tasks) /\ hasEvents.set /\ pc[Consumer] = "wait"
      /\ hasEvents.turn # <<>> /\ Head(hasEvents.turn) = Consumer
  BY DEF EventsSeen, Returns, MayAct, Holds, IInv, TypeOK
<1>4. Turn \in Seq(Tasks) /\ Turn # <<>> /\ Head(Turn) = Consumer
  BY <1>3 DEF Turn, Events
<1>5. /\ Tail(Turn) \in Seq(Tasks) /\ Distinct(Tail(Turn)) /\ In(Consumer, Turn)
      /\ \A x : In(x, Tail(Turn)) <=> In(x, Turn) /\ x # Consumer
  BY <1>1, <1>4, Leaving DEF TrioLine
<1>6. e = [set |-> hasEvents.set, turn |-> Tail(Turn), waiters |-> Parked]
  BY <1>1, <1>2, <1>3, LineOf DEF Turn, Parked
<1>7. Parked = <<>>
  BY <1>5 DEF TrioLine
<1>8. /\ e.set = hasEvents.set /\ e.turn = Tail(Turn) /\ e.waiters = <<>>
      /\ e \in Events(Tasks)
  BY <1>3, <1>5, <1>6, <1>7 DEF Events
<1>9. Unheld(e)
  BY <1>1, <1>5, <1>8 DEF Unheld, TrioLine
<1>10. Pop(e)
  <2>1. queue # <<>>
    BY <1>3 DEF Flagged
  <2> QED
    BY <1>2, <2>1 DEF EventsSeen, ToWait
<1> QED
  BY <1>3, <1>8, <1>9, <1>10, TrioPop

(* trio: away from wait() and clear() the consumer is in no line.          *)
LEMMA TrioUnheld ==
    ASSUME IInv, TrioLine, pc[Consumer] \in {"set", "handle", "callback"}
    PROVE  Unheld(hasEvents)
  BY DEF Unheld, TrioLine, Turn, Parked, IInv, TypeOK

(* trio: the flag goes down over an empty queue, or a producer that came   *)
(* behind is about to put it up again.                                     *)
LEMMA TrioClear ==
    ASSUME IInv, trio, Flagged, TrioLine, ClearEvents
    PROVE  (Flagged /\ TrioLine)'
<1>1. /\ Consumer \in Tasks /\ \A q \in Producers : q \in Tasks /\ q # Consumer
  BY DEF Tasks, Producers, Consumer
<1>2. /\ queue' = queue /\ pc[Consumer] = "clear" /\ pc'[Consumer] = "handle"
      /\ \A q \in Producers : Setting(q)' <=> Setting(q)
  BY <1>1 DEF ClearEvents, Setting, IInv, TypeOK
<1>3. /\ Turn \in Seq(Tasks) /\ Turn # <<>> /\ Head(Turn) = Consumer
      /\ ~hasEvents'.set /\ Turn' = Tail(Turn) /\ Parked' = Parked
  <2>1. hasEvents \in Events(Tasks)
    BY DEF IInv, TypeOK
  <2>2. hasEvents.turn # <<>> /\ Head(hasEvents.turn) = Consumer
    BY DEF ClearEvents, MayAct, Holds
  <2>3. hasEvents' = [set |-> FALSE, turn |-> Tail(hasEvents.turn),
                      waiters |-> hasEvents.waiters]
    BY <1>1, <2>1, <2>2, LineOf DEF ClearEvents
  <2> QED
    BY <2>1, <2>2, <2>3 DEF Turn, Parked, Events
<1>4. /\ Distinct(Tail(Turn)) /\ In(Consumer, Turn)
      /\ \A x : In(x, Tail(Turn)) <=> In(x, Turn) /\ x # Consumer
      /\ \A q : Behind(q, Turn) <=> In(q, Tail(Turn))
  BY <1>1, <1>3, Leaving DEF TrioLine
<1>5. /\ Parked = <<>>
      /\ queue = <<>> <=> \A q \in Producers : ~Setting(q)
  BY <1>1, <1>2, <1>4 DEF TrioLine
<1> QED
  BY <1>1, <1>2, <1>3, <1>4, <1>5 DEF Flagged, TrioLine

(* trio: the end of a turn of the loop of _handle().                       *)
LEMMA TrioFinish ==
    ASSUME IInv, trio, Flagged, TrioLine, Finish, pc[Consumer] \in {"handle", "callback"}
    PROVE  (Flagged /\ TrioLine)'
<1>1. /\ Consumer \in Tasks /\ \A q \in Producers : q \in Tasks /\ q # Consumer
  BY DEF Tasks, Producers, Consumer
<1>2. Unheld(hasEvents)
  BY TrioUnheld
<1>3. CASE /\ queue = <<>> /\ pc' = [pc EXCEPT ![Consumer] = "done"]
           /\ UNCHANGED <<bufferVars, cpu>>
  <2>1. /\ pc'[Consumer] = "done" /\ queue' = <<>>
        /\ \A q \in Producers : Setting(q)' <=> Setting(q)
    BY <1>1, <1>3 DEF Setting, bufferVars, IInv, TypeOK
  <2>2. Turn' = Turn /\ Parked' = Parked
    BY <1>3 DEF Turn, Parked, bufferVars
  <2> QED
    BY <1>2, <2>1, <2>2 DEF Flagged, TrioLine, Unheld, Turn, Parked
<1>4. CASE Pop(hasEvents)
  <2>1. queue # <<>>
    BY <1>4 DEF Pop
  <2> QED
    BY <1>2, <1>4, <2>1, TrioPop DEF Flagged
<1>5. CASE ToWait(hasEvents)
  <2>1. /\ pc'[Consumer] = "wait" /\ queue' = <<>> /\ queue = <<>>
        /\ \A q \in Producers : Setting(q)' <=> Setting(q)
    BY <1>1, <1>5 DEF Setting, ToWait, IInv, TypeOK
  <2>2. /\ Turn' = Append(Turn, Consumer) /\ Parked' = Parked
        /\ hasEvents'.set = hasEvents.set /\ Turn \in Seq(Tasks)
    <3>1. hasEvents \in Events(Tasks)
      BY DEF IInv, TypeOK
    <3>2. hasEvents' = [set |-> hasEvents.set, turn |-> Append(hasEvents.turn, Consumer),
                        waiters |-> hasEvents.waiters]
      BY <1>1, <1>5, <3>1, LineOf DEF ToWait
    <3> QED
      BY <3>1, <3>2 DEF Turn, Parked, Events
  <2>3. /\ Distinct(Turn) /\ ~In(Consumer, Turn) /\ Parked = <<>>
        /\ \A q \in Producers : Setting(q) <=> In(q, Turn)
    BY <1>2 DEF Unheld, Turn, Parked
  <2>4. /\ Distinct(Turn') /\ \A x : In(x, Turn') <=> In(x, Turn) \/ x = Consumer
    BY <1>1, <2>2, <2>3, Joining
  <2> QED
    BY <1>1, <2>1, <2>2, <2>3, <2>4 DEF Flagged, TrioLine
<1> QED
  BY <1>3, <1>4, <1>5 DEF Finish

(* What the operations do to the event under asyncio, where nobody queues  *)
(* for a lock: t is at the head of the line only if set() scheduled it.    *)
LEMMA ScheduledOf ==
    ASSUME ~trio, NEW e \in Events(Tasks), NEW t \in Tasks
    PROVE  /\ e.turn \in Seq(Tasks) /\ e.waiters \in Seq(Tasks)
           /\ Reach(e, t) = e
           /\ ~(e.turn # <<>> /\ Head(e.turn) = t) =>
                /\ AfterSet(e, t) = [set |-> TRUE, turn |-> e.turn \o e.waiters,
                                     waiters |-> <<>>]
                /\ AfterClear(e, t) = [set |-> FALSE, turn |-> e.turn,
                                       waiters |-> e.waiters]
                /\ AfterWait(e, t) = e
                /\ AfterBlock(e, t) = [set |-> e.set, turn |-> e.turn,
                                       waiters |-> Append(e.waiters, t)]
           /\ e.turn # <<>> /\ Head(e.turn) = t =>
                AfterWait(e, t) = [set |-> e.set, turn |-> Tail(e.turn),
                                   waiters |-> e.waiters]
<1>1. /\ e.turn \in Seq(Tasks) /\ e.waiters \in Seq(Tasks)
      /\ e = [set |-> e.set, turn |-> e.turn, waiters |-> e.waiters]
  BY DEF Events
<1>2. Reach(e, t) = e
  BY DEF Reach
<1>3. PICK u : u = IF Holds(e, t) THEN Tail(e.turn) ELSE e.turn
  OBVIOUS
<1>4. Leave(e, t) = [set |-> e.set, turn |-> u, waiters |-> e.waiters]
  <2>1. Leave(e, t) = [e EXCEPT !.turn = u]
    BY <1>3 DEF Leave
  <2>2. [e EXCEPT !.turn = u] = [set |-> e.set, turn |-> u, waiters |-> e.waiters]
    BY <1>1
  <2> QED
    BY <2>1, <2>2
<1>5. ASSUME ~(e.turn # <<>> /\ Head(e.turn) = t)
      PROVE  /\ AfterSet(e, t) = [set |-> TRUE, turn |-> e.turn \o e.waiters,
                                  waiters |-> <<>>]
             /\ AfterClear(e, t) = [set |-> FALSE, turn |-> e.turn,
                                    waiters |-> e.waiters]
             /\ AfterWait(e, t) = e
             /\ AfterBlock(e, t) = [set |-> e.set, turn |-> e.turn,
                                    waiters |-> Append(e.waiters, t)]
  <2>1. Leave(e, t) = e
    BY <1>1, <1>3, <1>4, <1>5 DEF Holds
  <2>2. AfterSet(e, t) = [set |-> TRUE, turn |-> e.turn \o e.waiters, waiters |-> <<>>]
    BY <2>1 DEF AfterSet
  <2>3. AfterClear(e, t) = [set |-> FALSE, turn |-> e.turn, waiters |-> e.waiters]
    <3>1. AfterClear(e, t) = [e EXCEPT !.set = FALSE]
      BY <2>1, Zenon DEF AfterClear
    <3> QED
      BY <1>1, <3>1
  <2>4. AfterBlock(e, t) = [set |-> e.set, turn |-> e.turn,
                            waiters |-> Append(e.waiters, t)]
    <3>1. PICK w : w = Append(e.waiters, t)
      OBVIOUS
    <3>2. AfterBlock(e, t) = [e EXCEPT !.waiters = w]
      BY <2>1, <3>1, Zenon DEF AfterBlock
    <3> QED
      BY <1>1, <3>1, <3>2
  <2> QED
    BY <2>1, <2>2, <2>3, <2>4 DEF AfterWait
<1>6. ASSUME e.turn # <<>>, Head(e.turn) = t
      PROVE  AfterWait(e, t) = [set |-> e.set, turn |-> Tail(e.turn),
                                waiters |-> e.waiters]
  <2>1. u = Tail(e.turn)
    BY <1>3, <1>6 DEF Holds
  <2> QED
    BY <1>4, <2>1 DEF AfterWait
<1> QED
  BY <1>1, <1>2, <1>5, <1>6

(* asyncio: nobody else than t is at set() or clear().                     *)
Lone(t) == \A s \in Tasks : pc[s] \in {"set", "clear"} => s = t

(* asyncio: one turn of the loop of handle().                              *)
LEMMA AsyncioAttempt ==
    ASSUME IInv, ~trio, Flagged, AsyncioAlone, NEW p \in Producers, Lone(p),
           ~Setting(p), cpu' = p, hasEvents' = hasEvents,
           \/ queue' # <<>> /\ pc' = [pc EXCEPT ![p] = "set"]
           \/ queue' = queue /\ pc' = [pc EXCEPT ![p] = "wait"]
    PROVE  (Flagged /\ AsyncioAlone)'
<1>1. /\ p \in Tasks /\ p # Consumer /\ Consumer \in Tasks
      /\ \A q \in Producers : q \in Tasks /\ q # Consumer
  BY DEF Tasks, Producers, Consumer
<1>2. /\ pc'[Consumer] = pc[Consumer] /\ pc[Consumer] # "clear"
      /\ \A t \in Tasks : t # p => pc'[t] = pc[t]
      /\ \/ pc'[p] = "set" /\ queue' # <<>>
         \/ pc'[p] = "wait" /\ queue' = queue
  BY <1>1 DEF IInv, TypeOK, Lone
<1>3. /\ Turn' = Turn /\ Parked' = Parked /\ hasEvents'.set = hasEvents.set
  BY DEF Turn, Parked
<1>4. \A q \in Producers : ~Setting(q)
  BY <1>1 DEF Lone, Setting
<1>5. \A q \in Producers : Setting(q)' => q = p /\ pc'[p] = "set"
  BY <1>1, <1>2, <1>4 DEF Setting
<1>6. pc'[p] = "set" => Setting(p)'
  BY DEF Setting
<1>7. Flagged'
  BY <1>1, <1>2, <1>3, <1>4, <1>5, <1>6 DEF Flagged
<1>8. AsyncioAlone'
  <2>1. \A t \in Tasks : pc'[t] \in {"set", "clear"} => cpu' = t
    BY <1>1, <1>2 DEF Lone
  <2> QED
    BY <1>1, <1>2, <1>3, <1>5, <2>1 DEF AsyncioAlone
<1> QED
  BY <1>7, <1>8

(* asyncio: set() puts the flag up and schedules the parked consumer.      *)
LEMMA AsyncioSetEvents ==
    ASSUME IInv, ~trio, Flagged, AsyncioAlone, NEW p \in Producers, SetEvents(p)
    PROVE  (Flagged /\ AsyncioAlone)'
<1>1. /\ p \in Tasks /\ p # Consumer /\ Consumer \in Tasks /\ NoTask # Consumer
      /\ \A q \in Producers : q \in Tasks /\ q # Consumer
  BY DEF Tasks, Producers, Consumer, NoTask
<1>2. /\ cpu = p /\ cpu' = NoTask /\ queue' = queue /\ queue # <<>>
      /\ pc[p] = "set" /\ pc'[p] = "idle" /\ pc'[Consumer] = pc[Consumer]
      /\ \A t \in Tasks : t # p => pc'[t] = pc[t]
  BY <1>1 DEF SetEvents, MayAct, Setting, IInv, TypeOK, AsyncioAlone
<1>3. /\ hasEvents'.set /\ Turn' = Turn \o Parked /\ Parked' = <<>>
      /\ Turn \in Seq(Tasks) /\ Parked \in Seq(Tasks)
  <2>1. hasEvents \in Events(Tasks)
    BY DEF IInv, TypeOK
  <2>2. ~(hasEvents.turn # <<>> /\ Head(hasEvents.turn) = p)
    BY <1>1 DEF AsyncioAlone, Turn
  <2>3. hasEvents' = [set |-> TRUE, turn |-> hasEvents.turn \o hasEvents.waiters,
                      waiters |-> <<>>]
    BY <1>1, <2>1, <2>2, ScheduledOf DEF SetEvents
  <2> QED
    BY <2>1, <2>3 DEF Turn, Parked, Events
<1>4. \/ Turn' = <<>>
      \/ Turn' = <<Consumer>> /\ pc[Consumer] = "wait"
  <2>1. CASE Turn = <<>>
    <3>1. Turn' = Parked
      BY <1>3, <2>1
    <3> QED
      BY <3>1 DEF AsyncioAlone
  <2>2. CASE Turn = <<Consumer>> /\ pc[Consumer] = "wait" /\ Parked = <<>>
    <3>1. Turn' = Turn
      BY <1>3, <2>2
    <3> QED
      BY <2>2, <3>1
  <2> QED
    BY <2>1, <2>2 DEF AsyncioAlone
<1>5. \A t \in Tasks : pc'[t] \notin {"set", "clear"}
  BY <1>1, <1>2 DEF AsyncioAlone
<1> QED
  BY <1>1, <1>2, <1>3, <1>4, <1>5 DEF Flagged, AsyncioAlone, Setting

(* asyncio: steps that touch neither the event nor the queue.              *)
LEMMA AsyncioFrame ==
    ASSUME Flagged, AsyncioAlone, UNCHANGED <<queue, hasEvents>>,
           \A p \in Producers : Setting(p)' <=> Setting(p),
           \A t \in Tasks : pc'[t] \in {"set", "clear"} => cpu' = t,
           cpu' = Consumer => cpu = Consumer,
           \/ pc'[Consumer] = pc[Consumer]
           \/ pc[Consumer] = "handle" /\ pc'[Consumer] = "callback"
    PROVE  (Flagged /\ AsyncioAlone)'
<1>1. Turn' = Turn /\ Parked' = Parked /\ hasEvents'.set = hasEvents.set
  BY DEF Turn, Parked
<1> QED
  BY <1>1 DEF Flagged, AsyncioAlone

(* asyncio: the consumer finds the flag down and parks.                    *)
LEMMA AsyncioPark ==
    ASSUME IInv, ~trio, Flagged, AsyncioAlone, ParkForEvents
    PROVE  (Flagged /\ AsyncioAlone)'
<1>1. /\ Consumer \in Tasks /\ NoTask # Consumer
      /\ \A q \in Producers : q \in Tasks /\ q # Consumer
  BY DEF Tasks, Producers, Consumer, NoTask
<1>2. /\ pc' = pc /\ queue' = queue /\ pc[Consumer] = "wait" /\ cpu = Consumer
      /\ ~hasEvents.set /\ cpu' = NoTask
  BY DEF ParkForEvents, Blocks, MayAct
<1>3. Turn = <<>> /\ Parked = <<>>
  BY <1>1, <1>2 DEF AsyncioAlone
<1>4. hasEvents'.set = hasEvents.set /\ Turn' = <<>> /\ Parked' = <<Consumer>>
  <2>1. hasEvents \in Events(Tasks)
    BY DEF IInv, TypeOK
  <2>2. hasEvents' = [set |-> hasEvents.set, turn |-> hasEvents.turn,
                      waiters |-> Append(hasEvents.waiters, Consumer)]
    BY <1>1, <1>3, <2>1, ScheduledOf DEF ParkForEvents, Turn
  <2> QED
    BY <1>3, <2>2 DEF Turn, Parked
<1>5. \A t \in Tasks : pc'[t] \notin {"set", "clear"}
  BY <1>1, <1>2 DEF AsyncioAlone
<1> QED
  BY <1>1, <1>2, <1>3, <1>4, <1>5 DEF Flagged, AsyncioAlone, Setting

(* asyncio: from the popped event to clear() or to stream.handle().        *)
LEMMA AsyncioToHandle ==
    ASSUME IInv, ~trio, Lone(Consumer), NEW e \in Events(Tasks), e.turn = <<>>,
           e.waiters = <<>>, ToHandle(queue', e), queue' # <<>> => e.set
    PROVE  (Flagged /\ AsyncioAlone)'
<1>1. /\ Consumer \in Tasks /\ \A q \in Producers : q \in Tasks /\ q # Consumer
  BY DEF Tasks, Producers, Consumer
<1>2. \A t \in Tasks : t # Consumer => pc'[t] = pc[t] /\ pc'[t] \notin {"set", "clear"}
  BY <1>1 DEF ToHandle, Lone, IInv, TypeOK
<1>3. hasEvents' = e
  BY <1>1, ScheduledOf DEF ToHandle
<1>4. \/ queue' = <<>> /\ pc'[Consumer] = "clear" /\ cpu' = Consumer
      \/ queue' # <<>> /\ pc'[Consumer] = "handle" /\ e.set
  BY <1>1 DEF ToHandle, CpuAt, IInv, TypeOK
<1>5. Turn' = <<>> /\ Parked' = <<>> /\ hasEvents'.set = e.set
  BY <1>3 DEF Turn, Parked
<1>6. \A t \in Tasks : pc'[t] \in {"set", "clear"} => cpu' = t
  BY <1>2, <1>4
<1> QED
  BY <1>1, <1>2, <1>4, <1>5, <1>6 DEF Flagged, AsyncioAlone, Setting

(* asyncio: the head of the loop of _handle().                             *)
LEMMA AsyncioPop ==
    ASSUME IInv, ~trio, Lone(Consumer), NEW e \in Events(Tasks), e.turn = <<>>,
           e.waiters = <<>>, e.set, Pop(e)
    PROVE  (Flagged /\ AsyncioAlone)'
<1>1. /\ Consumer \in Tasks /\ \A q \in Producers : q \in Tasks /\ q # Consumer
  BY DEF Tasks, Producers, Consumer
<1>2. CASE pc' = [pc EXCEPT ![Consumer] = "set"] /\ hasEvents' = e /\ cpu' = Consumer
  <2>1. /\ pc'[Consumer] = "set"
        /\ \A t \in Tasks : t # Consumer => pc'[t] = pc[t] /\ pc'[t] \notin {"set", "clear"}
    BY <1>1, <1>2 DEF Lone, IInv, TypeOK
  <2>2. Turn' = <<>> /\ Parked' = <<>> /\ hasEvents'.set
    BY <1>2 DEF Turn, Parked
  <2>3. \A t \in Tasks : pc'[t] \in {"set", "clear"} => cpu' = t
    BY <1>2, <2>1
  <2> QED
    BY <1>1, <2>1, <2>2, <2>3 DEF Flagged, AsyncioAlone, Setting
<1>3. CASE ToHandle(Tail(queue), e) /\ queue' = Tail(queue)
  BY <1>3, AsyncioToHandle
<1> QED
  BY <1>2, <1>3 DEF Pop, CpuAt

(* asyncio: wait() returns, because the flag is up or because set() has    *)
(* scheduled the consumer, and then it still is.                           *)
LEMMA AsyncioSeen ==
    ASSUME IInv, ~trio, Flagged, AsyncioAlone, EventsSeen
    PROVE  (Flagged /\ AsyncioAlone)'
<1>1. Consumer \in Tasks /\ NoTask \notin Tasks
  BY DEF Tasks, Producers, Consumer, NoTask
<1>2. PICK e : e = AfterWait(hasEvents, Consumer)
  OBVIOUS
<1>3. /\ hasEvents \in Events(Tasks) /\ pc[Consumer] = "wait"
      /\ \/ hasEvents.set /\ cpu = Consumer
         \/ cpu = NoTask /\ Turn # <<>> /\ Head(Turn) = Consumer
  BY DEF EventsSeen, Returns, MayAct, Holds, Turn, IInv, TypeOK
<1>4. /\ hasEvents.set /\ Parked = <<>>
      /\ Turn = <<>> \/ Turn = <<Consumer>>
  BY <1>1, <1>3 DEF AsyncioAlone
<1>5. e \in Events(Tasks) /\ e.set /\ e.turn = <<>> /\ e.waiters = <<>>
  <2>1. CASE Turn = <<>>
    <3>1. e = hasEvents
      BY <1>1, <1>2, <1>3, <2>1, ScheduledOf DEF Turn
    <3> QED
      BY <1>3, <1>4, <2>1, <3>1, Zenon DEF Turn, Parked
  <2>2. CASE Turn = <<Consumer>>
    <3>1. Turn # <<>> /\ Head(Turn) = Consumer /\ Tail(Turn) = <<>>
      BY <2>2
    <3>2. e = [set |-> hasEvents.set, turn |-> Tail(Turn), waiters |-> Parked]
      BY <1>1, <1>2, <1>3, <3>1, ScheduledOf DEF Turn, Parked
    <3> QED
      <4>1. /\ e.set = hasEvents.set /\ e.turn = <<>> /\ e.waiters = <<>>
            /\ e = [set |-> e.set, turn |-> <<>>, waiters |-> <<>>]
        BY <1>4, <3>1, <3>2
      <4>2. e.set \in BOOLEAN
        BY <1>3, <4>1 DEF Events
      <4>3. \A b \in BOOLEAN :
              [set |-> b, turn |-> <<>>, waiters |-> <<>>] \in Events(Tasks)
        BY DEF Events
      <4> QED
        BY <1>4, <4>1, <4>2, <4>3
  <2> QED
    BY <1>4, <2>1, <2>2
<1>6. Lone(Consumer)
  BY <1>1, <1>3 DEF Lone, AsyncioAlone
<1>7. Pop(e)
  <2>1. queue # <<>>
    BY <1>3, <1>4 DEF Flagged
  <2> QED
    BY <1>2, <2>1 DEF EventsSeen, ToWait
<1> QED
  BY <1>5, <1>6, <1>7, AsyncioPop

(* asyncio: away from wait() nobody is parked and nobody scheduled, and    *)
(* the flag is up if the queue holds anything.                             *)
LEMMA AsyncioResting ==
    ASSUME IInv, ~trio, Flagged, AsyncioAlone,
           \/ pc[Consumer] \in {"handle", "callback"} /\ cpu = NoTask
           \/ pc[Consumer] \in {"set", "clear"}
    PROVE  /\ hasEvents \in Events(Tasks) /\ Lone(Consumer)
           /\ hasEvents.turn = <<>> /\ hasEvents.waiters = <<>>
           /\ pc[Consumer] # "clear" /\ queue # <<>> => hasEvents.set
<1>1. /\ Consumer \in Tasks /\ NoTask \notin Tasks
      /\ \A q \in Producers : q \in Tasks /\ q # Consumer
  BY DEF Tasks, Producers, Consumer, NoTask
<1>2. Lone(Consumer)
  BY <1>1 DEF Lone, AsyncioAlone
<1> QED
  BY <1>1, <1>2 DEF AsyncioAlone, Flagged, Setting, Lone, Turn, Parked, IInv, TypeOK

(* asyncio: the flag goes down over a queue that is still empty.           *)
LEMMA AsyncioClear ==
    ASSUME IInv, ~trio, Flagged, AsyncioAlone, ClearEvents
    PROVE  (Flagged /\ AsyncioAlone)'
<1>1. /\ Consumer \in Tasks /\ \A q \in Producers : q \in Tasks /\ q # Consumer
  BY DEF Tasks, Producers, Consumer
<1>2. /\ queue' = queue /\ queue = <<>> /\ pc'[Consumer] = "handle"
      /\ \A t \in Tasks : t # Consumer => pc'[t] = pc[t]
  BY <1>1 DEF ClearEvents, AsyncioAlone, IInv, TypeOK
<1>3. /\ hasEvents \in Events(Tasks) /\ Lone(Consumer)
      /\ hasEvents.turn = <<>> /\ hasEvents.waiters = <<>>
  BY AsyncioResting DEF ClearEvents
<1>4. hasEvents' = [set |-> FALSE, turn |-> hasEvents.turn, waiters |-> hasEvents.waiters]
  BY <1>1, <1>3, ScheduledOf DEF ClearEvents
<1>5. ~hasEvents'.set /\ Turn' = <<>> /\ Parked' = <<>>
  BY <1>3, <1>4 DEF Turn, Parked
<1>6. \A t \in Tasks : pc'[t] \notin {"set", "clear"}
  BY <1>2, <1>3 DEF Lone
<1> QED
  BY <1>1, <1>2, <1>5, <1>6 DEF Flagged, AsyncioAlone, Setting

(* asyncio: the end of a turn of the loop of _handle().                    *)
LEMMA AsyncioFinish ==
    ASSUME IInv, ~trio, Flagged, AsyncioAlone, Finish, cpu = NoTask,
           pc[Consumer] \in {"handle", "callback"}
    PROVE  (Flagged /\ AsyncioAlone)'
<1>1. /\ Consumer \in Tasks /\ \A q \in Producers : q \in Tasks /\ q # Consumer
  BY DEF Tasks, Producers, Consumer
<1>2. /\ hasEvents \in Events(Tasks) /\ Lone(Consumer)
      /\ hasEvents.turn = <<>> /\ hasEvents.waiters = <<>>
      /\ queue # <<>> => hasEvents.set
  BY AsyncioResting
<1>3. CASE Pop(hasEvents)
  BY <1>2, <1>3, AsyncioPop DEF Pop
<1>4. CASE /\ hasEvents' = hasEvents /\ queue' = queue /\ queue = <<>>
           /\ \/ pc' = [pc EXCEPT ![Consumer] = "done"]
              \/ pc' = [pc EXCEPT ![Consumer] = "wait"]
  <2>1. /\ pc'[Consumer] \in {"done", "wait"} /\ Turn' = <<>> /\ Parked' = <<>>
        /\ hasEvents'.set = hasEvents.set /\ ~hasEvents.set
        /\ \A t \in Tasks : pc'[t] \notin {"set", "clear"}
    BY <1>1, <1>2, <1>4 DEF Flagged, Turn, Parked, Lone, IInv, TypeOK
  <2> QED
    BY <1>1, <1>4, <2>1 DEF Flagged, AsyncioAlone, Setting
<1>5. CASE ToWait(hasEvents)
  <2>1. Reach(hasEvents, Consumer) = hasEvents
    BY DEF Reach
  <2> QED
    BY <1>4, <1>5, <2>1 DEF ToWait
<1> QED
  BY <1>3, <1>4, <1>5 DEF Finish, bufferVars

-----------------------------------------------------------------------------
(* What a turn of handle()'s loop does to has_events, with either worker.  *)
LEMMA AttemptEvents ==
    ASSUME IInv, NEW p \in Producers, NEW ev \in Offered, NEW space, Attempt(p, ev, space)
    PROVE  /\ cpu' = CpuAt(p)
           /\ \/ /\ pc' = [pc EXCEPT ![p] = "set"] /\ queue' # <<>>
                 /\ hasEvents' = Reach(hasEvents, p)
              \/ /\ pc' = [pc EXCEPT ![p] = "wait"]
                 /\ UNCHANGED <<queue, hasEvents>>
<1>1. CASE CanMerge(ev) /\ Accept(p, ev, [queue EXCEPT ![Len(queue)] =
                                            MergeInto(@, CreateQueuedEvent(ev))])
  <2>1. /\ queue \in Seq(QueuedEvents) /\ queue # <<>>
        /\ \E m : queue' = [queue EXCEPT ![Len(queue)] = m]
    BY <1>1 DEF CanMerge, Accept, IInv, TypeOK
  <2>2. DOMAIN queue' = DOMAIN queue /\ DOMAIN queue # {}
    BY <2>1, EmptySeq
  <2>3. queue' # <<>>
    BY <2>2
  <2> QED
    BY <1>1, <2>3 DEF Attempt, Accept
<1>2. CASE Accept(p, ev, Append(queue, CreateQueuedEvent(ev)))
  <2>1. queue \in Seq(QueuedEvents)
    BY DEF IInv, TypeOK
  <2>2. queue' # <<>>
    <3>1. PICK m : queue' = Append(queue, m)
      BY <1>2 DEF Accept
    <3>2. Len(queue') = Len(queue) + 1 /\ Len(queue) \in Nat
      BY <2>1, <3>1
    <3> QED
      BY <3>2
  <2> QED
    BY <1>2, <2>2 DEF Attempt, Accept
<1> QED
  BY <1>1, <1>2 DEF Attempt

(* One turn of the loop of handle(), with either worker.                   *)
LEMMA AttemptWakes ==
    ASSUME IInv, Waking, NEW p \in Producers, NEW ev \in Offered, NEW space,
           Attempt(p, ev, space), trio' = trio, ~Setting(p), ~trio => Lone(p)
    PROVE  Waking'
<1>1. /\ p \in Tasks /\ p # Consumer /\ Consumer \in Tasks
      /\ \A q \in Producers : q \in Tasks /\ q # Consumer
  BY DEF Tasks, Producers, Consumer
<1>2. /\ cpu' = CpuAt(p)
      /\ \/ /\ pc' = [pc EXCEPT ![p] = "set"] /\ queue' # <<>>
            /\ hasEvents' = Reach(hasEvents, p)
         \/ /\ pc' = [pc EXCEPT ![p] = "wait"]
            /\ UNCHANGED <<queue, hasEvents>>
  BY AttemptEvents
<1>3. CASE trio
  <2>1. CASE pc' = [pc EXCEPT ![p] = "wait"] /\ UNCHANGED <<queue, hasEvents>>
    <3>1. /\ pc'[Consumer] = pc[Consumer]
          /\ \A q \in Producers : Setting(q)' <=> Setting(q)
      BY <1>1, <2>1 DEF Setting, IInv, TypeOK
    <3> QED
      BY <1>3, <2>1, <3>1, TrioFrame DEF Waking
  <2> QED
    BY <1>2, <1>3, <2>1, TrioAccept DEF Waking
<1>4. CASE ~trio
  <2>1. cpu' = p /\ Reach(hasEvents, p) = hasEvents
    BY <1>2, <1>4 DEF CpuAt, Reach
  <2>2. /\ hasEvents' = hasEvents
        /\ \/ queue' # <<>> /\ pc' = [pc EXCEPT ![p] = "set"]
           \/ queue' = queue /\ pc' = [pc EXCEPT ![p] = "wait"]
    BY <1>2, <2>1
  <2> QED
    BY <1>4, <2>1, <2>2, AsyncioAttempt DEF Waking
<1> QED
  BY <1>3, <1>4

(* The other steps of a producer, with either worker.                      *)
LEMMA ProducerWakes ==
    ASSUME IInv, Waking, NEW p \in Producers, Producer(p)
    PROVE  Waking'
<1>1. /\ p \in Tasks /\ p # Consumer /\ Consumer \in Tasks /\ NoTask \notin Tasks
      /\ \A q \in Producers : q \in Tasks /\ q # Consumer
  BY DEF Tasks, Producers, Consumer, NoTask
<1>2. trio' = trio
  BY DEF Producer, SetEvents, ParkForSpace, SpaceSeen, Retry
<1>3. CASE SetEvents(p)
  BY <1>2, <1>3, TrioSetEvents, AsyncioSetEvents DEF Waking
<1>4. CASE ParkForSpace(p) \/ SpaceSeen(p)
  <2>1. /\ UNCHANGED <<queue, hasEvents>> /\ pc[p] = "wait" /\ pc'[Consumer] = pc[Consumer]
        /\ \A q \in Producers : Setting(q)' <=> Setting(q)
        /\ \A t \in Tasks : t # p => pc'[t] = pc[t]
        /\ ParkForSpace(p) => pc'[p] = "wait"
    BY <1>1, <1>4 DEF ParkForSpace, SpaceSeen, Setting, IInv, TypeOK
  <2>2. CASE trio
    BY <1>2, <2>1, <2>2, TrioFrame DEF Waking
  <2>3. CASE ~trio
    <3>1. cpu \in {p, NoTask} /\ AsyncioAlone
      BY <1>4, <2>3 DEF ParkForSpace, SpaceSeen, Blocks, Returns, MayAct, Waking
    <3>2. \A t \in Tasks : pc[t] \notin {"set", "clear"}
      BY <1>1, <2>1, <3>1 DEF AsyncioAlone
    <3>3. /\ ParkForSpace(p) => cpu' = NoTask
          /\ SpaceSeen(p) => cpu' = p
      BY <2>3 DEF ParkForSpace, SpaceSeen, CpuAt
    <3>4. /\ \A t \in Tasks : pc'[t] \in {"set", "clear"} => cpu' = t
          /\ cpu' = Consumer => cpu = Consumer
      BY <1>1, <1>4, <2>1, <3>2, <3>3
    <3> QED
      BY <1>2, <2>1, <2>3, <3>4, AsyncioFrame DEF Waking
  <2> QED
    BY <2>2, <2>3
<1>5. CASE Retry(p)
  <2>1. /\ held[p] \in Offered /\ ~Setting(p)
        /\ Attempt(p, held[p], AfterClear(hasSpace, p))
    BY <1>5 DEF Retry, Setting, IInv, Control
  <2>2. ~trio => Lone(p)
    BY <1>5 DEF Retry, MayAct, Lone, Waking, AsyncioAlone
  <2> QED
    BY <1>2, <2>1, <2>2, AttemptWakes
<1> QED
  BY <1>3, <1>4, <1>5 DEF Producer

(* The steps of the consumer, with either worker.                          *)
LEMMA ConsumeWakes ==
    ASSUME IInv, Waking, Consume
    PROVE  Waking'
<1>1. Consumer \in Tasks /\ NoTask \notin Tasks
      /\ \A q \in Producers : q \in Tasks /\ q # Consumer
  BY DEF Tasks, Producers, Consumer, NoTask
<1>2. trio' = trio
  BY DEF Consume, ParkForEvents, EventsSeen, SetSpace, ClearEvents, Handled, Callback
<1>3. CASE ParkForEvents \/ EventsSeen \/ ClearEvents
  BY <1>2, <1>3, TrioPark, AsyncioPark, TrioSeen, AsyncioSeen, TrioClear, AsyncioClear
  DEF Waking
<1>4. CASE SetSpace
  <2>1. /\ pc[Consumer] = "set" /\ queue' = queue /\ ToHandle(queue', hasEvents)
    BY <1>4 DEF SetSpace
  <2>2. CASE trio
    <3>1. Unheld(hasEvents) /\ Flagged
      BY <2>1, <2>2, TrioUnheld DEF Waking
    <3>2. queue' # <<>> => hasEvents.set \/ \E p \in Producers : Setting(p)
      BY <2>1, <3>1 DEF Flagged
    <3> QED
      BY <1>2, <2>1, <2>2, <3>1, <3>2, TrioToHandle DEF Waking
  <2>3. CASE ~trio
    BY <1>2, <2>1, <2>3, AsyncioResting, AsyncioToHandle DEF Waking
  <2> QED
    BY <2>2, <2>3
<1>5. CASE Handled \/ Callback
  <2>1. /\ pc[Consumer] \in {"handle", "callback"} /\ cpu = NoTask
        /\ \/ Finish
           \/ /\ UNCHANGED <<queue, hasEvents, cpu>>
              /\ \/ pc' = pc
                 \/ pc[Consumer] = "handle" /\ pc' = [pc EXCEPT ![Consumer] = "callback"]
    BY <1>5 DEF Handled, Callback, bufferVars
  <2>2. CASE Finish
    BY <1>2, <2>1, <2>2, TrioFinish, AsyncioFinish DEF Waking
  <2>3. CASE /\ UNCHANGED <<queue, hasEvents, cpu>>
             /\ \/ pc' = pc
                \/ pc[Consumer] = "handle" /\ pc' = [pc EXCEPT ![Consumer] = "callback"]
    <3>1. /\ \/ pc'[Consumer] = pc[Consumer]
             \/ pc[Consumer] = "handle" /\ pc'[Consumer] = "callback"
          /\ \A q \in Producers : Setting(q)' <=> Setting(q)
          /\ \A t \in Tasks : t # Consumer => pc'[t] = pc[t]
      BY <1>1, <2>3 DEF Setting, IInv, TypeOK
    <3>2. CASE trio
      BY <1>2, <2>3, <3>1, <3>2, TrioFrame DEF Waking
    <3>3. CASE ~trio
      <4>1. \A t \in Tasks : pc'[t] \in {"set", "clear"} => cpu' = t
        BY <2>1, <2>3, <3>1, <3>3 DEF Waking, AsyncioAlone
      <4> QED
        BY <1>2, <2>3, <3>1, <3>3, <4>1, AsyncioFrame DEF Waking
    <3> QED
      BY <3>2, <3>3
  <2> QED
    BY <2>1, <2>2, <2>3
<1> QED
  BY <1>3, <1>4, <1>5 DEF Consume

(* Every step keeps has_events and the queue in agreement.                 *)
LEMMA StepWakes ==
    ASSUME IInv, Waking, [Next]_vars
    PROVE  Waking'
<1>1. CASE OfferRequest \/ OfferBody \/ OfferEndBody \/ OfferClosed
  <2>1. PICK p \in Producers, ev \in Offered : Call(p, ev)
    <3>1. /\ [kind |-> "Request", size |-> 0] \in Offered
          /\ \A s \in Sizes : [kind |-> "Body", size |-> s] \in Offered
          /\ [kind |-> "EndBody", size |-> 0] \in Offered
          /\ [kind |-> "StreamClosed", size |-> 0] \in Offered
          /\ "reader" \in Producers /\ "closer" \in Producers
      BY DEF Offered, Kinds, Producers
    <3> QED
      BY <1>1, <3>1 DEF OfferRequest, OfferBody, OfferEndBody, OfferClosed
  <2>2. trio' = trio /\ Attempt(p, ev, hasSpace) /\ ~Setting(p)
    BY <2>1 DEF Call, Setting
  <2>3. ~trio => Lone(p)
    <3>1. NoTask \notin Tasks
      BY DEF Tasks, Producers, Consumer, NoTask
    <3> QED
      BY <2>1, <3>1 DEF Call, Lone, Waking, AsyncioAlone
  <2> QED
    BY <2>2, <2>3, AttemptWakes
<1>2. CASE UNCHANGED vars
  <2>1. Turn' = Turn /\ Parked' = Parked /\ \A q \in Producers : Setting(q)' <=> Setting(q)
    BY <1>2 DEF vars, Turn, Parked, Setting
  <2> QED
    BY <1>2, <2>1 DEF vars, Waking, Flagged, TrioLine, AsyncioAlone
<1> QED
  BY <1>1, <1>2, ProducerWakes, ConsumeWakes DEF Next

(* __init__ and the start of _handle(): the consumer reaches wait().       *)
LEMMA InitWakes == Init => Waking
<1> SUFFICES ASSUME Init PROVE Waking
  OBVIOUS
<1>1. /\ Consumer \in Tasks /\ \A q \in Producers : q \in Tasks /\ q # Consumer
      /\ \A t \in Tasks : t = Consumer \/ t \in Producers
  BY DEF Tasks, Producers, Consumer
<1>2. /\ queue = <<>> /\ pc[Consumer] = "wait" /\ \A q \in Producers : pc[q] = "idle"
      /\ \A t \in Tasks : pc[t] \notin {"set", "clear"}
  BY <1>1 DEF Init
<1>3. hasEvents = [set |-> FALSE, turn |-> IF trio THEN <<Consumer>> ELSE <<>>,
                   waiters |-> <<>>]
  <2>1. hasEvents = IF trio THEN [NewEvent EXCEPT !.turn = Append(@, Consumer)]
                            ELSE NewEvent
    BY DEF Init, Reach
  <2>2. Append(<<>>, Consumer) = <<Consumer>>
    OBVIOUS
  <2> QED
    BY <2>1, <2>2 DEF NewEvent
<1>4. ~hasEvents.set /\ Turn = (IF trio THEN <<Consumer>> ELSE <<>>) /\ Parked = <<>>
  BY <1>3 DEF Turn, Parked
<1>5. Flagged
  BY <1>2, <1>4 DEF Flagged, Setting
<1>6. CASE trio
  <2>1. /\ Distinct(Turn) /\ \A x : In(x, Turn) <=> x = Consumer
    BY <1>4, <1>6 DEF Distinct, In
  <2> QED
    BY <1>1, <1>2, <1>4, <1>5, <1>6, <2>1 DEF Waking, TrioLine, Setting
<1>7. CASE ~trio
  BY <1>1, <1>2, <1>4, <1>5, <1>7 DEF Waking, AsyncioAlone, Setting
<1> QED
  BY <1>6, <1>7

(* In every behaviour has_events says of the queue what the consumer needs.*)
THEOREM Wakes == Spec => []Waking
<1>1. IInv /\ Waking /\ [Next]_vars => Waking'
  BY StepWakes
<1> QED
  BY <1>1, InitWakes, Invariance, PTL DEF Spec

(* What a waiting consumer may rely on.                                    *)
LEMMA WakesFollows ==
    ASSUME IInv, Waking
    PROVE  WakesExactly
<1>1. NoSpin
  <2> SUFFICES ASSUME pc[Consumer] = "wait", Returns(hasEvents, Consumer, cpu)
               PROVE  queue # <<>>
    BY DEF NoSpin
  <2>1. hasEvents.set
    BY DEF Returns, Waking, AsyncioAlone, Holds, Turn
  <2> QED
    BY <2>1 DEF Waking, Flagged
<1>2. NoLostEvent
  BY DEF NoLostEvent, Waking, Flagged, Setting
<1> QED
  BY <1>1, <1>2 DEF WakesExactly

(* The consumer that waits on has_events is let past exactly when there is *)
(* something to pop, under both workers and whatever the number of events: *)
(* it never spins on a flag left set over an empty queue, and no event     *)
(* lies in the queue unseen because a clear() undid a set().               *)
THEOREM QueueWakes == Spec => []WakesExactly
<1>1. IInv /\ Waking => WakesExactly
  BY WakesFollows
<1> QED
  BY <1>1, Invariance, Wakes, PTL
=============================================================================
