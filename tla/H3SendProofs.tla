----------------------------- MODULE H3SendProofs -----------------------------
(***************************************************************************)
(* For every number of streams, every limit and either runtime: the window *)
(* of HTTP/3's pending operations, the order in which the H3Connection     *)
(* gets them and the end of a response, all from one inductive invariant   *)
(* (IInv).  The count of the bytes is a sum over a finite set, which needs *)
(* an induction: by the smallest subset for which the sum would be wrong.  *)
(***************************************************************************)
EXTENDS H3Send, FiniteSetTheorems, WellFoundedInduction, SequenceTheorems, TLAPS

-----------------------------------------------------------------------------
(* Where each task may be, and what it holds there: the sender that has    *)
(* met an error only completes, fails what is left and ends.               *)
Places ==
    /\ \A s \in Streams :
         /\ pc[s] \in {"idle", "full", "set", "end", "done"}
         /\ pc[s] \in {"full", "set", "end"} => held[s].on \in Operations
    /\ pc[Sender] \in {"wait", "clear", "flush", "complete", "again", "fail", "done"}
    /\ pc[Closer] \in {"idle", "fail", "wake", "done"}
    /\ error => pc[Sender] \in {"complete", "fail", "done"}
    /\ \A t \in {Sender, Closer} : pc[t] = "fail" => closed \/ error

(* The queue follows what the connection has taken, and until something    *)
(* ends it is exactly the rest of what was accepted.                       *)
Queued ==
    /\ \A i \in 1..Len(handed) : handed[i] = i
    /\ \A i \in 1..Len(queue) : queue[i] > Len(handed)
    /\ ~closed /\ ~error =>
         /\ failed = {}
         /\ Len(handed) + Len(queue) = Len(sends)
         /\ \A i \in 1..Len(queue) : queue[i] = Len(handed) + i
    /\ ~error => \A i \in failed : i > Len(handed)

(* What a task is completing has been handed over, or sent, or has failed, *)
(* and has left the window.                                                *)
Settled ==
    /\ pc[Sender] = "flush" =>
         \A i \in 1..Len(processed[Sender]) : processed[Sender][i] =< Len(handed)
    /\ pc[Sender] = "complete" =>
         \A i \in 1..Len(processed[Sender]) :
             processed[Sender][i] =< flushed \/ processed[Sender][i] \in failed
    /\ \A t \in {Sender, Closer} :
         pc[t] \in {"complete", "fail"} => Head(processed[t]) \notin pending

(* wait() returns, or is about to: only for what has left the window.      *)
Sprung(e) == e.set \/ (~trio /\ e.turn # <<>>)

Released(events, window) == \A i \in 1..Len(events) : Sprung(events[i]) => i \notin window

(* An operation is in the window, or sent, or has failed.                  *)
Honest == \A i \in Operations : i \in pending \/ i =< flushed \/ i \in failed

(* An end that was reported has been sent.                                 *)
Reported == told \subseteq 1..flushed

IInv == /\ TypeOK /\ Places /\ WithinLimits /\ Honest
        /\ Queued /\ Settled /\ Released(complete, pending) /\ Reported

-----------------------------------------------------------------------------
(* g adds up the sizes of the elements of any subset of S.                 *)
Additive(g, F, S) ==
    /\ g \in [SUBSET S -> Int]
    /\ g[{}] = 0
    /\ \A T \in SUBSET S : \A x \in T : g[T] = F[x].size + g[T \ {x}]

(* The sum of the sizes of the elements of S.                              *)
Total(F, S) == MapThenSumSet(LAMBDA i : F[i].size, S)

(* A set of finite sets, if there is any, has one with no other below it.  *)
LEMMA SmallestSet ==
    ASSUME NEW S, IsFiniteSet(S), NEW C \in SUBSET (SUBSET S), C # {}
    PROVE  \E T \in C : \A U \in C : ~(U \subseteq T /\ U # T)
<1>1. C \subseteq FiniteSubsetsOf(S)
  BY FS_Subset DEF FiniteSubsetsOf
<1>2. \E T \in C : \A U \in C : <<U, T>> \notin StrictSubsetOrdering(S)
  BY <1>1, FS_StrictSubsetOrderingWellFounded, WFMin
<1> QED
  BY <1>2 DEF StrictSubsetOrdering

(* Every finite set has its sums.                                           *)
LEMMA SumExists ==
    ASSUME NEW S, IsFiniteSet(S), NEW F, \A x \in S : F[x].size \in Int
    PROVE  \E g : Additive(g, F, S)
<1> DEFINE Bad == {T \in SUBSET S : ~ \E g : Additive(g, F, T)}
<1> SUFFICES ASSUME Bad # {} PROVE FALSE
  <2>1. S \in SUBSET S
    OBVIOUS
  <2> QED
    BY <2>1, Zenon
<1>0. Bad \in SUBSET (SUBSET S)
  OBVIOUS
<1>1. PICK T \in Bad : \A U \in Bad : ~(U \subseteq T /\ U # T)
  <2> HIDE DEF Bad
  <2> QED
    BY <1>0, SmallestSet
<1>2. T # {}
  <2>1. Additive([s \in SUBSET {} |-> 0], F, {})
    BY DEF Additive
  <2> QED
    BY <2>1
<1>3. PICK x : x \in T
  BY <1>2
<1>4. PICK h : Additive(h, F, T \ {x})
  <2>1. T \ {x} \subseteq S /\ T \ {x} # T /\ T \ {x} \subseteq T
    BY <1>3
  <2> QED
    BY <1>1, <2>1
<1> DEFINE g == [U \in SUBSET T |-> IF x \in U THEN F[x].size + h[U \ {x}] ELSE h[U]]
<1>5. Additive(g, F, T)
  <2>1. /\ h \in [SUBSET (T \ {x}) -> Int] /\ h[{}] = 0
        /\ \A U \in SUBSET (T \ {x}) : \A y \in U : h[U] = F[y].size + h[U \ {y}]
    BY <1>4 DEF Additive
  <2>2. \A U \in SUBSET T : U \ {x} \in SUBSET (T \ {x}) /\ (x \notin U => U \in SUBSET (T \ {x}))
    OBVIOUS
  <2>3. F[x].size \in Int /\ \A y \in T : F[y].size \in Int
    BY <1>3
  <2>4. g \in [SUBSET T -> Int]
    BY <2>1, <2>2, <2>3
  <2>5. g[{}] = 0
    BY <2>1
  <2>6. ASSUME NEW U \in SUBSET T, NEW y \in U
        PROVE  g[U] = F[y].size + g[U \ {y}]
    <3>1. U \ {y} \in SUBSET T
      OBVIOUS
    <3>2. CASE y = x
      <4>1. g[U] = F[x].size + h[U \ {x}]
        BY <3>2
      <4>2. g[U \ {x}] = h[U \ {x}]
        BY <3>1, <3>2
      <4> QED
        BY <3>2, <4>1, <4>2
    <3>3. CASE y # x /\ x \in U
      <4>1. g[U] = F[x].size + h[U \ {x}]
        BY <3>3
      <4>2. g[U \ {y}] = F[x].size + h[(U \ {y}) \ {x}]
        BY <3>1, <3>3
      <4>3. U \ {x} \in SUBSET (T \ {x}) /\ y \in U \ {x}
        BY <3>3
      <4>4. h[U \ {x}] = F[y].size + h[(U \ {x}) \ {y}]
        BY <2>1, <4>3
      <4>5. (U \ {x}) \ {y} = (U \ {y}) \ {x} /\ (U \ {x}) \ {y} \in SUBSET (T \ {x})
        OBVIOUS
      <4>6. h[(U \ {x}) \ {y}] \in Int
        BY <2>1, <4>5
      <4>7. F[y].size \in Int
        BY <2>3
      <4>8. PICK a, b, c : a = F[x].size /\ b = F[y].size /\ c = h[(U \ {x}) \ {y}]
        OBVIOUS
      <4>9. a \in Int /\ b \in Int /\ c \in Int /\ a + (b + c) = b + (a + c)
        BY <2>3, <4>6, <4>7, <4>8
      <4> HIDE DEF g
      <4>10. g[U] = a + (b + c)
        BY <4>1, <4>4, <4>8
      <4>11. g[U \ {y}] = a + c
        BY <4>2, <4>5, <4>8
      <4> QED
        BY <4>8, <4>9, <4>10, <4>11
    <3>4. CASE y # x /\ x \notin U
      <4>1. g[U] = h[U] /\ g[U \ {y}] = h[U \ {y}]
        BY <3>1, <3>4
      <4>2. U \in SUBSET (T \ {x})
        BY <3>4
      <4> QED
        BY <2>1, <4>1, <4>2
    <3> QED
      BY <3>2, <3>3, <3>4
  <2> HIDE DEF g
  <2> QED
    BY <2>4, <2>5, <2>6 DEF Additive
<1> QED
  BY <1>1, <1>5

(* What MapThenSumSet computes is the sum.                                  *)
LEMMA TotalIs ==
    ASSUME NEW S, IsFiniteSet(S), NEW F, NEW g, Additive(g, F, S)
    PROVE  Total(F, S) = g[S]
<1> DEFINE Step(h) == [s \in SUBSET S |->
                         IF s = {} THEN 0
                         ELSE F[CHOOSE x \in s : TRUE].size
                                + h[s \ {CHOOSE x \in s : TRUE}]]
           iter == CHOOSE h : h = Step(h)
<1>1. Total(F, S) = iter[S]
  BY DEF Total, MapThenSumSet, MapThenFoldSet
<1>2. g = Step(g)
  <2>1. \A s \in SUBSET S : s # {} =>
          g[s] = F[CHOOSE x \in s : TRUE].size + g[s \ {CHOOSE x \in s : TRUE}]
    <3> SUFFICES ASSUME NEW s \in SUBSET S, s # {}
                 PROVE  g[s] = F[CHOOSE x \in s : TRUE].size
                                 + g[s \ {CHOOSE x \in s : TRUE}]
      OBVIOUS
    <3>1. (CHOOSE x \in s : TRUE) \in s
      OBVIOUS
    <3> QED
      BY <3>1 DEF Additive
  <2>2. g \in [SUBSET S -> Int] /\ g[{}] = 0
    BY DEF Additive
  <2> QED
    BY <2>1, <2>2
<1>3. iter = Step(iter)
  BY <1>2
<1> HIDE DEF iter
<1> DEFINE Bad == {s \in SUBSET S : iter[s] # g[s]}
<1>4. ASSUME Bad # {} PROVE FALSE
  <2>1. PICK s \in Bad : \A u \in Bad : ~(u \subseteq s /\ u # s)
    <3>1. Bad \in SUBSET (SUBSET S)
      OBVIOUS
    <3> HIDE DEF Bad
    <3> QED
      BY <1>4, <3>1, SmallestSet
  <2>2. s # {}
    <3>1. iter[{}] = 0
      BY <1>3
    <3> QED
      BY <2>1, <3>1 DEF Additive
  <2>3. PICK x : x = CHOOSE y \in s : TRUE
    OBVIOUS
  <2>4. x \in s
    BY <2>2, <2>3
  <2>5. iter[s] = F[x].size + iter[s \ {x}]
    <3>1. s \in SUBSET S
      BY <2>1
    <3>2. Step(iter)[s] = F[x].size + iter[s \ {x}]
      BY <2>2, <2>3, <3>1
    <3> QED
      BY <1>3, <3>2
  <2>6. g[s] = F[x].size + g[s \ {x}]
    BY <2>4 DEF Additive
  <2>7. iter[s \ {x}] = g[s \ {x}]
    <3>1. s \ {x} \in SUBSET S /\ s \ {x} # s
      BY <2>4
    <3> QED
      BY <2>1, <3>1
  <2> QED
    BY <2>1, <2>5, <2>6, <2>7
<1> QED
  BY <1>1, <1>4

(* The sum of a set, from that of the set with one element less.           *)
LEMMA TotalSteps ==
    ASSUME NEW S, IsFiniteSet(S), NEW F, \A x \in S : F[x].size \in Nat
    PROVE  /\ Total(F, S) \in Nat
           /\ \A x \in S : Total(F, S) = F[x].size + Total(F, S \ {x})
           /\ S = {} => Total(F, S) = 0
<1>1. PICK g : Additive(g, F, S)
  BY SumExists
<1>2. Total(F, S) = g[S]
  BY <1>1, TotalIs
<1>3. ASSUME NEW T \in SUBSET S PROVE Total(F, T) = g[T]
  <2>1. IsFiniteSet(T)
    BY FS_Subset
  <2>2. PICK h : h = [U \in SUBSET T |-> g[U]]
    OBVIOUS
  <2>3. Additive(h, F, T)
    <3>1. /\ g \in [SUBSET S -> Int] /\ g[{}] = 0
          /\ \A U \in SUBSET S : \A x \in U : g[U] = F[x].size + g[U \ {x}]
      BY <1>1 DEF Additive
    <3>2. /\ \A U \in SUBSET T : h[U] = g[U] /\ U \in SUBSET S
          /\ \A U \in SUBSET T : \A x \in U : U \ {x} \in SUBSET T
          /\ {} \in SUBSET T
      BY <2>2
    <3>3. h \in [SUBSET T -> Int]
      BY <2>2, <3>1
    <3> QED
      BY <3>1, <3>2, <3>3 DEF Additive
  <2>4. h[T] = g[T]
    BY <2>2
  <2> QED
    BY <2>1, <2>3, <2>4, TotalIs
<1>4. \A x \in S : Total(F, S) = F[x].size + Total(F, S \ {x})
  BY <1>1, <1>2, <1>3 DEF Additive
<1>5. S = {} => Total(F, S) = 0
  BY <1>1, <1>2 DEF Additive
<1>6. \A T \in SUBSET S : g[T] \in Nat
  <2> DEFINE Bad == {T \in SUBSET S : g[T] \notin Nat}
  <2>1. ASSUME Bad # {} PROVE FALSE
    <3>1. PICK T \in Bad : \A U \in Bad : ~(U \subseteq T /\ U # T)
      <4>1. Bad \in SUBSET (SUBSET S)
        OBVIOUS
      <4> HIDE DEF Bad
      <4> QED
        BY <2>1, <4>1, SmallestSet
    <3>2. PICK x : x \in T
      <4>1. g[{}] = 0 /\ g[T] \notin Nat
        BY <1>1, <3>1 DEF Additive
      <4>2. T # {}
        BY <4>1
      <4> QED
        BY <4>2
    <3>3. g[T \ {x}] \in Nat
      <4>1. T \ {x} \in SUBSET S /\ T \ {x} \subseteq T /\ T \ {x} # T
        BY <3>1, <3>2
      <4> QED
        BY <3>1, <4>1
    <3>4. g[T] = F[x].size + g[T \ {x}] /\ F[x].size \in Nat
      BY <1>1, <3>1, <3>2 DEF Additive
    <3> QED
      BY <3>1, <3>3, <3>4
  <2> QED
    BY <2>1
<1> QED
  BY <1>2, <1>4, <1>5, <1>6

(* The sum of a set depends on the sizes of its elements alone.            *)
LEMMA TotalSame ==
    ASSUME NEW S, IsFiniteSet(S), NEW F, NEW G,
           \A x \in S : F[x].size \in Nat /\ G[x].size = F[x].size
    PROVE  Total(F, S) = Total(G, S)
<1>1. PICK g : Additive(g, F, S)
  BY SumExists
<1>2. Additive(g, G, S)
  BY <1>1 DEF Additive
<1> QED
  BY <1>1, <1>2, TotalIs

(* A set of operations is finite, and has its least element.               *)
LEMMA MinIn ==
    ASSUME NEW n \in Nat, NEW S \in SUBSET (1..n), S # {}
    PROVE  Min(S) \in S
<1>1. PICK N : N = 1..n /\ IsFiniteSet(N)
  BY FS_Interval
<1> DEFINE Upto(x) == {y \in S : y =< x}
           C == {Upto(x) : x \in S}
<1>2. C \in SUBSET (SUBSET N) /\ C # {}
  BY <1>1
<1>3. PICK T \in C : \A U \in C : ~(U \subseteq T /\ U # T)
  <2>1. IsFiniteSet(N)
    BY <1>1
  <2> HIDE DEF C
  <2> QED
    BY <1>2, <2>1, SmallestSet
<1>4. PICK x \in S : T = Upto(x)
  BY <1>3
<1>5. ASSUME NEW y \in S, ~(x =< y) PROVE FALSE
  <2>1. \A z \in S : z \in Nat
    OBVIOUS
  <2>2. x \in Nat /\ y \in Nat
    BY <2>1
  <2>3. Upto(y) \in C
    OBVIOUS
  <2>4. Upto(y) \subseteq T
    <3>1. \A z \in S : z =< y => z =< x
      BY <1>5, <2>1, <2>2
    <3> QED
      BY <1>4, <3>1
  <2>5. x \in T /\ x \notin Upto(y)
    BY <1>4, <1>5, <2>2
  <2> HIDE DEF C, Upto
  <2> QED
    BY <1>3, <2>3, <2>4, <2>5
<1> QED
  BY <1>5 DEF Min

-----------------------------------------------------------------------------
(* One field of an event changes.                                          *)
LEMMA FieldChanges ==
    ASSUME NEW e \in Events(Tasks), NEW u
    PROVE  /\ [e EXCEPT !.turn = u] = [set |-> e.set, turn |-> u, waiters |-> e.waiters]
           /\ [e EXCEPT !.waiters = u] = [set |-> e.set, turn |-> e.turn, waiters |-> u]
<1>1. [e EXCEPT !.turn = u] = [set |-> e.set, turn |-> u, waiters |-> e.waiters]
  BY DEF Events
<1>2. [e EXCEPT !.waiters = u] = [set |-> e.set, turn |-> e.turn, waiters |-> u]
  BY DEF Events
<1> QED
  BY <1>1, <1>2

(* The operations on an event keep its type, and only set() springs it.    *)
LEMMA EventSteps ==
    ASSUME NEW e \in Events(Tasks), NEW t \in Tasks
    PROVE  /\ Reach(e, t) \in Events(Tasks)
           /\ Sprung(Reach(e, t)) => Sprung(e)
           /\ AfterWait(e, t) \in Events(Tasks)
           /\ Sprung(AfterWait(e, t)) => Sprung(e)
           /\ AfterBlock(e, t) \in Events(Tasks)
           /\ Sprung(AfterBlock(e, t)) => Sprung(e)
           /\ AfterSet(e, t) \in Events(Tasks)
           /\ AfterClear(e, t) \in Events(Tasks)
<1>1. e.set \in BOOLEAN /\ e.turn \in Seq(Tasks) /\ e.waiters \in Seq(Tasks)
  BY DEF Events
<1>2. Reach(e, t) \in Events(Tasks) /\ (Sprung(Reach(e, t)) => Sprung(e))
  <2>1. CASE trio
    <3>0. PICK u : u = Append(e.turn, t)
      OBVIOUS
    <3>1. u \in Seq(Tasks) /\ u = Append(e.turn, t)
      BY <1>1, <3>0
    <3>2. Reach(e, t) = [e EXCEPT !.turn = u]
      BY <2>1, <3>1, Zenon DEF Reach
    <3>3. [e EXCEPT !.turn = u] = [set |-> e.set, turn |-> u, waiters |-> e.waiters]
      BY FieldChanges, Zenon
    <3> QED
      BY <1>1, <2>1, <3>1, <3>2, <3>3 DEF Events, Sprung
  <2>2. CASE ~trio
    BY <2>2 DEF Reach
  <2> QED
    BY <2>1, <2>2
<1>3. PICK l \in Events(Tasks) : /\ l = Leave(e, t) /\ l.set = e.set
                                 /\ l.turn # <<>> => e.turn # <<>>
  <2>1. PICK u : u = IF Holds(e, t) THEN Tail(e.turn) ELSE e.turn
    OBVIOUS
  <2>2. u \in Seq(Tasks) /\ (u # <<>> => e.turn # <<>>)
    BY <1>1, <2>1 DEF Holds
  <2>3. Leave(e, t) = [e EXCEPT !.turn = u]
    BY <2>1, Zenon DEF Leave
  <2>4. [e EXCEPT !.turn = u] = [set |-> e.set, turn |-> u, waiters |-> e.waiters]
    BY FieldChanges, Zenon
  <2>5. [set |-> e.set, turn |-> u, waiters |-> e.waiters] \in Events(Tasks)
    BY <1>1, <2>2 DEF Events
  <2> QED
    BY <2>2, <2>3, <2>4, <2>5
<1>4. l.set \in BOOLEAN /\ l.turn \in Seq(Tasks) /\ l.waiters \in Seq(Tasks)
  BY DEF Events
<1>5. AfterWait(e, t) \in Events(Tasks) /\ (Sprung(AfterWait(e, t)) => Sprung(e))
  BY <1>3 DEF AfterWait, Sprung
<1>6. AfterBlock(e, t) \in Events(Tasks) /\ (Sprung(AfterBlock(e, t)) => Sprung(e))
  <2>0. PICK w : w = Append(l.waiters, t)
    OBVIOUS
  <2>1. w \in Seq(Tasks) /\ w = Append(l.waiters, t)
    BY <1>4, <2>0
  <2>2. AfterBlock(e, t) = [l EXCEPT !.waiters = w]
    BY <1>3, <2>1, Zenon DEF AfterBlock
  <2>3. [l EXCEPT !.waiters = w] = [set |-> l.set, turn |-> l.turn, waiters |-> w]
    BY FieldChanges, Zenon
  <2>4. PICK b : b = AfterBlock(e, t)
    OBVIOUS
  <2>5. b = [set |-> l.set, turn |-> l.turn, waiters |-> w]
    BY <2>2, <2>3, <2>4
  <2>6. b \in Events(Tasks)
    BY <1>4, <2>1, <2>5 DEF Events
  <2>7. b.set = l.set /\ b.turn = l.turn
    BY <2>5
  <2> QED
    BY <1>3, <2>4, <2>6, <2>7 DEF Sprung
<1>7. AfterSet(e, t) \in Events(Tasks)
  <2>1. AfterSet(e, t) = [set |-> TRUE, turn |-> l.turn \o e.waiters, waiters |-> <<>>]
    BY <1>3 DEF AfterSet
  <2> QED
    BY <1>1, <1>4, <2>1 DEF Events
<1>8. AfterClear(e, t) \in Events(Tasks)
  <2>1. AfterClear(e, t) = [l EXCEPT !.set = FALSE]
    BY <1>3, Zenon DEF AfterClear
  <2>2. [l EXCEPT !.set = FALSE] \in Events(Tasks)
    BY DEF Events
  <2> QED
    BY <2>1, <2>2
<1> QED
  BY <1>2, <1>5, <1>6, <1>7, <1>8

(* The completions of the operations, none sprung that is in the window.   *)
Good(events, window) ==
    /\ events \in Seq(Events(Tasks)) /\ Len(events) = Len(sends)
    /\ Released(events, window)

(* One completion changes, to an event sprung only if it was, or if its    *)
(* operation has left the window.                                          *)
LEMMA OneChanges ==
    ASSUME NEW window, NEW events, Good(events, window), NEW i \in Operations,
           NEW e \in Events(Tasks), Sprung(e) => Sprung(events[i]) \/ i \notin window
    PROVE  Good([events EXCEPT ![i] = e], window)
<1>1. /\ events \in Seq(Events(Tasks)) /\ Len(events) = Len(sends) /\ i \in 1..Len(events)
  BY DEF Good, Operations
<1>2. PICK f : f = [events EXCEPT ![i] = e]
  OBVIOUS
<1>3. /\ f \in Seq(Events(Tasks)) /\ Len(f) = Len(events)
      /\ \A j \in 1..Len(events) : f[j] = IF j = i THEN e ELSE events[j]
  BY <1>1, <1>2
<1>4. Released(f, window)
  BY <1>3 DEF Released, Good
<1> QED
  BY <1>1, <1>2, <1>3, <1>4 DEF Good

(* The count of bytes, as a sum.                                           *)
LEMMA LimitsAs ==
    /\ WithinLimits <=> /\ Cardinality(pending) =< MaxPendingSends
                        /\ pendingBytes =< MaxPendingBytes \/ Cardinality(pending) = 1
                        /\ pendingBytes = Total(sends, pending)
    /\ WithinLimits' <=> /\ Cardinality(pending') =< MaxPendingSends
                         /\ pendingBytes' =< MaxPendingBytes \/ Cardinality(pending') = 1
                         /\ pendingBytes' = Total(sends', pending')
  BY Zenon DEF WithinLimits, Total, MapThenSumSet, MapThenFoldSet

(* The window is a finite set of operations with sizes.                    *)
LEMMA WindowTypes ==
    ASSUME TypeOK
    PROVE  /\ Len(sends) \in Nat /\ Operations = 1..Len(sends)
           /\ IsFiniteSet(pending) /\ Cardinality(pending) \in Nat
           /\ \A i \in Operations : sends[i].size \in Nat
           /\ \A i \in pending : sends[i].size \in Nat
<1>1. Len(sends) \in Nat /\ Operations = 1..Len(sends)
  BY DEF TypeOK, Operations
<1>2. IsFiniteSet(1..Len(sends))
  BY <1>1, FS_Interval
<1>3. IsFiniteSet(pending) /\ Cardinality(pending) \in Nat
  BY <1>1, <1>2, FS_Subset, FS_CardinalityType DEF TypeOK
<1>4. \A i \in Operations : sends[i].size \in Nat
  <2>1. PICK R : R = [stream : Streams, size : Nat, end : BOOLEAN]
    OBVIOUS
  <2>2. sends \in Seq(R)
    BY <2>1 DEF TypeOK
  <2>3. \A i \in 1..Len(sends) : sends[i] \in R
    BY <2>2
  <2>4. \A r \in R : r.size \in Nat
    BY <2>1
  <2> QED
    BY <1>1, <2>3, <2>4
<1> QED
  BY <1>1, <1>3, <1>4 DEF TypeOK

(* An operation that leaves the window takes its size out of the count.    *)
LEMMA WindowShrinks ==
    ASSUME TypeOK, WithinLimits, NEW op, sends' = sends, pending' = pending \ {op},
           pendingBytes' = IF op \in pending THEN pendingBytes - sends[op].size
                           ELSE pendingBytes
    PROVE  WithinLimits' /\ pendingBytes' \in Int
<1>1. /\ IsFiniteSet(pending) /\ Cardinality(pending) \in Nat
      /\ \A i \in pending : sends[i].size \in Nat
      /\ pendingBytes = Total(sends, pending)
      /\ Cardinality(pending) =< MaxPendingSends
      /\ pendingBytes =< MaxPendingBytes \/ Cardinality(pending) = 1
  BY WindowTypes, LimitsAs
<1>2. CASE op \notin pending
  <2>1. pending' = pending /\ pendingBytes' = pendingBytes
    BY <1>2
  <2> QED
    <3>1. pendingBytes' = Total(sends', pending') /\ Total(sends, pending) \in Nat
      BY <1>1, <2>1, TotalSteps
    <3>2. /\ Cardinality(pending') =< MaxPendingSends
          /\ pendingBytes' =< MaxPendingBytes \/ Cardinality(pending') = 1
      BY <1>1, <2>1
    <3>3. WithinLimits'
      BY <3>1, <3>2, LimitsAs, Zenon
    <3>4. pendingBytes' \in Int
      BY <1>1, <2>1, <3>1
    <3> QED
      BY <3>3, <3>4
<1>3. CASE op \in pending
  <2>1. /\ IsFiniteSet(pending') /\ Cardinality(pending') = Cardinality(pending) - 1
    BY <1>1, <1>3, FS_RemoveElement
  <2>2. /\ Total(sends, pending) = sends[op].size + Total(sends, pending')
        /\ sends[op].size \in Nat /\ Total(sends, pending) \in Nat
    BY <1>1, <1>3, TotalSteps
  <2>3. /\ Total(sends, pending') \in Nat
        /\ pending' = {} => Total(sends, pending') = 0
    BY <1>1, <1>3, <2>1, TotalSteps
  <2>4. pendingBytes' = Total(sends, pending')
    BY <1>1, <1>3, <2>2, <2>3
  <2>5. pendingBytes' =< MaxPendingBytes
    <3>1. CASE Cardinality(pending) = 1
      <4>1. Cardinality(pending') = 0
        BY <2>1, <3>1
      <4>2. pending' = {}
        BY <2>1, <4>1, FS_EmptySet
      <4> QED
        BY <2>3, <2>4, <4>2, H3SendAssumption
    <3>2. CASE pendingBytes =< MaxPendingBytes
      BY <1>1, <2>2, <2>3, <2>4, <3>2, H3SendAssumption
    <3> QED
      BY <1>1, <3>1, <3>2
  <2>6. Cardinality(pending') =< MaxPendingSends
    BY <1>1, <2>1, H3SendAssumption
  <2> QED
    BY <2>3, <2>4, <2>5, <2>6, LimitsAs
<1> QED
  BY <1>2, <1>3

(* An operation that enters a window that is not full adds its size to the *)
(* count.                                                                  *)
LEMMA WindowGrows ==
    ASSUME TypeOK, WithinLimits, NEW s \in Streams, NEW n \in Nat, NEW end \in BOOLEAN,
           ~Full(n), sends' = Append(sends, [stream |-> s, size |-> n, end |-> end]),
           pending' = pending \cup {Len(sends) + 1}, pendingBytes' = pendingBytes + n
    PROVE  WithinLimits' /\ pendingBytes' \in Int
<1>1. /\ IsFiniteSet(pending) /\ Cardinality(pending) \in Nat
      /\ \A i \in pending : sends[i].size \in Nat
      /\ pendingBytes = Total(sends, pending)
      /\ Cardinality(pending) =< MaxPendingSends
  BY WindowTypes, LimitsAs
<1>2. PICK id : id = Len(sends) + 1
  OBVIOUS
<1>3. pending' = pending \cup {id} /\ id \notin pending
  BY <1>2, WindowTypes DEF TypeOK
<1>4. IsFiniteSet(pending') /\ Cardinality(pending') = Cardinality(pending) + 1
  BY <1>1, <1>3, FS_AddElement
<1>5. PICK r : r = [stream |-> s, size |-> n, end |-> end]
  OBVIOUS
<1>6. r.size = n /\ sends' = Append(sends, r)
  BY <1>5
<1>7. sends'[id] = r /\ \A i \in pending : sends'[i] = sends[i]
  <2>1. PICK R : R = [stream : Streams, size : Nat, end : BOOLEAN]
    OBVIOUS
  <2>2. sends \in Seq(R) /\ r \in R
    BY <1>5, <2>1 DEF TypeOK
  <2>3. \A i \in pending : i \in 1..Len(sends)
    BY DEF TypeOK, Operations
  <2> QED
    BY <1>2, <1>6, <2>2, <2>3
<1>8. \A i \in pending' : sends'[i].size \in Nat
  BY <1>1, <1>3, <1>6, <1>7
<1>9. /\ Total(sends', pending') \in Nat
      /\ Total(sends', pending') = n + Total(sends', pending' \ {id})
  <2>1. PICK F, P : F = sends' /\ P = pending'
    OBVIOUS
  <2>2. IsFiniteSet(P) /\ \A i \in P : F[i].size \in Nat
    BY <1>4, <1>8, <2>1
  <2>3. Total(F, P) \in Nat /\ \A i \in P : Total(F, P) = F[i].size + Total(F, P \ {i})
    BY <2>2, TotalSteps
  <2>4. id \in P /\ F[id].size = n
    BY <1>3, <1>6, <1>7, <2>1
  <2> QED
    BY <2>1, <2>3, <2>4
<1>10. pending' \ {id} = pending
  BY <1>3
<1>11. Total(sends, pending) = Total(sends', pending)
  BY <1>1, <1>7, TotalSame
<1>12. Total(sends, pending) \in Nat /\ pendingBytes' = Total(sends', pending')
  <2>1. Total(sends, pending) \in Nat
    BY <1>1, TotalSteps
  <2>2. Total(sends', pending') = n + Total(sends, pending)
    BY <1>9, <1>10, <1>11
  <2> QED
    BY <1>1, <2>1, <2>2
<1>13. /\ Cardinality(pending') =< MaxPendingSends
       /\ pendingBytes' =< MaxPendingBytes \/ Cardinality(pending') = 1
  <2>1. CASE pending = {}
    <3>1. Cardinality(pending) = 0
      BY <2>1, FS_EmptySet
    <3> QED
      BY <1>4, <3>1, H3SendAssumption
  <2>2. CASE pending # {}
    <3>1. ~(Cardinality(pending) >= MaxPendingSends) /\ ~(pendingBytes + n > MaxPendingBytes)
      BY <2>2 DEF Full
    <3> QED
      BY <1>1, <1>4, <1>12, <3>1, H3SendAssumption
  <2> QED
    BY <2>1, <2>2
<1>14. WithinLimits'
  BY <1>12, <1>13, LimitsAs, Zenon
<1> QED
  BY <1>1, <1>9, <1>12, <1>14

-----------------------------------------------------------------------------
(* The types of what is accepted, queued and sent, and of who does it.     *)
DataTypes ==
    /\ trio \in BOOLEAN /\ closed \in BOOLEAN /\ error \in BOOLEAN
    /\ sends \in Seq([stream : Streams, size : Nat, end : BOOLEAN])
    /\ failed \subseteq Operations
    /\ queue \in Seq(Operations) /\ pending \subseteq Operations
    /\ pendingBytes \in Int
    /\ handed \in Seq(Operations) /\ flushed \in 0..Len(handed)
    /\ told \subseteq Operations

EventTypes ==
    /\ complete \in Seq(Events(Tasks)) /\ Len(complete) = Len(sends)
    /\ hasData \in Events(Tasks)
    /\ cpu \in Tasks \cup {NoTask}

AllPlaces == {"idle", "full", "set", "end", "done", "wait", "clear",
              "flush", "complete", "again", "fail", "wake"}

ControlTypes ==
    /\ pc \in [Tasks -> AllPlaces]
    /\ held \in [Streams -> [size : Nat, end : BOOLEAN, on : Nat]]
    /\ processed \in [{Sender, Closer} -> Seq(Operations)]
    /\ \A t \in {Sender, Closer} :
         processed[t] = <<>> <=> pc[t] \notin {"flush", "complete", "fail"}

(* The types of the one and of the other are all of them.                  *)
LEMMA TypesAs ==
    /\ TypeOK <=> DataTypes /\ EventTypes /\ ControlTypes
    /\ TypeOK' <=> DataTypes' /\ EventTypes' /\ ControlTypes'
<1>1. TypeOK <=> DataTypes /\ EventTypes /\ ControlTypes
  BY Zenon DEF TypeOK, DataTypes, EventTypes, ControlTypes, AllPlaces
<1>2. TypeOK' <=> DataTypes' /\ EventTypes' /\ ControlTypes'
  BY Zenon DEF TypeOK, DataTypes, EventTypes, ControlTypes, AllPlaces
<1> QED
  BY <1>1, <1>2

(* The tasks are different.                                                *)
LEMMA TaskTypes ==
    /\ Sender # Closer /\ Sender \in Tasks /\ Closer \in Tasks
    /\ \A s \in Streams : s \in Tasks /\ s # Sender /\ s # Closer
  BY H3SendAssumption DEF Tasks, Sender, Closer

(* The operations are numbers.                                             *)
LEMMA OperationTypes ==
    ASSUME DataTypes
    PROVE  Len(sends) \in Nat /\ \A i \in Operations : i \in Nat /\ i > 0
<1>1. PICK R : R = [stream : Streams, size : Nat, end : BOOLEAN]
  OBVIOUS
<1>2. sends \in Seq(R)
  BY <1>1 DEF DataTypes
<1> QED
  BY <1>2 DEF Operations

(* A stream goes on to `place`, with h: nothing that is being completed    *)
(* comes back into the window.                                             *)
LEMMA StreamMoves ==
    ASSUME DataTypes, ControlTypes, Places, Settled,
           NEW s \in Streams, NEW place \in {"idle", "full", "set", "end", "done"},
           NEW h \in [size : Nat, end : BOOLEAN, on : Nat],
           Goto(s, place), held' = [held EXCEPT ![s] = h], processed' = processed,
           place \in {"full", "set", "end"} => h.on \in Operations',
           Operations \subseteq Operations',
           UNCHANGED <<closed, error, failed, handed, flushed>>,
           pending' \subseteq pending \cup {Len(sends) + 1}
    PROVE  ControlTypes' /\ Places' /\ Settled'
<1>1. /\ pc' \in [Tasks -> AllPlaces] /\ pc'[s] = place
      /\ \A u \in Tasks : u # s => pc'[u] = pc[u]
      /\ pc'[Sender] = pc[Sender] /\ pc'[Closer] = pc[Closer]
  <2>1. pc \in [Tasks -> AllPlaces] /\ s \in Tasks /\ place \in AllPlaces
    BY TaskTypes DEF ControlTypes, AllPlaces
  <2> QED
    BY <2>1, TaskTypes DEF Goto
<1>2. /\ held' \in [Streams -> [size : Nat, end : BOOLEAN, on : Nat]] /\ held'[s] = h
      /\ \A u \in Streams : u # s => held'[u] = held[u]
  BY DEF ControlTypes
<1>3. processed' \in [{Sender, Closer} -> Seq(Operations')]
  <2>1. \A t \in {Sender, Closer} : processed[t] \in Seq(Operations)
    BY DEF ControlTypes
  <2>2. \A q \in Seq(Operations) : q \in Seq(Operations')
    OBVIOUS
  <2> QED
    BY <2>1, <2>2 DEF ControlTypes
<1>4. ControlTypes'
  BY <1>1, <1>2, <1>3 DEF ControlTypes, AllPlaces
<1>5. Places'
  <2>1. ASSUME NEW u \in Streams
        PROVE  /\ pc'[u] \in {"idle", "full", "set", "end", "done"}
               /\ pc'[u] \in {"full", "set", "end"} => held'[u].on \in Operations'
    BY <1>1, <1>2, TaskTypes DEF Places
  <2>2. /\ pc'[Sender] \in {"wait", "clear", "flush", "complete", "again", "fail", "done"}
        /\ pc'[Closer] \in {"idle", "fail", "wake", "done"}
        /\ error' => pc'[Sender] \in {"complete", "fail", "done"}
        /\ \A t \in {Sender, Closer} : pc'[t] = "fail" => closed' \/ error'
    BY <1>1 DEF Places
  <2> QED
    BY <2>1, <2>2 DEF Places
<1>6. Settled'
  <2>1. \A t \in {Sender, Closer} :
          pc'[t] \in {"complete", "fail"} => Head(processed'[t]) \notin pending'
    <3>1. SUFFICES ASSUME NEW t \in {Sender, Closer}, pc'[t] \in {"complete", "fail"}
                   PROVE  Head(processed[t]) \notin pending'
      OBVIOUS
    <3>2. pc[t] \in {"complete", "fail"} /\ processed[t] # <<>>
      BY <1>1, <3>1 DEF ControlTypes
    <3>3. Head(processed[t]) \in Operations
      <4>1. processed[t] \in Seq(Operations)
        BY DEF ControlTypes
      <4> QED
        BY <3>2, <4>1
    <3>4. Head(processed[t]) # Len(sends) + 1
      BY <3>3 DEF Operations, DataTypes
    <3> QED
      BY <3>2, <3>4 DEF Settled
  <2> QED
    BY <1>1, <2>1 DEF Settled
<1> QED
  BY <1>4, <1>5, <1>6

(* Where the sender or the closer may go on to, with `ops` to complete.    *)
MayGo(t, place, ops) ==
    /\ t = Sender =>
         /\ place \in {"wait", "clear", "flush", "complete", "again", "fail", "done"}
         /\ error' => place \in {"complete", "fail", "done"}
    /\ t = Closer =>
         /\ place \in {"idle", "fail", "wake", "done"}
         /\ error' => error
    /\ ops = <<>> <=> place \notin {"flush", "complete", "fail"}
    /\ place = "fail" => closed' \/ error'
    /\ place = "flush" => \A i \in 1..Len(ops) : ops[i] =< Len(handed')
    /\ place = "complete" =>
         \A i \in 1..Len(ops) : ops[i] =< flushed' \/ ops[i] \in failed'
    /\ place \in {"complete", "fail"} => Head(ops) \notin pending'

(* What a step of theirs never takes back.                                 *)
Onwards ==
    /\ closed => closed'
    /\ error => error'
    /\ pending' \subseteq pending /\ failed \subseteq failed'
    /\ Len(handed') \in Nat /\ Len(handed') >= Len(handed)
    /\ flushed' \in Nat /\ flushed' >= flushed

(* The sender or the closer goes on to `place`, to complete `ops`.         *)
LEMMA RunnerMoves ==
    ASSUME DataTypes, ControlTypes, Places, Settled, UNCHANGED <<sends, held>>,
           NEW t \in {Sender, Closer}, NEW place, NEW ops \in Seq(Operations),
           Goto(t, place), processed' = [processed EXCEPT ![t] = ops],
           Onwards, MayGo(t, place, ops)
    PROVE  ControlTypes' /\ Places' /\ Settled'
<1>0. /\ t = Sender =>
           /\ place \in {"wait", "clear", "flush", "complete", "again", "fail", "done"}
           /\ error' => place \in {"complete", "fail", "done"}
      /\ t = Closer =>
           /\ place \in {"idle", "fail", "wake", "done"}
           /\ error' => error
      /\ ops = <<>> <=> place \notin {"flush", "complete", "fail"}
      /\ place = "fail" => closed' \/ error'
      /\ place = "flush" => \A i \in 1..Len(ops) : ops[i] =< Len(handed')
      /\ place = "complete" =>
           \A i \in 1..Len(ops) : ops[i] =< flushed' \/ ops[i] \in failed'
      /\ place \in {"complete", "fail"} => Head(ops) \notin pending'
  BY DEF MayGo
<1>1. /\ pc' \in [Tasks -> AllPlaces] /\ pc'[t] = place
      /\ \A u \in Tasks : u # t => pc'[u] = pc[u]
      /\ \A s \in Streams : pc'[s] = pc[s]
  <2>1. pc \in [Tasks -> AllPlaces] /\ t \in Tasks /\ place \in AllPlaces
    BY <1>0, TaskTypes DEF ControlTypes, AllPlaces
  <2> QED
    BY <2>1, TaskTypes DEF Goto
<1>2. /\ processed' \in [{Sender, Closer} -> Seq(Operations)] /\ processed'[t] = ops
      /\ \A u \in {Sender, Closer} : u # t => processed'[u] = processed[u]
  BY DEF ControlTypes
<1>3. Operations' = Operations
  BY DEF Operations
<1>4. ControlTypes'
  <2>1. \A u \in {Sender, Closer} :
          processed'[u] = <<>> <=> pc'[u] \notin {"flush", "complete", "fail"}
    BY <1>0, <1>1, <1>2, TaskTypes DEF ControlTypes
  <2> QED
    BY <1>1, <1>2, <1>3, <2>1 DEF ControlTypes
<1>5. Places'
  <2>1. ASSUME NEW u \in Streams
        PROVE  /\ pc'[u] \in {"idle", "full", "set", "end", "done"}
               /\ pc'[u] \in {"full", "set", "end"} => held'[u].on \in Operations'
    BY <1>1, <1>3 DEF Places
  <2>2. /\ pc'[Sender] \in {"wait", "clear", "flush", "complete", "again", "fail", "done"}
        /\ pc'[Closer] \in {"idle", "fail", "wake", "done"}
        /\ error' => pc'[Sender] \in {"complete", "fail", "done"}
    BY <1>0, <1>1, TaskTypes DEF Places, Onwards
  <2>3. \A u \in {Sender, Closer} : pc'[u] = "fail" => closed' \/ error'
    BY <1>0, <1>1, TaskTypes DEF Places, Onwards
  <2> QED
    BY <2>1, <2>2, <2>3 DEF Places
<1>6. Settled'
  <2>1. pc'[Sender] = "flush" =>
          \A i \in 1..Len(processed'[Sender]) : processed'[Sender][i] =< Len(handed')
    <3>1. CASE t = Sender
      BY <1>0, <1>1, <1>2, <3>1
    <3>2. CASE t # Sender
      <4>1. pc'[Sender] = pc[Sender] /\ processed'[Sender] = processed[Sender]
        BY <1>1, <1>2, <3>2, TaskTypes
      <4>2. processed[Sender] \in Seq(Operations)
        BY DEF ControlTypes
      <4>3. \A i \in 1..Len(processed[Sender]) : processed[Sender][i] \in Nat
        BY <4>2, OperationTypes
      <4>4. Len(handed) \in Nat
        BY DEF DataTypes
      <4> QED
        BY <4>1, <4>3, <4>4 DEF Settled, Onwards
    <3> QED
      BY <3>1, <3>2
  <2>2. pc'[Sender] = "complete" =>
          \A i \in 1..Len(processed'[Sender]) :
              processed'[Sender][i] =< flushed' \/ processed'[Sender][i] \in failed'
    <3>1. CASE t = Sender
      BY <1>0, <1>1, <1>2, <3>1
    <3>2. CASE t # Sender
      <4>1. pc'[Sender] = pc[Sender] /\ processed'[Sender] = processed[Sender]
        BY <1>1, <1>2, <3>2, TaskTypes
      <4>2. processed[Sender] \in Seq(Operations)
        BY DEF ControlTypes
      <4>3. \A i \in 1..Len(processed[Sender]) : processed[Sender][i] \in Nat
        BY <4>2, OperationTypes
      <4>4. flushed \in Nat
        BY DEF DataTypes
      <4> QED
        BY <4>1, <4>3, <4>4 DEF Settled, Onwards
    <3> QED
      BY <3>1, <3>2
  <2>3. \A u \in {Sender, Closer} :
          pc'[u] \in {"complete", "fail"} => Head(processed'[u]) \notin pending'
    BY <1>0, <1>1, <1>2, TaskTypes DEF Settled, Onwards
  <2> QED
    BY <2>1, <2>2, <2>3 DEF Settled
<1> QED
  BY <1>4, <1>5, <1>6

(* Taking an operation out of the window keeps the others' completions.    *)
LEMMA GoodShrinks ==
    ASSUME NEW events, NEW window, NEW less \in SUBSET window, Good(events, window)
    PROVE  Good(events, less)
  BY DEF Good, Released

(* The completions as a step leaves them.                                  *)
LEMMA EventsAfter ==
    ASSUME Good(complete', pending'), trio' = trio, sends' = sends,
           hasData' \in Events(Tasks), cpu' \in Tasks \cup {NoTask}
    PROVE  EventTypes' /\ Released(complete, pending)'
<1>1. EventTypes'
  BY DEF Good, EventTypes
<1>2. Released(complete, pending)'
  BY DEF Good, Released, Sprung
<1> QED
  BY <1>1, <1>2

(* What a step may choose for the cpu.                                     *)
LEMMA CpuTypes == \A t \in Tasks : CpuAt(t) \in Tasks \cup {NoTask}
  BY DEF CpuAt

(* To complete an operation is to take it out of the window first.         *)
LEMMA CompletingSteps ==
    ASSUME TypeOK, WithinLimits, NEW t \in {Sender, Closer}, NEW place,
           NEW ops \in Seq(Operations), ops # <<>>, NEW events, Good(events, pending),
           Completing(t, place, ops, events), sends' = sends
    PROVE  /\ pending' = pending \ {Head(ops)} /\ pending' \subseteq pending
           /\ Head(ops) \notin pending' /\ Head(ops) \in Operations
           /\ pendingBytes' \in Int /\ WithinLimits'
           /\ Good(complete', pending')
           /\ Goto(t, place) /\ processed' = [processed EXCEPT ![t] = ops]
           /\ cpu' \in Tasks \cup {NoTask}
<1>1. PICK op : op = Head(ops)
  OBVIOUS
<1>2. op \in Operations
  BY <1>1
<1>3. /\ pending' = pending \ {op}
      /\ pendingBytes' = IF op \in pending THEN pendingBytes - sends[op].size
                         ELSE pendingBytes
      /\ complete' = [events EXCEPT ![op] = Reach(events[op], t)]
      /\ processed' = [processed EXCEPT ![t] = ops]
      /\ Goto(t, place)
      /\ cpu' = CpuAt(t)
  BY <1>1, Zenon DEF Completing
<1>4. pendingBytes' \in Int /\ WithinLimits'
  BY <1>3, WindowShrinks
<1>5. Good(complete', pending')
  <2>1. PICK b, e : b = events[op] /\ e = Reach(b, t)
    OBVIOUS
  <2>2. b \in Events(Tasks) /\ t \in Tasks
    BY <1>2, <2>1, TaskTypes DEF Good, Operations
  <2>3. e \in Events(Tasks) /\ (Sprung(e) => Sprung(b))
    BY <2>1, <2>2, EventSteps
  <2>4. Good([events EXCEPT ![op] = e], pending)
    <3>1. Sprung(e) => Sprung(events[op]) \/ op \notin pending
      BY <2>1, <2>3
    <3>2. op \in Operations /\ e \in Events(Tasks)
      BY <1>2, <2>3
    <3> QED
      BY <3>1, <3>2, OneChanges
  <2>5. pending' \in SUBSET pending
    BY <1>3
  <2> QED
    BY <1>3, <2>1, <2>4, <2>5, GoodShrinks
<1> QED
  BY <1>1, <1>2, <1>3, <1>4, <1>5, TaskTypes, CpuTypes

(* The parts make the invariant.                                           *)
LEMMA Assembled ==
    ASSUME DataTypes', EventTypes', ControlTypes', Places', WithinLimits', Honest',
           Queued', Settled', Released(complete, pending)', Reported'
    PROVE  IInv'
  BY TypesAs DEF IInv

(* One round of _fail_pending(), of run() or close(), keeps the invariant. *)
LEMMA FailNextKeeps ==
    ASSUME IInv, NEW t \in {Sender, Closer}, NEW events, Good(events, pending),
           NEW data \in Events(Tasks), FailNext(t, events, data),
           UNCHANGED <<trio, error, sends, held, historyVars>>,
           closed' \in BOOLEAN, closed => closed', closed' \/ error
    PROVE  IInv'
<1>1. /\ TypeOK /\ DataTypes /\ EventTypes /\ ControlTypes
      /\ Places /\ WithinLimits /\ Honest /\ Queued /\ Settled /\ Reported
  BY TypesAs DEF IInv
<1>2. UNCHANGED <<trio, error, sends, held, handed, flushed, told>>
  BY DEF historyVars
<1>3. Operations' = Operations
  BY <1>2 DEF Operations
<1>4. CASE queue # <<>>
  <2>1. /\ queue' = Tail(queue) /\ failed' = failed \cup {Head(queue)}
        /\ Completing(t, "fail", <<Head(queue)>>, events)
        /\ hasData' = data
    BY <1>4 DEF FailNext
  <2>2. PICK ops : ops = <<Head(queue)>>
    OBVIOUS
  <2>3. Head(queue) \in Operations /\ queue' \in Seq(Operations)
    BY <1>1, <1>4, <2>1 DEF DataTypes
  <2>4. ops \in Seq(Operations) /\ ops # <<>> /\ Head(ops) = Head(queue)
    BY <2>2, <2>3
  <2>5. /\ pending' = pending \ {Head(ops)} /\ pending' \subseteq pending
        /\ Head(ops) \notin pending' /\ Head(ops) \in Operations
        /\ pendingBytes' \in Int /\ WithinLimits'
        /\ Good(complete', pending')
        /\ Goto(t, "fail") /\ processed' = [processed EXCEPT ![t] = ops]
        /\ cpu' \in Tasks \cup {NoTask}
    BY <1>1, <1>2, <2>1, <2>2, <2>4, CompletingSteps
  <2>6. DataTypes'
    BY <1>1, <1>2, <1>3, <2>1, <2>3, <2>5 DEF DataTypes
  <2>7. EventTypes' /\ Released(complete, pending)'
    BY <1>2, <2>1, <2>5, EventsAfter
  <2>8. Len(handed) \in Nat /\ flushed \in Nat
    BY <1>1 DEF DataTypes
  <2>9. ControlTypes' /\ Places' /\ Settled'
    <3>1. Onwards
      BY <1>2, <2>1, <2>5, <2>8 DEF Onwards
    <3>2. MayGo(t, "fail", ops)
      BY <1>2, <2>4, <2>5, TaskTypes DEF MayGo
    <3> QED
      BY <1>1, <1>2, <2>4, <2>5, <3>1, <3>2, RunnerMoves
  <2>10. Honest'
    BY <1>1, <1>2, <1>3, <2>1, <2>4, <2>5 DEF Honest
  <2>11. Queued'
    <3>1. \A i \in 1..Len(queue') : queue'[i] = queue[i + 1] /\ i + 1 \in 1..Len(queue)
      BY <1>1, <1>4, <2>1 DEF DataTypes
    <3>2. Head(queue) = queue[1] /\ 1 \in 1..Len(queue)
      BY <1>1, <1>4 DEF DataTypes
    <3> QED
      BY <1>1, <1>2, <2>1, <3>1, <3>2 DEF Queued
  <2>12. Reported'
    BY <1>1, <1>2 DEF Reported
  <2> QED
    BY <2>5, <2>6, <2>7, <2>9, <2>10, <2>11, <2>12, Assembled
<1>5. CASE queue = <<>>
  <2>1. /\ complete' = events
        /\ processed' = [processed EXCEPT ![t] = <<>>]
        /\ UNCHANGED <<failed, queue, pending, pendingBytes>>
    BY <1>5 DEF FailNext, NoneToFail
  <2>2. PICK place : /\ Goto(t, place)
                     /\ place = IF t = Sender THEN "done" ELSE "wake"
    BY <1>5 DEF FailNext, NoneToFail
  <2>3. hasData' \in Events(Tasks) /\ cpu' \in Tasks \cup {NoTask}
    <3>1. \/ hasData' = data /\ cpu' = NoTask
          \/ hasData' = Reach(data, t) /\ cpu' = CpuAt(t)
      BY <1>5 DEF FailNext, NoneToFail
    <3>2. t \in Tasks /\ data \in Events(Tasks)
      BY TaskTypes
    <3>3. Reach(data, t) \in Events(Tasks) /\ CpuAt(t) \in Tasks \cup {NoTask}
      BY <3>2, CpuTypes, EventSteps
    <3> QED
      BY <3>1, <3>2, <3>3
  <2>4. DataTypes'
    BY <1>1, <1>2, <1>3, <2>1 DEF DataTypes
  <2>5. EventTypes' /\ Released(complete, pending)'
    <3>1. Good(complete', pending')
      BY <2>1
    <3> QED
      BY <1>2, <2>3, <3>1, EventsAfter
  <2>6. Len(handed) \in Nat /\ flushed \in Nat
    BY <1>1 DEF DataTypes
  <2>7. ControlTypes' /\ Places' /\ Settled'
    <3>1. PICK ops : ops = <<>>
      OBVIOUS
    <3>2. ops \in Seq(Operations) /\ processed' = [processed EXCEPT ![t] = ops]
      BY <2>1, <3>1
    <3>3. Onwards
      BY <1>2, <2>1, <2>6 DEF Onwards
    <3>4. MayGo(t, place, ops)
      BY <1>2, <2>2, <3>1, TaskTypes DEF MayGo
    <3> QED
      BY <1>1, <1>2, <2>2, <3>2, <3>3, <3>4, RunnerMoves
  <2>8. WithinLimits'
    BY <1>1, <1>2, <2>1, LimitsAs, Zenon
  <2>9. Honest' /\ Queued' /\ Reported'
    BY <1>1, <1>2, <1>3, <2>1 DEF Honest, Queued, Reported
  <2> QED
    BY <2>4, <2>5, <2>7, <2>8, <2>9, Assembled
<1> QED
  BY <1>4, <1>5

(* Taking the first n of the queue, and handing over m of them.            *)
LEMMA Batches ==
    ASSUME DataTypes, Queued, ~closed, ~error, NEW n \in 0..Len(queue), NEW m \in 0..n,
           NEW batch, batch = SubSeq(queue, 1, m)
    PROVE  /\ batch \in Seq(Operations) /\ Len(batch) = m
           /\ \A i \in 1..m : batch[i] = Len(handed) + i
           /\ handed \o batch \in Seq(Operations)
           /\ Len(handed \o batch) = Len(handed) + m
           /\ \A i \in 1..Len(handed) + m : (handed \o batch)[i] = i
           /\ SubSeq(queue, n + 1, Len(queue)) \in Seq(Operations)
           /\ Len(SubSeq(queue, n + 1, Len(queue))) = Len(queue) - n
           /\ \A i \in 1..Len(queue) - n :
                SubSeq(queue, n + 1, Len(queue))[i] = Len(handed) + n + i
<1>1. /\ queue \in Seq(Operations) /\ handed \in Seq(Operations)
      /\ Len(queue) \in Nat /\ Len(handed) \in Nat /\ n \in Nat /\ m \in Nat
      /\ m =< n /\ n =< Len(queue)
  BY DEF DataTypes
<1>2. /\ \A i \in 1..Len(handed) : handed[i] = i
      /\ \A i \in 1..Len(queue) : queue[i] = Len(handed) + i
  BY DEF Queued
<1>3. /\ batch \in Seq(Operations) /\ Len(batch) = m
      /\ \A i \in 1..m : batch[i] = queue[i] /\ i \in 1..Len(queue)
  BY <1>1
<1>4. /\ handed \o batch \in Seq(Operations) /\ Len(handed \o batch) = Len(handed) + m
      /\ \A i \in 1..Len(handed) + m :
           (handed \o batch)[i] = IF i =< Len(handed) THEN handed[i]
                                  ELSE batch[i - Len(handed)]
  BY <1>1, <1>3
<1>5. ASSUME NEW i \in 1..Len(handed) + m PROVE (handed \o batch)[i] = i
  <2>1. CASE i =< Len(handed)
    BY <1>1, <1>2, <1>4, <2>1
  <2>2. CASE i > Len(handed)
    <3>1. i - Len(handed) \in 1..m
      BY <1>1, <2>2
    <3>2. batch[i - Len(handed)] = Len(handed) + (i - Len(handed))
      BY <1>2, <1>3, <3>1
    <3> QED
      BY <1>1, <1>4, <2>2, <3>2
  <2> QED
    BY <1>1, <2>1, <2>2
<1>6. /\ SubSeq(queue, n + 1, Len(queue)) \in Seq(Operations)
      /\ Len(SubSeq(queue, n + 1, Len(queue))) = Len(queue) - n
      /\ \A i \in 1..Len(queue) - n :
           SubSeq(queue, n + 1, Len(queue))[i] = queue[n + i] /\ n + i \in 1..Len(queue)
  BY <1>1
<1>7. \A i \in 1..Len(queue) - n :
        SubSeq(queue, n + 1, Len(queue))[i] = Len(handed) + n + i
  BY <1>1, <1>2, <1>6
<1> QED
  BY <1>2, <1>3, <1>4, <1>5, <1>6, <1>7

(* The batch has at least one operation.                                   *)
LEMMA ReadyIn ==
    ASSUME DataTypes, queue # <<>>
    PROVE  Ready \in 1..Len(queue)
<1>1. Len(queue) \in Nat /\ Len(queue) > 0
  BY DEF DataTypes
<1> QED
  BY <1>1, H3SendAssumption DEF Ready

(* The head of the loop of run() keeps the invariant.                      *)
LEMMA LoopKeeps ==
    ASSUME IInv, ~error, NEW events, Good(events, pending),
           NEW data \in Events(Tasks), Loop(events, data),
           UNCHANGED <<trio, closed, sends, held, flushed, told>>
    PROVE  IInv'
<1>1. /\ TypeOK /\ DataTypes /\ EventTypes /\ ControlTypes
      /\ Places /\ WithinLimits /\ Honest /\ Queued /\ Settled /\ Reported
  BY TypesAs DEF IInv
<1>2. Operations' = Operations
  BY DEF Operations
<1>3. Len(handed) \in Nat /\ flushed \in Nat /\ Len(queue) \in Nat /\ Len(sends) \in Nat
  BY <1>1, OperationTypes DEF DataTypes
<1>4. CASE closed /\ FailNext(Sender, events, data) /\ UNCHANGED <<error, handed>>
  <2>1. UNCHANGED <<trio, error, sends, held, historyVars>>
    BY <1>4 DEF historyVars
  <2>2. closed' \in BOOLEAN /\ (closed => closed') /\ (closed' \/ error)
    BY <1>4
  <2> QED
    BY <1>4, <2>1, <2>2, FailNextKeeps
<1>5. CASE ~closed /\ Wait(events, data)
  <2>1. /\ complete' = events
        /\ hasData' = Reach(data, Sender)
        /\ Goto(Sender, "wait") /\ cpu' = CpuAt(Sender)
        /\ processed' = [processed EXCEPT ![Sender] = <<>>]
        /\ UNCHANGED <<failed, queue, pending, pendingBytes, error, handed>>
    BY <1>5 DEF Wait
  <2>2. hasData' \in Events(Tasks) /\ cpu' \in Tasks \cup {NoTask}
    BY <2>1, TaskTypes, CpuTypes, EventSteps
  <2>3. DataTypes'
    BY <1>1, <1>2, <2>1 DEF DataTypes
  <2>4. EventTypes' /\ Released(complete, pending)'
    <3>1. Good(complete', pending')
      BY <2>1
    <3> QED
      BY <2>2, <3>1, EventsAfter
  <2>5. ControlTypes' /\ Places' /\ Settled'
    <3>1. PICK ops : ops = <<>>
      OBVIOUS
    <3>2. ops \in Seq(Operations) /\ processed' = [processed EXCEPT ![Sender] = ops]
      BY <2>1, <3>1
    <3>3. Onwards
      BY <1>3, <2>1 DEF Onwards
    <3>4. MayGo(Sender, "wait", ops)
      BY <2>1, <3>1, TaskTypes DEF MayGo
    <3> QED
      BY <1>1, <2>1, <3>2, <3>3, <3>4, RunnerMoves
  <2>6. WithinLimits'
    BY <1>1, <2>1, LimitsAs, Zenon
  <2>7. Honest' /\ Queued' /\ Reported'
    BY <1>1, <1>2, <2>1 DEF Honest, Queued, Reported
  <2> QED
    BY <2>3, <2>4, <2>5, <2>6, <2>7, Assembled
<1>6. CASE ~closed /\ hasData' = data /\ Applied(events)
  <2>1. PICK ops : ops = SubSeq(queue, 1, Ready)
    OBVIOUS
  <2>2. /\ queue # <<>>
        /\ queue' = SubSeq(queue, Ready + 1, Len(queue))
        /\ handed' = handed \o ops
        /\ processed' = [processed EXCEPT ![Sender] = ops]
        /\ complete' = events
        /\ Goto(Sender, "flush") /\ cpu' = NoTask
        /\ UNCHANGED <<failed, pending, pendingBytes, error>>
    BY <1>6, <2>1 DEF Applied
  <2>3. PICK n \in Nat : n = Ready /\ n \in 1..Len(queue)
    BY <1>1, <2>2, ReadyIn
  <2>4. /\ ops \in Seq(Operations) /\ Len(ops) = n
        /\ \A i \in 1..n : ops[i] = Len(handed) + i
        /\ handed' \in Seq(Operations) /\ Len(handed') = Len(handed) + n
        /\ \A i \in 1..Len(handed) + n : handed'[i] = i
        /\ queue' \in Seq(Operations) /\ Len(queue') = Len(queue) - n
        /\ \A i \in 1..Len(queue) - n : queue'[i] = Len(handed) + n + i
    <3>1. n \in 0..Len(queue) /\ n \in 0..n
      BY <2>3
    <3>2. queue' = SubSeq(queue, n + 1, Len(queue)) /\ ops = SubSeq(queue, 1, n)
      BY <2>1, <2>2, <2>3
    <3>3. /\ ops \in Seq(Operations) /\ Len(ops) = n
          /\ \A i \in 1..n : ops[i] = Len(handed) + i
          /\ handed \o ops \in Seq(Operations) /\ Len(handed \o ops) = Len(handed) + n
          /\ \A i \in 1..Len(handed) + n : (handed \o ops)[i] = i
      <4>1. ops = SubSeq(queue, 1, n) /\ ~closed
        BY <1>6, <3>2
      <4> QED
        BY <1>1, <3>1, <4>1, Batches
    <3>4. PICK left : left = SubSeq(queue, n + 1, Len(queue))
      OBVIOUS
    <3>5. /\ left \in Seq(Operations) /\ Len(left) = Len(queue) - n
          /\ \A i \in 1..Len(queue) - n : left[i] = Len(handed) + n + i
      BY <1>1, <1>6, <3>1, <3>2, <3>4, Batches
    <3> QED
      BY <2>2, <3>2, <3>3, <3>4, <3>5
  <2>5. DataTypes'
    <3>1. flushed' \in 0..Len(handed')
      BY <1>1, <1>3, <2>4 DEF DataTypes
    <3> QED
      BY <1>1, <1>2, <2>2, <2>4, <3>1 DEF DataTypes
  <2>6. EventTypes' /\ Released(complete, pending)'
    <3>1. Good(complete', pending')
      BY <2>2
    <3> QED
      BY <1>6, <2>2, <3>1, EventsAfter
  <2>7. ControlTypes' /\ Places' /\ Settled'
    <3>1. Onwards
      BY <1>3, <2>2, <2>4 DEF Onwards
    <3>2. MayGo(Sender, "flush", ops)
      <4>1. \A i \in 1..Len(ops) : ops[i] =< Len(handed')
        BY <1>3, <2>4
      <4>2. ops # <<>>
        BY <2>3, <2>4
      <4> QED
        BY <2>2, <4>1, <4>2, TaskTypes DEF MayGo
    <3> QED
      BY <1>1, <2>2, <2>4, <3>1, <3>2, RunnerMoves
  <2>8. WithinLimits'
    BY <1>1, <2>2, LimitsAs, Zenon
  <2>9. Queued'
    <3>1. Len(handed) + Len(queue) = Len(sends) /\ failed = {}
      BY <1>1, <1>6 DEF Queued
    <3>2. Len(handed') + Len(queue') = Len(sends) /\ failed' = {}
      <4>1. failed' = {}
        BY <2>2, <3>1
      <4>2. Len(handed') = Len(handed) + n /\ Len(queue') = Len(queue) - n
        BY <2>4
      <4> QED
        BY <1>3, <2>3, <3>1, <4>1, <4>2
    <3>3. \A i \in 1..Len(queue') : queue'[i] = Len(handed') + i
      BY <1>3, <2>3, <2>4
    <3>4. \A i \in 1..Len(queue') : queue'[i] > Len(handed')
      BY <1>3, <2>3, <2>4
    <3>5. \A i \in 1..Len(handed') : handed'[i] = i
      BY <2>4
    <3> QED
      BY <3>2, <3>3, <3>4, <3>5 DEF Queued
  <2>10. Honest' /\ Reported'
    BY <1>1, <1>2, <2>2 DEF Honest, Reported
  <2> QED
    BY <2>5, <2>6, <2>7, <2>8, <2>9, <2>10, Assembled
<1>7. CASE ~closed /\ hasData' = data /\ ApplyRaises(events)
  <2>1. PICK n \in 1..Ready :
          /\ queue' = SubSeq(queue, n + 1, Len(queue))
          /\ handed' = handed \o SubSeq(queue, 1, n - 1)
          /\ error' = TRUE
          /\ failed' = failed \cup {queue[i] : i \in 1..n}
          /\ Completing(Sender, "complete", SubSeq(queue, 1, n), events)
    BY <1>7 DEF ApplyRaises
  <2>2. n \in 1..Len(queue)
    <3>1. queue # <<>>
      <4>1. queue = <<>> => Ready =< 0
        BY H3SendAssumption DEF Ready
      <4>2. Ready \in Int /\ n =< Ready /\ n >= 1
        BY <1>3, <2>1, H3SendAssumption DEF Ready
      <4> QED
        BY <4>1, <4>2
    <3> QED
      BY <1>1, <1>3, <3>1, ReadyIn
  <2>3. PICK ops, batch : ops = SubSeq(queue, 1, n) /\ batch = SubSeq(queue, 1, n - 1)
    OBVIOUS
  <2>4. n \in 0..Len(queue) /\ n \in 0..n /\ n - 1 \in 0..n /\ n \in Nat
    BY <2>2
  <2>5. /\ ops \in Seq(Operations) /\ Len(ops) = n
        /\ \A i \in 1..n : ops[i] = Len(handed) + i
    <3>1. ~closed /\ ops = SubSeq(queue, 1, n)
      BY <1>7, <2>3
    <3> QED
      BY <1>1, <2>4, <3>1, Batches
  <2>6. /\ handed' \in Seq(Operations) /\ Len(handed') = Len(handed) + (n - 1)
        /\ \A i \in 1..Len(handed) + (n - 1) : handed'[i] = i
        /\ queue' \in Seq(Operations) /\ Len(queue') = Len(queue) - n
        /\ \A i \in 1..Len(queue) - n : queue'[i] = Len(handed) + n + i
    <3>1. PICK m, left : m = n - 1 /\ left = SubSeq(queue, n + 1, Len(queue))
      OBVIOUS
    <3>2. /\ m \in 0..n /\ ~closed /\ batch = SubSeq(queue, 1, m)
      BY <1>7, <2>3, <2>4, <3>1
    <3>3. /\ handed \o batch \in Seq(Operations)
          /\ Len(handed \o batch) = Len(handed) + m
          /\ \A i \in 1..Len(handed) + m : (handed \o batch)[i] = i
      BY <1>1, <2>4, <3>2, Batches
    <3>4. /\ left \in Seq(Operations) /\ Len(left) = Len(queue) - n
          /\ \A i \in 1..Len(queue) - n : left[i] = Len(handed) + n + i
      BY <1>1, <2>4, <3>1, <3>2, Batches
    <3>5. handed' = handed \o batch /\ queue' = left
      BY <2>1, <2>3, <3>1
    <3> QED
      BY <3>1, <3>3, <3>4, <3>5
  <2>7. ops # <<>> /\ \A i \in 1..n : ops[i] \in failed' /\ ops[i] = queue[i]
    <3>1. queue \in Seq(Operations)
      BY <1>1 DEF DataTypes
    <3>2. \A i \in 1..n : ops[i] = queue[i]
      BY <2>2, <2>3, <3>1
    <3>3. \A i \in 1..n : queue[i] \in failed'
      BY <2>1
    <3>4. ops # <<>>
      BY <2>2, <2>5
    <3> QED
      BY <3>2, <3>3, <3>4
  <2>8. failed' \subseteq Operations
    BY <1>1, <2>1, <2>2 DEF DataTypes
  <2>9. /\ pending' = pending \ {Head(ops)} /\ pending' \subseteq pending
        /\ Head(ops) \notin pending' /\ Head(ops) \in Operations
        /\ pendingBytes' \in Int /\ WithinLimits'
        /\ Good(complete', pending')
        /\ Goto(Sender, "complete") /\ processed' = [processed EXCEPT ![Sender] = ops]
        /\ cpu' \in Tasks \cup {NoTask}
    BY <1>1, <2>1, <2>3, <2>5, <2>7, CompletingSteps
  <2>10. DataTypes'
    <3>1. flushed' \in 0..Len(handed')
      BY <1>1, <1>3, <2>4, <2>6 DEF DataTypes
    <3> QED
      BY <1>1, <1>2, <2>1, <2>6, <2>8, <2>9, <3>1 DEF DataTypes
  <2>11. EventTypes' /\ Released(complete, pending)'
    BY <1>7, <2>9, EventsAfter
  <2>12. ControlTypes' /\ Places' /\ Settled'
    <3>1. Onwards
      BY <1>3, <2>1, <2>4, <2>6, <2>9 DEF Onwards
    <3>2. MayGo(Sender, "complete", ops)
      BY <2>1, <2>5, <2>7, <2>9, TaskTypes DEF MayGo
    <3> QED
      BY <1>1, <2>5, <2>9, <3>1, <3>2, RunnerMoves
  <2>13. Queued'
    <3>1. \A i \in 1..Len(queue') : queue'[i] > Len(handed')
      BY <1>3, <2>4, <2>6
    <3> QED
      BY <2>1, <2>6, <3>1 DEF Queued
  <2>14. Honest'
    <3>1. Head(ops) \in failed'
      BY <2>5, <2>7, <2>2
    <3> QED
      BY <1>1, <1>2, <2>1, <2>9, <3>1 DEF Honest
  <2>15. Reported'
    BY <1>1 DEF Reported
  <2> QED
    BY <2>9, <2>10, <2>11, <2>12, <2>13, <2>14, <2>15, Assembled
<1> QED
  BY <1>4, <1>5, <1>6, <1>7 DEF Loop

-----------------------------------------------------------------------------
(* What is accepted, queued and handed over stays as it is.                *)
LEMMA DataStill ==
    ASSUME DataTypes, WithinLimits, Honest, Queued,
           UNCHANGED <<flagVars, operationVars, handed, flushed>>, told' \subseteq Operations
    PROVE  DataTypes' /\ WithinLimits' /\ Honest' /\ Queued'
<1>1. UNCHANGED <<trio, closed, error, sends, failed, queue, pending, pendingBytes,
                  handed, flushed>>
  BY DEF flagVars, operationVars
<1>2. Operations' = Operations
  BY <1>1 DEF Operations
<1>3. DataTypes'
  BY <1>1, <1>2 DEF DataTypes
<1>4. WithinLimits'
  BY <1>1, LimitsAs, Zenon
<1> QED
  BY <1>1, <1>2, <1>3, <1>4 DEF Honest, Queued

(* Nobody goes on.                                                         *)
LEMMA NobodyMoves ==
    ASSUME ControlTypes, Places, Settled,
           UNCHANGED <<flagVars, operationVars, pc, held, processed, historyVars>>
    PROVE  ControlTypes' /\ Places' /\ Settled'
<1>1. UNCHANGED <<closed, error, sends, failed, pending, pc, held, processed, handed, flushed>>
  BY DEF flagVars, operationVars, historyVars
<1>2. Operations' = Operations
  BY <1>1 DEF Operations
<1> QED
  BY <1>1, <1>2 DEF ControlTypes, Places, Settled

(* What a sender that waits sees of the completion it waits for.           *)
LEMMA WaitsFor ==
    ASSUME IInv, NEW s \in Streams, pc[s] \in {"full", "end"}
    PROVE  /\ held[s].on \in Operations
           /\ Good(complete, pending)
           /\ complete[held[s].on] \in Events(Tasks)
           /\ Good(Left(s), pending)
           /\ Good([complete EXCEPT ![held[s].on] = AfterBlock(@, s)], pending)
           /\ Returns(complete[held[s].on], s, cpu) => held[s].on \notin pending
<1>1. PICK on : on = held[s].on
  OBVIOUS
<1>2. on \in Operations
  BY <1>1 DEF IInv, Places
<1>3. Good(complete, pending)
  BY DEF Good, IInv, TypeOK
<1>4. PICK b : b = complete[on]
  OBVIOUS
<1>5. b \in Events(Tasks) /\ s \in Tasks
  BY <1>2, <1>3, <1>4, TaskTypes DEF Good, Operations
<1>6. Good([complete EXCEPT ![on] = AfterWait(b, s)], pending)
  <2>1. AfterWait(b, s) \in Events(Tasks) /\ (Sprung(AfterWait(b, s)) => Sprung(b))
    BY <1>5, EventSteps
  <2> QED
    BY <1>2, <1>3, <1>4, <2>1, OneChanges
<1>7. Good([complete EXCEPT ![on] = AfterBlock(b, s)], pending)
  <2>1. AfterBlock(b, s) \in Events(Tasks) /\ (Sprung(AfterBlock(b, s)) => Sprung(b))
    BY <1>5, EventSteps
  <2> QED
    BY <1>2, <1>3, <1>4, <2>1, OneChanges
<1>8. Returns(b, s, cpu) => on \notin pending
  <2>1. Returns(b, s, cpu) => Sprung(b)
    BY DEF Returns, Holds, Sprung
  <2> QED
    BY <1>2, <1>3, <1>4, <2>1 DEF Good, Released, Operations
<1> QED
  BY <1>1, <1>2, <1>3, <1>4, <1>5, <1>6, <1>7, <1>8 DEF Left

(* One test of the loop of _enqueue() keeps the invariant.                 *)
LEMMA AttemptKeeps ==
    ASSUME IInv, NEW s \in Streams, NEW n \in Nat, NEW end \in BOOLEAN,
           NEW events, Good(events, pending), Attempt(s, n, end, events),
           ~closed, ~error, UNCHANGED <<flagVars, processed, historyVars>>
    PROVE  IInv'
<1>1. /\ TypeOK /\ DataTypes /\ EventTypes /\ ControlTypes
      /\ Places /\ WithinLimits /\ Honest /\ Queued /\ Settled /\ Reported
  BY TypesAs DEF IInv
<1>2. UNCHANGED <<trio, closed, error, processed, handed, flushed, told>>
  BY DEF flagVars, historyVars
<1>3. s \in Tasks /\ cpu' \in Tasks \cup {NoTask}
  BY TaskTypes, CpuTypes DEF Attempt
<1>4. Len(sends) \in Nat /\ Len(queue) \in Nat /\ Len(handed) \in Nat /\ flushed \in Nat
  BY <1>1, OperationTypes DEF DataTypes
<1>5. CASE Full(n)
  <2>1. PICK oldest : oldest = Min(pending)
    OBVIOUS
  <2>2. /\ held' = [held EXCEPT ![s] = [size |-> n, end |-> end, on |-> oldest]]
        /\ complete' = [events EXCEPT ![oldest] = Reach(events[oldest], s)]
        /\ Goto(s, "full")
        /\ UNCHANGED <<operationVars, hasData>>
    BY <1>5, <2>1, Zenon DEF Attempt
  <2>3. oldest \in Operations
    <3>1. pending # {} /\ pending \in SUBSET (1..Len(sends))
      BY <1>1, <1>5 DEF Full, DataTypes, Operations
    <3>2. oldest \in pending
      BY <1>4, <2>1, <3>1, MinIn
    <3> QED
      BY <3>1, <3>2 DEF Operations
  <2>4. UNCHANGED <<sends, failed, queue, pending, pendingBytes, hasData>>
    BY <2>2 DEF operationVars
  <2>5. DataTypes' /\ WithinLimits' /\ Honest' /\ Queued'
    <3>1. told' \subseteq Operations
      BY <1>1, <1>2 DEF DataTypes
    <3> QED
      BY <1>1, <1>2, <2>2, <3>1, DataStill
  <2>6. EventTypes' /\ Released(complete, pending)'
    <3>1. PICK b : b = events[oldest]
      OBVIOUS
    <3>2. b \in Events(Tasks)
      BY <2>3, <3>1 DEF Good, Operations
    <3>3. Reach(b, s) \in Events(Tasks) /\ (Sprung(Reach(b, s)) => Sprung(b))
      BY <1>3, <3>2, EventSteps
    <3>4. Good([events EXCEPT ![oldest] = Reach(b, s)], pending)
      BY <2>3, <3>1, <3>3, OneChanges
    <3>5. Good(complete', pending')
      BY <2>2, <2>4, <3>1, <3>4
    <3>6. hasData' \in Events(Tasks)
      BY <1>1, <2>4 DEF EventTypes
    <3> QED
      BY <1>2, <1>3, <2>4, <3>5, <3>6, EventsAfter
  <2>7. ControlTypes' /\ Places' /\ Settled'
    <3>1. PICK h : h = [size |-> n, end |-> end, on |-> oldest]
      OBVIOUS
    <3>2. h \in [size : Nat, end : BOOLEAN, on : Nat] /\ h.on = oldest
      BY <1>1, <2>3, <3>1, OperationTypes
    <3>3. Operations' = Operations
      BY <2>4 DEF Operations
    <3>4. held' = [held EXCEPT ![s] = h] /\ h.on \in Operations'
      BY <2>2, <2>3, <3>1, <3>2, <3>3
    <3> QED
      BY <1>1, <1>2, <2>2, <2>4, <3>2, <3>3, <3>4, StreamMoves
  <2>8. Reported'
    BY <1>1, <1>2 DEF Reported
  <2> QED
    BY <2>5, <2>6, <2>7, <2>8, Assembled
<1>6. CASE ~Full(n)
  <2>1. PICK id, r : id = Len(sends) + 1 /\ r = [stream |-> s, size |-> n, end |-> end]
    OBVIOUS
  <2>2. /\ sends' = Append(sends, r)
        /\ queue' = Append(queue, id)
        /\ pending' = pending \cup {id}
        /\ pendingBytes' = pendingBytes + n
        /\ held' = [held EXCEPT ![s] = [size |-> n, end |-> end, on |-> id]]
        /\ complete' = Append(events, NewEvent)
        /\ hasData' = Reach(hasData, s)
        /\ Goto(s, "set")
        /\ failed' = failed
    BY <1>6, <2>1, Zenon DEF Attempt, Enqueue
  <2>3. WithinLimits' /\ pendingBytes' \in Int
    BY <1>1, <1>6, <2>1, <2>2, WindowGrows
  <2>4. /\ sends' \in Seq([stream : Streams, size : Nat, end : BOOLEAN])
        /\ Len(sends') = Len(sends) + 1
    <3>1. PICK R : R = [stream : Streams, size : Nat, end : BOOLEAN]
      OBVIOUS
    <3>2. sends \in Seq(R) /\ r \in R
      BY <1>1, <2>1, <3>1 DEF DataTypes
    <3>3. sends' \in Seq(R) /\ Len(sends') = Len(sends) + 1
      BY <2>2, <3>2
    <3> QED
      BY <3>1, <3>3
  <2>5. /\ Operations' = Operations \cup {id} /\ id \notin Operations
        /\ Operations \subseteq Operations' /\ id \in Nat
    BY <1>4, <2>1, <2>4 DEF Operations
  <2>6. \A q \in Seq(Operations) : q \in Seq(Operations')
    BY <2>5
  <2>7. queue' \in Seq(Operations')
    BY <1>1, <2>2, <2>5, <2>6 DEF DataTypes
  <2>8. DataTypes'
    <3>1. handed' \in Seq(Operations') /\ flushed' \in 0..Len(handed')
      BY <1>1, <1>2, <2>6 DEF DataTypes
    <3>2. /\ failed' \subseteq Operations' /\ pending' \subseteq Operations'
          /\ told' \subseteq Operations'
      BY <1>1, <1>2, <2>2, <2>5 DEF DataTypes
    <3>3. trio' \in BOOLEAN /\ closed' \in BOOLEAN /\ error' \in BOOLEAN
      BY <1>1, <1>2 DEF DataTypes
    <3> QED
      BY <2>3, <2>4, <2>7, <3>1, <3>2, <3>3, Zenon DEF DataTypes
  <2>9. EventTypes' /\ Released(complete, pending)'
    <3>1. PICK e : e = NewEvent
      OBVIOUS
    <3>2. e \in Events(Tasks) /\ ~Sprung(e)
      BY <3>1 DEF NewEvent, Events, Sprung
    <3>3. events \in Seq(Events(Tasks)) /\ Len(events) = Len(sends)
      BY DEF Good
    <3>4. PICK f : f = Append(events, e)
      OBVIOUS
    <3>5. /\ f \in Seq(Events(Tasks)) /\ Len(f) = Len(sends) + 1
          /\ \A i \in 1..Len(sends) : f[i] = events[i]
          /\ f[Len(sends) + 1] = e
      BY <1>4, <3>2, <3>3, <3>4
    <3>6. \A i \in 1..Len(f) : Sprung(f[i]) => i \notin pending'
      <4>1. SUFFICES ASSUME NEW i \in 1..Len(f), Sprung(f[i]) PROVE i \notin pending'
        OBVIOUS
      <4>2. i # id
        BY <2>1, <3>2, <3>5, <4>1
      <4>3. i \in 1..Len(events)
        BY <1>4, <2>1, <3>3, <3>5, <4>2
      <4>4. f[i] = events[i]
        BY <3>3, <3>5, <4>3
      <4>5. i \notin pending
        BY <4>1, <4>3, <4>4 DEF Good, Released
      <4> QED
        BY <2>2, <4>2, <4>5
    <3>7. complete' = f
      BY <2>2, <3>1, <3>4
    <3>8. hasData' \in Events(Tasks)
      BY <1>1, <1>3, <2>2, EventSteps DEF EventTypes
    <3>9. EventTypes'
      BY <1>3, <2>4, <3>5, <3>7, <3>8 DEF EventTypes
    <3>10. Released(complete, pending)'
      BY <1>2, <3>6, <3>7 DEF Released, Sprung
    <3> QED
      BY <3>9, <3>10
  <2>10. ControlTypes' /\ Places' /\ Settled'
    <3>1. PICK h : h = [size |-> n, end |-> end, on |-> id]
      OBVIOUS
    <3>2. h \in [size : Nat, end : BOOLEAN, on : Nat] /\ h.on = id
      BY <2>5, <3>1
    <3>3. held' = [held EXCEPT ![s] = h] /\ h.on \in Operations'
      BY <2>2, <2>5, <3>1, <3>2
    <3>4. pending' \subseteq pending \cup {Len(sends) + 1}
      BY <2>1, <2>2
    <3> QED
      BY <1>1, <1>2, <2>2, <2>5, <3>2, <3>3, <3>4, StreamMoves
  <2>11. Honest'
    BY <1>1, <1>2, <2>2, <2>5 DEF Honest
  <2>12. Queued'
    <3>1. /\ Len(handed) + Len(queue) = Len(sends) /\ failed = {}
          /\ \A i \in 1..Len(queue) : queue[i] = Len(handed) + i
          /\ \A i \in 1..Len(handed) : handed[i] = i
      BY <1>1 DEF Queued
    <3>2. Len(queue') = Len(queue) + 1
      BY <1>1, <2>2 DEF DataTypes
    <3>3. \A i \in 1..Len(queue') : queue'[i] = IF i =< Len(queue) THEN queue[i] ELSE id
      BY <1>1, <1>4, <2>2 DEF DataTypes
    <3>4. \A i \in 1..Len(queue') : queue'[i] = Len(handed) + i
      <4>1. SUFFICES ASSUME NEW i \in 1..Len(queue') PROVE queue'[i] = Len(handed) + i
        OBVIOUS
      <4>2. i \in 1..Len(queue) + 1
        BY <3>2
      <4>3. CASE i =< Len(queue)
        <5>1. i \in 1..Len(queue)
          BY <1>4, <4>2, <4>3
        <5> QED
          BY <3>1, <3>3, <4>3, <5>1
      <4>4. CASE i > Len(queue)
        <5>1. i = Len(queue) + 1 /\ queue'[i] = id
          BY <1>4, <3>3, <4>2, <4>4
        <5>2. id = Len(handed) + Len(queue) + 1
          BY <1>4, <2>1, <3>1
        <5> QED
          BY <1>4, <5>1, <5>2
      <4> QED
        BY <1>4, <4>2, <4>3, <4>4
    <3>5. Len(handed') + Len(queue') = Len(sends')
      BY <1>2, <1>4, <2>4, <3>1, <3>2
    <3>6. \A i \in 1..Len(queue') : queue'[i] > Len(handed)
      BY <1>4, <3>2, <3>4
    <3> QED
      BY <1>2, <2>2, <3>1, <3>4, <3>5, <3>6 DEF Queued
  <2>13. Reported'
    BY <1>1, <1>2 DEF Reported
  <2> QED
    BY <2>3, <2>8, <2>9, <2>10, <2>11, <2>12, <2>13, Assembled
<1> QED
  BY <1>5, <1>6

-----------------------------------------------------------------------------
(* The steps of a stream keep the invariant.                               *)
LEMMA SendKeeps ==
    ASSUME IInv, NEW s \in Streams, Send(s)
    PROVE  IInv'
<1>1. Good(complete, pending)
  BY DEF Good, IInv, TypeOK
<1>2. /\ ~closed /\ ~error /\ UNCHANGED <<flagVars, processed, historyVars>>
      /\ (\E n \in Sizes : Attempt(s, n, FALSE, complete)) \/ Attempt(s, 0, TRUE, complete)
  BY DEF Send
<1>3. CASE \E n \in Sizes : Attempt(s, n, FALSE, complete)
  <2>1. PICK n \in Nat : Attempt(s, n, FALSE, complete)
    BY <1>3, H3SendAssumption
  <2>2. PICK end : end = FALSE
    OBVIOUS
  <2>3. end \in BOOLEAN /\ Attempt(s, n, end, complete)
    BY <2>1, <2>2
  <2> QED
    BY <1>1, <1>2, <2>3, AttemptKeeps
<1>4. CASE Attempt(s, 0, TRUE, complete)
  <2>1. PICK n, end : n = 0 /\ end = TRUE
    OBVIOUS
  <2>2. n \in Nat /\ end \in BOOLEAN /\ Attempt(s, n, end, complete)
    BY <1>4, <2>1
  <2> QED
    BY <1>1, <1>2, <2>2, AttemptKeeps
<1> QED
  BY <1>2, <1>3, <1>4

(* To park in the wait changes one completion.                             *)
LEMMA ParkKeeps ==
    ASSUME IInv, NEW s \in Streams, Park(s)
    PROVE  IInv'
<1>1. /\ DataTypes /\ EventTypes /\ ControlTypes
      /\ Places /\ WithinLimits /\ Honest /\ Queued /\ Settled /\ Reported
  BY TypesAs DEF IInv
<1>2. /\ pc[s] \in {"full", "end"}
      /\ complete' = [complete EXCEPT ![held[s].on] = AfterBlock(@, s)]
      /\ cpu' = NoTask
      /\ UNCHANGED <<flagVars, operationVars, hasData, pc, held, processed, historyVars>>
  BY DEF Park
<1>3. UNCHANGED <<trio, sends, pending, hasData, handed, flushed, told>>
  BY <1>2 DEF flagVars, operationVars, historyVars
<1>4. Good(complete', pending')
  BY <1>2, <1>3, WaitsFor
<1>5. EventTypes' /\ Released(complete, pending)'
  BY <1>1, <1>2, <1>3, <1>4, EventsAfter DEF EventTypes
<1>6. DataTypes' /\ WithinLimits' /\ Honest' /\ Queued'
  BY <1>1, <1>2, <1>3, DataStill DEF DataTypes
<1>7. ControlTypes' /\ Places' /\ Settled'
  BY <1>1, <1>2, NobodyMoves
<1>8. Reported'
  BY <1>1, <1>3 DEF Reported
<1> QED
  BY <1>5, <1>6, <1>7, <1>8, Assembled

(* A stream whose send is over, or goes on, with what is queued as it was. *)
LEMMA StreamKeeps ==
    ASSUME IInv, NEW s \in Streams, NEW place \in {"idle", "end", "done"},
           NEW h \in [size : Nat, end : BOOLEAN, on : Nat], place = "end" => h.on \in Operations,
           Goto(s, place), held' = [held EXCEPT ![s] = h],
           UNCHANGED <<flagVars, operationVars, processed, handed, flushed>>,
           Good(complete', pending), hasData' \in Events(Tasks),
           cpu' \in Tasks \cup {NoTask}, told' \subseteq told \cup 1..flushed
    PROVE  IInv'
<1>1. /\ DataTypes /\ EventTypes /\ ControlTypes
      /\ Places /\ WithinLimits /\ Honest /\ Queued /\ Settled /\ Reported
  BY TypesAs DEF IInv
<1>2. UNCHANGED <<trio, closed, error, sends, failed, pending, handed, flushed>>
  BY DEF flagVars, operationVars
<1>3. Operations' = Operations
  BY <1>2 DEF Operations
<1>4. EventTypes' /\ Released(complete, pending)'
  BY <1>2, EventsAfter
<1>5. told' \subseteq Operations
  <2>1. flushed \in Nat /\ Len(handed) \in Nat /\ flushed =< Len(handed)
    BY <1>1 DEF DataTypes
  <2>2. \A i \in 1..Len(handed) : handed[i] = i /\ handed[i] \in Operations
    BY <1>1 DEF DataTypes, Queued
  <2>3. \A i \in 1..flushed : i \in Operations
    <3>1. \A i \in 1..flushed : i \in 1..Len(handed)
      BY <2>1
    <3> QED
      BY <2>2, <3>1
  <2>4. told \subseteq Operations
    BY <1>1 DEF DataTypes
  <2> QED
    BY <2>3, <2>4
<1>6. DataTypes' /\ WithinLimits' /\ Honest' /\ Queued'
  BY <1>1, <1>5, DataStill
<1>7. ControlTypes' /\ Places' /\ Settled'
  <2>1. place \in {"full", "set", "end"} => h.on \in Operations'
    BY <1>3
  <2> QED
    BY <1>1, <1>2, <1>3, <2>1, StreamMoves
<1>8. Reported'
  BY <1>1, <1>2 DEF Reported
<1> QED
  BY <1>4, <1>6, <1>7, <1>8, Assembled

(* No send in progress.                                                    *)
LEMMA NoSendType == NoSend \in [size : Nat, end : BOOLEAN, on : Nat]
  BY DEF NoSend

(* The oldest has completed: the send raises, or tests again.              *)
LEMMA OldestCompletedKeeps ==
    ASSUME IInv, NEW s \in Streams, OldestCompleted(s)
    PROVE  IInv'
<1>1. pc[s] = "full" /\ UNCHANGED <<flagVars, processed, historyVars>>
  BY DEF OldestCompleted
<1>2. Good(Left(s), pending)
  BY <1>1, WaitsFor
<1>3. CASE held[s].on \in failed \/ error \/ closed
  <2>1. /\ complete' = Left(s)
        /\ Goto(s, "idle") /\ held' = [held EXCEPT ![s] = NoSend]
        /\ cpu' = NoTask
        /\ UNCHANGED <<operationVars, hasData>>
    BY <1>3 DEF OldestCompleted, Forget
  <2>2. PICK place : place = "idle"
    OBVIOUS
  <2>3. hasData' \in Events(Tasks) /\ told' = told /\ UNCHANGED <<handed, flushed>>
    BY <1>1, <2>1 DEF IInv, TypeOK, historyVars
  <2>4. Good(complete', pending)
    BY <1>2, <2>1
  <2>5. place \in {"idle", "end", "done"} /\ place # "end" /\ Goto(s, place)
    BY <2>1, <2>2
  <2> QED
    BY <1>1, <2>1, <2>3, <2>4, <2>5, NoSendType, StreamKeeps
<1>4. CASE ~(held[s].on \in failed \/ error \/ closed)
  <2>1. Attempt(s, held[s].size, held[s].end, Left(s)) /\ ~closed /\ ~error
    BY <1>4 DEF OldestCompleted
  <2>2. PICK n, end, events : n = held[s].size /\ end = held[s].end /\ events = Left(s)
    OBVIOUS
  <2>3. n \in Nat /\ end \in BOOLEAN
    <3>1. held[s] \in [size : Nat, end : BOOLEAN, on : Nat]
      BY DEF IInv, TypeOK
    <3> QED
      BY <2>2, <3>1
  <2>4. Good(events, pending) /\ Attempt(s, n, end, events)
    BY <1>2, <2>1, <2>2
  <2> QED
    BY <1>1, <2>1, <2>3, <2>4, AttemptKeeps
<1> QED
  BY <1>3, <1>4

(* has_data.set(), and then perhaps the wait for the end.                  *)
LEMMA SetDataKeeps ==
    ASSUME IInv, NEW s \in Streams, SetData(s)
    PROVE  IInv'
<1>1. /\ pc[s] = "set" /\ hasData' = AfterSet(hasData, s)
      /\ UNCHANGED <<flagVars, operationVars, processed, historyVars>>
  BY DEF SetData
<1>2. s \in Tasks /\ Good(complete, pending) /\ hasData \in Events(Tasks)
  BY TaskTypes DEF Good, IInv, TypeOK
<1>3. hasData' \in Events(Tasks)
  BY <1>1, <1>2, EventSteps
<1>4. UNCHANGED <<handed, flushed, told>> /\ told' \subseteq told \cup 1..flushed
  BY <1>1 DEF historyVars
<1>5. CASE held[s].end
  <2>1. PICK on, h, place : on = held[s].on /\ h = held[s] /\ place = "end"
    OBVIOUS
  <2>2. /\ complete' = [complete EXCEPT ![on] = Reach(complete[on], s)]
        /\ Goto(s, place) /\ cpu' = CpuAt(s) /\ held' = held
    BY <1>5, <2>1, Zenon DEF SetData
  <2>3. on \in Operations /\ h.on = on
    BY <1>1, <2>1 DEF IInv, Places
  <2>4. held' = [held EXCEPT ![s] = h] /\ h \in [size : Nat, end : BOOLEAN, on : Nat]
    <3>1. held \in [Streams -> [size : Nat, end : BOOLEAN, on : Nat]]
      BY DEF IInv, TypeOK
    <3> QED
      BY <2>1, <2>2, <3>1
  <2>5. Good(complete', pending)
    <3>1. PICK b : b = complete[on]
      OBVIOUS
    <3>2. b \in Events(Tasks)
      BY <1>2, <2>3, <3>1 DEF Good, Operations
    <3>3. Reach(b, s) \in Events(Tasks) /\ (Sprung(Reach(b, s)) => Sprung(b))
      BY <1>2, <3>2, EventSteps
    <3>4. Good([complete EXCEPT ![on] = Reach(b, s)], pending)
      BY <1>2, <2>3, <3>1, <3>3, OneChanges
    <3> QED
      BY <2>2, <3>1, <3>4
  <2>6. place \in {"idle", "end", "done"} /\ cpu' \in Tasks \cup {NoTask}
    BY <1>2, <2>1, <2>2, CpuTypes
  <2> QED
    BY <1>1, <1>3, <1>4, <2>2, <2>3, <2>4, <2>5, <2>6, StreamKeeps
<1>6. CASE ~held[s].end
  <2>1. PICK place : place = "idle"
    OBVIOUS
  <2>2. /\ Goto(s, place) /\ held' = [held EXCEPT ![s] = NoSend]
        /\ cpu' = NoTask /\ complete' = complete
    BY <1>6, <2>1 DEF SetData, Forget
  <2>3. place \in {"idle", "end", "done"} /\ place # "end"
    BY <2>1
  <2> QED
    BY <1>1, <1>2, <1>3, <1>4, <2>2, <2>3, NoSendType, StreamKeeps
<1> QED
  BY <1>5, <1>6

(* An end that completes has left the window: it is sent, or has failed.   *)
LEMMA EndCompletedKeeps ==
    ASSUME IInv, NEW s \in Streams, EndCompleted(s)
    PROVE  IInv'
<1>1. /\ pc[s] = "end" /\ Returns(complete[held[s].on], s, cpu)
      /\ complete' = Left(s) /\ held' = [held EXCEPT ![s] = NoSend]
      /\ cpu' = NoTask
      /\ UNCHANGED <<flagVars, operationVars, hasData, processed, handed, flushed>>
  BY DEF EndCompleted, Forget
<1>2. PICK on : on = held[s].on
  OBVIOUS
<1>3. on \in Operations /\ on \notin pending /\ Good(Left(s), pending)
  BY <1>1, <1>2, WaitsFor
<1>4. PICK place \in {"idle", "end", "done"} :
        /\ Goto(s, place) /\ place # "end"
        /\ told' = told \/ (on \notin failed /\ told' = told \cup {on})
  BY <1>2 DEF EndCompleted
<1>5. told' \subseteq told \cup 1..flushed
  <2>1. on =< flushed \/ on \in failed
    BY <1>3 DEF IInv, Honest
  <2>2. on \in Nat /\ on > 0 /\ flushed \in Nat
    BY <1>3, TypesAs, OperationTypes DEF IInv, DataTypes
  <2> QED
    BY <1>4, <2>1, <2>2
<1>6. hasData' \in Events(Tasks) /\ Good(complete', pending)
  BY <1>1, <1>3 DEF IInv, TypeOK
<1> QED
  BY <1>1, <1>4, <1>5, <1>6, NoSendType, StreamKeeps

-----------------------------------------------------------------------------
(* The operation that run() or close() is completing has left the window,  *)
(* so that its completion may be set.                                      *)
LEMMA SignalledGood ==
    ASSUME IInv, NEW t \in {Sender, Closer}, pc[t] \in {"complete", "fail"}
    PROVE  /\ processed[t] \in Seq(Operations) /\ processed[t] # <<>>
           /\ Good(Signalled(t), pending)
<1>1. processed[t] \in Seq(Operations) /\ processed[t] # <<>>
  BY DEF IInv, TypeOK
<1>2. PICK op, b : op = Head(processed[t]) /\ b = complete[op]
  OBVIOUS
<1>3. op \in Operations /\ op \notin pending
  BY <1>1, <1>2 DEF IInv, Settled
<1>4. Good(complete, pending)
  BY DEF Good, IInv, TypeOK
<1>5. b \in Events(Tasks) /\ t \in Tasks
  BY <1>2, <1>3, <1>4, TaskTypes DEF Good, Operations
<1>6. Good([complete EXCEPT ![op] = AfterSet(b, t)], pending)
  <2>1. AfterSet(b, t) \in Events(Tasks)
    BY <1>5, EventSteps
  <2> QED
    BY <1>3, <1>4, <2>1, OneChanges
<1>7. Signalled(t) = [complete EXCEPT ![op] = AfterSet(b, t)]
  BY <1>2, Zenon DEF Signalled
<1> QED
  BY <1>1, <1>6, <1>7

(* The sender or the closer goes on with nothing to complete, and what is  *)
(* queued as it was.                                                       *)
LEMMA RunnerKeeps ==
    ASSUME IInv, NEW t \in {Sender, Closer}, NEW place, Goto(t, place),
           t = Sender => place \in {"wait", "clear", "again"} /\ ~error,
           t = Closer => place = "done",
           processed' = [processed EXCEPT ![t] = <<>>],
           UNCHANGED <<flagVars, operationVars, held, historyVars>>,
           Good(complete', pending), hasData' \in Events(Tasks),
           cpu' \in Tasks \cup {NoTask}
    PROVE  IInv'
<1>1. /\ DataTypes /\ EventTypes /\ ControlTypes
      /\ Places /\ WithinLimits /\ Honest /\ Queued /\ Settled /\ Reported
  BY TypesAs DEF IInv
<1>2. UNCHANGED <<trio, closed, error, sends, failed, pending, held, handed, flushed, told>>
  BY DEF flagVars, operationVars, historyVars
<1>3. EventTypes' /\ Released(complete, pending)'
  BY <1>2, EventsAfter
<1>4. DataTypes' /\ WithinLimits' /\ Honest' /\ Queued'
  BY <1>1, <1>2, DataStill DEF DataTypes
<1>5. ControlTypes' /\ Places' /\ Settled'
  <2>1. PICK ops : ops = <<>>
    OBVIOUS
  <2>2. ops \in Seq(Operations) /\ processed' = [processed EXCEPT ![t] = ops]
    BY <2>1
  <2>3. Onwards
    <3>1. Len(handed) \in Nat /\ flushed \in Nat
      BY <1>1 DEF DataTypes
    <3> QED
      BY <1>2, <3>1 DEF Onwards
  <2>4. MayGo(t, place, ops)
    BY <1>2, <2>1, TaskTypes DEF MayGo
  <2> QED
    BY <1>1, <1>2, <2>2, <2>3, <2>4, RunnerMoves
<1>6. Reported'
  BY <1>1, <1>2 DEF Reported
<1> QED
  BY <1>3, <1>4, <1>5, <1>6, Assembled

(* A batch that has been flushed, or one that has failed, is completed: it *)
(* keeps the invariant when all of it is sent or has failed.               *)
LEMMA CompletingKeeps ==
    ASSUME IInv, NEW ops \in Seq(Operations), ops # <<>>,
           NEW events, Good(events, pending),
           Completing(Sender, "complete", ops, events),
           \A i \in 1..Len(ops) : ops[i] =< flushed' \/ ops[i] \in failed',
           UNCHANGED <<trio, closed, sends, queue, hasData, held, handed, told>>,
           error' \in BOOLEAN, error => error',
           failed' \subseteq Operations, failed \subseteq failed',
           error' \/ failed' = failed,
           flushed' \in 0..Len(handed), flushed' >= flushed
    PROVE  IInv'
<1>1. /\ TypeOK /\ DataTypes /\ EventTypes /\ ControlTypes
      /\ Places /\ WithinLimits /\ Honest /\ Queued /\ Settled /\ Reported
  BY TypesAs DEF IInv
<1>2. Operations' = Operations
  BY DEF Operations
<1>3. Len(handed) \in Nat /\ flushed \in Nat /\ flushed' \in Nat
  BY <1>1 DEF DataTypes
<1>4. /\ pending' = pending \ {Head(ops)} /\ pending' \subseteq pending
      /\ Head(ops) \notin pending' /\ Head(ops) \in Operations
      /\ pendingBytes' \in Int /\ WithinLimits'
      /\ Good(complete', pending')
      /\ Goto(Sender, "complete") /\ processed' = [processed EXCEPT ![Sender] = ops]
      /\ cpu' \in Tasks \cup {NoTask}
  BY <1>1, CompletingSteps
<1>5. DataTypes'
  BY <1>1, <1>2, <1>4 DEF DataTypes
<1>6. EventTypes' /\ Released(complete, pending)'
  <2>1. hasData' \in Events(Tasks)
    BY <1>1 DEF EventTypes
  <2> QED
    BY <1>4, <2>1, EventsAfter
<1>7. ControlTypes' /\ Places' /\ Settled'
  <2>1. Onwards
    BY <1>3, <1>4 DEF Onwards
  <2>2. MayGo(Sender, "complete", ops)
    BY <1>4, TaskTypes DEF MayGo
  <2> QED
    BY <1>1, <1>4, <2>1, <2>2, RunnerMoves
<1>8. Honest'
  <2>1. Head(ops) =< flushed' \/ Head(ops) \in failed'
    <3>1. 1 \in 1..Len(ops) /\ Head(ops) = ops[1]
      OBVIOUS
    <3> QED
      BY <3>1
  <2>2. ASSUME NEW i \in Operations PROVE i \in pending' \/ i =< flushed' \/ i \in failed'
    <3>1. i \in Nat
      BY <1>1, OperationTypes
    <3>2. i \in pending \/ i =< flushed \/ i \in failed
      BY <1>1 DEF Honest
    <3> QED
      BY <1>3, <1>4, <2>1, <3>1, <3>2
  <2> QED
    BY <1>2, <2>2 DEF Honest
<1>9. Queued'
  BY <1>1 DEF Queued
<1>10. Reported'
  BY <1>1, <1>3 DEF Reported
<1> QED
  BY <1>4, <1>5, <1>6, <1>7, <1>8, <1>9, <1>10, Assembled

(* The steps of run() keep the invariant: the waits for data,              *)
LEMMA WaitKeeps ==
    ASSUME IInv, SenderParks \/ Woken \/ Cleared \/ Again
    PROVE  IInv'
<1>1. /\ DataTypes /\ EventTypes /\ ControlTypes
      /\ Places /\ WithinLimits /\ Honest /\ Queued /\ Settled /\ Reported
  BY TypesAs DEF IInv
<1>2. Sender \in Tasks /\ hasData \in Events(Tasks) /\ Good(complete, pending)
  BY TaskTypes DEF Good, IInv, TypeOK
<1>3. CASE SenderParks
  <2>1. /\ hasData' = AfterBlock(hasData, Sender) /\ cpu' = NoTask
        /\ UNCHANGED <<flagVars, operationVars, complete, pc, held, processed, historyVars>>
    BY <1>3 DEF SenderParks
  <2>2. UNCHANGED <<trio, sends, pending, handed, flushed, told>>
    BY <2>1 DEF flagVars, operationVars, historyVars
  <2>3. EventTypes' /\ Released(complete, pending)'
    <3>1. hasData' \in Events(Tasks)
      BY <1>2, <2>1, EventSteps
    <3>2. Good(complete', pending') /\ cpu' \in Tasks \cup {NoTask}
      BY <1>2, <2>1, <2>2
    <3> QED
      BY <2>2, <3>1, <3>2, EventsAfter
  <2>4. DataTypes' /\ WithinLimits' /\ Honest' /\ Queued'
    BY <1>1, <2>1, <2>2, DataStill DEF DataTypes
  <2>5. ControlTypes' /\ Places' /\ Settled'
    BY <1>1, <2>1, NobodyMoves
  <2>6. Reported'
    BY <1>1, <2>2 DEF Reported
  <2> QED
    BY <2>3, <2>4, <2>5, <2>6, Assembled
<1>4. CASE Woken
  <2>1. /\ pc[Sender] = "wait"
        /\ hasData' = Reach(AfterWait(hasData, Sender), Sender)
        /\ Goto(Sender, "clear") /\ cpu' = CpuAt(Sender)
        /\ UNCHANGED <<flagVars, operationVars, complete, held, processed, historyVars>>
    BY <1>4 DEF Woken
  <2>2. processed' = [processed EXCEPT ![Sender] = <<>>]
    <3>1. processed[Sender] = <<>>
      BY <1>1, <2>1 DEF ControlTypes
    <3> QED
      BY <1>1, <2>1, <3>1 DEF ControlTypes
  <2>3. ~error
    BY <1>1, <2>1 DEF Places
  <2>4. hasData' \in Events(Tasks)
    <3>1. AfterWait(hasData, Sender) \in Events(Tasks)
      BY <1>2, EventSteps
    <3> QED
      BY <1>2, <2>1, <3>1, EventSteps
  <2>5. Good(complete', pending) /\ cpu' \in Tasks \cup {NoTask}
    BY <1>2, <2>1, CpuTypes
  <2>6. PICK place : place = "clear"
    OBVIOUS
  <2>7. place \in {"wait", "clear", "again"} /\ Goto(Sender, place)
    BY <2>1, <2>6
  <2> QED
    BY <2>1, <2>2, <2>3, <2>4, <2>5, <2>7, TaskTypes, RunnerKeeps
<1>5. CASE Cleared
  <2>1. /\ pc[Sender] = "clear" /\ Loop(complete, AfterClear(hasData, Sender))
        /\ UNCHANGED <<trio, closed, sends, held, flushed, told>>
    BY <1>5 DEF Cleared
  <2>2. PICK data : data = AfterClear(hasData, Sender)
    OBVIOUS
  <2>3. data \in Events(Tasks) /\ Loop(complete, data)
    BY <1>2, <2>1, <2>2, EventSteps
  <2>4. ~error
    BY <1>1, <2>1 DEF Places
  <2> QED
    BY <1>2, <2>1, <2>3, <2>4, LoopKeeps
<1>6. CASE Again
  <2>1. /\ pc[Sender] = "again" /\ Loop(complete, AfterSet(hasData, Sender))
        /\ UNCHANGED <<trio, closed, sends, held, flushed, told>>
    BY <1>6 DEF Again
  <2>2. PICK data : data = AfterSet(hasData, Sender)
    OBVIOUS
  <2>3. data \in Events(Tasks) /\ Loop(complete, data)
    BY <1>2, <2>1, <2>2, EventSteps
  <2>4. ~error
    BY <1>1, <2>1 DEF Places
  <2> QED
    BY <1>2, <2>1, <2>3, <2>4, LoopKeeps
<1> QED
  BY <1>3, <1>4, <1>5, <1>6

(* flush(), that returns or raises,                                        *)
LEMMA FlushKeeps ==
    ASSUME IInv, FlushReturns \/ FlushRaises
    PROVE  IInv'
<1>1. /\ DataTypes /\ ControlTypes /\ Places /\ Settled /\ Good(complete, pending)
  BY TypesAs DEF Good, IInv, TypeOK
<1>2. PICK ops : ops = processed[Sender]
  OBVIOUS
<1>3. pc[Sender] = "flush"
  BY DEF FlushReturns, FlushRaises
<1>4. /\ ops \in Seq(Operations) /\ ops # <<>>
      /\ \A i \in 1..Len(ops) : ops[i] =< Len(handed) /\ ops[i] \in Operations
  <2>1. ops \in Seq(Operations) /\ ops # <<>>
    BY <1>1, <1>2, <1>3 DEF ControlTypes
  <2> QED
    BY <1>1, <1>2, <1>3, <2>1 DEF Settled
<1>5. Len(handed) \in Nat /\ flushed \in 0..Len(handed)
  BY <1>1 DEF DataTypes
<1>6. CASE FlushReturns
  <2>1. /\ flushed' = Len(handed)
        /\ Completing(Sender, "complete", ops, complete)
        /\ UNCHANGED <<flagVars, sends, failed, queue, hasData, held, handed, told>>
    BY <1>2, <1>6 DEF FlushReturns
  <2>2. UNCHANGED <<trio, closed, error>> /\ error \in BOOLEAN /\ failed \subseteq Operations
    BY <1>1, <2>1 DEF flagVars, DataTypes
  <2>3. \A i \in 1..Len(ops) : ops[i] =< flushed' \/ ops[i] \in failed'
    BY <1>4, <2>1
  <2>4. flushed' \in 0..Len(handed) /\ flushed' >= flushed
    BY <1>5, <2>1
  <2> QED
    BY <1>1, <1>4, <2>1, <2>2, <2>3, <2>4, CompletingKeeps
<1>7. CASE FlushRaises
  <2>1. /\ error' = TRUE
        /\ failed' = failed \cup {ops[i] : i \in 1..Len(ops)}
        /\ Completing(Sender, "complete", ops, complete)
        /\ UNCHANGED <<trio, closed, sends, queue, hasData, held, historyVars>>
    BY <1>2, <1>7 DEF FlushRaises
  <2>2. UNCHANGED <<handed, flushed, told>>
    BY <2>1 DEF historyVars
  <2>3. failed' \subseteq Operations /\ failed \subseteq failed'
    BY <1>1, <1>4, <2>1 DEF DataTypes
  <2>4. \A i \in 1..Len(ops) : ops[i] =< flushed' \/ ops[i] \in failed'
    BY <2>1
  <2>5. flushed' \in 0..Len(handed) /\ flushed' >= flushed
    BY <1>5, <2>2
  <2> QED
    BY <1>1, <1>4, <2>1, <2>2, <2>3, <2>4, <2>5, CompletingKeeps
<1> QED
  BY <1>6, <1>7

(* the end of one completion, and what follows it,                         *)
LEMMA CompletedOneKeeps ==
    ASSUME IInv, CompletedOne
    PROVE  IInv'
<1>1. DataTypes /\ EventTypes /\ ControlTypes /\ Settled
  BY TypesAs DEF IInv
<1>2. pc[Sender] = "complete" /\ UNCHANGED <<trio, closed, sends, held, flushed, told>>
  BY DEF CompletedOne
<1>3. PICK ops, events, rest : /\ ops = processed[Sender] /\ events = Signalled(Sender)
                               /\ rest = Tail(processed[Sender])
  OBVIOUS
<1>4. ops \in Seq(Operations) /\ ops # <<>> /\ Good(events, pending)
  BY <1>2, <1>3, SignalledGood
<1>5. hasData \in Events(Tasks) /\ Sender \in Tasks
  BY <1>1, TaskTypes DEF EventTypes
<1>6. CASE /\ rest # <<>>
           /\ Completing(Sender, "complete", rest, events)
           /\ UNCHANGED <<failed, queue, error, hasData, handed>>
  <2>1. rest \in Seq(Operations) /\ \A i \in 1..Len(rest) : rest[i] = ops[i + 1] /\ i + 1 \in 1..Len(ops)
    BY <1>3, <1>4
  <2>2. \A i \in 1..Len(ops) : ops[i] =< flushed \/ ops[i] \in failed
    BY <1>1, <1>2, <1>3 DEF Settled
  <2>3. \A i \in 1..Len(rest) : rest[i] =< flushed' \/ rest[i] \in failed'
    BY <1>2, <1>6, <2>1, <2>2
  <2>4. /\ error' \in BOOLEAN /\ failed' \subseteq Operations
        /\ flushed' \in 0..Len(handed) /\ flushed' >= flushed
    BY <1>1, <1>2, <1>6 DEF DataTypes
  <2>5. (error => error') /\ failed \subseteq failed' /\ (error' \/ failed' = failed)
    BY <1>6
  <2> QED
    BY <1>2, <1>4, <1>6, <2>1, <2>3, <2>4, <2>5, CompletingKeeps
<1>7. CASE /\ error
           /\ FailNext(Sender, events, hasData)
           /\ UNCHANGED <<error, handed>>
  <2>1. UNCHANGED <<trio, error, sends, held, historyVars>>
    BY <1>2, <1>7 DEF historyVars
  <2>2. closed' \in BOOLEAN /\ (closed => closed') /\ (closed' \/ error)
    BY <1>1, <1>2, <1>7 DEF DataTypes
  <2> QED
    BY <1>4, <1>5, <1>7, <2>1, <2>2, FailNextKeeps
<1>8. CASE /\ ~error
           /\ complete' = events
           /\ hasData' = Reach(hasData, Sender)
           /\ Goto(Sender, "again") /\ cpu' = CpuAt(Sender)
           /\ processed' = [processed EXCEPT ![Sender] = <<>>]
           /\ UNCHANGED <<failed, queue, pending, pendingBytes, error, handed>>
  <2>1. UNCHANGED <<flagVars, operationVars, held, historyVars>>
    BY <1>2, <1>8 DEF flagVars, operationVars, historyVars
  <2>2. hasData' \in Events(Tasks) /\ cpu' \in Tasks \cup {NoTask} /\ Good(complete', pending)
    BY <1>4, <1>5, <1>8, CpuTypes, EventSteps
  <2>3. PICK place : place = "again"
    OBVIOUS
  <2>4. place \in {"wait", "clear", "again"} /\ Goto(Sender, place)
    BY <1>8, <2>3
  <2> QED
    BY <1>8, <2>1, <2>2, <2>4, TaskTypes, RunnerKeeps
<1>9. CASE ~error /\ Loop(events, hasData)
  BY <1>2, <1>4, <1>5, <1>9, LoopKeeps
<1> QED
  BY <1>3, <1>6, <1>7, <1>8, <1>9 DEF CompletedOne

(* and the failure of what is left, by run() or by close().                *)
LEMMA FailedOneKeeps ==
    ASSUME IInv, NEW t \in {Sender, Closer}, FailedOne(t)
    PROVE  IInv'
<1>1. /\ pc[t] = "fail" /\ FailNext(t, Signalled(t), hasData)
      /\ UNCHANGED <<flagVars, sends, held, historyVars>>
  BY DEF FailedOne
<1>2. UNCHANGED <<trio, error, sends, held, historyVars>> /\ closed' = closed
  BY <1>1 DEF flagVars
<1>3. closed' \in BOOLEAN /\ (closed => closed') /\ (closed' \/ error)
  BY <1>1, <1>2 DEF IInv, TypeOK, Places
<1>4. PICK events : events = Signalled(t)
  OBVIOUS
<1>5. Good(events, pending) /\ FailNext(t, events, hasData) /\ hasData \in Events(Tasks)
  BY <1>1, <1>4, SignalledGood DEF IInv, TypeOK
<1> QED
  BY <1>2, <1>3, <1>5, FailNextKeeps

(* close() and its end keep the invariant.                                 *)
LEMMA CloseKeeps ==
    ASSUME IInv, Close \/ Wake
    PROVE  IInv'
<1>1. Good(complete, pending) /\ hasData \in Events(Tasks) /\ Closer \in Tasks
  BY TaskTypes DEF Good, IInv, TypeOK
<1>2. CASE Close
  <2>1. /\ closed' = TRUE /\ FailNext(Closer, complete, hasData)
        /\ UNCHANGED <<trio, error, sends, held, historyVars>>
    BY <1>2 DEF Close
  <2>2. closed' \in BOOLEAN /\ (closed => closed') /\ (closed' \/ error)
    BY <2>1
  <2> QED
    BY <1>1, <2>1, <2>2, FailNextKeeps
<1>3. CASE Wake
  <2>1. /\ pc[Closer] = "wake" /\ hasData' = AfterSet(hasData, Closer)
        /\ Goto(Closer, "done") /\ cpu' = NoTask
        /\ UNCHANGED <<flagVars, operationVars, complete, held, processed, historyVars>>
    BY <1>3 DEF Wake
  <2>2. processed' = [processed EXCEPT ![Closer] = <<>>]
    <3>1. processed[Closer] = <<>> /\ processed \in [{Sender, Closer} -> Seq(Operations)]
      BY <2>1 DEF IInv, TypeOK
    <3> QED
      BY <2>1, <3>1
  <2>3. hasData' \in Events(Tasks) /\ Good(complete', pending)
    BY <1>1, <2>1, EventSteps
  <2> QED
    BY <2>1, <2>2, <2>3, TaskTypes, RunnerKeeps
<1> QED
  BY <1>2, <1>3

(* The connection as it is set up satisfies the invariant.                 *)
LEMMA InitIInv == Init => IInv
<1> SUFFICES ASSUME Init PROVE IInv
  OBVIOUS
<1>1. /\ trio \in BOOLEAN
      /\ sends = <<>> /\ complete = <<>> /\ failed = {}
      /\ queue = <<>> /\ pending = {} /\ pendingBytes = 0
      /\ closed = FALSE /\ error = FALSE
      /\ hasData = Reach(NewEvent, Sender)
      /\ pc = [t \in Tasks |-> IF t = Sender THEN "wait" ELSE "idle"]
      /\ held = [s \in Streams |-> NoSend]
      /\ processed = [t \in {Sender, Closer} |-> <<>>]
      /\ cpu = CpuAt(Sender)
      /\ handed = <<>> /\ flushed = 0 /\ told = {}
  BY DEF Init
<1>2. Operations = {}
  BY <1>1 DEF Operations
<1>3. DataTypes
  <2>1. sends \in Seq([stream : Streams, size : Nat, end : BOOLEAN])
    BY <1>1
  <2>2. queue \in Seq(Operations) /\ handed \in Seq(Operations) /\ flushed \in 0..Len(handed)
    BY <1>1
  <2>3. trio \in BOOLEAN /\ closed \in BOOLEAN /\ error \in BOOLEAN
    BY <1>1, Zenon
  <2>4. /\ failed \subseteq Operations /\ pending \subseteq Operations
        /\ told \subseteq Operations
    BY <1>1, Zenon
  <2>5. pendingBytes \in Int
    BY <1>1
  <2> QED
    BY <2>1, <2>2, <2>3, <2>4, <2>5, Zenon DEF DataTypes
<1>4. EventTypes
  <2>1. NewEvent \in Events(Tasks)
    BY DEF NewEvent, Events
  <2>2. hasData \in Events(Tasks) /\ cpu \in Tasks \cup {NoTask}
    BY <1>1, <2>1, TaskTypes, EventSteps, CpuTypes
  <2>3. complete \in Seq(Events(Tasks)) /\ Len(complete) = Len(sends)
    BY <1>1
  <2> QED
    BY <2>2, <2>3 DEF EventTypes
<1>5. ControlTypes
  <2>1. pc \in [Tasks -> AllPlaces] /\ \A t \in {Sender, Closer} : pc[t] \in {"wait", "idle"}
    BY <1>1, TaskTypes DEF AllPlaces
  <2>2. held \in [Streams -> [size : Nat, end : BOOLEAN, on : Nat]]
    BY <1>1, NoSendType
  <2>3. /\ processed \in [{Sender, Closer} -> Seq(Operations)]
        /\ \A t \in {Sender, Closer} : processed[t] = <<>>
    BY <1>1
  <2> QED
    BY <2>1, <2>2, <2>3 DEF ControlTypes
<1>6. Places
  BY <1>1, TaskTypes DEF Places
<1>7. WithinLimits
  <2>1. IsFiniteSet(pending) /\ Cardinality(pending) = 0
    BY <1>1, FS_EmptySet
  <2>2. Total(sends, pending) = 0
    BY <1>1, <2>1, TotalSteps
  <2> QED
    BY <1>1, <2>1, <2>2, LimitsAs, H3SendAssumption
<1>8. Honest /\ Queued /\ Reported
  BY <1>1, <1>2 DEF Honest, Queued, Reported
<1>9. Settled
  BY <1>1, TaskTypes DEF Settled
<1>10. Released(complete, pending)
  BY <1>1 DEF Released
<1> QED
  BY <1>3, <1>4, <1>5, <1>6, <1>7, <1>8, <1>9, <1>10, TypesAs DEF IInv

(* Every step keeps the invariant.                                         *)
LEMMA NextIInv == IInv /\ [Next]_vars => IInv'
<1> SUFFICES ASSUME IInv, [Next]_vars PROVE IInv'
  OBVIOUS
<1>1. CASE \E s \in Streams : Send(s) \/ Sending(s)
  BY <1>1, SendKeeps, ParkKeeps, OldestCompletedKeeps, SetDataKeeps, EndCompletedKeeps
     DEF Sending
<1>2. CASE Run
  BY <1>2, WaitKeeps, FlushKeeps, CompletedOneKeeps, FailedOneKeeps DEF Run
<1>3. CASE Close \/ Closing
  BY <1>3, CloseKeeps, FailedOneKeeps DEF Closing
<1>4. CASE UNCHANGED vars
  <2>1. /\ DataTypes /\ EventTypes /\ ControlTypes
        /\ Places /\ WithinLimits /\ Honest /\ Queued /\ Settled /\ Reported
        /\ Good(complete, pending)
    BY TypesAs DEF IInv, TypeOK, Good
  <2>2. /\ UNCHANGED <<flagVars, operationVars, complete, hasData, pc, held, processed,
                       cpu, historyVars>>
        /\ UNCHANGED <<trio, sends, pending, handed, flushed, told>>
    BY <1>4 DEF vars, flagVars, operationVars, historyVars
  <2>3. EventTypes' /\ Released(complete, pending)'
    BY <2>1, <2>2, EventsAfter DEF EventTypes
  <2>4. DataTypes' /\ WithinLimits' /\ Honest' /\ Queued'
    BY <2>1, <2>2, DataStill DEF DataTypes
  <2>5. ControlTypes' /\ Places' /\ Settled'
    BY <2>1, <2>2, NobodyMoves
  <2>6. Reported'
    BY <2>1, <2>2 DEF Reported
  <2> QED
    BY <2>3, <2>4, <2>5, <2>6, Assembled
<1> QED
  BY <1>1, <1>2, <1>3, <1>4 DEF Next

(* The inductive invariant holds, with any streams, sizes and limits, of   *)
(* both runtimes.                                                          *)
THEOREM Invariant == Spec => []IInv
  BY InitIInv, NextIInv, PTL DEF Spec

-----------------------------------------------------------------------------
(* The queue's order makes what has been flushed an initial segment.       *)
LEMMA SentIs ==
    ASSUME IInv
    PROVE  Sent = 1..flushed
<1>1. flushed \in Nat /\ Len(handed) \in Nat /\ flushed =< Len(handed)
  BY TypesAs DEF IInv, DataTypes
<1>2. \A i \in 1..Len(handed) : handed[i] = i
  BY DEF IInv, Queued
<1>3. \A i \in 1..flushed : handed[i] = i
  BY <1>1, <1>2
<1> QED
  BY <1>3 DEF Sent

(* Back-pressure: what is pending stays within the limits, its count of    *)
(* bytes is exact, and it leaves out only what has been flushed or failed  *)
(* (_enqueue(), _complete() and _fail_pending()).                          *)
THEOREM WindowIsKept == Spec => []WindowKept
<1>1. IInv => WindowKept
  <2> SUFFICES ASSUME IInv PROVE WindowKept
    OBVIOUS
  <2>1. WindowHonest
    <3>1. \A i \in Operations : i \in Nat /\ i > 0
      BY TypesAs, OperationTypes DEF IInv
    <3>2. flushed \in Nat
      BY TypesAs DEF IInv, DataTypes
    <3> QED
      BY <3>1, <3>2, SentIs DEF WindowHonest, IInv, Honest
  <2> QED
    BY <2>1 DEF WindowKept, IInv
<1> QED
  BY <1>1, Invariant, PTL

(* The H3Connection gets the operations once each, in the order they were  *)
(* accepted, and none that close() has failed (_send_ready_batch()).       *)
THEOREM HandedOver == Spec => []HandedInOrder
<1>1. IInv => HandedInOrder
  <2> SUFFICES ASSUME IInv PROVE HandedInOrder
    OBVIOUS
  <2>1. Queued /\ Len(handed) \in Nat
    BY TypesAs DEF IInv, DataTypes
  <2>2. \A i \in 1..Len(handed) : handed[i] = i
    BY <2>1 DEF Queued
  <2>3. ASSUME NEW i \in 1..Len(handed), handed[i] \in failed PROVE error
    <3>1. handed[i] = i /\ i =< Len(handed) /\ i \in Nat
      BY <2>1, <2>2
    <3> QED
      BY <2>1, <2>3, <3>1 DEF Queued
  <2> QED
    BY <2>2, <2>3 DEF HandedInOrder
<1> QED
  BY <1>1, Invariant, PTL

(* An application that is told its response has ended has had all of it    *)
(* flushed (the wait for the completion of the end, in _enqueue()).        *)
THEOREM EndsAreFlushed == Spec => []EndIsFlushed
<1>1. IInv => EndIsFlushed
  <2> SUFFICES ASSUME IInv, NEW i \in told, NEW j \in 1..i PROVE j \in Sent
    BY DEF EndIsFlushed
  <2>1. i \in 1..flushed /\ flushed \in Nat
    BY TypesAs DEF IInv, Reported, DataTypes
  <2>2. j \in 1..flushed
    BY <2>1
  <2> QED
    BY <2>2, SentIs
<1> QED
  BY <1>1, Invariant, PTL
=============================================================================
