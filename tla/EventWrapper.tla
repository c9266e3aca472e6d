---------------------------- MODULE EventWrapper ----------------------------
(***************************************************************************)
(* The event primitive every buffer of the server waits on: EventWrapper   *)
(* of asyncio/worker_context.py and of trio/worker_context.py.             *)
(*                                                                         *)
(* An event is the record [set, turn, waiters].  `set` is the flag.        *)
(*                                                                         *)
(* trio: set(), clear() and wait() each take the lock of a trio.Condition. *)
(* Taking it always yields, in the order in which the tasks reached the    *)
(* await: `turn` is the lock's queue, its head the task that holds it.     *)
(* wait() re-tests the flag whenever it holds the lock and otherwise parks *)
(* in `waiters`; set() moves the parked tasks to the end of the lock queue.*)
(*                                                                         *)
(* asyncio: set(), clear() and a wait() on a set event never suspend, so   *)
(* the task keeps the processor (`cpu`).  A wait() on an unset event parks *)
(* in `waiters`; set() schedules the parked tasks, in order, in `turn`,    *)
(* and a scheduled task returns from wait() without testing the flag.      *)
(***************************************************************************)
EXTENDS Sequences

CONSTANT Trio       \* TRUE: the trio worker; FALSE: the asyncio worker

NoTask == "none"    \* the value of cpu when the event loop may pick any task

NewEvent == [set |-> FALSE, turn |-> <<>>, waiters |-> <<>>]

Events(tasks) == [set : BOOLEAN, turn : Seq(tasks), waiters : Seq(tasks)]

(* The task t reaches an await on e.                                       *)
Reach(e, t) == IF Trio THEN [e EXCEPT !.turn = Append(@, t)] ELSE e

(* The cpu once t has reached an await on an event.                        *)
CpuAt(t) == IF Trio THEN NoTask ELSE t

Holds(e, t) == e.turn # <<>> /\ Head(e.turn) = t

(* t may run the body of set() or clear(), or test the flag in wait().     *)
MayAct(e, t, cpu) == IF Trio THEN Holds(e, t) ELSE cpu = t

(* wait() returns to t now.                                                *)
Returns(e, t, cpu) ==
    \/ e.set /\ MayAct(e, t, cpu)
    \/ ~Trio /\ cpu = NoTask /\ Holds(e, t)

(* wait() finds the flag unset and t parks.                                *)
Blocks(e, t, cpu) == ~e.set /\ MayAct(e, t, cpu)

Leave(e, t) == [e EXCEPT !.turn = IF Holds(e, t) THEN Tail(@) ELSE @]

(* Mutated: set() wakes nobody.                                            *)
AfterQuietSet(e, t) == [Leave(e, t) EXCEPT !.set = TRUE]

AfterSet(e, t) ==
    [set |-> TRUE, turn |-> Leave(e, t).turn \o e.waiters, waiters |-> <<>>]

AfterClear(e, t) == [Leave(e, t) EXCEPT !.set = FALSE]

AfterWait(e, t) == Leave(e, t)

AfterBlock(e, t) == [Leave(e, t) EXCEPT !.waiters = Append(@, t)]
=============================================================================
