----------------------------- MODULE BoundedFifo -----------------------------
(***************************************************************************)
(* What a QueuedStream promises the connection, without its queue, its     *)
(* tasks or its wake-ups: a first-in first-out channel that loses and      *)
(* repeats nothing and admits data only while max_queue_bytes has room for *)
(* it, or to an empty channel.  The stream takes events one at a time, or  *)
(* several consecutive pieces of body at once.                             *)
(***************************************************************************)
EXTENDS Naturals, Sequences

CONSTANTS
    Kinds,          \* the kinds of event, "Body" among them
    Sizes,          \* the sizes an event may have
    MaxBytes        \* bound on the bytes waiting, 0 for no bound

VARIABLES
    log,            \* the events admitted, [kind, upto]: upto counts the bytes
                    \* admitted up to and including the event
    taken           \* how many of them the stream has taken

fifoVars == <<log, taken>>

BytesUpto(n) == IF n = 0 THEN 0 ELSE log[n].upto

FifoInit == log = <<>> /\ taken = 0

Admit(kind, size) ==
    /\ \/ MaxBytes = 0
       \/ taken = Len(log)
       \/ BytesUpto(Len(log)) - BytesUpto(taken) + size =< MaxBytes
    /\ log' = Append(log, [kind |-> kind, upto |-> BytesUpto(Len(log)) + size])
    /\ UNCHANGED taken

Take(n) ==
    /\ n > 0 /\ taken + n =< Len(log)
    /\ n > 1 => \A i \in (taken + 1)..(taken + n) : log[i].kind = "Body"
    /\ taken' = taken + n
    /\ UNCHANGED log

FifoNext ==
    \/ \E kind \in Kinds, size \in Sizes : Admit(kind, size)
    \/ \E n \in 1..(Len(log) - taken) : Take(n)

FifoSpec == FifoInit /\ [][FifoNext]_fifoVars
=============================================================================
