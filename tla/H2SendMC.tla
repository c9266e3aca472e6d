------------------------------ MODULE H2SendMC ------------------------------
(***************************************************************************)
(* Worlds for TLC.  Alone: a single response, long enough to pass the      *)
(* high-water mark several times, or reset, abandoned, lost, flow          *)
(* controlled by a shrinking window, or flushed by others.  Shared: two    *)
(* responses that share the connection's window while one is reset or      *)
(* pushed, the window shrinks, the connection is lost, data is acked,      *)
(* or the server stops, with flushes of their own.                         *)
(***************************************************************************)
EXTENDS H2Send

World(trio, may, bytes) == [trio |-> trio, may |-> may, bytes |-> bytes]

Alone ==
    {World(FALSE, {}, 7), World(TRUE, {}, 4),
     World(FALSE, {"shrink", "lost"}, 2), World(TRUE, {"data", "stop"}, 1)}
    \cup {World(trio, {"reset", "lost", "abandon"}, 2) : trio \in BOOLEAN}

Shared ==
    {World(FALSE, {what}, 1) : what \in {"reset", "lost", "shrink", "push", "data", "stop"}}
    \cup {World(TRUE, {}, 1)}
=============================================================================
