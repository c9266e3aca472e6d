------------------------------ MODULE WorkerMC ------------------------------
(* The worlds the worker is checked in. *)
EXTENDS Worker

OnTrio(may) == [trio |-> TRUE, waits |-> FALSE, may |-> may]
OnAsyncio(may) == [trio |-> FALSE, waits |-> TRUE, may |-> may]
OnOldAsyncio(may) == [trio |-> FALSE, waits |-> FALSE, may |-> may]

\* Every misbehaviour a worker copes with in its runtime; answers that come too
\* late only together with the rest, so that liveness is seen without them too.
Served ==
    LET trio == {"raise", "fail", "cleanup", "linger", "crash", "endless"}
        asyncio == {"return", "raise", "fail", "linger", "crash"}
    IN  {OnTrio(trio), OnTrio(trio \cup {"slow"}),
         OnAsyncio(asyncio), OnAsyncio(asyncio \cup {"slow"}),
         OnOldAsyncio(asyncio \cup {"endless"})}
=============================================================================
