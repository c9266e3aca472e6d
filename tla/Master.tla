------------------------------- MODULE Master -------------------------------
(***************************************************************************)
(* run() of run.py with config.workers > 0: the process that spawns the    *)
(* workers, replaces those that end, and passes shutdown and reload on to  *)
(* them through one event.                                                 *)
(*                                                                         *)
(* Signal handlers run in the same thread, between any two of its steps    *)
(* and inside its blocking calls: reload() joins the workers in there, and *)
(* shutdown() may interrupt that.  A worker polls the event, drains and    *)
(* exits; it may also exit on its own (max_requests), or fail.  SIGTERM,   *)
(* which process.terminate() sends, has no handler in a worker: it ends it *)
(* at once.                                                                *)
(***************************************************************************)
EXTENDS Naturals, FiniteSets

CONSTANTS
    Workers,        \* config.workers
    MaxReloads,     \* bound: the SIGHUPs, or changes the reloader sees
    MaxQuits,       \* bound: the workers that exit on their own
    MaxFails,       \* bound: the workers that fail
    Signals         \* the sets of signals, one set per behaviour

ASSUME MasterAssumption ==
    /\ Workers \in Nat \ {0}
    /\ {MaxReloads, MaxQuits, MaxFails} \subseteq Nat
    /\ Signals \subseteq SUBSET {"TERM", "HUP"}

\* bound: the processes ever started, enough for every reload and exit.
MaxStarts == Workers * (1 + MaxReloads) + MaxQuits
Processes == 1..MaxStarts

VARIABLES
    signals,        \* what is fixed for a behaviour
    state,          \* per process: "none", "running", "draining", or how it
                    \* ended: "done" (exit code 0), "failed" or "killed"
    processes,      \* the list of that name
    left,           \* how many _populate() is still to start
    spawning,       \* the process start() has started and append() has not
                    \* added yet, or 0
    event,          \* shutdown_event is set
    active,         \* the nonlocal of that name
    exitcode,       \* 0, or 1 for any other
    main,           \* where run() is
    handled,        \* the signal handlers are installed
    reloading,      \* reload() joins the processes
    asked,          \* history: shutdown() has run
    counts          \* history: [reloads, quits, fails]

mainVars == <<processes, left, spawning, exitcode, main, handled>>
signalVars == <<event, active, reloading, asked>>
vars == <<signals, state, mainVars, signalVars, counts>>

Live == {p \in Processes : state[p] \in {"running", "draining"}}
Over == {p \in Processes : state[p] \in {"done", "failed", "killed"}}

Init ==
    /\ signals \in Signals
    /\ state = [p \in Processes |-> "none"]
    /\ processes = {} /\ left = Workers /\ spawning = 0
    /\ event = FALSE /\ active = TRUE /\ exitcode = 0
    /\ main = "populate" /\ handled = FALSE /\ reloading = FALSE
    /\ asked = FALSE /\ counts = [reloads |-> 0, quits |-> 0, fails |-> 0]

\* The main thread is not in a handler.
At(place) == main = place /\ ~reloading

-----------------------------------------------------------------------------
(* The workers.                                                            *)

Becomes(p, how) ==
    /\ state' = [state EXCEPT ![p] = how]
    /\ UNCHANGED <<signals, mainVars, signalVars>>

\* check_multiprocess_shutdown_event() sees the event.
Sees(p) == state[p] = "running" /\ event /\ Becomes(p, "draining") /\ UNCHANGED counts

Exits(p) == state[p] = "draining" /\ Becomes(p, "done") /\ UNCHANGED counts

Quits(p) ==
    /\ state[p] = "running" /\ counts.quits < MaxQuits
    /\ Becomes(p, "done")
    /\ counts' = [counts EXCEPT !.quits = @ + 1]

Fails(p) ==
    /\ p \in Live /\ counts.fails < MaxFails
    /\ Becomes(p, "failed")
    /\ counts' = [counts EXCEPT !.fails = @ + 1]

-----------------------------------------------------------------------------
(* The signal handlers.                                                    *)

Shutdown ==
    /\ handled /\ main # "over" /\ "TERM" \in signals /\ ~asked
    /\ event' = TRUE /\ active' = FALSE /\ asked' = TRUE
    /\ UNCHANGED <<signals, state, mainVars, reloading, counts>>

\* reload(), from the handler or from the loop that watches the files.
Reload ==
    /\ handled /\ main # "over" /\ "HUP" \in signals
    /\ counts.reloads < MaxReloads
    /\ event' = TRUE /\ reloading' = TRUE
    /\ counts' = [counts EXCEPT !.reloads = @ + 1]
    /\ UNCHANGED <<signals, state, mainVars, active, asked>>

\* Mutated: the event stays set.
ReloadedSet ==
    /\ reloading /\ processes \subseteq Over
    /\ reloading' = FALSE
    /\ UNCHANGED <<signals, state, mainVars, event, active, asked, counts>>

\* Every process is joined.
Reloaded ==
    /\ reloading /\ processes \subseteq Over
    /\ event' = FALSE /\ reloading' = FALSE
    /\ UNCHANGED <<signals, state, mainVars, active, asked, counts>>

-----------------------------------------------------------------------------
(* The main thread.                                                        *)

\* range(config.workers - len(processes)) has not ended.
Due == left > 0

\* _populate(): process.start(), and processes.append(process).
Start ==
    /\ At("populate") /\ Due /\ spawning = 0
    /\ \E p \in Processes :
         /\ state[p] = "none" /\ \A q \in Processes : q < p => state[q] # "none"
         /\ state' = [state EXCEPT ![p] = "running"]
         /\ spawning' = p
    /\ UNCHANGED <<signals, processes, left, exitcode, main, handled, signalVars, counts>>

Append ==
    /\ At("populate") /\ spawning # 0
    /\ processes' = processes \cup {spawning}
    /\ spawning' = 0 /\ left' = left - 1
    /\ UNCHANGED <<signals, state, exitcode, main, handled, signalVars, counts>>

Populated ==
    /\ At("populate") /\ left = 0 /\ spawning = 0
    /\ main' = "wait" /\ handled' = TRUE
    /\ UNCHANGED <<signals, state, processes, left, spawning, exitcode, signalVars, counts>>

\* Mutated: every process is replaced when one has exited.
MissingAll(rest) == Workers

\* How many processes _populate() starts.
Missing(rest) == Workers - Cardinality(rest)

\* Mutated: a worker that failed is taken for one that exited.
CodeZero(gone) == 0

\* _join_exited(): the exit codes of those that are gone.
Code(gone) == IF \E p \in gone : state[p] # "done" THEN 1 ELSE 0

\* wait() returns, _join_exited(), and `while active`.
Collect ==
    LET gone == processes \cap Over
        code == Code(gone)
    IN
    /\ At("wait") /\ gone # {}
    /\ processes' = processes \ gone
    /\ exitcode' = code
    /\ event' = (event \/ code # 0)
    /\ active' = (active /\ code = 0)
    /\ IF active'
       THEN main' = "populate" /\ left' = Missing(processes')
       ELSE main' = "terminate" /\ UNCHANGED left
    /\ UNCHANGED <<signals, state, spawning, handled, reloading, asked, counts>>

Terminate ==
    /\ At("terminate")
    /\ state' = [p \in Processes |->
                   IF p \in processes \cap Live THEN "killed" ELSE state[p]]
    /\ main' = "rejoin"
    /\ UNCHANGED <<signals, processes, left, spawning, exitcode, handled, signalVars, counts>>

\* After a failure _join_exited() is called again: what has been killed may or
\* may not have ended by then.
Rejoin ==
    /\ At("rejoin")
    /\ IF exitcode = 0
       THEN UNCHANGED <<processes, exitcode>>
       ELSE \E late \in SUBSET {p \in processes : state[p] = "killed"} :
              LET gone == processes \ late
              IN  processes' = late /\ exitcode' = Code(gone)
    /\ main' = "over"
    /\ UNCHANGED <<signals, state, left, spawning, handled, signalVars, counts>>

-----------------------------------------------------------------------------
MainStep == Start \/ Append \/ Populated \/ Collect \/ Terminate \/ Rejoin \/ Reloaded

Next ==
    \/ MainStep \/ Shutdown \/ Reload
    \/ \E p \in Processes : Sees(p) \/ Exits(p) \/ Quits(p) \/ Fails(p)

Spec == Init /\ [][Next]_vars

\* The main thread runs; workers poll the event and drain in bounded time.
Fairness ==
    /\ WF_vars(MainStep)
    /\ \A p \in Processes : WF_vars(Sees(p) \/ Exits(p))

FairSpec == Spec /\ Fairness

-----------------------------------------------------------------------------
(* Properties.                                                             *)

\* Every variable has its type; only processes that were started are listed.
TypeOK ==
    /\ signals \in Signals
    /\ state \in [Processes -> {"none", "running", "draining", "done", "failed", "killed"}]
    /\ processes \subseteq Processes /\ \A p \in processes : state[p] # "none"
    /\ left \in 0..Workers /\ spawning \in 0..MaxStarts
    /\ event \in BOOLEAN /\ active \in BOOLEAN /\ handled \in BOOLEAN
    /\ reloading \in BOOLEAN /\ asked \in BOOLEAN
    /\ exitcode \in {0, 1}
    /\ main \in {"populate", "wait", "terminate", "rejoin", "over"}
    /\ counts \in [reloads : 0..MaxReloads, quits : 0..MaxQuits, fails : 0..MaxFails]

\* There are never more workers alive than configured, through restarts, reloads
\* and failures, and every one that is alive is in the list run() looks after.
Capacity ==
    /\ Cardinality(Live) <= Workers
    /\ Live \subseteq processes \cup {spawning}

\* As long as run() is active, whatever reloads and exits there were, it ends
\* up waiting for a full set of workers that nobody has told to stop.
Replenished ==
    <>(~active \/ []( /\ At("wait") /\ ~event
                      /\ Cardinality(processes \cap Live) = Workers))

\* A shutdown that was asked for, or a worker that failed, ends run(), and none
\* of its workers is left.  Not so when SIGHUP and SIGTERM meet: reload() clears
\* the event that shutdown() has set, and workers started after it go on.
Ends ==
    (asked \/ \E p \in processes : state[p] = "failed") ~>
        (main = "over" /\ Live = {}) \/ signals = {"TERM", "HUP"}
=============================================================================
