---------------------------- MODULE HttpStreamMC ----------------------------
(***************************************************************************)
(* Worlds for HttpStream: both versions, with each kind of application and *)
(* a client that may break its stream, and hosts that are refused.         *)
(***************************************************************************)
EXTENDS HttpStream

\* One of several worlds that differ only in what does not matter to them.
Plain(w) ==
    /\ w.breaks
    /\ w.wsgi => w.served /\ ~w.te
    /\ ~w.served => ~(w.head \/ w.te \/ w.trio)
    /\ w.head => ~(w.te \/ w.trio)

AllWorlds == {w \in WorldRecords : Plain(w)}

=============================================================================
