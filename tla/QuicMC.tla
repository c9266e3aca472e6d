------------------------------- MODULE QuicMC -------------------------------
(***************************************************************************)
(* A client for Quic: an upload, during which an id is issued and retired. *)
(***************************************************************************)
EXTENDS Quic

ClientScripts ==
    {<<"negotiated", "headers", "issued", "data", "data", "retired">>}

=============================================================================
