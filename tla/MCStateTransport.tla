-------------------------- MODULE MCStateTransport --------------------------
(***************************************************************************)
(* StateTransport on a small instance.                                      *)
(***************************************************************************)
EXTENDS StateTransport
=============================================================================
