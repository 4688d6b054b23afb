-------------------------- MODULE MCCommandExchange -------------------------
(***************************************************************************)
(* CommandExchange on a small instance.                                     *)
(***************************************************************************)
EXTENDS CommandExchange
=============================================================================
