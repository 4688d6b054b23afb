---------------------------- MODULE MCReceivePath ----------------------------
(***************************************************************************)
(* ReceivePath on a small instance.                                         *)
(***************************************************************************)
EXTENDS ReceivePath
=============================================================================
