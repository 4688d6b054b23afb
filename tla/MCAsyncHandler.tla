--------------------------- MODULE MCAsyncHandler ---------------------------
(***************************************************************************)
(* AsyncHandler on a small instance: a queue of two, so a pool of four, two *)
(* competing callers and two frames (a slot overwritten by the other frame  *)
(* is visible to the refinement).                                           *)
(***************************************************************************)
EXTENDS AsyncHandler
=============================================================================
