-------------------------- MODULE MCWiFiCoordinator --------------------------
(***************************************************************************)
(* WiFiCoordinator on a small instance.                                     *)
(***************************************************************************)
EXTENDS WiFiCoordinator
=============================================================================
