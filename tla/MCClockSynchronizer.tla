------------------------- MODULE MCClockSynchronizer -------------------------
(***************************************************************************)
(* ClockSynchronizer on a small instance.                                   *)
(***************************************************************************)
EXTENDS ClockSynchronizer

CONSTANTS r1, r2

\* A client of one reference or of the other, a client without one, and a
\* device that is no client.
ClientConfigs == {[mode |-> "Client", reference |-> r1],
                  [mode |-> "ClientAndReference", reference |-> r2],
                  [mode |-> "Client", reference |-> NoPeer],
                  [mode |-> "Reference", reference |-> NoPeer]}
=============================================================================
