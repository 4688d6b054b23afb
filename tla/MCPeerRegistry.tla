--------------------------- MODULE MCPeerRegistry ---------------------------
(***************************************************************************)
(* PeerRegistry on small instances.                                         *)
(***************************************************************************)
EXTENDS PeerRegistry

CONSTANTS a1, a2, p1, p2

\* Each application owns one peer, one dynamic and one pinned; the owner of the
\* dynamic one also synchronizes its clock with it.
OneOwnerPerPeer == {<<a1, p1, "Auto">>, <<a2, p2, "Station">>}
ClockOfDynamicPeer == {<<a1, p1>>}

\* The clock is synchronized with a pinned peer.
PinnedPeer == {<<a1, p1, "Station">>}
ClockOfPinnedPeer == {<<a1, p1>>}

\* The WiFi coordinator drives a transport that is left alone by its owner
\* while it is used.
UnderCoordinator == [calls |-> {"unavailable", "suspend", "bind"},
                     faults |-> {"init", "add", "del"},
                     overlap |-> FALSE, capacity |-> 2]

\* Everything may be called at any time, and everything may fail; the
\* tables are too small for both peers.
Anything == [calls |-> {"unavailable", "suspend", "bind", "reconcile", "reinitialize"},
             faults |-> {"init", "add", "mod", "del"},
             overlap |-> TRUE, capacity |-> 1]

BothConditions == {UnderCoordinator, Anything}
CoordinatorOnly == {UnderCoordinator}
=============================================================================
