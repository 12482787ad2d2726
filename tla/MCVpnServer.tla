---------------------------- MODULE MCVpnServer ----------------------------
(* Instances of VpnServer for TLC: the traffic of each run. *)
EXTENDS VpnServer

AllTraffic == FrameKind

\* The requests that change the tables.
TableTraffic == {"config", "routes", "disconnect"}

OnlyData == {"data"}

\* Peers that take their leave, and close.
Leaving == {"disconnect"}
=============================================================================
