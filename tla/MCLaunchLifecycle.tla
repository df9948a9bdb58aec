------------------------- MODULE MCLaunchLifecycle -------------------------
(* LaunchLifecycle for TLC: two dependencies closed in reverse order of     *)
(* start, and the egress runtime with a close owner of its own.             *)
EXTENDS LaunchLifecycle

MCOrder == <<"storage", "ssh", "egress">>
=============================================================================
