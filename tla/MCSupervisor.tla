---------------------------- MODULE MCSupervisor ----------------------------
(* Supervisor for TLC: the other bounds are in the configuration.           *)
EXTENDS Supervisor

\* MaxRetries of one, of two, and unlimited.
MCLimits == {-1, 1, 2}
=============================================================================
