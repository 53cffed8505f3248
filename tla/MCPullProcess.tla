---------------------------- MODULE MCPullProcess ----------------------------
(* PullProcess for TLC: the bounds are in the configuration.                *)
EXTENDS PullProcess
=============================================================================
