--------------------------- MODULE MCPushDelivery ---------------------------
(***************************************************************************)
(* Model-checking instances of PushDelivery.                                *)
(***************************************************************************)
EXTENDS PushDelivery
=============================================================================
