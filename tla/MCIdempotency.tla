--------------------------- MODULE MCIdempotency ---------------------------
(* Idempotency for TLC: the bounds are in the configuration.               *)
EXTENDS Idempotency
=============================================================================
