----------------------------- MODULE MCObserve -----------------------------
(* Model values for the watchers, the canary, the recorder and the capsules. *)
EXTENDS Observe
=============================================================================
