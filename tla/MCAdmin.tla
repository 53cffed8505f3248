------------------------------ MODULE MCAdmin ------------------------------
(* Model values for the operator's side: a stream of five sequence numbers, *)
(* two clients that provision, two requests and two responders that nothing *)
(* tells apart.                                                             *)
EXTENDS Admin

Symmetry == Permutations(Admins) \cup Permutations(Requests) \cup Permutations(Responders)
=============================================================================
