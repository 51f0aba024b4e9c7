---------------------- MODULE MCEndpointTokenWindow ----------------------
(* Instances of EndpointTokenWindow for TLC. *)
EXTENDS EndpointTokenWindow

Symmetry == Permutations(Requests)
=============================================================================
