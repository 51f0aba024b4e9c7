------------------------ MODULE MCEndpointStandard ------------------------
(* Instances of EndpointStandard for TLC. *)
EXTENDS EndpointStandard

MCAvailable == {-1, 0, 1}
Symmetry == Permutations(Requests)
=============================================================================
