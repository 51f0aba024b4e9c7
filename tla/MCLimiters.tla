------------------------------ MODULE MCLimiters ------------------------------
(* Instances of Limiters for TLC. *)
EXTENDS Limiters
=============================================================================
