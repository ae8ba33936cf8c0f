------------------------------ MODULE MCGateway ------------------------------
(***************************************************************************)
(* Instances of Gateway for TLC; liveness is checked without symmetry.     *)
(***************************************************************************)
EXTENDS Gateway, TLC
==============================================================================
