------------------------- MODULE MCGatewaySequential -------------------------
(***************************************************************************)
(* Instance of GatewaySequential for TLC.                                  *)
(***************************************************************************)
EXTENDS GatewaySequential, TLC

Symmetry == Permutations(Conn) \cup Permutations(Imei)
==============================================================================
