------------------------------- MODULE MCFleet -------------------------------
(* A small instance of Fleet for TLC. *)
EXTENDS Fleet

CONSTANTS c1, c2, c3, v1, v2, v3

MCConn == {c1, c2, c3}
MCImei == {v1, v2, v3}
==============================================================================
