------------------------------ MODULE MCControl ------------------------------
(* A small instance of Control for TLC. *)
EXTENDS Control

MCCommands == {"go"}
MCGarbage == {"garbage"}
==============================================================================
