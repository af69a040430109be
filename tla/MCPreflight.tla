------------------------------ MODULE MCPreflight ------------------------------
(* A small instance of Preflight for TLC. *)
EXTENDS Preflight

CONSTANTS s1, s2
===============================================================================
