----------------------------- MODULE MCRepairLoop -----------------------------
(* Small instances of RepairLoop for TLC. *)
EXTENDS RepairLoop

CONSTANTS d1, d2
===============================================================================
