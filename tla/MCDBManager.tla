----------------------------- MODULE MCDBManager -----------------------------
(* Small instances of DBManager for TLC. *)
EXTENDS DBManager

CONSTANTS v1, v2, broken
==============================================================================
