------------------------------- MODULE MCAccess -------------------------------
(* Small instances of Access for TLC. *)
EXTENDS Access

CONSTANTS ann, bob, key, v1, v2, broken

\* v2 revokes bob.
MCAuth == [v \in {v1, v2, broken} |-> IF v = v1 THEN {ann, bob} ELSE IF v = v2 THEN {ann} ELSE {}]
===============================================================================
