----------------------------- MODULE MCDBDownload -----------------------------
(* Small instances of DBDownload for TLC. *)
EXTENDS DBDownload

CONSTANTS v1, v2, broken
==============================================================================
