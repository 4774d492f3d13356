----------------------------- MODULE MCLogUpload -----------------------------
(* Small instances of LogUpload for TLC. *)
EXTENDS LogUpload

\* A line of one byte and one of three: the second does not fit into the first
\* block of four, and its zero does not fit into the second.
MCLineEnds == {1, 5}
==============================================================================
