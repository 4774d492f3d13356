---------------------------- MODULE MCCardReaders ----------------------------
(* Small instances of CardReaders for TLC. *)
EXTENDS CardReaders

\* Two bits apart, as far as the parity bits can tell.
MCCards == {<<0, 1>>, <<1, 0>>}
==============================================================================
