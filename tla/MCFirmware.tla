------------------------------ MODULE MCFirmware ------------------------------
(* Small instances of Firmware for TLC. *)
EXTENDS Firmware

CONSTANTS v1, v2, faulty, corrupt
===============================================================================
