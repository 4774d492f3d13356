------------------------------- MODULE AtomicDB -------------------------------
(***************************************************************************)
(* What the door controller promises about its authorization database      *)
(* (the comments of dbmanager.cpp, lines 22-31 and 194-198, and            *)
(* CODE_OVERVIEW.md, lines 82-84): one version is installed, and it is     *)
(* replaced in a single step by the version whose download has just been   *)
(* completed, whatever crashes happen meanwhile; the door is checked       *)
(* against the version installed when the database was opened or, while    *)
(* the files are being swapped, against none.                              *)
(***************************************************************************)

CONSTANTS Versions,  \* every version of the database file
          Bad,       \* those SQLite cannot use
          NoDB       \* there is no database

VARIABLES installed, \* the version a restart would bring up
          serving,   \* the version the door is checked against
          offer      \* the version whose download has just ended

vars == <<installed, serving, offer>>

Init == installed = NoDB /\ serving = NoDB /\ offer = NoDB

\* A download ends.
Offer(v) ==
  /\ offer = NoDB
  /\ offer' = v
  /\ UNCHANGED <<installed, serving>>

\* The downloaded version takes the place of the installed one.
Install ==
  /\ offer \in Versions \ Bad
  /\ installed' = offer
  /\ UNCHANGED <<serving, offer>>

\* The database is closed for the swap.
Stop ==
  /\ offer # NoDB
  /\ serving' = NoDB
  /\ UNCHANGED <<installed, offer>>

\* The installed version, new or old, is opened.
Serve ==
  /\ installed # NoDB
  /\ serving = NoDB
  /\ serving' = installed
  /\ offer' = NoDB
  /\ UNCHANGED installed

\* There is no version that can be opened.
GiveUp ==
  /\ installed = NoDB
  /\ offer' = NoDB
  /\ UNCHANGED <<installed, serving>>

Crash ==
  /\ serving' = NoDB
  /\ offer' = NoDB
  /\ UNCHANGED installed

Next == (\E v \in Versions : Offer(v)) \/ Install \/ Stop \/ Serve \/ GiveUp \/ Crash

Spec == Init /\ [][Next]_vars
=============================================================================
