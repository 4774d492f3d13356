------------------------------ MODULE DBManager ------------------------------
(***************************************************************************)
(* UpdateDBManager of src/door_controller/src/dbmanager.cpp: two database  *)
(* files, DB_A and DB_B, of which one is current and the other is the      *)
(* target of downloads, and two marker files for each (VALID_x, PREF_x)    *)
(* by which a restart chooses between them.                                *)
(*                                                                         *)
(* Two tasks run this code.  "main" runs init() once after each boot;      *)
(* "mqtt" runs the callbacks that carry the slices of a downloaded file.   *)
(* Every operation on the disk is a step of its own, so that a crash may   *)
(* fall between any two of them; reads of markers that the code makes in a *)
(* row with no write between them are one step.                            *)
(***************************************************************************)
EXTENDS Integers, Sequences

CONSTANTS Versions,      \* versions of the database that may be published
          Bad,           \* those of them that SQLite cannot open
          Small,         \* those of them that come in one MQTT event
          NumSlices,     \* MQTT events that any other is split into
          NoFile,        \* the file does not exist
          NoDB,          \* no database
          Faults,        \* which calls may fail, see FaultKinds
          MaxCrashes,    \* bound on the number of crashes
          SlowHandshake  \* no slice arrives before init() is done

\* Creating the database file, writing a slice to it, writing a marker file,
\* opening a database that is sound (out of memory, say).
FaultKinds == {"create", "write", "marker", "open"}

ASSUME DBAssumption ==
  /\ Bad \subseteq Versions
  /\ Small \subseteq Versions
  /\ NumSlices \in Nat \ {0}
  /\ NoDB \notin Versions
  /\ NoFile \notin Seq(Versions \X (1..NumSlices))
  /\ Faults \subseteq FaultKinds
  /\ MaxCrashes \in Nat
  /\ SlowHandshake \in BOOLEAN

Slot == {"A", "B"}
Other(s) == IF s = "A" THEN "B" ELSE "A"
None == "none"

Task == {"main", "mqtt"}

VARIABLES
  \* On the disk
  db,           \* DB_x.db: the slices written to it, or NoFile
  valid,        \* VALID_x.TXT
  pref,         \* PREF_x.TXT
  \* In memory
  ready,        \* diskOK: init() has started
  cur,          \* which slot currentFile etc. name
  file,         \* the slot whose file a download has open for writing, or None
  open,         \* the slot SQLite has open, or None
  rx,           \* the slice last received of the message under way, or NoSlice
  pc,           \* where each task is in this code
  ret,          \* what called the operation that the task is in
  crashes       \* number of crashes so far

disk == <<db, valid, pref>>
vars == <<db, valid, pref, ready, cur, file, open, rx, pc, ret, crashes>>

oth == Other(cur)

downloading == file # None

Slices(v) == IF v \in Small THEN 1 ELSE NumSlices

Slice == Versions \X (1..NumSlices)
NoSlice == <<>>

\* A marker file is absent, created but still empty, or holds a number.
Mark == {"absent", "empty", "0", "1"}

Loc == {"init", "find", "idle",
        "rmValid", "rmPref", "rmFile", "create", "write",
        "validOpen", "validWrite", "close",
        "swap", "prefOpen", "prefWrite", "unprefOpen", "unprefWrite",
        "activate", "reopen", "clrFile", "clrPref", "clrValid", "force"}

-----------------------------------------------------------------------------
(***************************************************************************)
(* File contents.  SQLite opens a file only when it is a whole database:   *)
(* one that lacks its first slice has no header, and one that lacks any    *)
(* other is shorter than the header says.                                  *)
(***************************************************************************)
Whole(v) == [k \in 1..Slices(v) |-> <<v, k>>]

Complete(f) == \E v \in Versions : f = Whole(v)

Openable(f) == \E v \in Versions \ Bad : f = Whole(v)

EmptyFile == <<>>

VersionOf(f) == f[1][1]

\* Whether the marker file holds a number greater than zero.
checkIf(m) == m = "1"

\* The slot findPreferredDB() selects when init() starts with "A" as current.
Preferred ==
  IF checkIf(valid["A"]) /\ (checkIf(valid["B"]) => checkIf(pref["A"])) THEN "A"
  ELSE IF checkIf(valid["B"]) THEN "B"
  ELSE None

-----------------------------------------------------------------------------
Init ==
  /\ db = [s \in Slot |-> NoFile]
  /\ valid = [s \in Slot |-> "absent"]
  /\ pref = [s \in Slot |-> "absent"]
  /\ ready = FALSE
  /\ cur = "A"
  /\ file = None
  /\ open = None
  /\ rx = NoSlice
  /\ pc = [t \in Task |-> IF t = "main" THEN "init" ELSE "idle"]
  /\ ret = [t \in Task |-> "boot"]
  /\ crashes = 0

Goto(t, from, to) ==
  /\ pc[t] = from
  /\ pc' = [pc EXCEPT ![t] = to]

\* The end of a callback; the last slice ends its message too.
EndOfSlice ==
  rx' = IF rx # NoSlice /\ rx[2] = Slices(rx[1]) THEN NoSlice ELSE rx

-----------------------------------------------------------------------------
(* init(), in the main task *)

init ==
  /\ Goto("main", "init", "find")
  /\ ready' = TRUE
  /\ cur' = "A"
  /\ UNCHANGED <<disk, file, open, rx, ret, crashes>>

\* Mutant: the other slot is not looked at.
findPreferredDB_OnlyA ==
  /\ Goto("main", "find", IF checkIf(valid[cur]) THEN "activate" ELSE "force")
  /\ UNCHANGED <<disk, ready, cur, file, open, rx, ret, crashes>>

findPreferredDB ==
  /\ IF checkIf(valid[cur]) /\ (checkIf(valid[oth]) => checkIf(pref[cur]))
       THEN Goto("main", "find", "activate") /\ UNCHANGED ret
       ELSE Goto("main", "find", "swap") /\ ret' = [ret EXCEPT !["main"] = "boot"]
  /\ UNCHANGED <<disk, ready, cur, file, open, rx, crashes>>

-----------------------------------------------------------------------------
\* Mutant: the slices are counted from zero.
writeToDatabaseFile_FromZero(v, k) ==
  /\ pc["mqtt"] = "idle"
  /\ SlowHandshake => pc["main"] = "idle"
  /\ k <= Slices(v)
  /\ rx = IF k = 1 THEN NoSlice ELSE <<v, k - 1>>
  /\ ready
  /\ rx' = <<v, k - 1>>
  /\ pc' = [pc EXCEPT !["mqtt"] = IF downloading THEN "write" ELSE "rmValid"]
  /\ UNCHANGED <<disk, ready, cur, file, open, ret, crashes>>

(***************************************************************************)
(* A slice <<v, k>> of the database file is received.  Before init() has   *)
(* set diskOK it is ignored; otherwise it is written, after                *)
(* startDBDownload() if no download is under way.                          *)
(***************************************************************************)
writeToDatabaseFile(v, k) ==
  /\ pc["mqtt"] = "idle"
  /\ SlowHandshake => pc["main"] = "idle"
  /\ k <= Slices(v)
  /\ rx = IF k = 1 THEN NoSlice ELSE <<v, k - 1>>
  /\ \/ /\ ~ready
        /\ rx' = IF k = Slices(v) THEN NoSlice ELSE <<v, k>>
        /\ UNCHANGED pc
     \/ /\ ready
        /\ rx' = <<v, k>>
        /\ pc' = [pc EXCEPT !["mqtt"] = IF downloading THEN "write" ELSE "rmValid"]
  /\ UNCHANGED <<disk, ready, cur, file, open, ret, crashes>>

(* startDBDownload() *)

RemoveOtherValid ==
  /\ Goto("mqtt", "rmValid", "rmPref")
  /\ valid' = [valid EXCEPT ![oth] = "absent"]
  /\ UNCHANGED <<db, pref, ready, cur, file, open, rx, ret, crashes>>

RemoveOtherPreferred ==
  /\ Goto("mqtt", "rmPref", "rmFile")
  /\ pref' = [pref EXCEPT ![oth] = "absent"]
  /\ UNCHANGED <<db, valid, ready, cur, file, open, rx, ret, crashes>>

\* Mutant: removes the file in use.
RemoveOtherFile_Current ==
  /\ Goto("mqtt", "rmFile", "create")
  /\ db' = [db EXCEPT ![cur] = NoFile]
  /\ UNCHANGED <<valid, pref, ready, cur, file, open, rx, ret, crashes>>

RemoveOtherFile ==
  /\ Goto("mqtt", "rmFile", "create")
  /\ db' = [db EXCEPT ![oth] = NoFile]
  /\ UNCHANGED <<valid, pref, ready, cur, file, open, rx, ret, crashes>>

\* If the file cannot be created the slice is dropped; the next slice of the
\* same message will try again, for downloading is still false.
CreateOtherFile ==
  /\ \/ /\ Goto("mqtt", "create", "write")
        /\ db' = [db EXCEPT ![oth] = EmptyFile]
        /\ file' = oth
        /\ UNCHANGED rx
     \/ /\ "create" \in Faults
        /\ Goto("mqtt", "create", "idle")
        /\ EndOfSlice
        /\ UNCHANGED <<db, file>>
  /\ UNCHANGED <<valid, pref, ready, cur, open, ret, crashes>>

\* file.write(); after the last slice the caller goes on to
\* finishDBDownload(), which closes the file.  Nothing looks at a short write.
WriteSlice ==
  /\ pc["mqtt"] = "write"
  /\ \/ db[file] # NoFile /\ db' = [db EXCEPT ![file] = Append(@, rx)]
     \/ (db[file] = NoFile \/ "write" \in Faults) /\ UNCHANGED db
  /\ IF rx[2] = Slices(rx[1])
       THEN Goto("mqtt", "write", "validOpen") /\ file' = None
       ELSE Goto("mqtt", "write", "idle") /\ UNCHANGED file
  /\ UNCHANGED <<valid, pref, ready, cur, open, rx, ret, crashes>>

(***************************************************************************)
(* A marker file is opened for writing, which empties or creates it, and   *)
(* the number reaches the disk when it is closed.  If it cannot be opened  *)
(* the number goes nowhere, and nothing looks.                             *)
(***************************************************************************)
OpenMarker(t, from, to, skip, marker, s) ==
  \/ Goto(t, from, to) /\ marker' = [marker EXCEPT ![s] = "empty"]
  \/ "marker" \in Faults /\ Goto(t, from, skip) /\ UNCHANGED marker

(* finishDBDownload() *)

\* Mutant: the file is swapped in without having been marked valid.
CreateOtherValid_Forgotten ==
  /\ Goto("mqtt", "validOpen", "close")
  /\ UNCHANGED <<disk, ready, cur, file, open, rx, ret, crashes>>

CreateOtherValid ==
  /\ OpenMarker("mqtt", "validOpen", "validWrite", "close", valid, oth)
  /\ UNCHANGED <<db, pref, ready, cur, file, open, rx, ret, crashes>>

WriteOtherValid ==
  /\ Goto("mqtt", "validWrite", "close")
  /\ valid' = [valid EXCEPT ![oth] = "1"]
  /\ UNCHANGED <<db, pref, ready, cur, file, open, rx, ret, crashes>>

CloseForSwap ==
  /\ Goto("mqtt", "close", "swap")
  /\ open' = None
  /\ ret' = [ret EXCEPT !["mqtt"] = "finish"]
  /\ UNCHANGED <<disk, ready, cur, file, rx, crashes>>

\* Mutant: the file stays open, and what comes next is appended to it.
cancelDBDownload_KeepsFile ==
  /\ pc["mqtt"] = "idle"
  /\ rx # NoSlice
  /\ rx' = NoSlice
  /\ UNCHANGED <<disk, ready, cur, file, open, pc, ret, crashes>>

\* The connection was lost: the message under way ends, and the broker will
\* send it from its first slice if it sends it again.
cancelDBDownload ==
  /\ pc["mqtt"] = "idle"
  /\ rx # NoSlice
  /\ rx' = NoSlice
  /\ file' = None
  /\ db' = IF downloading THEN [db EXCEPT ![oth] = NoFile] ELSE db
  /\ UNCHANGED <<valid, pref, ready, cur, open, pc, ret, crashes>>

-----------------------------------------------------------------------------
(* swapFiles() *)

SwapFiles(t) ==
  /\ \/ /\ checkIf(valid[oth])
        /\ Goto(t, "swap", "prefOpen")
        /\ cur' = oth
     \/ /\ ~checkIf(valid[oth])
        /\ Goto(t, "swap", IF ret[t] = "finish" THEN "activate" ELSE "force")
        /\ UNCHANGED cur
  /\ UNCHANGED <<disk, ready, file, open, rx, ret, crashes>>

CreatePreferred(t) ==
  /\ OpenMarker(t, "prefOpen", "prefWrite", "unprefOpen", pref, cur)
  /\ UNCHANGED <<db, valid, ready, cur, file, open, rx, ret, crashes>>

\* Mutant: the preference for the other slot is never withdrawn.
WritePreferred_Last(t) ==
  /\ Goto(t, "prefWrite", IF ret[t] = "revert" THEN "reopen" ELSE "activate")
  /\ pref' = [pref EXCEPT ![cur] = "1"]
  /\ UNCHANGED <<db, valid, ready, cur, file, open, rx, ret, crashes>>

WritePreferred(t) ==
  /\ Goto(t, "prefWrite", "unprefOpen")
  /\ pref' = [pref EXCEPT ![cur] = "1"]
  /\ UNCHANGED <<db, valid, ready, cur, file, open, rx, ret, crashes>>

AfterSwap(t) == IF ret[t] = "revert" THEN "reopen" ELSE "activate"

TruncateOtherPreferred(t) ==
  /\ OpenMarker(t, "unprefOpen", "unprefWrite", AfterSwap(t), pref, oth)
  /\ UNCHANGED <<db, valid, ready, cur, file, open, rx, ret, crashes>>

WriteOtherPreferred(t) ==
  /\ Goto(t, "unprefWrite", AfterSwap(t))
  /\ pref' = [pref EXCEPT ![oth] = "0"]
  /\ UNCHANGED <<db, valid, ready, cur, file, open, rx, ret, crashes>>

-----------------------------------------------------------------------------
(***************************************************************************)
(* activateDBFile(): open the current file; if SQLite rejects it, delete   *)
(* it and try the other; if that fails too, delete it as well and ask for  *)
(* a fresh copy.  sqlite3_open() creates a file that does not exist.       *)
(***************************************************************************)
EndOfTask(t) == IF t = "mqtt" THEN EndOfSlice ELSE UNCHANGED rx

OpenDB(t, from, onFailure) ==
  \/ /\ Openable(db[cur])
     /\ Goto(t, from, "idle")
     /\ EndOfTask(t)
     /\ open' = cur
     /\ UNCHANGED <<disk, ready, cur, file, ret, crashes>>
  \/ /\ ~Openable(db[cur]) \/ "open" \in Faults
     /\ Goto(t, from, "clrFile")
     /\ ret' = [ret EXCEPT ![t] = onFailure]
     /\ open' = None
     /\ db' = IF db[cur] = NoFile THEN [db EXCEPT ![cur] = EmptyFile] ELSE db
     /\ UNCHANGED <<valid, pref, ready, cur, file, rx, crashes>>

\* Mutant: does not go back to the other file.
ActivateDBFile_NoRevert(t) == OpenDB(t, "activate", "giveup")

ActivateDBFile(t) == OpenDB(t, "activate", "revert")
ReopenDBFile(t) == OpenDB(t, "reopen", "giveup")

\* Mutant: deletes the file that is to be gone back to.
ClearFile_Other(t) ==
  /\ Goto(t, "clrFile", "clrPref")
  /\ db' = [db EXCEPT ![oth] = NoFile]
  /\ UNCHANGED <<valid, pref, ready, cur, file, open, rx, ret, crashes>>

ClearFile(t) ==
  /\ Goto(t, "clrFile", "clrPref")
  /\ db' = [db EXCEPT ![cur] = NoFile]
  /\ UNCHANGED <<valid, pref, ready, cur, file, open, rx, ret, crashes>>

ClearPreferred(t) ==
  /\ Goto(t, "clrPref", "clrValid")
  /\ pref' = [pref EXCEPT ![cur] = "absent"]
  /\ UNCHANGED <<db, valid, ready, cur, file, open, rx, ret, crashes>>

ClearValid(t) ==
  /\ Goto(t, "clrValid", IF ret[t] = "revert" THEN "swap" ELSE "force")
  /\ valid' = [valid EXCEPT ![cur] = "absent"]
  /\ UNCHANGED <<db, pref, ready, cur, file, open, rx, ret, crashes>>

\* The call of forceDBDownload(), which is the MQTT manager's business.
ForceDBDownload(t) ==
  /\ Goto(t, "force", "idle")
  /\ EndOfTask(t)
  /\ UNCHANGED <<disk, ready, cur, file, open, ret, crashes>>

-----------------------------------------------------------------------------
\* Power is lost or the controller restarts: only the disk survives.
Crash ==
  /\ crashes < MaxCrashes
  /\ crashes' = crashes + 1
  /\ ready' = FALSE
  /\ cur' = "A"
  /\ file' = None
  /\ open' = None
  /\ rx' = NoSlice
  /\ pc' = [t \in Task |-> IF t = "main" THEN "init" ELSE "idle"]
  /\ ret' = [t \in Task |-> "boot"]
  /\ UNCHANGED disk

\* The steps of a task that is inside this code.
TaskStep(t) ==
  \/ SwapFiles(t) \/ CreatePreferred(t) \/ WritePreferred(t)
  \/ TruncateOtherPreferred(t) \/ WriteOtherPreferred(t)
  \/ ActivateDBFile(t) \/ ReopenDBFile(t)
  \/ ClearFile(t) \/ ClearPreferred(t) \/ ClearValid(t)
  \/ ForceDBDownload(t)

MainStep == init \/ findPreferredDB \/ TaskStep("main")

CallbackStep ==
  \/ RemoveOtherValid \/ RemoveOtherPreferred \/ RemoveOtherFile
  \/ CreateOtherFile \/ WriteSlice
  \/ CreateOtherValid \/ WriteOtherValid \/ CloseForSwap
  \/ TaskStep("mqtt")

Receive == \E v \in Versions, k \in 1..NumSlices : writeToDatabaseFile(v, k)

Next ==
  \/ MainStep
  \/ CallbackStep
  \/ Receive
  \/ cancelDBDownload
  \/ Crash

Spec == Init /\ [][Next]_vars

\* Both tasks run: a call that has begun goes on to its end.
Fairness == WF_vars(MainStep) /\ WF_vars(CallbackStep)

FairSpec == Spec /\ Fairness

-----------------------------------------------------------------------------
TypeOK ==
  /\ db \in [Slot -> Seq(Slice) \cup {NoFile}]
  /\ valid \in [Slot -> Mark]
  /\ pref \in [Slot -> Mark]
  /\ ready \in BOOLEAN
  /\ cur \in Slot
  /\ file \in Slot \cup {None}
  /\ open \in Slot \cup {None}
  /\ rx \in Slice \cup {NoSlice}
  /\ pc \in [Task -> Loc]
  /\ ret \in [Task -> {"boot", "finish", "revert", "giveup"}]
  /\ crashes \in 0..MaxCrashes

(***************************************************************************)
(* The abstract state.                                                     *)
(***************************************************************************)
Usable(s) == s \in Slot /\ checkIf(valid[s]) /\ Openable(db[s])

\* The version that init() would end up opening after a restart now.
Installed ==
  IF Usable(Preferred) THEN VersionOf(db[Preferred])
  ELSE IF Usable(Other(Preferred)) THEN VersionOf(db[Other(Preferred)])
  ELSE NoDB

\* The version that userAuthorized() queries.
Serving == IF open = None THEN NoDB ELSE VersionOf(db[open])

\* finishDBDownload() is under way.
Finishing == pc["mqtt"] \in {"validOpen", "validWrite", "close", "swap",
                             "prefOpen", "prefWrite", "unprefOpen", "unprefWrite",
                             "activate", "reopen",
                             "clrFile", "clrPref", "clrValid", "force"}

Offered == IF Finishing THEN rx[1] ELSE NoDB

Abstract == INSTANCE AtomicDB WITH installed <- Installed,
                                   serving <- Serving,
                                   offer <- Offered

\* Seen through Installed, Serving and Offered, the two files and the four
\* markers are one database that is replaced atomically, crashes included
\* (dbmanager.cpp:22-31, 194-198).
ImplementsAtomicDB == Abstract!Spec

Idle == pc["main"] = "idle" /\ pc["mqtt"] = "idle"

\* One file never holds slices of two versions, or a slice twice, whatever
\* downloads are cut off and begun again: startDBDownload() begins a new file
\* and cancelDBDownload() ends the one under way.
NoMixedFiles ==
  \A s \in Slot : db[s] # NoFile =>
    \A i, j \in DOMAIN db[s] :
      /\ db[s][i][1] = db[s][j][1]
      /\ i < j => db[s][i][2] < db[s][j][2]

\* Whenever neither task is inside this code, the door is checked against the
\* very version that a restart would bring up: what is in memory (cur, open)
\* and what is on the disk (the markers) never drift apart.
ServesInstalled == Idle => Serving = Installed

\* The door is left without a database only when neither slot holds one that
\* is marked valid and that SQLite can open (activateDBFile tries both).
NoUsableSlotWasted == Idle /\ open = None => \A s \in Slot : ~Usable(s)

\* While SQLite has a file open nobody writes to it or deletes it.
OpenFileUntouched == [][open # None /\ open' = open => db'[open] = db[open]]_vars

\* If a restart would find a database then the door is eventually checked
\* against one.
DatabaseGetsServed == Installed # NoDB ~> Serving # NoDB

\* A sound file that has been received whole is eventually the one the door is
\* checked against, unless the controller restarts first.
DownloadGetsServed ==
  \A v \in Versions \ Bad :
    pc["mqtt"] = "validOpen" /\ db[oth] = Whole(v) ~> Serving = v \/ ~ready
=============================================================================
