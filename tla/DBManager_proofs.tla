--------------------------- MODULE DBManager_proofs ---------------------------
(***************************************************************************)
(* Proofs about DBManager, for any versions, any number of slices and any  *)
(* number of crashes.                                                      *)
(***************************************************************************)
EXTENDS DBManager, TLAPS

-----------------------------------------------------------------------------
(***************************************************************************)
(* The inductive invariant.  loc is where the one task that is inside the  *)
(* code of UpdateDBManager is, why is what brought it there.               *)
(***************************************************************************)
Busy == IF pc["main"] = "idle" THEN "mqtt" ELSE "main"
loc == pc[Busy]
why == ret[Busy]

Writing == {"rmFile", "create", "write", "validOpen", "validWrite"}
Marking == {"prefOpen", "prefWrite", "unprefOpen", "unprefWrite"}
Clearing == {"clrFile", "clrPref", "clrValid"}
Shared == Marking \cup Clearing \cup {"swap", "activate", "reopen", "force"}

Valid(s) == checkIf(valid[s])

\* The database that a restart would open is open, or there is none.
AtHome ==
  \/ open = cur /\ Openable(db[cur]) /\ Preferred = cur
  \/ open = None /\ ~Valid("A") /\ ~Valid("B")

\* Everything in the file comes from version v.
Holds(f, v) == \A i \in DOMAIN f : f[i][1] = v

Exclusive ==
  /\ pc["main"] # "idle" => pc["mqtt"] = "idle" /\ rx = NoSlice /\ file = None
  /\ pc["main"] \in Shared \cup {"init", "find", "idle"}
  /\ pc["mqtt"] \notin {"init", "find"}
  /\ pc["mqtt"] # "idle" => rx # NoSlice
  /\ pc["main"] # "init" => ready
  /\ ret["main"] # "finish"
  /\ pc["main"] \in {"init", "find"} => ret["main"] = "boot"

FileInv ==
  /\ loc = "write" => file # None
  /\ file # None =>
       /\ loc \in {"idle", "write"}
       /\ file = oth
       /\ rx # NoSlice
       /\ db[file] \in Seq(Slice)
       /\ Holds(db[file], rx[1])

DownloadInv ==
  /\ loc \in {"init", "find"} => cur = "A"
  /\ loc \in Shared \cup {"init", "find"} => open = None
  /\ open \in {None, cur}
  /\ loc \in Writing \cup {"idle", "rmValid", "rmPref"} => AtHome
  /\ (loc \in Writing \cup {"rmPref"} \/ file # None) => ~Valid(oth)
  /\ (loc \in Writing \cup {"close"} \/ file # None) => pref[oth] = "absent"
  /\ loc = "close" => Valid(oth)
  /\ loc \in {"validOpen", "validWrite", "close"} =>
       db[oth] # NoFile /\ Holds(db[oth], rx[1])

SwapInv ==
  /\ loc = "swap" =>
       /\ why \in {"boot", "finish", "revert"}
       /\ why = "boot" => cur = "A" /\ Preferred # "A"
       /\ why = "finish" => /\ Valid(oth) /\ pref[oth] = "absent"
                            /\ db[oth] # NoFile /\ Holds(db[oth], rx[1])
       /\ why = "revert" => ~Valid(cur)
  /\ loc \in Marking =>
       /\ Valid(cur)
       /\ why \in {"boot", "finish", "revert"}
       /\ why = "boot" => cur = "B" /\ Preferred = "B"
       /\ why = "revert" => ~Valid(oth)
       /\ why = "finish" =>
            /\ db[cur] # NoFile /\ Holds(db[cur], rx[1])
            /\ checkIf(pref[cur]) <=> loc \in {"unprefOpen", "unprefWrite"}
            /\ loc = "unprefWrite" => ~checkIf(pref[oth])

OpenInv ==
  /\ loc = "activate" =>
       /\ Preferred = cur
       /\ why \in {"boot", "finish"}
       /\ why = "finish" => db[cur] # NoFile /\ Holds(db[cur], rx[1])
  /\ loc = "reopen" => Valid(cur) /\ ~Valid(oth) /\ why = "revert"
  /\ loc \in Clearing =>
       /\ ~Openable(db[cur])
       /\ why \in {"revert", "giveup"}
       /\ why = "giveup" => ~Valid(oth)
  /\ loc = "force" => ~Valid("A") /\ ~Valid("B")

IInv == TypeOK /\ Exclusive /\ FileInv /\ DownloadInv /\ SwapInv /\ OpenInv

-----------------------------------------------------------------------------
LEMMA NoSliceFacts == NoSlice \notin Slice /\ EmptyFile \in Seq(Slice)
  <1>1. ASSUME NEW s \in Slice PROVE s # NoSlice
    BY <1>1 DEF Slice, NoSlice
  <1>2. EmptyFile \in Seq(Slice)
    BY DEF EmptyFile
  <1>3. QED
    BY <1>1, <1>2

\* A slice is being handled as long as the MQTT task is in this code.
Handled == pc["mqtt"] # "idle" => rx # NoSlice

TypeInv == TypeOK /\ Handled

LEMMA TypeInit == Init => TypeInv
  <1> SUFFICES ASSUME Init PROVE TypeInv
    OBVIOUS
  <1>1. pc \in [Task -> Loc] /\ pc["mqtt"] = "idle"
    BY DEF Init, Task, Loc
  <1>2. crashes \in 0..MaxCrashes
    BY DBAssumption DEF Init
  <1>3. QED
    BY <1>1, <1>2 DEF Init, TypeInv, Handled, TypeOK, Slot, Task, Mark, None

\* The steps that either task can make.
LEMMA TypeTaskStep ==
  ASSUME TypeInv, NEW t \in Task, TaskStep(t)
  PROVE  TypeInv'
  <1> USE DEF TypeInv, Handled, TypeOK, Goto, Slot, Task, Loc, Mark, None, Other, oth, disk
  <1> USE NoSliceFacts
  <1>1. CASE SwapFiles(t)
    BY <1>1 DEF SwapFiles
  <1>2. CASE CreatePreferred(t)
    BY <1>2 DEF CreatePreferred, OpenMarker
  <1>3. CASE WritePreferred(t)
    BY <1>3 DEF WritePreferred
  <1>4. CASE TruncateOtherPreferred(t)
    BY <1>4 DEF TruncateOtherPreferred, OpenMarker, AfterSwap
  <1>5. CASE WriteOtherPreferred(t)
    BY <1>5 DEF WriteOtherPreferred, AfterSwap
  <1>6. CASE ActivateDBFile(t)
    BY <1>6 DEF ActivateDBFile, OpenDB, EndOfTask, EndOfSlice
  <1>7. CASE ReopenDBFile(t)
    BY <1>7 DEF ReopenDBFile, OpenDB, EndOfTask, EndOfSlice
  <1>8. CASE ClearFile(t)
    BY <1>8 DEF ClearFile
  <1>9. CASE ClearPreferred(t)
    BY <1>9 DEF ClearPreferred
  <1>10. CASE ClearValid(t)
    BY <1>10 DEF ClearValid
  <1>11. CASE ForceDBDownload(t)
    BY <1>11 DEF ForceDBDownload, EndOfTask, EndOfSlice
  <1>12. QED
    BY <1>1, <1>2, <1>3, <1>4, <1>5, <1>6, <1>7, <1>8, <1>9, <1>10, <1>11 DEF TaskStep

LEMMA TypeNext ==
  ASSUME TypeInv, [Next]_vars
  PROVE  TypeInv'
  <1> USE DEF TypeInv, Handled, TypeOK, Goto, Slot, Task, Loc, Mark, None, Other, oth, disk
  <1> USE NoSliceFacts
  <1>1. CASE init
    BY <1>1 DEF init
  <1>2. CASE findPreferredDB
    BY <1>2 DEF findPreferredDB
  <1>3. ASSUME NEW t \in Task, TaskStep(t) PROVE TypeInv'
    BY <1>3, TypeTaskStep
  <1>4. ASSUME NEW v \in Versions, NEW k \in 1..NumSlices, writeToDatabaseFile(v, k)
        PROVE  TypeInv'
    BY <1>4 DEF writeToDatabaseFile, Slice
  <1>5. CASE RemoveOtherValid
    BY <1>5 DEF RemoveOtherValid
  <1>6. CASE RemoveOtherPreferred
    BY <1>6 DEF RemoveOtherPreferred
  <1>7. CASE RemoveOtherFile
    BY <1>7 DEF RemoveOtherFile
  <1>8. CASE CreateOtherFile
    BY <1>8 DEF CreateOtherFile, EndOfSlice
  <1>9. CASE WriteSlice
    <2>1. rx \in Slice
      BY <1>9 DEF WriteSlice
    <2>2. ASSUME NEW f \in Seq(Slice) PROVE Append(f, rx) \in Seq(Slice)
      BY <2>1, <2>2
    <2>3. db' \in [Slot -> Seq(Slice) \cup {NoFile}]
      <3>1. CASE UNCHANGED db
        BY <3>1
      <3>2. CASE db[file] # NoFile /\ db' = [db EXCEPT ![file] = Append(@, rx)]
        <4>1. CASE file \in Slot
          <5>1. Append(db[file], rx) \in Seq(Slice)
            BY <2>2, <3>2, <4>1
          <5>2. QED
            BY <3>2, <4>1, <5>1
        <4>2. CASE file \notin Slot
          BY <3>2, <4>2
        <4>3. QED
          BY <4>1, <4>2
      <3>3. QED
        BY <1>9, <3>1, <3>2 DEF WriteSlice
    <2>4. QED
      BY <1>9, <2>1, <2>3 DEF WriteSlice
  <1>10. CASE CreateOtherValid
    BY <1>10 DEF CreateOtherValid, OpenMarker
  <1>11. CASE WriteOtherValid
    BY <1>11 DEF WriteOtherValid
  <1>12. CASE CloseForSwap
    BY <1>12 DEF CloseForSwap
  <1>13. CASE cancelDBDownload
    BY <1>13 DEF cancelDBDownload
  <1>14. CASE Crash
    <2>1. pc' \in [Task -> Loc] /\ pc'["mqtt"] = "idle"
      BY <1>14 DEF Crash
    <2>2. crashes' \in 0..MaxCrashes
      BY <1>14, DBAssumption DEF Crash
    <2>3. QED
      BY <1>14, <2>1, <2>2 DEF Crash
  <1>15. CASE UNCHANGED vars
    BY <1>15 DEF vars
  <1>16. QED
    BY <1>1, <1>2, <1>3, <1>4, <1>5, <1>6, <1>7, <1>8, <1>9, <1>10, <1>11, <1>12,
       <1>13, <1>14, <1>15 DEF Next, MainStep, CallbackStep, Receive

\* Every variable of DBManager keeps its type (dbmanager.cpp:33-66 and the
\* files on the disk), whatever calls fail and whenever slices arrive.
THEOREM TypeCorrect == Spec => []TypeOK
  <1>1. TypeInv => TypeOK
    BY DEF TypeInv
  <1>2. QED
    BY TypeInit, TypeNext, <1>1, PTL DEF Spec

-----------------------------------------------------------------------------
(***************************************************************************)
(* What is in the files.  This needs nothing of what the next section      *)
(* assumes: whatever fails, and even when slices arrive while init() runs, *)
(* a file only receives slices of the message it was begun in.             *)
(***************************************************************************)
SlicesInOrder(f) ==
  \A i, j \in DOMAIN f :
    /\ f[i][1] = f[j][1]
    /\ i < j => f[i][2] < f[j][2]

\* All of the file comes from the version of slice m, and from slices up to it.
UpTo(f, m) == \A i \in DOMAIN f : f[i][1] = m[1] /\ f[i][2] <= m[2]

\* The same, but m itself is still to come.
Below(f, m) == \A i \in DOMAIN f : f[i][1] = m[1] /\ f[i][2] < m[2]

BeingWritten ==
  /\ pc["mqtt"] # "idle" \/ file # None => ready
  /\ pc["mqtt"] = "write" => file # None
  /\ file # None =>
       /\ pc["mqtt"] \in {"idle", "write"}
       /\ rx # NoSlice
       /\ db[file] # NoFile =>
            /\ pc["mqtt"] = "idle" => UpTo(db[file], rx)
            /\ pc["mqtt"] = "write" => Below(db[file], rx)

OrderInv ==
  /\ TypeInv
  /\ \A s \in Slot : db[s] # NoFile => SlicesInOrder(db[s])
  /\ BeingWritten

LEMMA EmptyInOrder ==
  /\ SlicesInOrder(EmptyFile)
  /\ \A m : UpTo(EmptyFile, m) /\ Below(EmptyFile, m)
  BY DEF SlicesInOrder, UpTo, Below, EmptyFile

LEMMA AppendInOrder ==
  ASSUME NEW f \in Seq(Slice), NEW m \in Slice, SlicesInOrder(f), Below(f, m)
  PROVE  SlicesInOrder(Append(f, m)) /\ UpTo(Append(f, m), m)
  <1>1. m[2] \in Int /\ \A i \in DOMAIN f : f[i][2] \in Int
    BY DBAssumption DEF Slice
  <1>2. /\ DOMAIN f = 1..Len(f) /\ Len(f) \in Nat
        /\ DOMAIN Append(f, m) = 1..(Len(f) + 1)
        /\ \A i \in DOMAIN f : Append(f, m)[i] = f[i]
        /\ Append(f, m)[Len(f) + 1] = m
    OBVIOUS
  <1>3. UpTo(Append(f, m), m)
    BY <1>1, <1>2 DEF UpTo, Below
  <1>4. SlicesInOrder(Append(f, m))
    <2> SUFFICES ASSUME NEW i \in 1..(Len(f) + 1), NEW j \in 1..(Len(f) + 1)
                 PROVE  /\ Append(f, m)[i][1] = Append(f, m)[j][1]
                        /\ i < j => Append(f, m)[i][2] < Append(f, m)[j][2]
      BY <1>2 DEF SlicesInOrder
    <2>1. i \in DOMAIN f \/ i = Len(f) + 1
      BY <1>2
    <2>2. j \in DOMAIN f \/ j = Len(f) + 1
      BY <1>2
    <2>3. QED
      BY <1>2, <2>1, <2>2 DEF SlicesInOrder, Below
  <1>5. QED
    BY <1>3, <1>4

LEMMA OrderInit == Init => OrderInv
  <1> SUFFICES ASSUME Init PROVE OrderInv
    OBVIOUS
  <1>1. pc["mqtt"] = "idle" /\ file = None /\ \A s \in Slot : db[s] = NoFile
    BY DEF Init, Task
  <1>2. QED
    BY <1>1, TypeInit DEF OrderInv, BeingWritten

\* The steps that either task can make: they do not touch file, and what they
\* do to a database file is to delete it or to create it empty.
LEMMA OrderTaskStep ==
  ASSUME OrderInv, NEW t \in Task, TaskStep(t), TypeInv'
  PROVE  OrderInv'
  <1> USE DEF OrderInv, TypeInv, TypeOK, BeingWritten, Goto, Slot, Task, Loc, None, Other, oth, disk
  <1> USE EmptyInOrder
  <1>1. CASE SwapFiles(t)
    BY <1>1 DEF SwapFiles
  <1>2. CASE CreatePreferred(t)
    BY <1>2 DEF CreatePreferred, OpenMarker
  <1>3. CASE WritePreferred(t)
    BY <1>3 DEF WritePreferred
  <1>4. CASE TruncateOtherPreferred(t)
    BY <1>4 DEF TruncateOtherPreferred, OpenMarker, AfterSwap
  <1>5. CASE WriteOtherPreferred(t)
    BY <1>5 DEF WriteOtherPreferred, AfterSwap
  <1>6. CASE ActivateDBFile(t)
    BY <1>6 DEF ActivateDBFile, OpenDB, EndOfTask, EndOfSlice
  <1>7. CASE ReopenDBFile(t)
    BY <1>7 DEF ReopenDBFile, OpenDB, EndOfTask, EndOfSlice
  <1>8. CASE ClearFile(t)
    BY <1>8 DEF ClearFile
  <1>9. CASE ClearPreferred(t)
    BY <1>9 DEF ClearPreferred
  <1>10. CASE ClearValid(t)
    BY <1>10 DEF ClearValid
  <1>11. CASE ForceDBDownload(t)
    BY <1>11 DEF ForceDBDownload, EndOfTask, EndOfSlice
  <1>12. QED
    BY <1>1, <1>2, <1>3, <1>4, <1>5, <1>6, <1>7, <1>8, <1>9, <1>10, <1>11 DEF TaskStep

LEMMA OrderNext ==
  ASSUME OrderInv, [Next]_vars
  PROVE  OrderInv'
  <1> USE DEF OrderInv, TypeInv, TypeOK, BeingWritten, Goto, Slot, Task, Loc, None, Other, oth, disk
  <1> USE EmptyInOrder
  <1>0. TypeInv'
    BY TypeNext
  <1>1. CASE init
    BY <1>0, <1>1 DEF init
  <1>2. CASE findPreferredDB
    BY <1>0, <1>2 DEF findPreferredDB
  <1>3. ASSUME NEW t \in Task, TaskStep(t) PROVE OrderInv'
    BY <1>0, <1>3, OrderTaskStep
  <1>4. ASSUME NEW v \in Versions, NEW k \in 1..NumSlices, writeToDatabaseFile(v, k)
        PROVE  OrderInv'
    <2>1. UNCHANGED <<db, file>>
      BY <1>4 DEF writeToDatabaseFile
    <2>2. ~ready => UNCHANGED pc
      BY <1>4 DEF writeToDatabaseFile
    <2>3. CASE file = None
      BY <1>0, <1>4, <2>1, <2>3 DEF writeToDatabaseFile, downloading
    <2>4. CASE file # None
      <3>1. pc["mqtt"] = "idle" /\ rx = <<v, k - 1>> /\ rx \in Slice
        BY <1>4, <2>4 DEF writeToDatabaseFile
      <3>2. db[file] # NoFile => Below(db[file], <<v, k>>) /\ UpTo(db[file], <<v, k>>)
        <4> HAVE db[file] # NoFile
        <4>1. UpTo(db[file], <<v, k - 1>>)
          BY <2>4, <3>1
        <4>2. file \in Slot /\ db[file] \in Seq(Slice)
          BY <2>4
        <4>3. \A i \in DOMAIN db[file] : db[file][i][2] \in Int
          BY <4>2, DBAssumption DEF Slice
        <4>4. QED
          BY <4>1, <4>3, DBAssumption DEF UpTo, Below
      <3>3. QED
        <4>1. ready /\ rx' = <<v, k>> /\ pc' = [pc EXCEPT !["mqtt"] = "write"]
          BY <1>4, <2>4 DEF writeToDatabaseFile, downloading
        <4>2. rx' # NoSlice
          <5>1. <<v, k>> \in Slice
            BY DEF Slice
          <5>2. QED
            BY <4>1, <5>1, NoSliceFacts
        <4>3. UNCHANGED <<db, file, ready>>
          BY <1>4 DEF writeToDatabaseFile
        <4>4. QED
          <5>1. BeingWritten'
            BY <2>4, <3>2, <4>1, <4>2, <4>3
          <5>2. \A s \in Slot : db'[s] # NoFile => SlicesInOrder(db'[s])
            BY <4>3
          <5>3. QED
            BY <1>0, <5>1, <5>2
    <2>5. QED
      BY <2>3, <2>4
  <1>5. CASE RemoveOtherValid \/ RemoveOtherPreferred \/ RemoveOtherFile
    BY <1>0, <1>5 DEF RemoveOtherValid, RemoveOtherPreferred, RemoveOtherFile
  <1>6. CASE CreateOtherFile
    BY <1>0, <1>6 DEF CreateOtherFile, EndOfSlice, Handled
  <1>7. CASE WriteSlice
    <2>1. rx \in Slice /\ file \in Slot
      BY <1>7 DEF WriteSlice
    <2>2. ASSUME NEW s \in Slot, db'[s] # NoFile
          PROVE  SlicesInOrder(db'[s]) /\ (s = file => UpTo(db'[s], rx))
      <3>1. CASE db'[s] = db[s]
        <4>1. SlicesInOrder(db[s])
          BY <2>2, <3>1
        <4>2. s = file => Below(db[s], rx) /\ db[s] \in Seq(Slice)
          BY <1>7, <2>2, <3>1 DEF WriteSlice
        <4>3. s = file => UpTo(db[s], rx)
          BY <2>1, <4>2, DBAssumption DEF UpTo, Below, Slice
        <4>4. QED
          BY <3>1, <4>1, <4>3
      <3>2. CASE s = file /\ db[s] # NoFile /\ db'[s] = Append(db[s], rx)
        <4>1. SlicesInOrder(db[s]) /\ Below(db[s], rx) /\ db[s] \in Seq(Slice)
          BY <1>7, <3>2 DEF WriteSlice
        <4>2. QED
          BY <2>1, <3>2, <4>1, AppendInOrder
      <3>3. QED
        BY <1>7, <2>1, <3>1, <3>2 DEF WriteSlice
    <2>3. QED
      BY <1>0, <1>7, <2>1, <2>2 DEF WriteSlice
  <1>8. CASE CreateOtherValid \/ WriteOtherValid \/ CloseForSwap
    BY <1>0, <1>8 DEF CreateOtherValid, OpenMarker, WriteOtherValid, CloseForSwap
  <1>9. CASE cancelDBDownload
    BY <1>0, <1>9 DEF cancelDBDownload
  <1>10. CASE Crash
    <2>1. pc'["mqtt"] = "idle" /\ file' = None /\ db' = db
      BY <1>10 DEF Crash
    <2>2. QED
      BY <1>0, <2>1
  <1>11. CASE UNCHANGED vars
    BY <1>0, <1>11 DEF vars
  <1>12. QED
    BY <1>1, <1>2, <1>3, <1>4, <1>5, <1>6, <1>7, <1>8, <1>9, <1>10, <1>11
       DEF Next, MainStep, CallbackStep, Receive

\* No file ever holds slices of two versions, or one slice twice, whatever
\* downloads are cut off and begun again, whatever fails and whenever the
\* controller restarts (startDBDownload(), cancelDBDownload()).
THEOREM NoMixedFilesAlways == Spec => []NoMixedFiles
  <1>1. OrderInv => NoMixedFiles
    BY DEF OrderInv, SlicesInOrder, NoMixedFiles
  <1>2. QED
    BY OrderInit, OrderNext, <1>1, PTL DEF Spec

-----------------------------------------------------------------------------
(***************************************************************************)
(* From here on no slice arrives before init() is done, and only creating  *)
(* the database file and writing to it may fail.                           *)
(***************************************************************************)
Gentle == SlowHandshake /\ Faults \subseteq {"create", "write"}

\* A file has at least one slice and no more than NumSlices.
LEMMA SlicesRange ==
  ASSUME NEW v
  PROVE  Slices(v) \in Nat \ {0} /\ Slices(v) <= NumSlices
  BY DBAssumption DEF Slices

LEMMA OpenableFacts ==
  ASSUME NEW f, Openable(f)
  PROVE  /\ f # NoFile
         /\ f # EmptyFile
         /\ VersionOf(f) \in Versions \ Bad
         /\ \A v : Holds(f, v) => VersionOf(f) = v
  <1>1. PICK v \in Versions \ Bad : f = Whole(v)
    BY DEF Openable
  <1>2. f \in Seq(Versions \X (1..NumSlices))
    <2>1. /\ Slices(v) \in Nat /\ 1..Slices(v) \subseteq 1..NumSlices
      BY SlicesRange, DBAssumption
    <2>2. \A k \in 1..Slices(v) : <<v, k>> \in Versions \X (1..NumSlices)
      BY <1>1, <2>1
    <2>3. QED
      BY <1>1, <2>1, <2>2 DEF Whole
  <1>3. 1 \in DOMAIN f /\ f[1][1] = v
    BY <1>1, SlicesRange DEF Whole
  <1>4. QED
    BY <1>1, <1>2, <1>3, DBAssumption DEF EmptyFile, VersionOf, Holds

LEMMA HoldsFacts ==
  /\ \A v : Holds(EmptyFile, v)
  /\ \A f \in Seq(Slice), s \in Slice : Holds(f, s[1]) => Holds(Append(f, s), s[1])
  BY DEF Holds, EmptyFile

LEMMA InvInit == Init => IInv
  <1> SUFFICES ASSUME Init PROVE IInv
    OBVIOUS
  <1>1. TypeOK
    BY TypeInit DEF TypeInv
  <1>2. loc = "init" /\ why = "boot"
    BY DEF Init, loc, why, Busy, Task
  <1>3. QED
    BY <1>1, <1>2 DEF Init, IInv, Exclusive, FileInv, DownloadInv, SwapInv, OpenInv, Task,
       Shared, Marking, Clearing, Writing, None

LEMMA InvTaskStep ==
  ASSUME Gentle, IInv, NEW t \in Task, TaskStep(t), TypeOK'
  PROVE  IInv'
  <1> USE DEF IInv, TypeOK, Exclusive, FileInv, DownloadInv, SwapInv, OpenInv, AtHome, Gentle,
              Goto, Slot, Task, Loc, Mark, None, Other, oth, disk, loc, why, Busy,
              Shared, Marking, Clearing, Writing, Valid, checkIf, Preferred
  <1> USE NoSliceFacts, OpenableFacts
  <1>1. CASE SwapFiles(t)
    BY <1>1 DEF SwapFiles
  <1>2. CASE CreatePreferred(t)
    BY <1>2 DEF CreatePreferred, OpenMarker
  <1>3. CASE WritePreferred(t)
    BY <1>3 DEF WritePreferred
  <1>4. CASE TruncateOtherPreferred(t)
    <2>1. CASE t = "main"
      BY <1>4, <2>1 DEF TruncateOtherPreferred, OpenMarker, AfterSwap
    <2>2. CASE t = "mqtt"
      BY <1>4, <2>2 DEF TruncateOtherPreferred, OpenMarker, AfterSwap
    <2>3. QED
      BY <2>1, <2>2
  <1>5. CASE WriteOtherPreferred(t)
    BY <1>5 DEF WriteOtherPreferred, AfterSwap
  <1>6. CASE ActivateDBFile(t)
    BY <1>6 DEF ActivateDBFile, OpenDB, EndOfTask, EndOfSlice
  <1>7. CASE ReopenDBFile(t)
    BY <1>7 DEF ReopenDBFile, OpenDB, EndOfTask, EndOfSlice
  <1>8. CASE ClearFile(t)
    BY <1>8 DEF ClearFile
  <1>9. CASE ClearPreferred(t)
    BY <1>9 DEF ClearPreferred
  <1>10. CASE ClearValid(t)
    BY <1>10 DEF ClearValid
  <1>11. CASE ForceDBDownload(t)
    BY <1>11 DEF ForceDBDownload, EndOfTask, EndOfSlice
  <1>12. QED
    BY <1>1, <1>2, <1>3, <1>4, <1>5, <1>6, <1>7, <1>8, <1>9, <1>10, <1>11 DEF TaskStep

LEMMA InvNext ==
  ASSUME Gentle, IInv, [Next]_vars
  PROVE  IInv'
  <1> USE DEF IInv, TypeOK, Exclusive, FileInv, DownloadInv, SwapInv, OpenInv, AtHome, Gentle,
              Goto, Slot, Task, Loc, Mark, None, Other, oth, disk, loc, why, Busy,
              Shared, Marking, Clearing, Writing, Valid, checkIf, Preferred
  <1> USE NoSliceFacts, OpenableFacts, HoldsFacts
  <1>0. TypeOK'
    <2>1. TypeInv
      BY DEF TypeInv, Handled
    <2>2. QED
      BY <2>1, TypeNext DEF TypeInv
  <1>1. CASE init
    BY <1>0, <1>1 DEF init
  <1>2. CASE findPreferredDB
    BY <1>0, <1>2 DEF findPreferredDB
  <1>3. CASE RemoveOtherValid
    BY <1>0, <1>3 DEF RemoveOtherValid
  <1>4. CASE RemoveOtherPreferred
    BY <1>0, <1>4 DEF RemoveOtherPreferred
  <1>5. CASE RemoveOtherFile
    BY <1>0, <1>5 DEF RemoveOtherFile
  <1>6. CASE CreateOtherFile
    BY <1>0, <1>6 DEF CreateOtherFile, EndOfSlice
  <1>7. CASE WriteSlice
    <2>1. /\ rx \in Slice /\ file = oth /\ file \in Slot
          /\ db[file] \in Seq(Slice) /\ db[file] # NoFile
      BY <1>7, DBAssumption DEF WriteSlice, Slice
    <2>2. /\ Append(db[file], rx) \in Seq(Slice)
          /\ Holds(Append(db[file], rx), rx[1]) /\ Append(db[file], rx) # NoFile
      <3>1. Append(db[file], rx) \in Seq(Slice)
        BY <2>1
      <3>2. QED
        BY <2>1, <3>1, <1>7, DBAssumption DEF WriteSlice, Slice
    <2>3. db'[oth] \in Seq(Slice) /\ db'[oth] # NoFile /\ Holds(db'[oth], rx[1])
      <3>1. CASE db' = [db EXCEPT ![file] = Append(@, rx)]
        <4>1. db'[oth] = Append(db[file], rx)
          BY <2>1, <3>1
        <4>2. QED
          BY <4>1, <2>2
      <3>2. CASE UNCHANGED db
        BY <1>7, <2>1, <3>2 DEF WriteSlice
      <3>3. QED
        BY <1>7, <3>1, <3>2 DEF WriteSlice
    <2>4. db'[cur] = db[cur]
      BY <1>7, <2>1 DEF WriteSlice
    <2>5. QED
      BY <1>0, <1>7, <2>1, <2>3, <2>4 DEF WriteSlice
  <1>8. CASE CreateOtherValid
    BY <1>0, <1>8 DEF CreateOtherValid, OpenMarker
  <1>9. CASE WriteOtherValid
    BY <1>0, <1>9 DEF WriteOtherValid
  <1>10. CASE CloseForSwap
    BY <1>0, <1>10 DEF CloseForSwap
  <1>11. CASE cancelDBDownload
    BY <1>0, <1>11 DEF cancelDBDownload
  <1>12. CASE Crash
    BY <1>0, <1>12 DEF Crash
  <1>13. ASSUME NEW v \in Versions, NEW k \in 1..NumSlices, writeToDatabaseFile(v, k)
         PROVE  IInv'
    <2>1. ready /\ rx' = <<v, k>> /\ rx' # NoSlice
      BY <1>13 DEF writeToDatabaseFile, Slice
    <2>2. file # None => rx'[1] = rx[1]
      BY <1>13, <2>1 DEF writeToDatabaseFile
    <2>3. QED
      BY <1>0, <1>13, <2>1, <2>2 DEF writeToDatabaseFile, downloading
  <1>14. ASSUME NEW t \in Task, TaskStep(t) PROVE IInv'
    BY <1>0, <1>14, InvTaskStep
  <1>15. CASE UNCHANGED vars
    BY <1>0, <1>15 DEF vars
  <1>16. QED
    BY <1>1, <1>2, <1>3, <1>4, <1>5, <1>6, <1>7, <1>8, <1>9, <1>10, <1>11, <1>12, <1>13, <1>14, <1>15
       DEF Next, MainStep, CallbackStep, Receive

LEMMA InvAlways ==
  ASSUME Gentle
  PROVE  Spec => []IInv
  BY InvInit, InvNext, PTL DEF Spec

-----------------------------------------------------------------------------
\* Whenever neither init() nor a callback is under way, the database that the
\* door is checked against is the one that a restart would bring up.
THEOREM ServesInstalledAlways ==
  ASSUME Gentle
  PROVE  Spec => []ServesInstalled
  <1>1. IInv => ServesInstalled
    BY OpenableFacts DEF IInv, TypeOK, DownloadInv, AtHome, ServesInstalled, Idle, Installed, Serving,
       Usable, Valid, Preferred, Other, checkIf, Slot, None, loc, Busy, Task, Writing
  <1>2. QED
    BY <1>1, InvAlways, PTL

\* The door is without a database only if no slot holds a usable one.
THEOREM NoUsableSlotWastedAlways ==
  ASSUME Gentle
  PROVE  Spec => []NoUsableSlotWasted
  <1>1. IInv => NoUsableSlotWasted
    BY DEF IInv, TypeOK, DownloadInv, AtHome, NoUsableSlotWasted, Idle,
       Usable, Valid, Slot, None, loc, Busy, Task, Writing
  <1>2. QED
    BY <1>1, InvAlways, PTL

\* While SQLite has a file open nobody writes to it or deletes it.
THEOREM OpenFileUntouchedAlways ==
  ASSUME Gentle
  PROVE  Spec => OpenFileUntouched
  <1>1. ASSUME IInv, [Next]_vars, open # None, open' = open
        PROVE  db'[open] = db[open]
    <2> USE <1>1 DEF IInv, TypeOK, DownloadInv, FileInv, Goto, Slot, None, Other, oth, disk,
                     loc, Busy, Task, Shared, Marking, Clearing
    <2>1. CASE MainStep \/ \E t \in Task : TaskStep(t)
      <3>1. PICK t \in Task : t = Busy /\ pc[t] \in Shared \cup {"init", "find"}
        BY <2>1 DEF IInv, Exclusive, MainStep, init, findPreferredDB, TaskStep,
           SwapFiles, CreatePreferred, WritePreferred, TruncateOtherPreferred,
           WriteOtherPreferred, ActivateDBFile, ReopenDBFile, OpenDB, OpenMarker,
           ClearFile, ClearPreferred, ClearValid, ForceDBDownload
      <3>2. QED
        BY <3>1
    <2>2. CASE RemoveOtherValid \/ RemoveOtherPreferred \/ RemoveOtherFile \/ CreateOtherFile
      BY <2>2 DEF RemoveOtherValid, RemoveOtherPreferred, RemoveOtherFile, CreateOtherFile
    <2>3. CASE WriteSlice
      BY <2>3 DEF WriteSlice, Exclusive
    <2>4. CASE CreateOtherValid \/ WriteOtherValid \/ CloseForSwap
      BY <2>4 DEF CreateOtherValid, WriteOtherValid, CloseForSwap
    <2>5. CASE Receive \/ cancelDBDownload \/ Crash
      BY <2>5 DEF Receive, writeToDatabaseFile, cancelDBDownload, Crash
    <2>6. CASE UNCHANGED vars
      BY <2>6 DEF vars
    <2>7. QED
      BY <2>1, <2>2, <2>3, <2>4, <2>5, <2>6 DEF Next, MainStep, CallbackStep
  <1>2. QED
    BY <1>1, InvAlways, PTL DEF Spec, OpenFileUntouched

-----------------------------------------------------------------------------
(***************************************************************************)
(* The two files and four markers implement one database that is replaced  *)
(* atomically.                                                             *)
(***************************************************************************)
LEMMA RefinesInit == Init => Abstract!Init
  BY OpenableFacts DEF Init, Abstract!Init, Installed, Serving, Offered, Finishing, Usable, Task, None,
     Slot, checkIf

\* The slot that is not usable has no part in what is installed.
LEMMA InstalledInOther ==
  ASSUME TypeOK, NEW s \in Slot, ~Usable(s)
  PROVE  Installed = IF Usable(Other(s)) THEN VersionOf(db[Other(s)]) ELSE NoDB
  BY DEF TypeOK, Slot, Other, Usable, Installed, Preferred, checkIf, None

LEMMA InstalledInOtherNext ==
  ASSUME TypeOK', NEW s \in Slot, ~Usable(s)'
  PROVE  Installed' = IF Usable(Other(s))' THEN VersionOf(db'[Other(s)]) ELSE NoDB
  BY DEF TypeOK, Slot, Other, Usable, Installed, Preferred, checkIf, None

LEMMA RefinesTaskStep ==
  ASSUME Gentle, IInv, IInv', NEW t \in Task, TaskStep(t)
  PROVE  [Abstract!Next]_(Abstract!vars)
  <1> USE DEF IInv, TypeOK, Exclusive, FileInv, DownloadInv, SwapInv, OpenInv, AtHome, Gentle,
              Goto, Slot, Task, Loc, Mark, None, Other, oth, disk, loc, why, Busy,
              Shared, Marking, Clearing, Writing, Valid, checkIf, Preferred,
              Installed, Serving, Offered, Finishing, Usable,
              Abstract!Next, Abstract!vars
  <1> USE NoSliceFacts, OpenableFacts
  <1>1. CASE SwapFiles(t)
    BY <1>1 DEF SwapFiles
  <1>2. CASE CreatePreferred(t)
    BY <1>2 DEF CreatePreferred, OpenMarker
  <1>3. CASE WritePreferred(t)
    BY <1>3 DEF WritePreferred, Abstract!Install
  <1>4. CASE TruncateOtherPreferred(t)
    BY <1>4 DEF TruncateOtherPreferred, OpenMarker, AfterSwap, Abstract!Install
  <1>5. CASE WriteOtherPreferred(t)
    BY <1>5 DEF WriteOtherPreferred, AfterSwap
  <1>6. CASE ActivateDBFile(t)
    <2>1. CASE Openable(db[cur]) /\ pc'[t] = "idle"
      <3>1. open' = cur /\ UNCHANGED <<db, valid, pref, cur>> /\ EndOfTask(t)
        BY <1>6, <2>1 DEF ActivateDBFile, OpenDB
      <3>2. open = None /\ Preferred = cur /\ Valid(cur)
        BY <1>6 DEF ActivateDBFile, OpenDB
      <3>3. UNCHANGED Installed /\ Serving = NoDB /\ Serving' = Installed /\ Installed # NoDB
        BY <2>1, <3>1, <3>2, DBAssumption
      <3>4. ~Finishing'
        BY <1>6, <2>1 DEF ActivateDBFile, OpenDB
      <3>5. QED
        BY <3>3, <3>4 DEF Abstract!Serve
    <2>2. CASE pc'[t] = "clrFile"
      <3>1. ~Openable(db[cur]) /\ ~Openable(db'[cur]) /\ db'[oth] = db[oth]
        BY <1>6, <2>2 DEF ActivateDBFile, OpenDB
      <3>2. UNCHANGED <<valid, pref, cur, rx, open>>
        BY <1>6, <2>2 DEF ActivateDBFile, OpenDB
      <3>3. UNCHANGED <<Installed, Serving>>
        <4>1. ~Usable(cur) /\ ~Usable(cur)' /\ (Usable(oth)' <=> Usable(oth))
          BY <3>1, <3>2
        <4>2. UNCHANGED Installed
          BY <3>1, <3>2, <4>1, InstalledInOther, InstalledInOtherNext
        <4>3. open = None
          BY <1>6, <2>2 DEF ActivateDBFile, OpenDB
        <4>4. QED
          BY <3>2, <4>2, <4>3
      <3>4. UNCHANGED Finishing
        BY <1>6, <2>2 DEF ActivateDBFile, OpenDB
      <3>5. QED
        BY <3>2, <3>3, <3>4
    <2>3. QED
      BY <1>6, <2>1, <2>2 DEF ActivateDBFile, OpenDB
  <1>7. CASE ReopenDBFile(t)
    <2>1. CASE Openable(db[cur]) /\ pc'[t] = "idle"
      <3>1. open' = cur /\ UNCHANGED <<db, valid, pref, cur>> /\ EndOfTask(t)
        BY <1>7, <2>1 DEF ReopenDBFile, OpenDB
      <3>2. open = None /\ Preferred = cur /\ Valid(cur)
        BY <1>7 DEF ReopenDBFile, OpenDB
      <3>3. UNCHANGED Installed /\ Serving = NoDB /\ Serving' = Installed /\ Installed # NoDB
        BY <2>1, <3>1, <3>2, DBAssumption
      <3>4. ~Finishing'
        BY <1>7, <2>1 DEF ReopenDBFile, OpenDB
      <3>5. QED
        BY <3>3, <3>4 DEF Abstract!Serve
    <2>2. CASE pc'[t] = "clrFile"
      <3>1. ~Openable(db[cur]) /\ ~Openable(db'[cur]) /\ db'[oth] = db[oth]
        BY <1>7, <2>2 DEF ReopenDBFile, OpenDB
      <3>2. UNCHANGED <<valid, pref, cur, rx, open>>
        BY <1>7, <2>2 DEF ReopenDBFile, OpenDB
      <3>3. UNCHANGED <<Installed, Serving>>
        <4>1. ~Usable(cur) /\ ~Usable(cur)' /\ (Usable(oth)' <=> Usable(oth))
          BY <3>1, <3>2
        <4>2. UNCHANGED Installed
          BY <3>1, <3>2, <4>1, InstalledInOther, InstalledInOtherNext
        <4>3. open = None
          BY <1>7, <2>2 DEF ReopenDBFile, OpenDB
        <4>4. QED
          BY <3>2, <4>2, <4>3
      <3>4. UNCHANGED Finishing
        BY <1>7, <2>2 DEF ReopenDBFile, OpenDB
      <3>5. QED
        BY <3>2, <3>3, <3>4
    <2>3. QED
      BY <1>7, <2>1, <2>2 DEF ReopenDBFile, OpenDB
  <1>8. CASE ClearFile(t)
    BY <1>8 DEF ClearFile
  <1>9. CASE ClearPreferred(t)
    BY <1>9 DEF ClearPreferred
  <1>10. CASE ClearValid(t)
    BY <1>10 DEF ClearValid
  <1>11. CASE ForceDBDownload(t)
    BY <1>11 DEF ForceDBDownload, EndOfTask, EndOfSlice, Abstract!GiveUp
  <1>12. QED
    BY <1>1, <1>2, <1>3, <1>4, <1>5, <1>6, <1>7, <1>8, <1>9, <1>10, <1>11 DEF TaskStep

LEMMA RefinesNext ==
  ASSUME Gentle, IInv, IInv', [Next]_vars
  PROVE  [Abstract!Next]_(Abstract!vars)
  <1> USE DEF IInv, TypeOK, Exclusive, FileInv, DownloadInv, SwapInv, OpenInv, AtHome, Gentle,
              Goto, Slot, Task, Loc, Mark, None, Other, oth, disk, loc, why, Busy,
              Shared, Marking, Clearing, Writing, Valid, checkIf, Preferred,
              Installed, Serving, Offered, Finishing, Usable,
              Abstract!Next, Abstract!vars
  <1> USE NoSliceFacts, OpenableFacts
  <1>1. CASE init
    BY <1>1 DEF init
  <1>2. CASE findPreferredDB
    BY <1>2 DEF findPreferredDB
  <1>3. CASE RemoveOtherValid
    BY <1>3 DEF RemoveOtherValid
  <1>4. CASE RemoveOtherPreferred
    BY <1>4 DEF RemoveOtherPreferred
  <1>5. CASE RemoveOtherFile
    BY <1>5 DEF RemoveOtherFile
  <1>6. CASE CreateOtherFile
    BY <1>6 DEF CreateOtherFile, EndOfSlice
  <1>7. CASE WriteSlice
    <2>1. rx \in Slice /\ rx[1] \in Versions /\ UNCHANGED <<valid, pref, cur, open, rx>>
      BY <1>7, DBAssumption DEF WriteSlice, Slice
    <2>2. db'[cur] = db[cur] /\ ~Valid(oth)
      BY <1>7, <2>1 DEF WriteSlice
    <2>3. UNCHANGED <<Installed, Serving>>
      BY <2>1, <2>2
    <2>4. CASE rx[2] = Slices(rx[1])
      <3>1. ~Finishing /\ Finishing'
        BY <1>7, <2>4 DEF WriteSlice
      <3>2. QED
        BY <2>1, <2>3, <3>1 DEF Abstract!Offer
    <2>5. CASE rx[2] # Slices(rx[1])
      <3>1. ~Finishing /\ ~Finishing'
        BY <1>7, <2>5 DEF WriteSlice
      <3>2. QED
        BY <2>3, <3>1
    <2>6. QED
      BY <2>4, <2>5
  <1>8. CASE CreateOtherValid
    BY <1>8 DEF CreateOtherValid, OpenMarker
  <1>9. CASE WriteOtherValid
    BY <1>9 DEF WriteOtherValid, Abstract!Install
  <1>10. CASE CloseForSwap
    <2>1. Finishing /\ Finishing' /\ rx \in Slice /\ rx[1] \in Versions
      BY <1>10 DEF CloseForSwap, Slice
    <2>2. QED
      BY <1>10, <2>1, DBAssumption DEF CloseForSwap, Abstract!Stop
  <1>11. CASE cancelDBDownload
    BY <1>11 DEF cancelDBDownload
  <1>12. CASE Crash
    BY <1>12 DEF Crash, Abstract!Crash
  <1>13. ASSUME NEW v \in Versions, NEW k \in 1..NumSlices, writeToDatabaseFile(v, k)
         PROVE  [Abstract!Next]_(Abstract!vars)
    BY <1>13 DEF writeToDatabaseFile
  <1>14. ASSUME NEW t \in Task, TaskStep(t) PROVE [Abstract!Next]_(Abstract!vars)
    BY <1>14, RefinesTaskStep
  <1>15. CASE UNCHANGED vars
    BY <1>15 DEF vars
  <1>16. QED
    BY <1>1, <1>2, <1>3, <1>4, <1>5, <1>6, <1>7, <1>8, <1>9, <1>10, <1>11, <1>12, <1>13, <1>14, <1>15
       DEF Next, MainStep, CallbackStep, Receive

\* Every behaviour of DBManager is one of AtomicDB.
THEOREM Atomic ==
  ASSUME Gentle
  PROVE  Spec => ImplementsAtomicDB
  <1>1. Init => Abstract!Init
    BY RefinesInit
  <1>2. IInv /\ IInv' /\ [Next]_vars => [Abstract!Next]_(Abstract!vars)
    BY RefinesNext
  <1>3. QED
    BY <1>1, <1>2, InvAlways, PTL DEF Spec, ImplementsAtomicDB, Abstract!Spec
=============================================================================
